------------------------------ MODULE TmpFile ------------------------------
(***************************************************************************)
(* The two directory entries of a "write a temporary file, then rename it" *)
(* save, as the Go code uses them: os.WriteFile(tmp), os.Rename(tmp, file) *)
(* and os.ReadFile(file).  External code (Linux and the os package), kept  *)
(* at the grain that concurrent savers can tell apart: opening truncates   *)
(* the inode a name is linked to, writing goes to the inode that was       *)
(* opened, and renaming moves whatever inode the name is linked to by then.*)
(***************************************************************************)
CONSTANTS
    Inode,      \* inodes: two names and one open file per writer are enough
    Value,      \* complete documents
    NoInode,    \* a name that does not exist
    Empty,      \* a truncated, not yet written file
    Garbled     \* bytes of two documents mixed

VARIABLES
    link,       \* link[n]: the inode the name n refers to
    data        \* data[i]: the content of inode i

Name    == {"tmp", "file"}
Content == Value \cup {Empty, Garbled}

\* The inodes a new file can use: neither named nor held open.
FreeInode(opened) == Inode \ (opened \cup {link[n] : n \in Name})

\* open(O_WRONLY|O_CREATE|O_TRUNC), the first half of os.WriteFile.
OpenTrunc(n, i, opened) ==
    /\ IF link[n] = NoInode THEN i \in FreeInode(opened) ELSE i = link[n]
    /\ link' = [link EXCEPT ![n] = i]
    /\ data' = [data EXCEPT ![i] = Empty]

\* What a write at offset zero leaves: no bytes change nothing; a document over
\* a different one ends as the new one, or as a mix when the new one is shorter.
Overwrite(old, v) ==
    IF v \in {NoInode, Empty} THEN {old}
    ELSE IF old \in {Empty, v} THEN {v} ELSE {v, Garbled}

\* write and close, the second half of os.WriteFile.
WriteInode(i, v) ==
    /\ \E c \in Overwrite(data[i], v) : data' = [data EXCEPT ![i] = c]
    /\ UNCHANGED link

\* os.Rename(tmp, file) of an existing tmp.
RenameTmp ==
    /\ link["tmp"] # NoInode
    /\ link' = [link EXCEPT !["file"] = link["tmp"], !["tmp"] = NoInode]
    /\ UNCHANGED data

\* What os.ReadFile(file) returns; NoInode stands for its error.
ReadFile == IF link["file"] = NoInode THEN NoInode ELSE data[link["file"]]

FilesOK ==
    /\ link \in [Name -> Inode \cup {NoInode}]
    /\ data \in [Inode -> Content]
=============================================================================
