------------------------------- MODULE Store -------------------------------
(***************************************************************************)
(* db/store.go: Store[T], a value in memory behind a sync.RWMutex, backed  *)
(* by one JSON file.  Every writer in the program goes through a SetX      *)
(* accessor, that is Set and then Save.  Save holds only the read lock, so *)
(* the saves of two goroutines overlap and share the one temporary name.   *)
(***************************************************************************)
EXTENDS TmpFile

CONSTANTS
    Proc,       \* goroutines calling a SetX accessor of this store
    NoProc,
    Zero,       \* new(T): what load falls back to
    DiskMayFail \* whether a write of the temporary file may fail

ASSUME StoreAssumption ==
    /\ Zero \in Value
    /\ Empty \notin Value /\ Garbled \notin Value /\ Empty # Garbled
    /\ NoInode \notin Inode /\ NoInode \notin Content
    /\ NoProc \notin Proc
    /\ DiskMayFail \in BOOLEAN

VARIABLES
    mem,        \* s.val
    writer,     \* the goroutine whose s.mu.Lock() is announced
    pc,         \* where each goroutine is in Set; Save
    val,        \* the argument of Set, then the bytes Save marshalled
    fd,         \* the inode each saver has opened
    failed      \* history: a Save has failed since the last Set

files == <<link, data>>
vars  == <<mem, writer, pc, val, fd, failed, link, data>>

\* Save between RLock and RUnlock; these goroutines are the lock's readers.
Saving  == {p \in Proc : pc[p] \in {"open", "write", "rename"}}
\* A SetX call whose value is in memory and not known to be on disk.
Unsaved == {p \in Proc : pc[p] \in {"save", "open", "write", "rename"}}
Opened  == {fd[p] : p \in {q \in Proc : pc[q] = "write"}}

\* Mutant of Load: whatever the file holds is taken.
Load_Unparsed == ReadFile

\* load(): an absent, empty or unparsable file gives the zero value.
Load == IF ReadFile \in Value THEN ReadFile ELSE Zero

\* A first installation; Restart leads to every other state a run can begin in.
Init ==
    /\ link = [n \in Name |-> NoInode]
    /\ data = [i \in Inode |-> Empty]
    /\ mem = Load
    /\ writer = NoProc
    /\ pc = [p \in Proc |-> "idle"]
    /\ val = [p \in Proc |-> Zero]
    /\ fd = [p \in Proc |-> NoInode]
    /\ failed = FALSE

Step(p, from, to) == pc[p] = from /\ pc' = [pc EXCEPT ![p] = to]

\* A handler or the daemon calls SetX(v).
Call(p, v) ==
    /\ Step(p, "idle", "lock")
    /\ val' = [val EXCEPT ![p] = v]
    /\ UNCHANGED <<mem, writer, fd, files, failed>>

\* s.mu.Lock() of Set, first half: the writer announces itself, which keeps
\* new readers out.
Announce(p) ==
    /\ Step(p, "lock", "set")
    /\ writer = NoProc
    /\ writer' = p
    /\ UNCHANGED <<mem, val, fd, files, failed>>

\* Mutant of Set: the lock does not wait for readers.
Set_AmidReaders(p) ==
    /\ Step(p, "set", "save")
    /\ mem' = val[p]
    /\ failed' = FALSE
    /\ writer' = NoProc
    /\ UNCHANGED <<val, fd, files>>

\* Set: granted once the readers are gone, assigns, unlocks.
Set(p) ==
    /\ Step(p, "set", "save")
    /\ Saving = {}
    /\ mem' = val[p]
    /\ failed' = FALSE
    /\ writer' = NoProc
    /\ UNCHANGED <<val, fd, files>>

\* Mutant of SaveBegin: the argument of SetX is marshalled, and not s.val.
SaveBegin_Argument(p) ==
    /\ Step(p, "save", "open")
    /\ writer = NoProc
    /\ UNCHANGED <<mem, writer, val, fd, files, failed>>

\* Save: RLock, then marshal.
SaveBegin(p) ==
    /\ Step(p, "save", "open")
    /\ writer = NoProc
    /\ val' = [val EXCEPT ![p] = mem]
    /\ UNCHANGED <<mem, writer, fd, files, failed>>

\* Mutant of SaveOpen: the file is written in place, without a temporary file.
SaveOpen_InPlace(p) ==
    /\ Step(p, "open", "write")
    /\ \E i \in Inode : /\ OpenTrunc("file", i, Opened)
                        /\ fd' = [fd EXCEPT ![p] = i]
    /\ UNCHANGED <<mem, writer, val, failed>>

\* os.WriteFile, first half: the temporary file is created or truncated.
SaveOpen(p) ==
    /\ Step(p, "open", "write")
    /\ \E i \in Inode : /\ OpenTrunc("tmp", i, Opened)
                        /\ fd' = [fd EXCEPT ![p] = i]
    /\ UNCHANGED <<mem, writer, val, failed>>

SaveWrite(p) ==
    /\ Step(p, "write", "rename")
    /\ WriteInode(fd[p], val[p])
    /\ fd' = [fd EXCEPT ![p] = NoInode]
    /\ UNCHANGED <<mem, writer, val, failed>>

\* os.WriteFile fails: Save returns its error, which SetX drops.
SaveWriteFails(p) ==
    /\ DiskMayFail
    /\ Step(p, "write", "idle")
    /\ fd' = [fd EXCEPT ![p] = NoInode]
    /\ failed' = TRUE
    /\ UNCHANGED <<mem, writer, val, files>>

\* os.Rename and RUnlock.  The name may be gone already, renamed by another
\* saver: then Rename returns an error, which SetX drops.
SaveRename(p) ==
    /\ Step(p, "rename", "idle")
    /\ RenameTmp \/ (link["tmp"] = NoInode /\ UNCHANGED files)
    /\ UNCHANGED <<mem, writer, val, fd, failed>>

\* The process dies at any point and is started again: New calls load.
Restart ==
    /\ mem' = Load
    /\ writer' = NoProc
    /\ pc' = [p \in Proc |-> "idle"]
    /\ val' = [p \in Proc |-> Zero]
    /\ fd' = [p \in Proc |-> NoInode]
    /\ failed' = FALSE
    /\ UNCHANGED files

Accessor(p) ==
    \/ Announce(p) \/ Set(p)
    \/ SaveBegin(p) \/ SaveOpen(p) \/ SaveWrite(p) \/ SaveWriteFails(p) \/ SaveRename(p)

Next ==
    \/ \E p \in Proc, v \in Value : Call(p, v)
    \/ \E p \in Proc : Accessor(p)
    \/ Restart

Spec == Init /\ [][Next]_vars

-----------------------------------------------------------------------------
TypeOK ==
    /\ FilesOK
    /\ mem \in Value
    /\ writer \in Proc \cup {NoProc}
    /\ pc \in [Proc -> {"idle", "lock", "set", "save", "open", "write", "rename"}]
    /\ val \in [Proc -> Value]
    /\ fd \in [Proc -> Inode \cup {NoInode}]
    /\ failed \in BOOLEAN

\* Store.Save under the read lock only (store.go:69-82): although saves overlap
\* and truncate and rename each other's temporary file, once no SetX call is in
\* progress and none has failed since the last Set, a restart reads back exactly
\* the value that is in memory.
DurableWhenIdle == Unsaved = {} /\ ~failed => Load = mem

\* A saver never mixes two documents in the temporary file, because every saver
\* inside Save holds the read lock and so has marshalled the same value.
NeverGarbled == \A i \in Inode : data[i] # Garbled

\* What the file says changes only by becoming the value in memory, so that no
\* crash loses both the old and the new value (the point of store.go:77-81): unless
\* two calls overlap or a write fails, no torn document reaches the final name.
Overlapping   == \E p, q \in Unsaved : p # q
TornByOverlap == [][Load' # Load => Load' = mem \/ Overlapping \/ failed]_vars

\* The store is a register whose durable copy catches up (module DurableStore).
Register == INSTANCE DurableStore WITH dur <- Load, busy <- Unsaved, lost <- failed

\* Overlapping saves, their renames of each other's file, failed writes and
\* crashes included, every step of the store is a step of that register.
ImplementsRegister == Register!DSpec
=============================================================================
