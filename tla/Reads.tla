-------------------------------- MODULE Reads --------------------------------
(***************************************************************************)
(* Which configuration the running sing-box has read.  A sing-box that     *)
(* Start has started reads the file when it gets to it, while callers of   *)
(* SingboxService go on writing (module Singbox, whose steps these are).   *)
(***************************************************************************)
EXTENDS Singbox

VARIABLES
    runs,       \* what s.cmd's child has read of the file (NoInode: nothing yet)
    missed      \* since it was started a caller has left it at WriteConfig

readVars == <<vars, runs, missed>>

ReadInit == Init /\ runs = NoInode /\ missed = FALSE

\* A caller leaves it at WriteConfig, which has failed or was all it called, or has
\* undone a Restart or could not.
LeavesIt(p) == pc[p] \in {"write", "rename", "undo", "rewrite"} /\ pc'[p] = "idle"

\* A step of the service; what has been read is forgotten with the child.
ServiceStep ==
    LET lives == cmd' = cmd /\ cmd # NoSlot /\ child'[cmd] = "alive" IN
    /\ Next
    /\ runs' = IF lives THEN runs ELSE NoInode
    /\ missed' = (lives /\ (missed \/ \E p \in Caller : LeavesIt(p)))

\* The started sing-box reads its configuration, once.
ChildReads ==
    /\ cmd # NoSlot /\ child[cmd] = "alive" /\ runs = NoInode
    /\ runs' = ReadFile
    /\ UNCHANGED <<vars, missed>>

ReadSpec == ReadInit /\ [][ServiceStep \/ ChildReads]_readVars

\* At rest the sing-box that runs has read what is in the file (SPEC.md:93), unless
\* a WriteConfig has failed since: the sing-box of one caller may read its file
\* before a second caller writes into the inode that the first has renamed, and the
\* second restarts nothing once its own rename fails (singbox.go:156-171).
RunsCurrent == (\A p \in Caller : pc[p] = "idle") /\ ~missed => runs \in {NoInode, ReadFile}
=============================================================================
