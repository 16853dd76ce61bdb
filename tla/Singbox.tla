------------------------------ MODULE Singbox ------------------------------
(***************************************************************************)
(* service/singbox.go: SingboxService, which owns the sing-box child       *)
(* process and its configuration file, called concurrently by the HTTP     *)
(* handlers, the sync loop, ForceSync goroutines and, at shutdown, main.   *)
(*                                                                         *)
(* Three goroutines race for a child: the caller that starts it, the one   *)
(* that waits for its exit and clears s.running, and the one os/exec runs  *)
(* for CommandContext, which kills the child once the context is done.     *)
(* Start cancels that context itself when it returns (singbox.go:86-87).   *)
(***************************************************************************)
EXTENDS TmpFile, Naturals, FiniteSets

CONSTANTS
    Caller,         \* goroutines calling the service
    Main,           \* the one that stops it at shutdown, and calls nothing else
    NoCaller,
    Slot,           \* children; a slot is used again when nothing refers to it
    NoSlot,
    Op,             \* what the others call: a subset of AllOps
    StartMayFail,   \* whether cmd.Start may fail (no such binary, ...)
    DiskMayFail     \* whether writing the temporary file or the backup may fail

\* apply: write the configuration, then restart unless the write failed
\* write, handshake: what doHandshake does with its first document and with its
\* last, ignoring a failed write
AllOps == {"apply", "write", "handshake", "restart"}

ASSUME SingboxAssumption ==
    /\ Empty \notin Value /\ Garbled \notin Value /\ Empty # Garbled
    /\ NoInode \notin Inode /\ NoInode \notin Content
    /\ NoCaller \notin Caller /\ NoSlot \notin Slot
    /\ Main \subseteq Caller /\ Op \subseteq AllOps
    /\ StartMayFail \in BOOLEAN /\ DiskMayFail \in BOOLEAN

VARIABLES
    mu,         \* holder of s.mu across a step (NoCaller: nobody)
    cmd,        \* s.cmd: the child the service refers to
    running,    \* s.running
    child,      \* the operating system's view of each child
    waiter,     \* the goroutine of Start that calls cmd.Wait
    watcher,    \* the goroutine of os/exec that watches the context
    op, pc,     \* each caller's operation and where it is in it
    doc,        \* the bytes a caller is about to write, or has read
    fd          \* the inode a caller has opened for writing

service  == <<mu, cmd, running>>
children == <<child, waiter, watcher>>
config   == <<fd, link, data>>
vars     == <<mu, cmd, running, child, waiter, watcher, op, pc, doc, fd, link, data>>

Writing == {p \in Caller : pc[p] \in {"write", "rewrite"}}
Opened  == {fd[p] : p \in Writing}

\* install.sh:273-291 leaves a configuration; sing-box has not been started.
Init ==
    /\ mu = NoCaller /\ cmd = NoSlot /\ running = FALSE
    /\ child = [k \in Slot |-> "gone"]
    /\ waiter = [k \in Slot |-> "done"]
    /\ watcher = [k \in Slot |-> "done"]
    /\ op \in [Caller -> {"restart"}]
    /\ pc = [p \in Caller |-> "idle"]
    /\ doc = [p \in Caller |-> NoInode]
    /\ fd = [p \in Caller |-> NoInode]
    /\ \E i \in Inode, v \in Value :
          /\ link = [n \in Name |-> IF n = "file" THEN i ELSE NoInode]
          /\ data = [j \in Inode |-> IF j = i THEN v ELSE Empty]

Step(p, from, to) == pc[p] = from /\ pc' = [pc EXCEPT ![p] = to]

-----------------------------------------------------------------------------
\* An operation begins: applyAndRestart, handleConfigPut, doSync ("apply"),
\* doHandshake, handleSingboxRestart, or the one Stop of runDaemon.
Begin(p, o, v) ==
    /\ op[p] # "stop"
    /\ Step(p, "idle", CASE o \in {"apply", "write", "handshake"} -> "open"
                         [] o = "restart" -> "backup"
                         [] o = "stop" -> "stop")
    /\ op' = [op EXCEPT ![p] = o]
    /\ doc' = [doc EXCEPT ![p] = v]
    /\ UNCHANGED <<service, children, config>>

CallOf(p) == IF p \in Main THEN {"stop"} ELSE Op

\* Mutant of Document: a configuration that is no JSON object is not refused.
Document_Unvalidated(o) == Value \cup {NoInode}

\* The configuration an operation writes, as GenerateSingboxConfig returned it.
Document(o) == IF o \in {"apply", "write", "handshake"} THEN Value ELSE {NoInode}

\* WriteConfig returned an error: only the handshake goes on to Restart.
AfterError(p) == IF op[p] = "handshake" THEN "backup" ELSE "idle"

TmpOpen(p) ==
    /\ Step(p, "open", "write")
    /\ \E i \in Inode : OpenTrunc("tmp", i, Opened) /\ fd' = [fd EXCEPT ![p] = i]
    /\ UNCHANGED <<service, children, op, doc>>

TmpWrite(p) ==
    /\ Step(p, "write", "old")
    /\ WriteInode(fd[p], doc[p])
    /\ fd' = [fd EXCEPT ![p] = NoInode]
    /\ UNCHANGED <<service, children, op, doc>>

\* Mutant of TmpWriteFails: the error of os.WriteFile is ignored.
TmpWriteFails_Ignored(p) ==
    /\ DiskMayFail
    /\ Step(p, "write", "old")
    /\ fd' = [fd EXCEPT ![p] = NoInode]
    /\ doc' = [doc EXCEPT ![p] = NoInode]
    /\ UNCHANGED <<service, children, link, data, op>>

TmpWriteFails(p) ==
    /\ DiskMayFail
    /\ Step(p, "write", AfterError(p))
    /\ fd' = [fd EXCEPT ![p] = NoInode]
    /\ doc' = [doc EXCEPT ![p] = NoInode]
    /\ UNCHANGED <<service, children, link, data, op>>

\* Backup of the current file; without one the lock is not taken.
ReadOld(p) ==
    /\ Step(p, "old", IF ReadFile = NoInode THEN "rename" ELSE "keep")
    /\ doc' = [doc EXCEPT ![p] = ReadFile]
    /\ UNCHANGED <<service, children, config, op>>

\* s.oldCfg is assigned under s.mu and never used: what counts is the wait for the lock.
KeepOld(p) ==
    /\ Step(p, "keep", "rename")
    /\ mu = NoCaller
    /\ doc' = [doc EXCEPT ![p] = NoInode]
    /\ UNCHANGED <<service, children, config, op>>

\* os.Rename; it fails when another caller has renamed the temporary file.
TmpRename(p) ==
    /\ \/ Step(p, "rename", IF op[p] = "write" THEN "idle" ELSE "backup") /\ RenameTmp
       \/ Step(p, "rename", AfterError(p)) /\ link["tmp"] = NoInode /\ UNCHANGED <<link, data>>
    /\ doc' = [doc EXCEPT ![p] = NoInode]
    /\ UNCHANGED <<service, children, fd, op>>

-----------------------------------------------------------------------------
\* Mutant of ReadBackup: the file is remembered instead of its bytes.
ReadBackup_Handle(p) ==
    /\ Step(p, "backup", "start")
    /\ mu = NoCaller
    /\ doc' = [doc EXCEPT ![p] = link["file"]]
    /\ UNCHANGED <<service, children, config, op>>

\* Restart, before Start: reads the file that is current, under s.mu.
ReadBackup(p) ==
    /\ Step(p, "backup", "start")
    /\ mu = NoCaller
    /\ doc' = [doc EXCEPT ![p] = ReadFile]
    /\ UNCHANGED <<service, children, config, op>>

Unused(k) == child[k] = "gone" /\ waiter[k] = "done" /\ cmd # k

\* Mutant of StartLock: a child that runs is left to run.
StartLock_KeepsChild(p) ==
    /\ Step(p, "start", IF running /\ cmd # NoSlot THEN "idle" ELSE "exec")
    /\ mu = NoCaller
    /\ \E k \in Slot : Unused(k)
    /\ mu' = IF running /\ cmd # NoSlot THEN mu ELSE p
    /\ UNCHANGED <<cmd, running, children, config, op, doc>>

\* Start takes s.mu; a running child is sent SIGHUP and given two seconds.
\* Bound: no more than Cardinality(Slot) children exist or are being cleared.
StartLock(p) ==
    /\ Step(p, "start", IF running /\ cmd # NoSlot THEN "kill" ELSE "exec")
    /\ mu = NoCaller
    /\ \E k \in Slot : Unused(k)
    /\ mu' = p
    /\ UNCHANGED <<cmd, running, children, config, op, doc>>

\* Mutant of StopLock: Stop does not take s.mu.
StopLock_Unlocked(p) ==
    /\ IF cmd = NoSlot THEN Step(p, "stop", "idle") ELSE Step(p, "stop", "kill")
    /\ UNCHANGED <<mu, cmd, running, children, config, op, doc>>

\* Stop takes s.mu; stopLocked looks at s.cmd and not at s.running.
StopLock(p) ==
    /\ mu = NoCaller
    /\ IF cmd = NoSlot THEN Step(p, "stop", "idle") /\ UNCHANGED mu
                       ELSE Step(p, "stop", "kill") /\ mu' = p
    /\ UNCHANGED <<cmd, running, children, config, op, doc>>

\* Mutant of Kill: s.running is left as it was.
Kill_KeepsFlag(p) ==
    /\ Step(p, "kill", IF op[p] = "stop" THEN "idle" ELSE "exec")
    /\ child' = [child EXCEPT ![cmd] = IF @ = "alive" THEN "dying" ELSE @]
    /\ cmd' = NoSlot
    /\ mu' = IF op[p] = "stop" THEN NoCaller ELSE mu
    /\ UNCHANGED <<running, waiter, watcher, config, op, doc>>

\* The end of stopLocked: SIGKILL, without waiting for the exit.
Kill(p) ==
    /\ Step(p, "kill", IF op[p] = "stop" THEN "idle" ELSE "exec")
    /\ child' = [child EXCEPT ![cmd] = IF @ = "alive" THEN "dying" ELSE @]
    /\ cmd' = NoSlot
    /\ running' = FALSE
    /\ mu' = IF op[p] = "stop" THEN NoCaller ELSE mu
    /\ UNCHANGED <<waiter, watcher, config, op, doc>>

\* Mutants of Exec: Restart is tried again although it succeeded; the child is
\* started without a context.
Exec_Again(p, k) ==
    /\ Step(p, "exec", "backup")
    /\ Unused(k)
    /\ cmd' = k
    /\ running' = TRUE
    /\ child' = [child EXCEPT ![k] = "alive"]
    /\ waiter' = [waiter EXCEPT ![k] = "waiting"]
    /\ watcher' = [watcher EXCEPT ![k] = "cancelled"]
    /\ mu' = NoCaller
    /\ UNCHANGED <<config, op, doc>>

Exec_NoContext(p, k) ==
    /\ Step(p, "exec", "idle")
    /\ Unused(k)
    /\ cmd' = k
    /\ running' = TRUE
    /\ child' = [child EXCEPT ![k] = "alive"]
    /\ waiter' = [waiter EXCEPT ![k] = "waiting"]
    /\ mu' = NoCaller
    /\ UNCHANGED <<watcher, config, op, doc>>

\* cmd.Start succeeds; Start returns, cancelling the context and unlocking.
Exec(p, k) ==
    /\ Step(p, "exec", "idle")
    /\ Unused(k)
    /\ cmd' = k
    /\ running' = TRUE
    /\ child' = [child EXCEPT ![k] = "alive"]
    /\ waiter' = [waiter EXCEPT ![k] = "waiting"]
    /\ watcher' = [watcher EXCEPT ![k] = "cancelled"]
    /\ mu' = NoCaller
    /\ doc' = [doc EXCEPT ![p] = NoInode]
    /\ UNCHANGED <<config, op>>

\* Mutant of ExecFails: a return without the unlock.
ExecFails_KeepsLock(p) ==
    /\ StartMayFail
    /\ Step(p, "exec", "undo")
    /\ UNCHANGED <<mu, cmd, running, children, config, op, doc>>

ExecFails(p) ==
    /\ StartMayFail
    /\ Step(p, "exec", "undo")
    /\ mu' = NoCaller
    /\ UNCHANGED <<cmd, running, children, config, op, doc>>

\* Restart's rollback: os.WriteFile of the backup over the file, in place and
\* without the lock.
RollbackOpen(p) ==
    /\ Step(p, "undo", "rewrite")
    /\ \E i \in Inode : OpenTrunc("file", i, Opened) /\ fd' = [fd EXCEPT ![p] = i]
    /\ UNCHANGED <<service, children, op, doc>>

RollbackWrite(p) ==
    /\ Step(p, "rewrite", "idle")
    /\ WriteInode(fd[p], doc[p])
    /\ fd' = [fd EXCEPT ![p] = NoInode]
    /\ doc' = [doc EXCEPT ![p] = NoInode]
    /\ UNCHANGED <<service, children, op>>

\* Its error is dropped: the file could not be opened, or is left truncated (what a
\* part of the backup would leave is no configuration either, and is not told apart).
RollbackFails(p) ==
    /\ DiskMayFail
    /\ Step(p, "undo", "idle") \/ Step(p, "rewrite", "idle")
    /\ fd' = [fd EXCEPT ![p] = NoInode]
    /\ doc' = [doc EXCEPT ![p] = NoInode]
    /\ UNCHANGED <<service, children, link, data, op>>

-----------------------------------------------------------------------------
\* The child exits: killed, or by itself (a bad configuration, a crash).
ChildExits(k) ==
    /\ child[k] \in {"alive", "dying"}
    /\ child' = [child EXCEPT ![k] = "zombie"]
    /\ UNCHANGED <<service, waiter, watcher, config, op, pc, doc>>

\* The context of CommandContext is done: os/exec kills the child.
ContextKills(k) ==
    /\ watcher[k] = "cancelled"
    /\ child' = [child EXCEPT ![k] = IF @ = "alive" THEN "dying" ELSE @]
    /\ watcher' = [watcher EXCEPT ![k] = "done"]
    /\ UNCHANGED <<service, waiter, config, op, pc, doc>>

\* cmd.Wait returns in the goroutine of Start, which also ends the watcher ...
WaitReturns(k) ==
    /\ waiter[k] = "waiting" /\ child[k] = "zombie"
    /\ child' = [child EXCEPT ![k] = "gone"]
    /\ waiter' = [waiter EXCEPT ![k] = "locking"]
    /\ watcher' = [watcher EXCEPT ![k] = "done"]
    /\ UNCHANGED <<service, config, op, pc, doc>>

\* Mutant of WaiterClears: the goroutine of Start only reaps the child.
WaiterClears_Not(k) ==
    /\ waiter[k] = "locking"
    /\ mu = NoCaller
    /\ waiter' = [waiter EXCEPT ![k] = "done"]
    /\ UNCHANGED <<mu, cmd, running, child, watcher, config, op, pc, doc>>

\* ... and then, under s.mu, it clears s.running, whichever child runs by now.
WaiterClears(k) ==
    /\ waiter[k] = "locking"
    /\ mu = NoCaller
    /\ running' = FALSE
    /\ waiter' = [waiter EXCEPT ![k] = "done"]
    /\ UNCHANGED <<mu, cmd, child, watcher, config, op, pc, doc>>

-----------------------------------------------------------------------------
Work(p) ==
    \/ TmpOpen(p) \/ TmpWrite(p) \/ TmpWriteFails(p) \/ ReadOld(p) \/ KeepOld(p) \/ TmpRename(p)
    \/ ReadBackup(p) \/ StartLock(p) \/ StopLock(p) \/ Kill(p)
    \/ (\E k \in Slot : Exec(p, k)) \/ ExecFails(p)
    \/ RollbackOpen(p) \/ RollbackWrite(p) \/ RollbackFails(p)

ChildStep(k) == ChildExits(k) \/ ContextKills(k) \/ WaitReturns(k) \/ WaiterClears(k)

Next ==
    \/ \E p \in Caller : Work(p)
    \/ \E p \in Caller : \E o \in CallOf(p) : \E v \in Document(o) : Begin(p, o, v)
    \/ \E k \in Slot : ChildStep(k)

Spec == Init /\ [][Next]_vars

\* Goroutines run; s.mu is handed over in turn, so nobody starves for it; the
\* kernel ends a killed child; a child that nobody kills may run for ever.
FairSpec ==
    /\ Spec
    /\ \A p \in Caller : SF_vars(Work(p))
    /\ \A k \in Slot : /\ WF_vars(child[k] = "dying" /\ ChildExits(k))
                       /\ WF_vars(ContextKills(k))
                       /\ WF_vars(WaitReturns(k))
                       /\ SF_vars(WaiterClears(k))

-----------------------------------------------------------------------------
PcValues == {"idle", "open", "write", "old", "keep", "rename", "backup", "start", "kill",
             "exec", "undo", "rewrite", "stop"}

TypeOK ==
    /\ FilesOK
    /\ mu \in Caller \cup {NoCaller}
    /\ cmd \in Slot \cup {NoSlot}
    /\ running \in BOOLEAN
    /\ child \in [Slot -> {"gone", "alive", "dying", "zombie"}]
    /\ waiter \in [Slot -> {"waiting", "locking", "done"}]
    /\ watcher \in [Slot -> {"cancelled", "done"}]
    /\ op \in [Caller -> AllOps \cup {"stop"}]
    /\ pc \in [Caller -> PcValues]
    /\ doc \in [Caller -> Content \cup {NoInode}]
    /\ fd \in [Caller -> Inode \cup {NoInode}]

\* Whenever the service reports a running sing-box, a goroutine is still on its
\* way to clear that report once the child it speaks of has exited: no order of
\* Start, Stop, exits and late waiters leaves s.running stuck (singbox.go:82-109).
RunningIsWatched == running => cmd # NoSlot /\ waiter[cmd] # "done"

\* stopLocked sleeps two seconds between testing s.cmd and killing s.cmd.Process:
\* nobody clears s.cmd meanwhile (singbox.go:65-71).
KillHasChild == \A p \in Caller : pc[p] = "kill" => cmd # NoSlot

\* WriteConfig without a lock (singbox.go:156-166): although its callers truncate
\* and rename one another's temporary file, once none of them is writing the
\* configuration that sing-box reads is not an empty file.
ConfigNotBlank == Writing = {} => ReadFile # Empty

\* Whatever changes the configuration file leaves one complete document in it, but
\* for a rollback, which truncates it in place; what a rollback that fails leaves empty
\* stays so until the next document (singbox.go:144: tmp file, then rename; 138).
ConfigWhole ==
    [][ReadFile' \in Value \cup {ReadFile} \/ \E p \in Caller : pc'[p] = "rewrite"]_vars

\* Only Stop, or a Start that replaces it, kills a running sing-box
\* (singbox.go:63 "stopLocked stops the sing-box process").
KilledOnlyByStop ==
    [][\A k \in Slot : child[k] = "alive" /\ child'[k] = "dying" => \E p \in Caller : pc[p] = "kill"]_vars

\* One sing-box at a time (README.md:11).
AtMostOneChild == Cardinality({k \in Slot : child[k] \in {"alive", "dying"}}) <= 1

\* Whoever holds s.mu across a step can take the next one: it waits for no other lock
\* and has found a child's place free (singbox.go:63-119).
HolderGoesOn ==
    \A p \in Caller : mu = p => pc[p] = "kill" \/ (pc[p] = "exec" /\ \E k \in Slot : Unused(k))

\* Whatever Start, Stop and late waiters did to s.cmd and s.running, a child that is
\* there has a goroutine that will reap it, and one that lives has a context that is
\* done: none is left to itself (singbox.go:82-109).
NoneLeftAlone ==
    \A k \in Slot : child[k] # "gone" =>
        waiter[k] = "waiting" /\ (child[k] = "alive" => watcher[k] = "cancelled")

\* Every call of the service returns: no order in which the callers, the waiters
\* and the two seconds of stopLocked take s.mu leaves one of them blocked.
CallsReturn == \A p \in Caller : pc[p] # "idle" ~> pc[p] = "idle"

\* The exit of the child that the service refers to is noticed: it stops
\* reporting it, or has replaced it (singbox.go:105-109).
ExitNoticed == \A k \in Slot : cmd = k /\ child[k] # "alive" ~> cmd # k \/ ~running

\* A child that the service has lost track of, because a late waiter had cleared
\* s.running before the next Start, does not live on: its context ends it.
LostChildDies == \A k \in Slot : child[k] = "alive" /\ cmd # k ~> child[k] = "gone"
=============================================================================
