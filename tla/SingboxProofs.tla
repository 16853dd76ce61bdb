---------------------------- MODULE SingboxProofs ----------------------------
(***************************************************************************)
(* For any number of callers, children and documents: the types, the lock  *)
(* discipline of s.mu, the running flag, the children, the configuration   *)
(* file under concurrent WriteConfig calls when nothing fails, and under   *)
(* every failure when there is one caller beside main.                     *)
(***************************************************************************)
EXTENDS Reads, TLAPS

\* s.mu stays with the caller that sleeps in stopLocked or is about to exec.
LockHeld == \A p \in Caller : pc[p] \in {"kill", "exec"} => mu = p

LockInv == LockHeld /\ KillHasChild

\* A name refers to no empty inode, unless somebody is about to write it.
Blank(i) == data[i] = Empty /\ \A q \in Caller : pc[q] = "write" => fd[q] # i

ConfigInv ==
    /\ \A n \in Name : link[n] # NoInode => ~Blank(link[n])
    /\ \A p \in Caller : pc[p] \in {"open", "write"} => doc[p] \in Value
    /\ \A p \in Caller : pc[p] \notin {"undo", "rewrite"}

-----------------------------------------------------------------------------
\* Writing a document over anything leaves content, and never an empty file.
LEMMA WrittenSome == ASSUME NEW v \in Value, NEW old
                     PROVE  Overwrite(old, v) \subseteq Content \ {Empty}
<1>1. v \notin {NoInode, Empty}
  BY SingboxAssumption DEF Content
<1>2. QED
  BY <1>1, SingboxAssumption DEF Overwrite, Content

\* Writing what was read before, or nothing, leaves content too.
LEMMA WrittenContent == ASSUME NEW v \in Content \cup {NoInode}, NEW old \in Content
                        PROVE  Overwrite(old, v) \subseteq Content
  BY DEF Overwrite, Content
\* A write keeps the content of every inode typed.
LEMMA WriteTyped ==
    ASSUME data \in [Inode -> Content], NEW i \in Inode \cup {NoInode},
           NEW v \in Content \cup {NoInode}, WriteInode(i, v)
    PROVE  data' \in [Inode -> Content]
<1>1. PICK c \in Overwrite(data[i], v) : data' = [data EXCEPT ![i] = c]
  BY DEF WriteInode
<1>2. CASE i \in Inode
  <2>1. c \in Content
    BY <1>2, WrittenContent
  <2>2. QED
    BY <1>1, <2>1
<1>3. CASE i = NoInode
  BY <1>1, <1>3, SingboxAssumption
<1>4. QED
  BY <1>2, <1>3

\* What ReadFile returns, its error included, can be kept in a variable.
LEMMA ReadTyped == ASSUME FilesOK PROVE ReadFile \in Content \cup {NoInode}
  BY DEF FilesOK, ReadFile, Name

LEMMA BeginTyped ==
    ASSUME TypeOK, NEW p \in Caller, NEW o \in AllOps \cup {"stop"}, NEW v \in Content \cup {NoInode},
           Begin(p, o, v)
    PROVE  TypeOK'
<1>1. pc' \in [Caller -> PcValues]
  BY DEF TypeOK, Begin, Step, AllOps, PcValues
<1>2. QED
  BY <1>1 DEF TypeOK, FilesOK, Begin, service, children, config

\* A step of the service keeps the types of its variables.
LEMMA TypeStep == ASSUME TypeOK, [Next]_vars PROVE TypeOK'
<1> USE SingboxAssumption DEF TypeOK, FilesOK
<1>0. ReadFile \in Content \cup {NoInode}
  BY ReadTyped
<1>1. ASSUME NEW p \in Caller, NEW o \in CallOf(p), NEW v \in Document(o), Begin(p, o, v)
      PROVE  TypeOK'
  <2>1. v \in Content \cup {NoInode} /\ o \in AllOps \cup {"stop"}
    BY DEF Document, Content, CallOf
  <2>2. QED
    BY <1>1, <2>1, BeginTyped
<1>2. ASSUME NEW p \in Caller, TmpOpen(p) PROVE TypeOK'
  BY <1>2 DEF TmpOpen, Step, OpenTrunc, Name, Content, PcValues, service, children
<1>3. ASSUME NEW p \in Caller, TmpWrite(p) PROVE TypeOK'
  <2>1. data' \in [Inode -> Content] /\ link' = link
    BY <1>3, WriteTyped DEF TmpWrite, WriteInode
  <2>2. QED
    BY <1>3, <2>1 DEF TmpWrite, Step, PcValues, service, children
<1>4. ASSUME NEW p \in Caller, TmpWriteFails(p) PROVE TypeOK'
  BY <1>4 DEF TmpWriteFails, AfterError, Step, PcValues, service, children
<1>5. ASSUME NEW p \in Caller, ReadOld(p) PROVE TypeOK'
  BY <1>5, <1>0 DEF ReadOld, Step, PcValues, service, children, config
<1>6. ASSUME NEW p \in Caller, KeepOld(p) PROVE TypeOK'
  BY <1>6 DEF KeepOld, Step, PcValues, service, children, config
<1>7. ASSUME NEW p \in Caller, TmpRename(p) PROVE TypeOK'
  BY <1>7 DEF TmpRename, RenameTmp, AfterError, Step, Name, PcValues, service, children
<1>8. ASSUME NEW p \in Caller, ReadBackup(p) PROVE TypeOK'
  BY <1>8, <1>0 DEF ReadBackup, Step, PcValues, service, children, config
<1>9. ASSUME NEW p \in Caller, StartLock(p) PROVE TypeOK'
  BY <1>9 DEF StartLock, Step, PcValues, children, config
<1>10. ASSUME NEW p \in Caller, StopLock(p) PROVE TypeOK'
  BY <1>10 DEF StopLock, Step, PcValues, children, config
<1>11. ASSUME NEW p \in Caller, Kill(p) PROVE TypeOK'
  BY <1>11 DEF Kill, Step, PcValues, config
<1>12. ASSUME NEW p \in Caller, NEW k \in Slot, Exec(p, k) PROVE TypeOK'
  BY <1>12 DEF Exec, Step, PcValues, config
<1>13. ASSUME NEW p \in Caller, ExecFails(p) PROVE TypeOK'
  BY <1>13 DEF ExecFails, Step, PcValues, children, config
<1>14. ASSUME NEW p \in Caller, RollbackOpen(p) PROVE TypeOK'
  BY <1>14 DEF RollbackOpen, Step, OpenTrunc, Name, Content, PcValues, service, children
<1>15. ASSUME NEW p \in Caller, RollbackWrite(p) PROVE TypeOK'
  <2>1. data' \in [Inode -> Content] /\ link' = link
    BY <1>15, WriteTyped DEF RollbackWrite, WriteInode
  <2>2. QED
    BY <1>15, <2>1 DEF RollbackWrite, Step, PcValues, service, children
<1>18. ASSUME NEW p \in Caller, RollbackFails(p) PROVE TypeOK'
  BY <1>18 DEF RollbackFails, Step, PcValues, service, children
<1>16. ASSUME NEW k \in Slot, ChildStep(k) PROVE TypeOK'
  BY <1>16 DEF ChildStep, ChildExits, ContextKills, WaitReturns, WaiterClears, service, config
<1>17. CASE UNCHANGED vars
  BY <1>17 DEF vars
<1>19. QED
  BY <1>1, <1>2, <1>3, <1>4, <1>5, <1>6, <1>7, <1>8, <1>9, <1>10, <1>11, <1>12, <1>13,
     <1>14, <1>15, <1>16, <1>17, <1>18 DEF Next, Work

LEMMA TypeInit == ASSUME Init PROVE TypeOK
<1>1. FilesOK
  BY SingboxAssumption DEF Init, FilesOK, Content, Name
<1>2. op \in [Caller -> AllOps \cup {"stop"}] /\ pc \in [Caller -> PcValues]
  BY DEF Init, AllOps, PcValues
<1>3. QED
  BY <1>1, <1>2 DEF Init, TypeOK

\* The variables of Singbox keep their types (singbox.go:21-29).
THEOREM TypeCorrect == Spec => []TypeOK
  BY TypeInit, TypeStep, PTL DEF Spec
-----------------------------------------------------------------------------
\* A call that begins does not touch what the lock protects.
LEMMA BeginRuns ==
    ASSUME RunningIsWatched, NEW p, NEW o, NEW v, Begin(p, o, v) PROVE RunningIsWatched'
  BY DEF Begin, service, children, RunningIsWatched

LEMMA BeginLocks ==
    ASSUME TypeOK, LockInv, NEW p \in Caller, NEW o \in AllOps \cup {"stop"}, NEW v, Begin(p, o, v)
    PROVE  LockInv'
<1>1. pc'[p] \notin {"kill", "exec"} /\ \A q \in Caller \ {p} : pc'[q] = pc[q]
  BY DEF TypeOK, Begin, Step, AllOps
<1>2. UNCHANGED <<mu, cmd>>
  BY DEF Begin, service
<1>3. QED
  BY <1>1, <1>2 DEF LockInv, LockHeld, KillHasChild

\* A step of the service keeps its flag watched.
LEMMA RunningStep == ASSUME TypeOK, RunningIsWatched, [Next]_vars PROVE RunningIsWatched'
<1> USE SingboxAssumption DEF TypeOK
<1>1. ASSUME NEW p \in Caller, NEW k \in Slot, Exec(p, k) PROVE RunningIsWatched'
  BY <1>1 DEF Exec, RunningIsWatched
<1>2. ASSUME NEW p \in Caller, Kill(p) PROVE RunningIsWatched'
  BY <1>2 DEF Kill, RunningIsWatched
<1>3. ASSUME NEW k \in Slot, ChildStep(k) PROVE RunningIsWatched'
  <2>1. CASE WaitReturns(k)
    BY <2>1 DEF WaitReturns, service, RunningIsWatched
  <2>2. CASE WaiterClears(k)
    BY <2>2 DEF WaiterClears, RunningIsWatched
  <2>3. CASE ChildExits(k) \/ ContextKills(k)
    BY <2>3 DEF ChildExits, ContextKills, service, RunningIsWatched
  <2>4. QED
    BY <1>3, <2>1, <2>2, <2>3 DEF ChildStep
<1>4. ASSUME NEW p \in Caller, NEW o \in CallOf(p), NEW v \in Document(o), Begin(p, o, v)
      PROVE  RunningIsWatched'
  BY <1>4, BeginRuns
<1>5. ASSUME NEW p \in Caller, Work(p), ~Kill(p), \A k \in Slot : ~Exec(p, k)
      PROVE  RunningIsWatched'
  BY <1>5 DEF Work, TmpOpen, TmpWrite, TmpWriteFails, ReadOld, KeepOld, TmpRename, ReadBackup,
     StartLock, StopLock, ExecFails, RollbackOpen, RollbackWrite, RollbackFails, service, children, RunningIsWatched
<1>6. CASE UNCHANGED vars
  BY <1>6 DEF vars, RunningIsWatched
<1>7. QED
  BY <1>1, <1>2, <1>3, <1>4, <1>5, <1>6 DEF Next

\* A step of the service keeps its lock with the caller that sleeps or execs.
LEMMA LockStep == ASSUME TypeOK, LockInv, [Next]_vars PROVE LockInv'
<1> USE SingboxAssumption DEF TypeOK, LockInv, LockHeld, KillHasChild
<1>1. ASSUME NEW p \in Caller, NEW k \in Slot, Exec(p, k) PROVE LockInv'
  BY <1>1 DEF Exec, Step
<1>2. ASSUME NEW p \in Caller, Kill(p) PROVE LockInv'
  BY <1>2 DEF Kill, Step
<1>3. ASSUME NEW k \in Slot, ChildStep(k) PROVE LockInv'
  BY <1>3 DEF ChildStep, ChildExits, ContextKills, WaitReturns, WaiterClears, service
<1>4. ASSUME NEW p \in Caller, NEW o \in CallOf(p), NEW v \in Document(o), Begin(p, o, v)
      PROVE  LockInv'
  BY <1>4, BeginLocks DEF CallOf
<1>5. ASSUME NEW p \in Caller, StartLock(p) \/ StopLock(p) PROVE LockInv'
  BY <1>5 DEF StartLock, StopLock, Step
<1>6. ASSUME NEW p \in Caller,
             TmpOpen(p) \/ TmpWrite(p) \/ TmpWriteFails(p) \/ ReadOld(p) \/ KeepOld(p) \/ TmpRename(p)
      PROVE  LockInv'
  BY <1>6 DEF TmpOpen, TmpWrite, TmpWriteFails, ReadOld, KeepOld, TmpRename, AfterError, Step,
     service
<1>7. ASSUME NEW p \in Caller,
             ReadBackup(p) \/ ExecFails(p) \/ RollbackOpen(p) \/ RollbackWrite(p) \/ RollbackFails(p)
      PROVE  LockInv'
  BY <1>7 DEF ReadBackup, ExecFails, RollbackOpen, RollbackWrite, RollbackFails, Step, service
<1>8. CASE UNCHANGED vars
  BY <1>8 DEF vars
<1>9. QED
  BY <1>1, <1>2, <1>3, <1>4, <1>5, <1>6, <1>7, <1>8 DEF Next, Work

\* Who holds s.mu sleeps in stopLocked or is about to exec, and who will exec has found
\* a child's place, which nobody else takes while s.mu is held.
HolderInv ==
    /\ \A p \in Caller : mu = p => pc[p] \in {"kill", "exec"}
    /\ \A p \in Caller : pc[p] = "stop" => op[p] = "stop"
    /\ \A p \in Caller :
          (pc[p] = "kill" /\ op[p] # "stop") \/ pc[p] = "exec" => \E k \in Slot : Unused(k)

LEMMA BeginHolds ==
    ASSUME TypeOK, HolderInv, NEW p \in Caller, NEW o \in AllOps \cup {"stop"}, NEW v, Begin(p, o, v)
    PROVE  HolderInv'
<1>1. /\ pc[p] = "idle" /\ pc'[p] \notin {"kill", "exec"} /\ (pc'[p] = "stop" => op'[p] = "stop")
      /\ \A q \in Caller \ {p} : pc'[q] = pc[q] /\ op'[q] = op[q]
  BY DEF TypeOK, Begin, Step, AllOps
<1>2. UNCHANGED <<service, children>>
  BY DEF Begin
<1>3. QED
  BY <1>1, <1>2 DEF HolderInv, service, children, Unused

\* A step of the service lets the holder of its lock go on, or is the holder's.
LEMMA HolderStep == ASSUME TypeOK, LockInv, HolderInv, [Next]_vars PROVE HolderInv'
<1> USE SingboxAssumption DEF TypeOK, HolderInv, Unused
<1>1. ASSUME NEW p \in Caller, NEW k \in Slot, Exec(p, k) PROVE HolderInv'
  BY <1>1 DEF Exec, Step, LockInv, LockHeld
<1>2. ASSUME NEW p \in Caller, Kill(p) PROVE HolderInv'
  <2>1. mu = p
    BY <1>2 DEF Kill, Step, LockInv, LockHeld
  <2>2. \A k \in Slot : Unused(k) => Unused(k)'
    BY <1>2 DEF Kill
  <2>3. QED
    BY <1>2, <2>1, <2>2 DEF Kill, Step
<1>3. ASSUME NEW k \in Slot, ChildStep(k) PROVE HolderInv'
  <2>1. \A l \in Slot : Unused(l) => Unused(l)'
    BY <1>3 DEF ChildStep, ChildExits, ContextKills, WaitReturns, WaiterClears, service
  <2>2. UNCHANGED <<mu, op, pc>>
    BY <1>3 DEF ChildStep, ChildExits, ContextKills, WaitReturns, WaiterClears, service
  <2>3. QED
    BY <2>1, <2>2
<1>4. ASSUME NEW p \in Caller, NEW o \in CallOf(p), NEW v \in Document(o), Begin(p, o, v)
      PROVE  HolderInv'
  BY <1>4, BeginHolds DEF CallOf
<1>5. ASSUME NEW p \in Caller, StartLock(p) \/ StopLock(p) PROVE HolderInv'
  BY <1>5 DEF StartLock, StopLock, Step, children
<1>6. ASSUME NEW p \in Caller,
             TmpOpen(p) \/ TmpWrite(p) \/ TmpWriteFails(p) \/ ReadOld(p) \/ KeepOld(p) \/ TmpRename(p)
      PROVE  HolderInv'
  BY <1>6 DEF TmpOpen, TmpWrite, TmpWriteFails, ReadOld, KeepOld, TmpRename, AfterError, Step,
     service, children
<1>7. ASSUME NEW p \in Caller,
             ReadBackup(p) \/ ExecFails(p) \/ RollbackOpen(p) \/ RollbackWrite(p) \/ RollbackFails(p)
      PROVE  HolderInv'
  BY <1>7 DEF ReadBackup, ExecFails, RollbackOpen, RollbackWrite, RollbackFails, Step, service, children, LockInv, LockHeld
<1>8. CASE UNCHANGED vars
  BY <1>8 DEF vars
<1>9. QED
  BY <1>1, <1>2, <1>3, <1>4, <1>5, <1>6, <1>7, <1>8 DEF Next, Work

\* A step of the service leaves no child to itself.
LEMMA NoneLeftStep == ASSUME TypeOK, NoneLeftAlone, [Next]_vars PROVE NoneLeftAlone'
<1> USE SingboxAssumption DEF TypeOK, NoneLeftAlone
<1>1. ASSUME NEW p \in Caller, Kill(p) \/ (\E k \in Slot : Exec(p, k)) PROVE NoneLeftAlone'
  BY <1>1 DEF Kill, Exec
<1>2. ASSUME NEW k \in Slot, ChildStep(k) PROVE NoneLeftAlone'
  BY <1>2 DEF ChildStep, ChildExits, ContextKills, WaitReturns, WaiterClears
<1>3. ASSUME NEW p \in Caller, Work(p), ~Kill(p), \A k \in Slot : ~Exec(p, k) PROVE NoneLeftAlone'
  BY <1>3 DEF Work, TmpOpen, TmpWrite, TmpWriteFails, ReadOld, KeepOld, TmpRename, ReadBackup,
     StartLock, StopLock, ExecFails, RollbackOpen, RollbackWrite, RollbackFails, children
<1>4. ASSUME NEW p, NEW o, NEW v, Begin(p, o, v) PROVE NoneLeftAlone'
  BY <1>4 DEF Begin, children
<1>5. CASE UNCHANGED vars
  BY <1>5 DEF vars
<1>6. QED
  BY <1>1, <1>2, <1>3, <1>4, <1>5 DEF Next

LEMMA ServiceInit == ASSUME Init PROVE RunningIsWatched /\ LockInv /\ HolderInv /\ NoneLeftAlone
  BY SingboxAssumption DEF Init, RunningIsWatched, LockInv, LockHeld, KillHasChild, HolderInv, NoneLeftAlone

\* singbox.go:78-119: whatever the order of Start, Stop, exits and late waiters,
\* s.running is true only while some goroutine will still clear it.
THEOREM RunningFlag == Spec => []RunningIsWatched
  BY ServiceInit, RunningStep, TypeCorrect, PTL DEF Spec

\* singbox.go:64-76: the child that stopLocked kills after its sleep is there,
\* because every caller that kills or execs holds s.mu.
THEOREM KillIsSafe == Spec => []KillHasChild
<1>1. LockInv => KillHasChild
  BY DEF LockInv
<1>2. QED
  BY <1>1, ServiceInit, LockStep, TypeCorrect, PTL DEF Spec

\* singbox.go:63-119: for any number of callers and children, whoever holds s.mu across
\* a step can take its next one; no error path leaves the lock behind.
THEOREM LockMovesOn == Spec => []HolderGoesOn
<1>1. TypeOK /\ HolderInv => HolderGoesOn
  BY DEF HolderInv, HolderGoesOn, TypeOK, AllOps
<1>2. QED
  BY <1>1, ServiceInit, LockStep, HolderStep, TypeCorrect, PTL DEF Spec

\* singbox.go:82-109: for any number of callers and children, every child that is there
\* will be reaped, and one that lives has a context that is done.
THEOREM ChildrenEnd == Spec => []NoneLeftAlone
  BY ServiceInit, NoneLeftStep, TypeCorrect, PTL DEF Spec

\* singbox.go:145-171: as long as writing and starting do not fail, any number of
\* concurrent callers leaves the configuration file with content.
THEOREM ConfigSurvives == ~StartMayFail /\ ~DiskMayFail => (Spec => []ConfigNotBlank)
<1>1. SUFFICES ASSUME ~StartMayFail, ~DiskMayFail PROVE Spec => []ConfigNotBlank
  OBVIOUS
<1>2. Init => ConfigInv
  BY SingboxAssumption DEF Init, ConfigInv, Blank, Name
<1>3. TypeOK /\ ConfigInv /\ [Next]_vars => ConfigInv'
  <2> SUFFICES ASSUME TypeOK, ConfigInv, [Next]_vars PROVE ConfigInv'
    OBVIOUS
  <2> USE SingboxAssumption DEF TypeOK, FilesOK, ConfigInv, Blank
  <2>1. ASSUME NEW p \in Caller, NEW o \in CallOf(p), NEW v \in Document(o), Begin(p, o, v)
        PROVE  ConfigInv'
    <3>1. CASE o \in {"apply", "write", "handshake"}
      BY <2>1, <3>1 DEF Begin, Document, Step, service, children, config
    <3>2. CASE o \in {"restart", "stop"}
      BY <2>1, <3>2 DEF Begin, Step, service, children, config
    <3>3. QED
      BY <3>1, <3>2 DEF AllOps, CallOf
  <2>2. ASSUME NEW p \in Caller, TmpOpen(p) PROVE ConfigInv'
    BY <2>2 DEF TmpOpen, Step, OpenTrunc, Name, service, children
  <2>3. ASSUME NEW p \in Caller, TmpWrite(p) PROVE ConfigInv'
    <3>1. doc[p] \in Value
      BY <2>3 DEF TmpWrite, Step
    <3>2. PICK c \in Content \ {Empty} : data' = [data EXCEPT ![fd[p]] = c]
      BY <2>3, <3>1, WrittenSome DEF TmpWrite, WriteInode
    <3>3. QED
      BY <2>3, <3>2 DEF TmpWrite, WriteInode, Step, Name, service, children
  <2>4. ASSUME NEW p \in Caller, ReadOld(p) \/ KeepOld(p) PROVE ConfigInv'
    BY <2>4 DEF ReadOld, KeepOld, Step, service, children, config
  <2>5. ASSUME NEW p \in Caller, TmpRename(p) PROVE ConfigInv'
    BY <2>5 DEF TmpRename, RenameTmp, AfterError, Step, Name, service, children
  <2>6. ASSUME NEW p \in Caller, ReadBackup(p) \/ StartLock(p) \/ StopLock(p) PROVE ConfigInv'
    BY <2>6 DEF ReadBackup, StartLock, StopLock, Step, service, children, config
  <2>7. ASSUME NEW p \in Caller, Kill(p) \/ \E k \in Slot : Exec(p, k) PROVE ConfigInv'
    BY <2>7 DEF Kill, Exec, Step, config
  <2>8. ASSUME NEW k \in Slot, ChildStep(k) PROVE ConfigInv'
    BY <2>8 DEF ChildStep, ChildExits, ContextKills, WaitReturns, WaiterClears, service, config
  <2>9. CASE UNCHANGED vars
    BY <2>9 DEF vars
  <2>10. ASSUME NEW p \in Caller
         PROVE  ~(TmpWriteFails(p) \/ ExecFails(p) \/ RollbackOpen(p) \/ RollbackWrite(p) \/ RollbackFails(p))
    BY <1>1 DEF TmpWriteFails, ExecFails, RollbackOpen, RollbackWrite, RollbackFails, Step
  <2>11. QED
    BY <2>1, <2>2, <2>3, <2>4, <2>5, <2>6, <2>7, <2>8, <2>9, <2>10 DEF Next, Work
<1>4. TypeOK /\ ConfigInv => ConfigNotBlank
  BY SingboxAssumption DEF TypeOK, FilesOK, ConfigInv, ConfigNotBlank, Writing, Blank, ReadFile,
     Name, Content
<1>5. QED
  BY <1>2, <1>3, <1>4, TypeCorrect, PTL DEF Spec

-----------------------------------------------------------------------------
\* A caller that has begun and is not stopping sing-box will start it, or leaves it
\* at WriteConfig.
Busy(p) == pc[p] \notin {"idle", "stop"} /\ ~(pc[p] = "kill" /\ op[p] = "stop")

\* main, once it stops sing-box, does nothing else.
StopOnlyStops == \A p \in Caller : op[p] = "stop" => pc[p] \in {"idle", "stop", "kill"}

FollowInv == ~missed /\ runs \notin {NoInode, ReadFile} => \E p \in Caller : Busy(p)

\* What a step of the service does to the callers: whoever stops being busy has
\* started a child or has left it, and only a busy caller changes the file.
LEMMA BusyStep ==
    ASSUME TypeOK, StopOnlyStops, Next, NEW p \in Caller, Busy(p), ~Busy(p)'
    PROVE  LeavesIt(p) \/ \E k \in Slot : Exec(p, k)
<1> USE DEF TypeOK
<1>1. ASSUME NEW q \in Caller, NEW o \in CallOf(q), NEW v \in Document(o), Begin(q, o, v)
      PROVE  FALSE
  <2>1. pc[q] = "idle" /\ pc'[q] # "idle" /\ \A r \in Caller \ {q} : pc'[r] = pc[r] /\ op'[r] = op[r]
    BY <1>1, SingboxAssumption DEF Begin, Step, CallOf, AllOps
  <2>2. QED
    BY <2>1 DEF Busy
<1>2. ASSUME NEW k \in Slot, ChildStep(k) PROVE FALSE
  BY <1>2 DEF ChildStep, ChildExits, ContextKills, WaitReturns, WaiterClears, Busy
<1>3. ASSUME NEW q \in Caller, Work(q), q # p PROVE FALSE
  BY <1>3 DEF Work, TmpOpen, TmpWrite, TmpWriteFails, ReadOld, KeepOld, TmpRename, ReadBackup,
     StartLock, StopLock, Kill, Exec, ExecFails, RollbackOpen, RollbackWrite, RollbackFails, Step, Busy
<1>4. ASSUME Work(p) PROVE LeavesIt(p) \/ \E k \in Slot : Exec(p, k)
  <2>1. CASE TmpOpen(p) \/ TmpWrite(p) \/ ReadOld(p) \/ KeepOld(p) \/ ReadBackup(p)
    BY <2>1 DEF TmpOpen, TmpWrite, ReadOld, KeepOld, ReadBackup, Step, Busy
  <2>2. CASE StartLock(p) \/ StopLock(p)
    <3>1. CASE StartLock(p)
      BY <3>1 DEF StartLock, StopOnlyStops, Step, Busy
    <3>2. CASE StopLock(p)
      BY <3>2 DEF StopLock, Busy, Step
    <3>3. QED
      BY <2>2, <3>1, <3>2
  <2>3. CASE Kill(p) \/ ExecFails(p) \/ RollbackOpen(p)
    BY <2>3 DEF Kill, ExecFails, RollbackOpen, Step, Busy
  <2>4. CASE TmpWriteFails(p)
    BY <2>4 DEF TmpWriteFails, AfterError, Step, Busy, LeavesIt
  <2>5. CASE TmpRename(p)
    BY <2>5 DEF TmpRename, AfterError, Step, Busy, LeavesIt
  <2>6. CASE RollbackWrite(p) \/ RollbackFails(p)
    BY <2>6 DEF RollbackWrite, RollbackFails, Step, Busy, LeavesIt
  <2>7. QED
    BY <1>4, <2>1, <2>2, <2>3, <2>4, <2>5, <2>6 DEF Work
<1>5. QED
  BY <1>1, <1>2, <1>3, <1>4 DEF Next

\* A step of a call moves its caller only, from a place inside the call.
LEMMA WorkAlone ==
    ASSUME TypeOK, NEW p \in Caller, Work(p)
    PROVE  op' = op /\ pc[p] # "idle" /\ \A q \in Caller \ {p} : pc'[q] = pc[q]
  BY DEF TypeOK, Work, TmpOpen, TmpWrite, TmpWriteFails, ReadOld, KeepOld, TmpRename, ReadBackup,
     StartLock, StopLock, Kill, Exec, ExecFails, RollbackOpen, RollbackWrite, RollbackFails, Step

LEMMA StopStep == ASSUME TypeOK, StopOnlyStops, [Next]_vars PROVE StopOnlyStops'
<1> USE DEF TypeOK, StopOnlyStops
<1>1. ASSUME NEW q \in Caller, NEW o \in CallOf(q), NEW v \in Document(o), Begin(q, o, v)
      PROVE  StopOnlyStops'
  BY <1>1 DEF Begin, Step
<1>2. ASSUME NEW k \in Slot, ChildStep(k) PROVE StopOnlyStops'
  BY <1>2 DEF ChildStep, ChildExits, ContextKills, WaitReturns, WaiterClears
<1>3. ASSUME NEW p \in Caller, Work(p) PROVE StopOnlyStops'
  <2>1. op' = op /\ \A q \in Caller \ {p} : pc'[q] = pc[q]
    BY <1>3, WorkAlone
  <2>2. op[p] = "stop" => pc'[p] \in {"idle", "stop", "kill"}
    BY <1>3 DEF Work, TmpOpen, TmpWrite, TmpWriteFails, ReadOld, KeepOld, TmpRename, ReadBackup,
       StartLock, StopLock, Kill, Exec, ExecFails, RollbackOpen, RollbackWrite, RollbackFails, Step
  <2>3. QED
    BY <2>1, <2>2
<1>4. QED
  BY <1>1, <1>2, <1>3 DEF Next, vars

\* Only a busy caller changes what is in the file, and it stays busy or leaves it.
LEMMA FileStep ==
    ASSUME TypeOK, Next, ReadFile' # ReadFile
    PROVE  \E p \in Caller : Busy(p)' \/ LeavesIt(p)
<1> USE DEF TypeOK
<1>1. ASSUME NEW q \in Caller, NEW o \in CallOf(q), NEW v \in Document(o), Begin(q, o, v)
      PROVE  FALSE
  BY <1>1 DEF Begin, config, ReadFile
<1>2. ASSUME NEW k \in Slot, ChildStep(k) PROVE FALSE
  BY <1>2 DEF ChildStep, ChildExits, ContextKills, WaitReturns, WaiterClears, config, ReadFile
<1>3. PICK p \in Caller : Work(p)
  BY <1>1, <1>2 DEF Next
<1>4. CASE TmpOpen(p) \/ TmpWrite(p) \/ TmpRename(p) \/ RollbackOpen(p) \/ RollbackWrite(p) \/ RollbackFails(p)
  BY <1>4 DEF TmpOpen, TmpWrite, TmpRename, RollbackOpen, RollbackWrite, RollbackFails, AfterError, Step, Busy, LeavesIt
<1>5. CASE TmpWriteFails(p) \/ ReadOld(p) \/ KeepOld(p) \/ ReadBackup(p) \/ StartLock(p) \/ StopLock(p)
  BY <1>5 DEF TmpWriteFails, ReadOld, KeepOld, ReadBackup, StartLock, StopLock, config, ReadFile
<1>6. CASE Kill(p) \/ (\E k \in Slot : Exec(p, k)) \/ ExecFails(p)
  BY <1>6 DEF Kill, Exec, ExecFails, config, ReadFile
<1>7. QED
  BY <1>3, <1>4, <1>5, <1>6 DEF Work

\* singbox.go:128-171: whatever callers write over one another, whatever fails, the
\* sing-box that runs at rest has read the file as it is, unless a caller has left
\* it at a WriteConfig since.
THEOREM ChildFollows == ReadSpec => []RunsCurrent
<1>1. ReadInit => Init /\ FollowInv /\ StopOnlyStops
  BY DEF ReadInit, Init, FollowInv, StopOnlyStops
<1>2. [ServiceStep \/ ChildReads]_readVars => [Next]_vars
  BY DEF ServiceStep, ChildReads, readVars
<1>3. TypeOK /\ StopOnlyStops /\ FollowInv /\ [ServiceStep \/ ChildReads]_readVars => FollowInv'
  <2> SUFFICES ASSUME TypeOK, StopOnlyStops, FollowInv, ServiceStep, ~missed', runs' \notin {NoInode, ReadFile'}
               PROVE  (\E p \in Caller : Busy(p))'
    BY DEF FollowInv, ChildReads, readVars, vars, ReadFile, Busy
  <2>1. /\ Next /\ cmd' = cmd /\ cmd # NoSlot /\ runs' = runs /\ ~missed
        /\ \A p \in Caller : ~LeavesIt(p)
    BY DEF ServiceStep
  <2>2. \A p \in Caller, k \in Slot : ~Exec(p, k)
    BY <2>1 DEF Exec, Unused
  <2>3. CASE ReadFile' = ReadFile
    <3>1. PICK p \in Caller : Busy(p)
      BY <2>1, <2>3 DEF FollowInv
    <3>2. QED
      BY <2>1, <2>2, <3>1, BusyStep
  <2>4. CASE ReadFile' # ReadFile
    BY <2>1, <2>4, FileStep
  <2>5. QED
    BY <2>3, <2>4
<1>4. FollowInv => RunsCurrent
  BY DEF FollowInv, RunsCurrent, Busy
<1>5. ReadSpec => Spec
  BY <1>1, <1>2, PTL DEF ReadSpec, Spec
<1>6. QED
  BY <1>1, <1>2, <1>3, <1>4, <1>5, TypeCorrect, StopStep, PTL DEF ReadSpec

-----------------------------------------------------------------------------
\* Main only stops sing-box, and nobody else does.
MainStops ==
    /\ \A p \in Main : pc[p] # "idle" => op[p] = "stop" /\ pc[p] \in {"stop", "kill"}
    /\ \A p \in Caller \ Main : op[p] # "stop" /\ pc[p] # "stop"

\* Where the one caller beside main is, the two files and what it has read or is about
\* to write are whole: the temporary file once it is written; the file and a backup of
\* it, unless a rollback has left them empty.
FileWhole == data[link["file"]] \in Value \cup {Empty}

TmpWhole ==
    \A p \in Caller :
        /\ pc[p] = "write" => fd[p] = link["tmp"] /\ fd[p] # NoInode /\ data[fd[p]] = Empty
        /\ pc[p] \in {"old", "keep", "rename"} => link["tmp"] # NoInode /\ data[link["tmp"]] \in Value

BackupWhole ==
    /\ \A p \in Caller \ Main :
          /\ pc[p] \in {"open", "write"} => doc[p] \in Value
          /\ pc[p] \in {"start", "kill", "exec", "undo", "rewrite"} => doc[p] \in Value \cup {Empty}
    /\ \A p \in Caller : pc[p] = "rewrite" => fd[p] = link["file"] /\ data[fd[p]] = Empty

FilesApart == link["file"] # NoInode /\ link["tmp"] # link["file"]

WholeInv == MainStops /\ FileWhole /\ TmpWhole /\ BackupWhole /\ FilesApart

\* Writing a document over an empty file leaves exactly that document.
LEMMA WrittenExactly == ASSUME NEW v \in Value \cup {Empty} PROVE Overwrite(Empty, v) = {v}
<1>1. v # NoInode
  BY SingboxAssumption DEF Content
<1>2. QED
  BY <1>1 DEF Overwrite

\* Of the steps of a call, main takes those of Stop only.
LEMMA MainSteps == ASSUME MainStops, NEW p \in Main, Work(p) PROVE StopLock(p) \/ Kill(p)
  BY DEF MainStops, Work, TmpOpen, TmpWrite, TmpWriteFails, ReadOld, KeepOld, TmpRename, ReadBackup,
     StartLock, Exec, ExecFails, RollbackOpen, RollbackWrite, RollbackFails, Step

LEMMA MainStopsStep == ASSUME TypeOK, MainStops, [Next]_vars PROVE MainStops'
<1> USE SingboxAssumption DEF TypeOK, MainStops
<1>1. ASSUME NEW q \in Caller, NEW o \in CallOf(q), NEW v \in Document(o), Begin(q, o, v)
      PROVE  MainStops'
  <2>1. CASE q \in Main
    BY <1>1, <2>1 DEF Begin, Step, CallOf
  <2>2. CASE q \notin Main
    BY <1>1, <2>2 DEF Begin, Step, CallOf, AllOps
  <2>3. QED
    BY <2>1, <2>2
<1>2. ASSUME NEW k \in Slot, ChildStep(k) PROVE MainStops'
  BY <1>2 DEF ChildStep, ChildExits, ContextKills, WaitReturns, WaiterClears
<1>3. ASSUME NEW p \in Caller, Work(p) PROVE MainStops'
  <2>1. op' = op /\ \A q \in Caller \ {p} : pc'[q] = pc[q]
    BY <1>3, WorkAlone
  <2>2. CASE p \in Main
    <3>1. StopLock(p) \/ Kill(p)
      BY <1>3, <2>2, MainSteps
    <3>2. QED
      BY <2>1, <2>2, <3>1 DEF StopLock, Kill, Step
  <2>3. CASE p \notin Main
    <3>1. pc'[p] # "stop"
      BY <1>3, <2>3 DEF Work, TmpOpen, TmpWrite, TmpWriteFails, ReadOld, KeepOld, TmpRename, AfterError,
         ReadBackup, StartLock, StopLock, Kill, Exec, ExecFails, RollbackOpen, RollbackWrite, RollbackFails, Step
    <3>2. QED
      BY <2>1, <2>3, <3>1
  <2>4. QED
    BY <2>2, <2>3
<1>4. QED
  BY <1>1, <1>2, <1>3 DEF Next, vars

\* A step of the one caller beside main keeps the files and the backup whole.
LEMMA WholeStep ==
    ASSUME \A q, r \in Caller \ Main : q = r, TypeOK, WholeInv, [Next]_vars
    PROVE  WholeInv'
<1> USE SingboxAssumption DEF TypeOK, FilesOK, FileWhole, TmpWhole, BackupWhole, FilesApart
<1>0. MainStops /\ MainStops'
  BY MainStopsStep DEF WholeInv
<1> SUFFICES ASSUME FileWhole, TmpWhole, BackupWhole, FilesApart
             PROVE FileWhole' /\ TmpWhole' /\ BackupWhole' /\ FilesApart'
  BY <1>0 DEF WholeInv
<1>2. ASSUME NEW p \in Caller, NEW o \in CallOf(p), NEW v \in Document(o), Begin(p, o, v)
      PROVE  FileWhole' /\ TmpWhole' /\ BackupWhole' /\ FilesApart'
  <2>1. CASE o \in {"apply", "write", "handshake"}
    BY <1>2, <2>1 DEF Begin, Document, Step, service, children, config
  <2>2. CASE o \in {"restart", "stop"}
    BY <1>2, <2>2 DEF Begin, Step, service, children, config
  <2>3. QED
    BY <2>1, <2>2 DEF AllOps, CallOf
<1>3. ASSUME NEW k \in Slot, ChildStep(k)
      PROVE  FileWhole' /\ TmpWhole' /\ BackupWhole' /\ FilesApart'
  BY <1>3 DEF ChildStep, ChildExits, ContextKills, WaitReturns, WaiterClears, config
<1>4. ASSUME NEW p \in Main, Work(p)
      PROVE  FileWhole' /\ TmpWhole' /\ BackupWhole' /\ FilesApart'
  <2>1. StopLock(p) \/ Kill(p)
    BY <1>0, <1>4, MainSteps
  <2>2. QED
    BY <1>0, <2>1 DEF StopLock, Kill, MainStops, Step, config
<1>5. ASSUME NEW p \in Caller \ Main, Work(p)
      PROVE  FileWhole' /\ TmpWhole' /\ BackupWhole' /\ FilesApart'
  <2>0. \A q \in Caller \ {p} : pc[q] \in {"idle", "stop", "kill"} /\ pc'[q] = pc[q]
    BY <1>0, <1>5, WorkAlone DEF MainStops
  <2>1. CASE TmpOpen(p)
    BY <2>0, <2>1 DEF TmpOpen, Step, OpenTrunc, FreeInode, Name
  <2>2. CASE TmpWrite(p)
    <3>1. doc[p] \in Value /\ fd[p] \in Inode /\ data[fd[p]] = Empty /\ fd[p] = link["tmp"]
      BY <2>2 DEF TmpWrite, Step
    <3>2. Overwrite(data[fd[p]], doc[p]) = {doc[p]}
      BY <3>1, WrittenExactly
    <3>3. data' = [data EXCEPT ![fd[p]] = doc[p]] /\ link' = link
      BY <2>2, <3>2 DEF TmpWrite, WriteInode
    <3>4. QED
      BY <2>0, <2>2, <3>1, <3>3 DEF TmpWrite, Step, Name
  <2>3. CASE TmpWriteFails(p)
    BY <2>0, <2>3 DEF TmpWriteFails, AfterError, Step
  <2>4. CASE ReadOld(p) \/ KeepOld(p)
    BY <2>0, <2>4 DEF ReadOld, KeepOld, Step, config
  <2>5. CASE TmpRename(p)
    BY <2>0, <2>5 DEF TmpRename, RenameTmp, AfterError, Step, Name
  <2>6. CASE ReadBackup(p)
    BY <2>0, <2>6 DEF ReadBackup, ReadFile, Step, config
  <2>7. CASE StartLock(p) \/ StopLock(p) \/ ExecFails(p)
    BY <1>0, <2>0, <2>7 DEF StartLock, StopLock, ExecFails, MainStops, Step, config
  <2>8. CASE Kill(p)
    BY <1>0, <2>0, <2>8 DEF Kill, MainStops, Step, config
  <2>9. ASSUME NEW k \in Slot, Exec(p, k)
        PROVE  FileWhole' /\ TmpWhole' /\ BackupWhole' /\ FilesApart'
    BY <2>0, <2>9 DEF Exec, Step, config
  <2>10. CASE RollbackOpen(p)
    BY <2>0, <2>10 DEF RollbackOpen, OpenTrunc, Step, Name
  <2>11. CASE RollbackWrite(p)
    <3>1. /\ doc[p] \in Value \cup {Empty} /\ fd[p] \in Inode
          /\ data[fd[p]] = Empty /\ fd[p] = link["file"]
      BY <2>11 DEF RollbackWrite, Step, Name
    <3>2. Overwrite(data[fd[p]], doc[p]) = {doc[p]}
      BY <3>1, WrittenExactly
    <3>3. data' = [data EXCEPT ![fd[p]] = doc[p]] /\ link' = link
      BY <2>11, <3>2 DEF RollbackWrite, WriteInode
    <3>4. pc' = [pc EXCEPT ![p] = "idle"] /\ fd' = [fd EXCEPT ![p] = NoInode]
      BY <2>11 DEF RollbackWrite, Step
    <3>5. FileWhole' /\ FilesApart'
      <4>1. link'["file"] = fd[p] /\ data'[fd[p]] = doc[p]
        BY <3>1, <3>3
      <4>2. QED
        BY <3>1, <3>3, <4>1
    <3>6. TmpWhole' /\ BackupWhole'
      <4>1. \A q \in Caller : pc'[q] \in {"idle", "stop", "kill"}
        BY <2>0, <3>4
      <4>2. \A q \in Caller \ Main : pc'[q] = "idle"
        BY <1>5, <3>4
      <4>3. QED
        BY <4>1, <4>2
    <3>7. QED
      BY <3>5, <3>6
  <2>12. CASE RollbackFails(p)
    <3>1. pc' = [pc EXCEPT ![p] = "idle"] /\ UNCHANGED <<link, data>>
      BY <2>12 DEF RollbackFails, Step
    <3>2. \A q \in Caller : pc'[q] \in {"idle", "stop", "kill"}
      BY <2>0, <3>1
    <3>3. \A q \in Caller \ Main : pc'[q] = "idle"
      BY <1>5, <3>1
    <3>4. FileWhole' /\ FilesApart'
      BY <3>1
    <3>5. TmpWhole' /\ BackupWhole'
      BY <3>2, <3>3
    <3>6. QED
      BY <3>4, <3>5
  <2>13. QED
    BY <1>5, <2>1, <2>2, <2>3, <2>4, <2>5, <2>6, <2>7, <2>8, <2>9, <2>10, <2>11, <2>12 DEF Work
<1>6. CASE UNCHANGED vars
  BY <1>6 DEF vars
<1>7. QED
  BY <1>2, <1>3, <1>4, <1>5, <1>6 DEF Next

\* What a step does to the configuration file.
LEMMA FileChange ==
    ASSUME \A q, r \in Caller \ Main : q = r, TypeOK, WholeInv, [Next]_vars
    PROVE  ReadFile' \in Value \cup {ReadFile} \/ \E p \in Caller : pc'[p] = "rewrite"
<1> USE SingboxAssumption DEF TypeOK, FilesOK
<1>1. ASSUME NEW p \in Caller, Work(p)
      PROVE  ReadFile' \in Value \cup {ReadFile} \/ pc'[p] = "rewrite"
  <2>1. CASE TmpOpen(p)
    BY <2>1 DEF TmpOpen, OpenTrunc, FreeInode, WholeInv, FilesApart, ReadFile, Name
  <2>2. CASE TmpWrite(p)
    BY <2>2 DEF TmpWrite, Step, WriteInode, WholeInv, TmpWhole, FilesApart, ReadFile, Name
  <2>3. CASE TmpRename(p)
    BY <2>3 DEF TmpRename, RenameTmp, Step, WholeInv, TmpWhole, ReadFile, Name
  <2>4. CASE RollbackOpen(p)
    BY <2>4 DEF RollbackOpen, Step
  <2>5. CASE RollbackWrite(p)
    <3>1. /\ doc[p] \in Value \cup {Empty} /\ fd[p] \in Inode
          /\ data[fd[p]] = Empty /\ fd[p] = link["file"]
      BY <2>5 DEF RollbackWrite, Step, Name, WholeInv, MainStops, BackupWhole, FilesApart
    <3>2. Overwrite(data[fd[p]], doc[p]) = {doc[p]}
      BY <3>1, WrittenExactly
    <3>3. QED
      BY <2>5, <3>1, <3>2 DEF RollbackWrite, WriteInode, ReadFile
  <2>6. CASE TmpWriteFails(p) \/ ReadOld(p) \/ KeepOld(p) \/ ReadBackup(p) \/ StartLock(p) \/ StopLock(p)
    BY <2>6 DEF TmpWriteFails, ReadOld, KeepOld, ReadBackup, StartLock, StopLock, config, ReadFile
  <2>7. CASE Kill(p) \/ (\E k \in Slot : Exec(p, k)) \/ ExecFails(p) \/ RollbackFails(p)
    BY <2>7 DEF Kill, Exec, ExecFails, RollbackFails, config, ReadFile
  <2>8. QED
    BY <1>1, <2>1, <2>2, <2>3, <2>4, <2>5, <2>6, <2>7 DEF Work
<1>2. ASSUME NEW q \in Caller, NEW o \in CallOf(q), NEW v \in Document(o), Begin(q, o, v)
      PROVE  ReadFile' = ReadFile
  BY <1>2 DEF Begin, config, ReadFile
<1>3. ASSUME NEW k \in Slot, ChildStep(k) PROVE ReadFile' = ReadFile
  BY <1>3 DEF ChildStep, ChildExits, ContextKills, WaitReturns, WaiterClears, config, ReadFile
<1>4. CASE UNCHANGED vars
  BY <1>4 DEF vars, ReadFile
<1>5. QED
  BY <1>1, <1>2, <1>3, <1>4 DEF Next

\* singbox.go:143-171, 128-141: for one caller beside main, writes, starts and rollbacks
\* that fail included, whatever changes the configuration file leaves one complete
\* document in it, but for the truncation of a rollback.  With two, a file that one
\* renames may still be open in the other.
THEOREM ConfigIsWhole == (\A p, q \in Caller \ Main : p = q) => (Spec => ConfigWhole)
<1>1. SUFFICES ASSUME \A p, q \in Caller \ Main : p = q PROVE Spec => ConfigWhole
  OBVIOUS
<1>2. Init => WholeInv
  BY SingboxAssumption DEF Init, WholeInv, MainStops, FileWhole, TmpWhole, BackupWhole, FilesApart, Name
<1>3. TypeOK /\ WholeInv /\ [Next]_vars => WholeInv'
  BY <1>1, WholeStep
<1>4. TypeOK /\ WholeInv /\ [Next]_vars
      => [ReadFile' \in Value \cup {ReadFile} \/ \E p \in Caller : pc'[p] = "rewrite"]_vars
  BY <1>1, FileChange
<1>5. QED
  BY <1>2, <1>3, <1>4, TypeCorrect, PTL DEF Spec, ConfigWhole
=============================================================================
