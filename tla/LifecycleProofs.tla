--------------------------- MODULE LifecycleProofs ---------------------------
(***************************************************************************)
(* For any number of loops, handlers, commands, children and faults: the   *)
(* types, what a shutdown leaves behind, where zero settings come from,    *)
(* the service inside the process, and the order of its locks.             *)
(***************************************************************************)
EXTENDS Lifecycle, SingboxProofs

\* What the steps of a service do to the rest of it.
LEMMA LifeTypes == ASSUME LifeOK, [LifeNext]_lifeVars PROVE LifeOK'
<1> USE SettingsAssumption, LifecycleAssumption DEF LifeOK
<1>0. Main \subseteq Caller /\ Loop \subseteq Caller /\ Outside \subseteq Caller /\ Command \subseteq Process
  BY SingboxAssumption DEF Outside, Command
<1>1. ASSUME UNCHANGED vars PROVE TypeOK'
  BY <1>1, TypeStep
<1>2. ASSUME Run \/ Signal \/ Crash PROVE LifeOK'
  <2>1. TypeOK'
    <3>1. ASSUME NEW p \in Main, NEW o \in {"restart", "stop"}, Begin(p, o, NoInode) PROVE TypeOK'
      BY <1>0, <3>1, BeginTyped DEF AllOps
    <3>2. QED
      BY <1>1, <1>2, <3>1 DEF Run, Boot, LoadFailed, Booted, StartLoops, End, Greet, StopSingbox, Signal, Crash
  <2>2. SettingsOK'
    BY <1>2 DEF Run, Boot, LoadFailed, Booted, StartLoops, End, Greet, StopSingbox, Signal, Crash,
       Launch, Exit, LoadGoes, Fault, SettingsOK, settings
  <2>3. /\ life' \in {"down", "load", "booted", "greeting", "serving", "cancelled", "stopping", "ended"}
        /\ loop' \in [Loop -> {"none", "select", "busy", "stamp", "returned"}]
        /\ syncMu' = syncMu /\ starter' = starter
    BY <1>2 DEF Run, Boot, LoadFailed, Booted, StartLoops, End, Greet, StopSingbox, Signal, Crash, Phase
  <2>4. QED
    BY <2>1, <2>2, <2>3
<1>3. ASSUME NEW p \in Loop, LoopStep(p) PROVE LifeOK'
  <2>1. TypeOK'
    BY <1>0, <1>1, <1>3, BeginTyped DEF LoopStep, Tick, Synced, Stamp, LoopReturns, AllOps
  <2>2. SettingsOK'
    BY <1>3 DEF LoopStep, Tick, Synced, Stamp, LoopReturns, SettingsOK, settings
  <2>3. QED
    BY <1>3, <2>1, <2>2 DEF LoopStep, Tick, Synced, Stamp, LoopReturns, LoopGoes
<1>4. ASSUME NEW p \in Outside, Request(p) \/ Status(p) \/ StatusDone(p) PROVE LifeOK'
  <2>1. TypeOK'
    BY <1>0, <1>1, <1>4, BeginTyped DEF Request, Status, StatusDone, AllOps
  <2>2. SettingsOK'
    BY <1>4 DEF Request, Status, StatusDone, SettingsOK, settings
  <2>3. QED
    BY <1>4, <2>1, <2>2 DEF Request, Status, StatusDone, daemon
<1>5. ASSUME NEW p \in Caller, Call(p) PROVE LifeOK'
  <2>1. TypeOK'
    BY <1>5, TypeStep DEF Call, Next
  <2>2. SettingsOK'
    BY <1>5 DEF Call, SettingsOK, settings
  <2>3. QED
    BY <1>5, <2>1, <2>2 DEF Call, daemon
<1>6. ASSUME NEW k \in Slot, OfChild(k) PROVE LifeOK'
  <2>1. TypeOK'
    BY <1>6, TypeStep DEF OfChild, Next
  <2>2. QED
    BY <1>6, <2>1 DEF OfChild, SettingsOK, settings, daemon
<1>7. ASSUME NEW q \in Process, LoadStep(q) \/ CommandBegins(q) \/ CommandEnds(q) PROVE LifeOK'
  <2>1. TypeOK'
    BY <1>1, <1>7 DEF LoadStep, CommandBegins, CommandEnds
  <2>2. SettingsOK'
    BY <1>7 DEF LoadStep, CommandBegins, CommandEnds, Load, ReadInConfig, UnmarshalFails, ReadFails, OpenDefaults,
       WriteDefaults, WriteDefaultsFails, Launch, Exit, LoadGoes, Fault, SettingsOK, Written, SetsNothing
  <2>3. QED
    BY <1>7, <2>1, <2>2 DEF LoadStep, CommandBegins, CommandEnds, daemon
<1>8. CASE UNCHANGED lifeVars
  BY <1>1, <1>8 DEF lifeVars, daemon, settings, SettingsOK
<1>9. QED
  BY <1>0, <1>2, <1>3, <1>4, <1>5, <1>6, <1>7, <1>8 DEF LifeNext

\* The variables of a process, of its service and of its settings keep their types
\* (run.go:24-63).
THEOREM LifeTyped == LifeSpec => []LifeOK
<1>1. LifeInit => LifeOK
  <2>1. Init => TypeOK
    BY TypeInit
  <2>2. QED
    BY <2>1, SettingsAssumption DEF LifeInit, LifeOK, SettingsInit, SettingsOK, Written, SetsNothing
<1>2. QED
  BY <1>1, LifeTypes, PTL DEF LifeSpec
-----------------------------------------------------------------------------
\* Loops call the service only while they are busy, main only in Start and Stop; once
\* the wait group is empty and main's Stop is over, a child that the service has was
\* started by somebody else.
ShutInv ==
    /\ \A p \in Loop : loop[p] # "busy" => pc[p] = "idle"
    /\ life \in {"down", "load", "booted", "greeting"} => \A p \in Loop : loop[p] = "none"
    /\ life \in {"stopping", "ended"} => \A p \in Loop : loop[p] = "returned"
    /\ \A p \in Main : pc[p] # "idle" =>
          life = "greeting" \/ (life = "stopping" /\ pc[p] \in {"stop", "kill"} /\ op[p] = "stop")
    /\ life \in {"stopping", "ended"} /\ (\A p \in Main : pc[p] = "idle") /\ cmd # NoSlot
          => starter \in Outside

LEMMA ShutStep == ASSUME LifeOK, ShutInv, [LifeNext]_lifeVars PROVE ShutInv'
<1> USE LifecycleAssumption DEF LifeOK, TypeOK, ShutInv
<1>0. Main \subseteq Caller /\ Loop \subseteq Caller /\ Loop \cap Main = {}
      /\ Outside \cap Loop = {} /\ Outside \cap Main = {}
  BY SingboxAssumption DEF Outside
<1>1. ASSUME Boot \/ LoadFailed \/ Booted \/ StartLoops \/ End \/ Signal \/ Crash PROVE ShutInv'
  <2>1. UNCHANGED vars /\ starter' = starter
    BY <1>1 DEF Boot, LoadFailed, Booted, StartLoops, End, Signal, Crash
  <2>2. CASE StartLoops
    BY <1>0, <2>1, <2>2 DEF StartLoops, Phase, vars
  <2>3. CASE End
    BY <1>0, <2>1, <2>3 DEF End, Phase, vars
  <2>4. CASE Boot \/ LoadFailed \/ Booted \/ Signal \/ Crash
    BY <1>0, <2>1, <2>4 DEF Boot, LoadFailed, Booted, Signal, Crash, Phase, vars
  <2>5. QED
    BY <1>1, <2>2, <2>3, <2>4
<1>2. ASSUME NEW p \in Main, Greet(p) PROVE ShutInv'
  BY <1>0, <1>2 DEF Greet, Phase, Begin, Step, service
<1>3. ASSUME NEW p \in Main, StopSingbox(p) PROVE ShutInv'
  BY <1>0, <1>3 DEF StopSingbox, Phase, Begin, Step, service
<1>4. ASSUME NEW p \in Loop, LoopStep(p) PROVE ShutInv'
  <2>1. CASE Tick(p)
    <3>1. life \notin {"stopping", "ended"}
      BY <2>1 DEF Tick, LoopGoes, Up
    <3>2. pc' = pc \/ Begin(p, "restart", NoInode)
      BY <2>1 DEF Tick, vars
    <3>3. QED
      BY <1>0, <2>1, <3>1, <3>2 DEF Tick, LoopGoes, Begin, Step, vars
  <2>2. CASE Synced(p) \/ Stamp(p) \/ LoopReturns(p)
    BY <1>0, <2>2 DEF Synced, Stamp, LoopReturns, LoopGoes, vars
  <2>3. QED
    BY <1>4, <2>1, <2>2 DEF LoopStep
<1>5. ASSUME NEW p \in Outside, Request(p) \/ Status(p) \/ StatusDone(p) PROVE ShutInv'
  <2>1. CASE Request(p)
    BY <1>0, <2>1 DEF Request, Begin, Step, daemon, service
  <2>2. CASE Status(p) \/ StatusDone(p)
    BY <2>2 DEF Status, StatusDone, vars
  <2>3. QED
    BY <1>5, <2>1, <2>2
<1>6. ASSUME NEW p \in Caller, Call(p) PROVE ShutInv'
  <2>1. op' = op /\ pc[p] # "idle" /\ \A q \in Caller \ {p} : pc'[q] = pc[q]
    BY <1>6, WorkAlone DEF Call
  <2>2. life' = life /\ loop' = loop
    BY <1>6 DEF Call, daemon
  <2>3. CASE p \in Loop
    BY <1>0, <2>1, <2>2, <2>3
  <2>4. CASE p \in Main
    <3>1. CASE life = "greeting"
      BY <1>0, <2>1, <2>2, <2>4, <3>1
    <3>2. CASE life # "greeting"
      <4>1. life = "stopping" /\ pc[p] \in {"stop", "kill"} /\ op[p] = "stop"
        BY <2>1, <2>4, <3>2
      <4>2. StopLock(p) \/ Kill(p)
        BY <1>6, <4>1 DEF Call, Work, TmpOpen, TmpWrite, TmpWriteFails, ReadOld, KeepOld, TmpRename,
           ReadBackup, StartLock, Exec, ExecFails, RollbackOpen, RollbackWrite, RollbackFails, Step
      <4>3. pc'[p] = "kill" \/ (pc'[p] = "idle" /\ cmd' = NoSlot)
        BY <1>0, <2>4, <4>1, <4>2 DEF StopLock, Kill, Step
      <4>4. QED
        BY <1>0, <2>1, <2>2, <2>4, <4>1, <4>3
    <3>3. QED
      BY <3>1, <3>2
  <2>5. CASE p \in Outside
    BY <1>0, <1>6, <2>1, <2>2, <2>5 DEF Call
  <2>6. QED
    BY <2>3, <2>4, <2>5 DEF Outside
<1>7. ASSUME NEW k \in Slot, OfChild(k) PROVE ShutInv'
  BY <1>7 DEF OfChild, ChildStep, ChildExits, ContextKills, WaitReturns, WaiterClears, daemon, service
<1>8. ASSUME NEW q \in Process, LoadStep(q) \/ CommandBegins(q) \/ CommandEnds(q) PROVE ShutInv'
  BY <1>8 DEF LoadStep, CommandBegins, CommandEnds, daemon, vars
<1>9. CASE UNCHANGED lifeVars
  BY <1>9 DEF lifeVars, daemon, vars
<1>10. QED
  BY <1>1, <1>2, <1>3, <1>4, <1>5, <1>6, <1>7, <1>8, <1>9 DEF LifeNext, Run, Command

\* run.go:57-63: however many loops and requests there are, the daemon's own loops and
\* its start leave no sing-box to its service when the process has shut down.
THEOREM NothingOfItsOwn == LifeSpec => []LeftBehind
<1>1. LifeInit => ShutInv
  BY SingboxAssumption, LifecycleAssumption DEF LifeInit, Init, ShutInv
<1>2. LifeOK /\ ShutInv => LeftBehind
  BY DEF ShutInv, LeftBehind, LifeOK, TypeOK
<1>3. QED
  BY <1>1, <1>2, ShutStep, LifeTyped, PTL DEF LifeSpec

-----------------------------------------------------------------------------
\* A blank file is one that is about to be written, or the work of a fault, while
\* somebody still loads.
BlankInv ==
    /\ life \notin {"down", "load"} => \A q \in Process : load[q] \in {"ok", "over"}
    /\ yaml = "blank" /\ life \in {"down", "load"} => faults > 0 \/ \E q \in Process : load[q] = "write"

LEMMA BlankStep == ASSUME LifeOK, BlankInv, [LifeNext]_lifeVars PROVE BlankInv'
<1> USE LifecycleAssumption, SettingsAssumption DEF LifeOK, SettingsOK, BlankInv
<1>1. ASSUME Boot \/ LoadFailed \/ Booted \/ StartLoops \/ End \/ Signal \/ Crash PROVE BlankInv'
  <2>1. CASE Boot
    BY <2>1 DEF Boot, Launch, LoadGoes, Phase
  <2>2. CASE LoadFailed
    BY <2>2 DEF LoadFailed, Exit, Phase
  <2>3. CASE Booted
    BY <2>3 DEF Booted, Phase
  <2>4. CASE Crash
    BY <2>4 DEF Crash, Exit, Fault, Phase
  <2>5. CASE StartLoops \/ End \/ Signal
    BY <2>5 DEF StartLoops, End, Signal, Phase, settings
  <2>6. QED
    BY <1>1, <2>1, <2>2, <2>3, <2>4, <2>5
<1>2. ASSUME NEW p \in Main, Greet(p) \/ StopSingbox(p) PROVE BlankInv'
  BY <1>2 DEF Greet, StopSingbox, Phase, settings
<1>3. ASSUME NEW p \in Loop, LoopStep(p) PROVE BlankInv'
  BY <1>3 DEF LoopStep, Tick, Synced, Stamp, LoopReturns, settings
<1>4. ASSUME NEW p \in Outside, Request(p) \/ Status(p) \/ StatusDone(p) PROVE BlankInv'
  BY <1>4 DEF Request, Status, StatusDone, settings, daemon
<1>5. ASSUME NEW p \in Caller, Call(p) PROVE BlankInv'
  BY <1>5 DEF Call, settings, daemon
<1>6. ASSUME NEW k \in Slot, OfChild(k) PROVE BlankInv'
  BY <1>6 DEF OfChild, settings, daemon
<1>7. ASSUME NEW q \in Process, LoadStep(q) PROVE BlankInv'
  <2>1. life' = life
    BY <1>7 DEF LoadStep, daemon
  <2>2. CASE ReadInConfig(q) \/ UnmarshalFails(q) \/ ReadFails(q)
    BY <2>1, <2>2 DEF ReadInConfig, UnmarshalFails, ReadFails, LoadGoes
  <2>3. CASE OpenDefaults(q)
    BY <2>1, <2>3 DEF OpenDefaults, LoadGoes
  <2>4. CASE WriteDefaults(q) \/ WriteDefaultsFails(q)
    BY <2>1, <2>4 DEF WriteDefaults, WriteDefaultsFails, LoadGoes, Fault
  <2>5. QED
    BY <1>7, <2>2, <2>3, <2>4 DEF LoadStep, Load
<1>8. ASSUME NEW q \in Process, CommandBegins(q) \/ CommandEnds(q) PROVE BlankInv'
  BY <1>8 DEF CommandBegins, CommandEnds, Launch, Exit, LoadGoes, daemon
<1>9. CASE UNCHANGED lifeVars
  BY <1>9 DEF lifeVars, settings, daemon
<1>10. QED
  BY <1>1, <1>2, <1>3, <1>4, <1>5, <1>6, <1>7, <1>8, <1>9 DEF LifeNext, Run, Command

\* config.go:46-94: however many processes load the settings, one takes them for zero
\* only if the file was left so, after a fault, or while another one is about to write
\* the defaults.
THEOREM ZeroExplained == LifeSpec => ZeroOnlyTorn
<1>1. LifeInit => BlankInv
  BY DEF LifeInit, SettingsInit, BlankInv
<1>2. ASSUME LifeOK, BlankInv, [LifeNext]_lifeVars,
             NEW q \in Process, cfg[q] # "zero", cfg'[q] = "zero"
      PROVE  yaml = "unset" \/ faults > 0 \/ \E r \in Process \ {q} : load[r] = "write"
  <2>1. \E r \in Process : ReadInConfig(r)
    <3>1. ASSUME NEW r \in Process, LoadStep(r) PROVE ReadInConfig(r)
      BY <1>2, <3>1 DEF LoadStep, Load, UnmarshalFails, ReadFails, OpenDefaults, WriteDefaults, WriteDefaultsFails, LifeOK, SettingsOK
    <3>2. ASSUME NEW r \in Process, CommandBegins(r) \/ CommandEnds(r) PROVE FALSE
      BY <1>2, <3>2 DEF CommandBegins, CommandEnds, Launch, Exit, LifeOK, SettingsOK
    <3>3. ASSUME Boot \/ LoadFailed \/ Booted \/ StartLoops \/ End \/ Signal \/ Crash PROVE FALSE
      BY <1>2, <3>3 DEF Boot, LoadFailed, Booted, StartLoops, End, Signal, Crash, Launch, Exit, settings,
         LifeOK, SettingsOK
    <3>4. CASE UNCHANGED settings
      BY <1>2, <3>4 DEF settings
    <3>5. QED
      BY <1>2, <3>1, <3>2, <3>3, <3>4 DEF LifeNext, Run, Command, Greet, StopSingbox, LoopStep, Tick, Synced,
         Stamp, LoopReturns, Request, Status, StatusDone, Call, OfChild, lifeVars
  <2>2. load[q] = "read" /\ yaml \in {"unset", "blank"}
    BY <1>2, <2>1 DEF ReadInConfig, LoadGoes, Written, SetsNothing, LifeOK, SettingsOK
  <2>3. life \in {"down", "load"}
    BY <1>2, <2>2 DEF BlankInv
  <2>4. QED
    BY <1>2, <2>2, <2>3 DEF BlankInv
<1>3. LifeOK /\ BlankInv /\ [LifeNext]_lifeVars
      => [\A q \in Process : cfg[q] # "zero" /\ cfg'[q] = "zero"
            => yaml = "unset" \/ faults > 0 \/ \E r \in Process \ {q} : load[r] = "write"]_lifeVars
  BY <1>2
<1>4. QED
  BY <1>1, <1>3, BlankStep, LifeTyped, PTL DEF LifeSpec, ZeroOnlyTorn

-----------------------------------------------------------------------------
\* What the steps of the process are for its service: a step of the service, or main,
\* a loop or a request beginning a call, main's Restart of Daemon.Start included.
LEMMA ServiceView ==
    ASSUME [LifeNext]_lifeVars
    PROVE  \/ [Next]_vars
           \/ \E p \in Caller, o \in {"restart", "stop"} : Begin(p, o, NoInode)
<1> USE SingboxAssumption, LifecycleAssumption
<1>1. ASSUME NEW p \in Main, Greet(p) \/ StopSingbox(p)
      PROVE  \E o \in {"restart", "stop"} : Begin(p, o, NoInode)
  BY <1>1 DEF Greet, StopSingbox
<1>2. CASE Boot \/ LoadFailed \/ Booted \/ StartLoops \/ End \/ Signal \/ Crash
  BY <1>2 DEF Boot, LoadFailed, Booted, StartLoops, End, Signal, Crash
<1>3. ASSUME NEW p \in Loop, LoopStep(p) PROVE UNCHANGED vars \/ Begin(p, "restart", NoInode)
  BY <1>3 DEF LoopStep, Tick, Synced, Stamp, LoopReturns
<1>4. ASSUME NEW p \in Outside, Request(p) \/ Status(p) \/ StatusDone(p)
      PROVE  UNCHANGED vars \/ Begin(p, "restart", NoInode)
  BY <1>4 DEF Request, Status, StatusDone
<1>5. ASSUME NEW p \in Caller, Call(p) PROVE Next
  BY <1>5 DEF Call, Next
<1>6. ASSUME NEW k \in Slot, OfChild(k) PROVE Next
  BY <1>6 DEF OfChild, Next
<1>7. ASSUME NEW q \in Process, LoadStep(q) \/ CommandBegins(q) \/ CommandEnds(q) PROVE UNCHANGED vars
  BY <1>7 DEF LoadStep, CommandBegins, CommandEnds
<1>8. CASE UNCHANGED lifeVars
  BY <1>8 DEF lifeVars
<1>9. QED
  BY <1>1, <1>2, <1>3, <1>4, <1>5, <1>6, <1>7, <1>8 DEF LifeNext, Run, Outside, Command

ServiceInv == RunningIsWatched /\ LockInv /\ HolderInv /\ NoneLeftAlone

LEMMA ServiceKept == LifeSpec => []ServiceInv
<1>1. LifeInit => ServiceInv
  BY ServiceInit DEF LifeInit, ServiceInv
<1>2. LifeOK /\ ServiceInv /\ [LifeNext]_lifeVars => ServiceInv'
  <2> SUFFICES ASSUME TypeOK, ServiceInv, [LifeNext]_lifeVars PROVE ServiceInv'
    BY DEF LifeOK
  <2>1. CASE [Next]_vars
    BY <2>1, RunningStep, LockStep, HolderStep, NoneLeftStep DEF ServiceInv
  <2>2. ASSUME NEW p \in Caller, NEW o \in {"restart", "stop"}, Begin(p, o, NoInode)
        PROVE  ServiceInv'
    <3>1. o \in AllOps \cup {"stop"}
      BY DEF AllOps
    <3>2. NoneLeftAlone'
      BY <2>2 DEF Begin, children, NoneLeftAlone, ServiceInv
    <3>3. QED
      BY <2>2, <3>1, <3>2, BeginRuns, BeginLocks, BeginHolds DEF ServiceInv
  <2>3. QED
    BY <2>1, <2>2, ServiceView
<1>3. QED
  BY <1>1, <1>2, LifeTyped, PTL DEF LifeSpec

\* singbox.go:63-119 in the whole process, from its boot to its end, with main's own
\* Restart and Stop among the callers: s.running is true only while some goroutine will
\* still clear it, the child that stopLocked kills after its sleep is there, whoever
\* holds s.mu can go on, and no child is left to itself.
THEOREM ServiceInProcess ==
    LifeSpec => [](RunningIsWatched /\ KillHasChild /\ HolderGoesOn /\ NoneLeftAlone)
<1>1. LifeOK /\ ServiceInv => RunningIsWatched /\ KillHasChild /\ HolderGoesOn /\ NoneLeftAlone
  BY DEF LifeOK, ServiceInv, LockInv, HolderInv, HolderGoesOn, TypeOK, AllOps
<1>2. QED
  BY <1>1, ServiceKept, LifeTyped, PTL

-----------------------------------------------------------------------------
\* Only goroutines of the API hold d.syncMu, and none of them begins a call meanwhile.
LEMMA OrderStep == ASSUME LifeOK, LockInv, LocksInOrder, HolderInv, [LifeNext]_lifeVars PROVE LocksInOrder'
<1> USE SingboxAssumption, LifecycleAssumption DEF LifeOK, TypeOK, LocksInOrder
<1>0. Outside \subseteq Caller /\ Outside \cap Loop = {} /\ Outside \cap Main = {}
  BY DEF Outside
<1>1. ASSUME NEW p \in Main, Greet(p) \/ StopSingbox(p) PROVE LocksInOrder'
  BY <1>0, <1>1 DEF Greet, StopSingbox, Begin, Step, service
<1>2. CASE Boot \/ LoadFailed \/ Booted \/ StartLoops \/ End \/ Signal \/ Crash
  BY <1>2 DEF Boot, LoadFailed, Booted, StartLoops, End, Signal, Crash, vars
<1>3. ASSUME NEW p \in Loop, LoopStep(p) PROVE LocksInOrder'
  BY <1>0, <1>3 DEF LoopStep, Tick, Synced, Stamp, LoopReturns, Begin, Step, service, vars
<1>4. ASSUME NEW p \in Outside, Request(p) PROVE LocksInOrder'
  BY <1>0, <1>4 DEF Request, Begin, Step, service, daemon
<1>5. ASSUME NEW p \in Outside, Status(p) \/ StatusDone(p) PROVE LocksInOrder'
  <2>1. pc[p] = "idle" => mu # p
    BY <1>0 DEF HolderInv
  <2>2. QED
    BY <1>5, <2>1 DEF Status, StatusDone, vars
<1>6. ASSUME NEW p \in Caller, Call(p) PROVE LocksInOrder'
  <2>1. op' = op /\ pc[p] # "idle" /\ \A q \in Caller \ {p} : pc'[q] = pc[q]
    BY <1>6, WorkAlone DEF Call
  <2>2. mu' \in {mu, p, NoCaller}
    BY <1>6 DEF Call, Work, TmpOpen, TmpWrite, TmpWriteFails, ReadOld, KeepOld, TmpRename, ReadBackup,
       StartLock, StopLock, Kill, Exec, ExecFails, RollbackOpen, RollbackWrite, RollbackFails, service
  <2>3. QED
    BY <1>0, <1>6, <2>1, <2>2 DEF Call, daemon
<1>7. ASSUME NEW k \in Slot, OfChild(k) PROVE LocksInOrder'
  BY <1>7 DEF OfChild, ChildStep, ChildExits, ContextKills, WaitReturns, WaiterClears, service, daemon
<1>8. ASSUME NEW q \in Process, LoadStep(q) \/ CommandBegins(q) \/ CommandEnds(q) PROVE LocksInOrder'
  BY <1>8 DEF LoadStep, CommandBegins, CommandEnds, vars, daemon
<1>9. CASE UNCHANGED lifeVars
  BY <1>9 DEF lifeVars, vars, daemon
<1>10. QED
  BY <1>1, <1>2, <1>3, <1>4, <1>5, <1>6, <1>7, <1>8, <1>9 DEF LifeNext, Run, Command

\* daemon.go:87-95, 243-247: however many loops and requests there are, who holds
\* d.syncMu is in no call of the service, so that s.mu never waits for d.syncMu.
THEOREM LocksOrdered == LifeSpec => []LocksInOrder
<1>1. LifeInit => LocksInOrder
  BY DEF LifeInit, LocksInOrder
<1>2. LifeOK /\ ServiceInv /\ LocksInOrder /\ [LifeNext]_lifeVars => LocksInOrder'
  BY OrderStep DEF ServiceInv
<1>3. QED
  BY <1>1, <1>2, ServiceKept, LifeTyped, PTL DEF LifeSpec
=============================================================================
