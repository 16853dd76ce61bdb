------------------------------ MODULE Lifecycle ------------------------------
(***************************************************************************)
(* cmd/run.go and Start and Stop of service/daemon.go: a process of        *)
(* pupmsub from the loading of its settings (module Settings) to its end,  *)
(* with everybody who calls SingboxService (module Singbox) meanwhile.     *)
(* The loops are in the daemon's wait group; the handlers of the API and   *)
(* the ForceSync goroutines are not, and go on until the process ends.     *)
(* Beside the daemon, commands load the settings and start a sing-box.     *)
(***************************************************************************)
EXTENDS Singbox, Settings

CONSTANTS
    Loop,           \* syncLoop, reportLoop, statusLoop
    Daemon          \* the process of "pupmsub run"

\* The others are processes of "pupmsub restart".
Command == Process \ {Daemon}

Outside == Caller \ (Loop \cup Main)

ASSUME LifecycleAssumption ==
    /\ Loop \subseteq Caller /\ Loop \cap Main = {} /\ Main # {}
    /\ Daemon \in Process /\ Op = {"restart"}

VARIABLES
    life,       \* where runDaemon is
    loop,       \* where each loop is
    syncMu,     \* who holds d.syncMu across a step
    starter     \* who started s.cmd's child

daemon   == <<life, loop, syncMu>>
lifeVars == <<vars, settings, daemon, starter>>

\* The process serves: its goroutines run.
Up == life \in {"booted", "greeting", "serving", "cancelled", "stopping"}

LifeInit ==
    /\ Init /\ SettingsInit
    /\ life = "down"
    /\ loop = [p \in Loop |-> "none"]
    /\ syncMu = NoCaller
    /\ starter = NoCaller

Phase(from, to) == life = from /\ life' = to

LoopGoes(p, from, to) == p \in Loop /\ loop[p] = from /\ loop' = [loop EXCEPT ![p] = to]

-----------------------------------------------------------------------------
\* systemd starts the daemon, and starts it again after an exit with an error.
Boot ==
    /\ Phase("down", "load")
    /\ Launch(Daemon)
    /\ UNCHANGED <<vars, loop, syncMu, starter>>

LoadFailed ==
    /\ Phase("load", "down")
    /\ load[Daemon] = "failed" /\ Exit(Daemon, "down")
    /\ UNCHANGED <<vars, loop, syncMu, starter, faults>>

\* The stores, sing-box and the daemon are initialised, and the API served.  Commands
\* and faults of the load are over (bound: later ones change nothing that is read).
Booted ==
    /\ Phase("load", "booted")
    /\ load[Daemon] = "ok" /\ \A q \in Command : load[q] \in {"down", "over"}
    /\ load' = [q \in Process |-> IF q = Daemon THEN "ok" ELSE "over"]
    /\ faults' = 0
    /\ UNCHANGED <<vars, yaml, cfg, loop, syncMu, starter>>

\* Daemon.Start: a handshake that succeeds ends with a Restart ...
Greet(p) ==
    /\ cfg[Daemon] # "zero"
    /\ Phase("booted", "greeting")
    /\ Begin(p, "restart", NoInode)
    /\ UNCHANGED <<settings, loop, syncMu, starter>>

\* ... then the loops are started, and only now signals are listened to.
StartLoops ==
    /\ \/ Phase("booted", "serving")
       \/ Phase("greeting", "serving") /\ \A p \in Main : pc[p] = "idle"
    /\ loop' = [p \in Loop |-> "select"]
    /\ UNCHANGED <<vars, settings, syncMu, starter>>

\* SIGINT or SIGTERM: the context of the loops is cancelled, and Stop waits.
Signal ==
    /\ Phase("serving", "cancelled")
    /\ UNCHANGED <<vars, settings, loop, syncMu, starter>>

\* Mutant of StopSingbox: Stop does not wait for the wait group.
StopSingbox_AtOnce(p) ==
    /\ Phase("cancelled", "stopping")
    /\ Begin(p, "stop", NoInode)
    /\ UNCHANGED <<settings, loop, syncMu, starter>>

\* The wait group is down to zero, Daemon.Stop returns, sing-box is stopped.
StopSingbox(p) ==
    /\ Phase("cancelled", "stopping")
    /\ \A q \in Loop : loop[q] = "returned"
    /\ Begin(p, "stop", NoInode)
    /\ UNCHANGED <<settings, loop, syncMu, starter>>

\* runDaemon returns and the process ends, whatever its other goroutines do.
End ==
    /\ Phase("stopping", "ended")
    /\ \A p \in Main : pc[p] = "idle"
    /\ UNCHANGED <<vars, settings, loop, syncMu, starter>>

\* The process dies while it loads its settings, and is started again.
Crash ==
    /\ Phase("load", "down")
    /\ Fault /\ Exit(Daemon, "down")
    /\ UNCHANGED <<vars, loop, syncMu, starter>>

-----------------------------------------------------------------------------
\* A tick: a handshake or a sync restarts sing-box, a report only notes its time
\* (one without effect is a step that changes nothing).
Tick(p) ==
    /\ Up
    /\ \/ LoopGoes(p, "select", "busy") /\ cfg[Daemon] # "zero" /\ Begin(p, "restart", NoInode)
       \/ LoopGoes(p, "select", "stamp") /\ UNCHANGED vars
    /\ UNCHANGED <<settings, life, syncMu, starter>>

\* A handshake is then done, a sync notes its time too.
Synced(p) ==
    /\ Up
    /\ LoopGoes(p, "busy", "select") \/ LoopGoes(p, "busy", "stamp")
    /\ pc[p] = "idle"
    /\ UNCHANGED <<vars, settings, life, syncMu, starter>>

Stamp(p) ==
    /\ Up
    /\ LoopGoes(p, "stamp", "select")
    /\ syncMu = NoCaller
    /\ UNCHANGED <<vars, settings, life, syncMu, starter>>

\* Between a tick and the end of the context, select chooses at random.
LoopReturns(p) ==
    /\ life = "cancelled"
    /\ LoopGoes(p, "select", "returned")
    /\ UNCHANGED <<vars, settings, life, syncMu, starter>>

-----------------------------------------------------------------------------
\* The API lets nobody in while there is a user name and a password: what
\* handleLogin signs is not what validToken compares (server.go:53-55, 177).
Admitted == Up /\ cfg[Daemon] \in {"open", "zero"}

\* Mutant of Request: the restart is made with d.syncMu held.
Request_Locked(p) ==
    /\ Admitted /\ cfg[Daemon] # "zero"
    /\ p \in Outside
    /\ syncMu = NoCaller /\ syncMu' = p
    /\ Begin(p, "restart", NoInode)
    /\ UNCHANGED <<settings, life, loop, starter>>

\* A handler restarts sing-box, or a ForceSync does; without a binary nothing starts.
Request(p) ==
    /\ Admitted /\ cfg[Daemon] # "zero"
    /\ p \in Outside /\ syncMu # p
    /\ Begin(p, "restart", NoInode)
    /\ UNCHANGED <<settings, daemon, starter>>

\* handleStatus: GetStatus holds d.syncMu while it asks sing-box ...
Status(p) ==
    /\ Admitted
    /\ p \in Outside /\ pc[p] = "idle"
    /\ syncMu = NoCaller /\ syncMu' = p
    /\ UNCHANGED <<vars, settings, life, loop, starter>>

\* Mutant of StatusDone: a return without the unlock.
StatusDone_KeepsLock(p) ==
    /\ Up
    /\ syncMu = p /\ mu = NoCaller
    /\ UNCHANGED <<vars, settings, life, loop, syncMu, starter>>

\* ... which takes s.mu.
StatusDone(p) ==
    /\ Up
    /\ syncMu = p /\ mu = NoCaller
    /\ syncMu' = NoCaller
    /\ UNCHANGED <<vars, settings, life, loop, starter>>

\* A step of a call of SingboxService.
Call(p) ==
    /\ Up
    /\ Work(p)
    /\ starter' = IF cmd' \in {cmd, NoSlot} THEN starter ELSE p
    /\ UNCHANGED <<settings, daemon>>

\* A step for a child of the daemon's.
OfChild(k) ==
    /\ Up
    /\ ChildStep(k)
    /\ UNCHANGED <<settings, daemon, starter>>

-----------------------------------------------------------------------------
\* "pupmsub restart" loads the settings beside the daemon (bound: once).
CommandBegins(q) ==
    /\ q \in Command
    /\ Launch(q)
    /\ UNCHANGED <<vars, daemon, starter>>

\* It fails, or starts a sing-box: its SingboxService knows no child and kills none,
\* and the daemon's knows nothing of the new one.
CommandEnds(q) ==
    /\ q \in Command /\ load[q] \in {"ok", "failed"} /\ Exit(q, "over")
    /\ UNCHANGED <<vars, daemon, starter, faults>>

LoadStep(q) == Load(q) /\ UNCHANGED <<vars, daemon, starter>>

-----------------------------------------------------------------------------
Run == Boot \/ LoadFailed \/ Booted \/ StartLoops \/ End \/ \E p \in Main : Greet(p) \/ StopSingbox(p)

LoopStep(p) == Tick(p) \/ Synced(p) \/ Stamp(p) \/ LoopReturns(p)

LifeNext ==
    \/ Run \/ Signal \/ Crash
    \/ \E p \in Loop : LoopStep(p)
    \/ \E p \in Outside : Request(p) \/ Status(p) \/ StatusDone(p)
    \/ \E p \in Caller : Call(p)
    \/ \E k \in Slot : OfChild(k)
    \/ \E q \in Process : LoadStep(q)
    \/ \E q \in Command : CommandBegins(q) \/ CommandEnds(q)

LifeSpec == LifeInit /\ [][LifeNext]_lifeVars

\* main goes on and systemd restarts it; s.mu and d.syncMu are handed over in turn;
\* a select that finds both a tick and the end of its context does not choose the
\* tick for ever; a killed child ends.
FairLifeSpec ==
    /\ LifeSpec
    /\ WF_lifeVars(Run)
    /\ \A q \in Process : WF_lifeVars(LoadStep(q) \/ CommandEnds(q))
    /\ \A p \in Caller : SF_lifeVars(Call(p))
    /\ \A p \in Loop : WF_lifeVars(Synced(p)) /\ SF_lifeVars(Stamp(p)) /\ SF_lifeVars(LoopReturns(p))
    /\ \A p \in Outside : SF_lifeVars(StatusDone(p))
    /\ \A k \in Slot :
          /\ WF_lifeVars(OfChild(k) /\ (child[k] = "alive" => child'[k] # "zombie"))
          /\ SF_lifeVars(OfChild(k) /\ WaiterClears(k))

-----------------------------------------------------------------------------
LifeOK ==
    /\ TypeOK /\ SettingsOK
    /\ life \in {"down", "load", "booted", "greeting", "serving", "cancelled", "stopping", "ended"}
    /\ loop \in [Loop -> {"none", "select", "busy", "stamp", "returned"}]
    /\ syncMu \in Outside \cup {NoCaller}
    /\ starter \in Caller \cup {NoCaller}

\* After a shutdown no sing-box of the daemon's own is left: what lives and is
\* still the service's was started by a handler or a ForceSync, which Stop does not
\* wait for; the loops and main itself leave none (run.go:60-62, daemon.go:71-79).
LeftBehind == life = "ended" /\ cmd # NoSlot /\ child[cmd] = "alive" => starter \in Outside

\* d.syncMu is taken before s.mu and never the other way round: who holds d.syncMu is in
\* no call of SingboxService, so who holds s.mu can go on (daemon.go:87-95, 243-247).
LocksInOrder == syncMu # NoCaller => pc[syncMu] = "idle" /\ mu # syncMu

\* A signal ends the process: the loops see their context end, neither they nor
\* Stop wait for ever for s.mu or d.syncMu (run.go:57-62, daemon.go:71-95).
StopReturns == life = "cancelled" ~> life = "ended"

\* The daemon serves in the end although its settings file was missing, broken or left
\* blank: the defaults written by one Load are there for the next start.  Only a file
\* with a value that cannot be decoded keeps it from ever starting (config.go:54-76).
ComesUp == life = "load" ~> life = "serving" \/ yaml = "undecodable"

\* No process takes all settings for zero, and so the API for open, unless the
\* administrator has left a file that sets nothing, a crash or a failed write has left
\* it blank, or another process is about to write its defaults (config.go:54-79).
ZeroOnlyTorn ==
    [][\A q \in Process : cfg[q] # "zero" /\ cfg'[q] = "zero"
         => yaml = "unset" \/ faults > 0 \/ \E r \in Process \ {q} : load[r] = "write"]_lifeVars
=============================================================================
