------------------------------ MODULE Traffic ------------------------------
(***************************************************************************)
(* service/daemon.go: the traffic snapshot.  A handshake and every sync    *)
(* store the counters that the panel's list of users carries; reportLoop   *)
(* reports their growth since its last tick, measured against              *)
(* lastTrafficSnap.  snapMu is held by the reporter, by the baseline of a  *)
(* handshake and by ApplyUserQuotaChange, not by those who store a list.   *)
(*                                                                         *)
(* One user and one counter stand for all of them: no step mixes two.  An  *)
(* access to the snapshot's store (module DurableStore) is one step.       *)
(***************************************************************************)
EXTENDS Integers

CONSTANTS
    Syncer,     \* syncLoop and ForceSync goroutines
    Reporter,   \* reportLoop
    Quota,      \* callers of ApplyUserQuotaChange
    NoProc,
    Limit,      \* the limits they set
    Start,      \* the panel's counter when the node is installed
    MaxTotal,   \* bound: the panel's counter
    MaxCrashes  \* bound: crashes

Proc == Syncer \cup Reporter \cup Quota

ASSUME TrafficAssumption ==
    /\ NoProc \notin Proc
    /\ Syncer \cap Reporter = {} /\ Syncer \cap Quota = {} /\ Reporter \cap Quota = {}
    /\ Start \in Nat /\ MaxTotal \in Nat /\ Start <= MaxTotal /\ MaxCrashes \in Nat
    /\ Limit \subseteq 0..MaxTotal

VARIABLES
    total,      \* the user's counter on the panel
    connected,  \* d.connected
    snap,       \* the counter in the store traffic_snap
    last,       \* the counter in d.lastTrafficSnap
    mu,         \* who holds d.snapMu
    pc,         \* where each goroutine is
    got,        \* the list that a syncer was sent: its counter
    cur,        \* what the reporter has read
    delta,      \* what it is about to report
    reported,   \* history: the sum of the reports that arrived
    limited,    \* history: a limit has been stored as a counter
    crashes

daemon == <<connected, last>>
work   == <<got, cur, delta>>
ghosts == <<reported, limited, crashes>>
vars   == <<total, connected, snap, last, mu, pc, got, cur, delta, reported, limited, crashes>>

\* No entry in a map, no user in a list.
None == 0 - 1
Counter == 0..MaxTotal \cup {None}

Init ==
    /\ total = Start /\ connected = FALSE
    /\ snap = None /\ last = None /\ mu = NoProc
    /\ pc = [p \in Proc |-> "idle"]
    /\ got = [p \in Proc |-> None] /\ cur = None /\ delta = 0
    /\ reported = 0 /\ limited = FALSE /\ crashes = 0

Goto(p, from, to) == pc[p] = from /\ pc' = [pc EXCEPT ![p] = to]

\* The user's traffic, on this node or another, is counted by the panel.
Use ==
    /\ total < MaxTotal /\ total' = total + 1
    /\ UNCHANGED <<daemon, snap, mu, pc, work, ghosts>>

\* d.snapMu.Lock(), wherever it is called.  A goroutine that holds the lock and
\* calls it again, as ApplyUserQuotaChange does, waits for itself.
Waiting == {"baseline", "tick", "quota", "relock"}

Acquire(p) ==
    /\ pc[p] \in Waiting /\ mu = NoProc
    /\ mu' = p
    /\ pc' = [pc EXCEPT ![p] = CASE @ = "baseline" -> "load"
                                 [] @ = "tick"     -> "read"
                                 [] @ = "quota"    -> "limit"
                                 [] @ = "relock"   -> "relocked"]
    /\ UNCHANGED <<total, daemon, snap, work, ghosts>>

-----------------------------------------------------------------------------
\* doHandshake is answered, with or without a list of users, and the daemon counts
\* as connected; doSync gets a list.
Ask(p) ==
    /\ p \in Syncer
    /\ Goto(p, "idle", IF connected THEN "list" ELSE "baseline")
    /\ connected' = TRUE
    /\ \E c \in (IF connected THEN {total} ELSE {total, None}) : got' = [got EXCEPT ![p] = c]
    /\ UNCHANGED <<total, snap, last, mu, cur, delta, ghosts>>

\* Mutant of LoadBaseline: the baseline is what the panel sent.
LoadBaseline_FromAnswer(p) ==
    /\ Goto(p, "load", "list")
    /\ last' = got[p] /\ mu' = NoProc
    /\ UNCHANGED <<total, connected, snap, work, ghosts>>

\* The baseline of a handshake: what is stored.
LoadBaseline(p) ==
    /\ Goto(p, "load", "list")
    /\ last' = snap /\ mu' = NoProc
    /\ UNCHANGED <<total, connected, snap, work, ghosts>>

\* db.SetTrafficSnap(buildSnapFromUsers(users)), without the lock, unless the list
\* is empty.
StoreList(p) ==
    /\ Goto(p, "list", "idle")
    /\ snap' = IF got[p] = None THEN snap ELSE got[p]
    /\ got' = [got EXCEPT ![p] = None]
    /\ UNCHANGED <<total, daemon, mu, cur, delta, ghosts>>

-----------------------------------------------------------------------------
\* A tick of reportLoop.
Tick(p) ==
    /\ p \in Reporter /\ connected
    /\ Goto(p, "idle", "tick")
    /\ UNCHANGED <<total, daemon, snap, mu, work, ghosts>>

\* Mutants of ReadSnap: a user without a last snapshot starts at 0, or gets none; the
\* last snapshot stays as it was.
ReadSnap_FromZero(p) ==
    /\ Goto(p, "read", "store")
    /\ cur' = snap
    /\ delta' = IF snap = None THEN 0 ELSE IF last = None THEN snap ELSE snap - last
    /\ last' = snap
    /\ UNCHANGED <<total, connected, snap, mu, got, ghosts>>

ReadSnap_NoNewUser(p) ==
    /\ Goto(p, "read", "store")
    /\ cur' = snap
    /\ delta' = IF snap # None /\ last # None THEN snap - last ELSE 0
    /\ last' = IF last = None THEN None ELSE snap
    /\ UNCHANGED <<total, connected, snap, mu, got, ghosts>>

ReadSnap_KeepsLast(p) ==
    /\ Goto(p, "read", "store")
    /\ cur' = snap
    /\ delta' = IF snap # None /\ last # None THEN snap - last ELSE 0
    /\ UNCHANGED <<total, connected, snap, last, mu, got, ghosts>>

\* pushTraffic reads the snapshot and computes what to report: nothing for a user
\* that the last snapshot does not have.
ReadSnap(p) ==
    /\ Goto(p, "read", "store")
    /\ cur' = snap
    /\ delta' = IF snap # None /\ last # None THEN snap - last ELSE 0
    /\ last' = snap
    /\ UNCHANGED <<total, connected, snap, mu, got, ghosts>>

\* Mutant of StoreSnap: the lock is kept.
StoreSnap_KeepsLock(p) ==
    /\ Goto(p, "store", "send")
    /\ snap' = cur /\ mu' = mu
    /\ UNCHANGED <<total, daemon, work, ghosts>>

\* It stores the snapshot it has read and releases the lock.
StoreSnap(p) ==
    /\ Goto(p, "store", "send")
    /\ snap' = cur /\ mu' = NoProc
    /\ UNCHANGED <<total, daemon, work, ghosts>>

\* ReportTraffic; a report that does not arrive is not repeated.
Send(p) ==
    /\ Goto(p, "send", "idle")
    /\ reported' \in {reported, reported + delta}
    /\ cur' = None /\ delta' = 0
    /\ UNCHANGED <<total, daemon, snap, mu, got, limited, crashes>>

-----------------------------------------------------------------------------
\* ApplyUserQuotaChange ...
CallQuota(p) ==
    /\ p \in Quota
    /\ Goto(p, "idle", "quota")
    /\ UNCHANGED <<total, daemon, snap, mu, work, ghosts>>

\* Mutant of StoreLimit: the limit is added to the counter.
StoreLimit_Adds(p) ==
    /\ Goto(p, "limit", "relock")
    /\ \E l \in Limit : snap' = IF snap = None THEN l ELSE snap + l
    /\ limited' = TRUE
    /\ UNCHANGED <<total, daemon, mu, work, reported, crashes>>

\* ... stores the limit as the user's counter, writes the configuration, signals
\* sing-box, and locks snapMu once more before it releases it.
StoreLimit(p) ==
    /\ Goto(p, "limit", "relock")
    /\ \E l \in Limit : snap' = l
    /\ limited' = TRUE
    /\ UNCHANGED <<total, daemon, mu, work, reported, crashes>>

\* While no snapshot has been stored at all, its map is nil and the assignment panics:
\* the deferred Unlock releases snapMu, and whoever recovers goes on; if nobody does,
\* it is a Crash.
LimitPanics(p) ==
    /\ snap = None
    /\ Goto(p, "limit", "idle")
    /\ mu' = NoProc
    /\ UNCHANGED <<total, daemon, snap, work, ghosts>>

\* The process dies and is started again; the store is read from its file.
Crash ==
    /\ crashes < MaxCrashes /\ crashes' = crashes + 1
    /\ connected' = FALSE /\ last' = None /\ mu' = NoProc
    /\ pc' = [p \in Proc |-> "idle"]
    /\ got' = [p \in Proc |-> None] /\ cur' = None /\ delta' = 0
    /\ UNCHANGED <<total, snap, reported, limited>>

-----------------------------------------------------------------------------
Report(p)      == Tick(p) \/ ReadSnap(p) \/ StoreSnap(p) \/ Send(p)
ChangeQuota(p) == CallQuota(p) \/ StoreLimit(p) \/ LimitPanics(p)
Sync(p)        == Ask(p) \/ LoadBaseline(p) \/ StoreList(p)

Next ==
    \/ \E p \in Proc : Acquire(p) \/ Sync(p) \/ Report(p) \/ ChangeQuota(p)
    \/ Use
    \/ Crash

Spec == Init /\ [][Next]_vars

\* The tickers of syncLoop and reportLoop fire again and again, and a sync.Mutex
\* starves nobody: whoever waits for snapMu gets it if it is released often enough.
FairSpec ==
    /\ Spec
    /\ \A p \in Syncer : WF_vars(Sync(p))
    /\ \A p \in Reporter : WF_vars(Report(p))
    /\ \A p \in Quota : WF_vars(StoreLimit(p) \/ LimitPanics(p))
    /\ \A p \in Proc : SF_vars(Acquire(p))

-----------------------------------------------------------------------------
PcValues == {"idle", "list", "load", "read", "store", "send", "limit", "relocked"} \cup Waiting

TypeOK ==
    /\ total \in Start..MaxTotal /\ connected \in BOOLEAN
    /\ snap \in Counter /\ last \in Counter /\ cur \in Counter
    /\ mu \in Proc \cup {NoProc}
    /\ pc \in [Proc -> PcValues]
    /\ got \in [Proc -> Counter]
    /\ delta \in Int /\ reported \in Int
    /\ limited \in BOOLEAN /\ crashes \in 0..MaxCrashes

\* However ticks, syncs and crashes interleave, no growth of the panel's counter is
\* reported twice, and what the panel had counted before is never reported: the
\* store is not locked against a list, the baseline of a handshake is the one that
\* was stored (daemon.go:109-115, 283-306).
NoDoubleReport == ~limited => reported <= total - Start

\* A report never takes traffic back (daemon.go:291).
ReportsNotNegative == ~limited => delta >= 0

\* Until a limit is stored as a counter, the reports are stretches of the panel's
\* counter one after the other (module Ledger): up to the last snapshot, or without one
\* to what is stored, unless the reporter is about to take that away again.
Mark == IF last # None THEN last
        ELSE IF snap # None /\ \A r \in Reporter : pc[r] # "store" THEN snap
        ELSE Start

Books == INSTANCE Ledger WITH used <- total, mark <- Mark, owed <- delta, spoilt <- limited

\* Whatever ticks, lists, handshakes and crashes interleave, a report is the stretch
\* from one mark to a later one, which no other report covers (daemon.go:109-136, 283-306).
ImplementsLedger == Books!LSpec

\* A list that is stored while no tick is between its read and its write is taken
\* over by reportLoop, or is out of date by then; the next tick may find it through
\* a crash and the baseline of a handshake (daemon.go:109-115, 129-136, 286-298).
ListTakenOver ==
    \A c \in Start..MaxTotal :
        snap = c /\ total = c /\ mu \notin Reporter ~> last = c \/ total # c \/ limited

\* A goroutine that holds snapMu has no other lock to wait for, but for the one in
\* ApplyUserQuotaChange that waits for this (daemon.go:109-115, 285-299, 317-356).
HolderGoesOn == mu # NoProc => pc[mu] \in {"load", "read", "store"} \/ mu \in Quota

\* snapMu is given back by everybody but ApplyUserQuotaChange, which waits for itself
\* with the limit stored (daemon.go:109-115, 285-299, 317-356).
LockReleased == mu # NoProc ~> mu = NoProc \/ limited
=============================================================================
