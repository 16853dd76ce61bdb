---------------------------- MODULE DurableStore ----------------------------
(***************************************************************************)
(* What a db.Store promises its callers: a register with a durable copy.   *)
(* A SetX call replaces the value at once, and when the last overlapping   *)
(* call has returned the durable copy is the value, unless a call since    *)
(* the last replacement has failed.  Meanwhile, and after a failure, a     *)
(* crash may bring back an older durable copy or the zero value; never a   *)
(* value that was overwritten after it had become durable.                 *)
(***************************************************************************)
CONSTANTS Proc, Value, Zero

VARIABLES
    mem,    \* the value Get returns
    dur,    \* the value a restart would load
    busy,   \* the callers between their Set and the end of their Save
    lost    \* a call has failed since the value was replaced

dvars == <<mem, dur, busy, lost>>

DInit == mem = Zero /\ dur = Zero /\ busy = {} /\ lost = FALSE

Put(p, v) ==
    /\ p \notin busy
    /\ mem' = v
    /\ busy' = busy \cup {p}
    /\ lost' = FALSE
    /\ UNCHANGED dur

Flush ==
    /\ busy # {}
    /\ dur' = mem
    /\ UNCHANGED <<mem, busy, lost>>

\* A call returns; the last one only with the value durable or a call failed.
Done(p) ==
    /\ p \in busy
    /\ busy' = busy \ {p}
    /\ dur' = mem \/ ((busy' # {} \/ lost) /\ dur' \in {dur, Zero})
    /\ UNCHANGED <<mem, lost>>

Fail(p) ==
    /\ p \in busy
    /\ busy' = busy \ {p}
    /\ lost' = TRUE
    /\ UNCHANGED <<mem, dur>>

Crash ==
    /\ mem' = dur
    /\ busy' = {}
    /\ lost' = FALSE
    /\ UNCHANGED dur

DNext ==
    \/ \E p \in Proc : Done(p) \/ Fail(p) \/ \E v \in Value : Put(p, v)
    \/ Flush
    \/ Crash

DSpec == DInit /\ [][DNext]_dvars
=============================================================================
