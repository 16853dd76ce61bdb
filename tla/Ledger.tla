-------------------------------- MODULE Ledger --------------------------------
(***************************************************************************)
(* What the traffic reports of a node amount to, for one user: a mark on   *)
(* the panel's counter.  A report is the stretch from the mark to a later  *)
(* one, and moves the mark over it; a stretch may also be skipped, and a   *)
(* report be lost.  No stretch is reported twice, and none from before the *)
(* node was installed.                                                     *)
(***************************************************************************)
EXTENDS Integers

CONSTANT Start      \* the panel's counter when the node is installed

VARIABLES
    used,       \* the panel's counter
    mark,       \* what lies below it has been reported or skipped
    owed,       \* the report that is about to be sent
    reported,   \* the sum of the reports that arrived
    spoilt      \* something else was written over the counters: nothing is promised

lvars == <<used, mark, owed, reported, spoilt>>

LInit == used = Start /\ mark = Start /\ owed = 0 /\ reported = 0 /\ spoilt = FALSE

Count == used' = used + 1 /\ UNCHANGED <<mark, owed, reported>>

Bill ==
    /\ owed = 0
    /\ mark' \in mark..used /\ owed' = mark' - mark
    /\ UNCHANGED <<used, reported>>

Deliver ==
    /\ reported' \in {reported, reported + owed} /\ owed' = 0
    /\ UNCHANGED <<used, mark>>

\* A stretch is never reported, and with a crash neither is what was owed.
Skip ==
    /\ mark' \in mark..used /\ owed' \in {owed, 0}
    /\ UNCHANGED <<used, reported>>

LNext == spoilt' \/ (~spoilt' /\ ~spoilt /\ (Count \/ Bill \/ Deliver \/ Skip))

LSpec == LInit /\ [][LNext]_lvars
=============================================================================
