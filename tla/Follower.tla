------------------------------ MODULE Follower ------------------------------
(***************************************************************************)
(* What a node promises its panel while one goroutine synchronises it: it  *)
(* follows.  The stores take over a version of the panel's, never one that *)
(* is older than what they have, and sing-box's file is replaced by all    *)
(* that is stored at that moment, inbound and users together.  Whatever    *)
(* fails in between, nothing goes back and nothing is mixed.               *)
(***************************************************************************)
EXTENDS Naturals

VARIABLES
    panel,      \* the newest versions: [cfg, users]
    stored,     \* the versions in the stores, and whether the inbound has its secrets
    file        \* the same for the file that sing-box reads

fvars == <<panel, stored, file>>

Unknown == [cfg |-> 0, cred |-> FALSE, users |-> 0]

FInit == panel = [cfg |-> 1, users |-> 1] /\ stored = Unknown /\ file = Unknown

Publish(k) ==
    /\ panel' = [panel EXCEPT ![k] = @ + 1]
    /\ UNCHANGED <<stored, file>>

LearnInbound ==
    /\ \E v \in stored.cfg..panel.cfg, c \in BOOLEAN :
          v # 0 /\ stored' = [cfg |-> v, cred |-> c, users |-> stored.users]
    /\ UNCHANGED <<panel, file>>

LearnUsers ==
    /\ \E v \in stored.users..panel.users : v # 0 /\ stored' = [stored EXCEPT !.users = v]
    /\ UNCHANGED <<panel, file>>

Hand == file' = stored /\ UNCHANGED <<panel, stored>>

FNext == (\E k \in {"cfg", "users"} : Publish(k)) \/ LearnInbound \/ LearnUsers \/ Hand

FSpec == FInit /\ [][FNext]_fvars
=============================================================================
