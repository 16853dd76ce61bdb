---------------------------- MODULE TrafficProofs ----------------------------
(***************************************************************************)
(* For any counters, limits and crashes: the types, the discipline of      *)
(* snapMu, and, with one syncLoop and one reportLoop, that no traffic is   *)
(* reported twice and none is taken back: the reports are a ledger.        *)
(***************************************************************************)
EXTENDS Traffic, TLAPS

\* Who can be where; snapMu is held by the goroutine that is between Lock and Unlock.
Syncing   == {"baseline", "load", "list"}
Reporting == {"tick", "read", "store", "send"}
Roles ==
    \A p \in Proc :
        /\ pc[p] \in Syncing => p \in Syncer
        /\ pc[p] \in Reporting => p \in Reporter

Holding == {"load", "read", "store", "limit", "relock", "relocked"}
LockInv == Roles /\ \A p \in Proc : pc[p] \in Holding => mu = p

\* One syncLoop and one reportLoop.
Pair(s, r) == Syncer = {s} /\ Reporter = {r}

\* How much of the panel's counter may have been reported: up to the last
\* snapshot, or up to the stored one if there is none.
Reportable == IF last # None THEN last - Start
              ELSE IF snap # None THEN snap - Start
              ELSE 0

\* The counters come in the order panel, list, store, last snapshot; what the
\* reporter is about to store again is the last snapshot.
Ordered(s, r) ==
    /\ snap # None => snap <= total
    /\ got[s] # None => snap <= got[s] /\ got[s] <= total /\ Start <= got[s]
    /\ last # None => Start <= last /\ last <= snap
    /\ snap # None => Start <= snap
    /\ pc[r] = "store" => cur = last
    /\ pc[r] = "store" /\ cur = None => reported + delta <= 0
    /\ pc[r] \notin {"store", "send"} => delta = 0
    /\ delta >= 0
    /\ reported + delta <= Reportable

ReportInv(s, r) == ~limited => Ordered(s, r)

-----------------------------------------------------------------------------
\* The variables of Traffic keep their types (daemon.go:20-35).
THEOREM TypeCorrect == Spec => []TypeOK
<1>1. Init => TypeOK
  <2>1. Init => connected \in BOOLEAN /\ limited \in BOOLEAN
    BY DEF Init
  <2>2. QED
    BY <2>1, TrafficAssumption DEF Init, TypeOK, Counter, None, PcValues
<1>2. TypeOK /\ [Next]_vars => TypeOK'
  <2> SUFFICES ASSUME TypeOK, [Next]_vars PROVE TypeOK'
    OBVIOUS
  <2> USE TrafficAssumption DEF TypeOK, Counter, None, PcValues, Waiting, daemon, work, ghosts
  <2>1. ASSUME NEW p \in Proc, Acquire(p) PROVE TypeOK'
    BY <2>1 DEF Acquire, Waiting
  <2>2. ASSUME NEW p \in Proc, Ask(p) PROVE TypeOK'
    BY <2>2 DEF Ask, Goto
  <2>3. ASSUME NEW p \in Proc, LoadBaseline(p) PROVE TypeOK'
    BY <2>3 DEF LoadBaseline, Goto
  <2>4. ASSUME NEW p \in Proc, StoreList(p) PROVE TypeOK'
    BY <2>4 DEF StoreList, Goto
  <2>5. ASSUME NEW p \in Proc, Tick(p) PROVE TypeOK'
    BY <2>5 DEF Tick, Goto
  <2>6. ASSUME NEW p \in Proc, ReadSnap(p) PROVE TypeOK'
    BY <2>6 DEF ReadSnap, Goto
  <2>7. ASSUME NEW p \in Proc, StoreSnap(p) PROVE TypeOK'
    BY <2>7 DEF StoreSnap, Goto
  <2>8. ASSUME NEW p \in Proc, Send(p) PROVE TypeOK'
    BY <2>8 DEF Send, Goto
  <2>9. ASSUME NEW p \in Proc, CallQuota(p) \/ LimitPanics(p) PROVE TypeOK'
    BY <2>9 DEF CallQuota, LimitPanics, Goto
  <2>10. ASSUME NEW p \in Proc, StoreLimit(p) PROVE TypeOK'
    BY <2>10 DEF StoreLimit, Goto
  <2>11. ASSUME Use PROVE TypeOK'
    BY <2>11 DEF Use
  <2>12. ASSUME Crash PROVE TypeOK'
    <3>1. connected' \in BOOLEAN /\ limited' \in BOOLEAN
      BY <2>12 DEF Crash
    <3>2. QED
      BY <2>12, <3>1 DEF Crash
  <2>13. ASSUME UNCHANGED vars PROVE TypeOK'
    BY <2>13 DEF vars
  <2> HIDE DEF TypeOK, Counter, None, PcValues, Waiting, daemon, work, ghosts
  <2>14. QED
    BY <2>1, <2>2, <2>3, <2>4, <2>5, <2>6, <2>7, <2>8, <2>9, <2>10, <2>11, <2>12, <2>13 DEF Next,
       Report, Sync, ChangeQuota
<1>3. QED
  BY <1>1, <1>2, PTL DEF Spec

-----------------------------------------------------------------------------
\* One step keeps the discipline of snapMu.
LEMMA LockStep == ASSUME TypeOK, LockInv, [Next]_vars PROVE LockInv'
<1> USE TrafficAssumption DEF TypeOK, LockInv, Holding, Roles, Syncing, Reporting
<1>1. ASSUME NEW p \in Proc, Acquire(p) PROVE LockInv'
  BY <1>1 DEF Acquire, Waiting
<1>2. ASSUME NEW p \in Proc, Ask(p) PROVE LockInv'
  BY <1>2 DEF Ask, Goto
<1>3. ASSUME NEW p \in Proc, LoadBaseline(p) PROVE LockInv'
  BY <1>3 DEF LoadBaseline, Goto
<1>4. ASSUME NEW p \in Proc, StoreList(p) PROVE LockInv'
  BY <1>4 DEF StoreList, Goto
<1>5. ASSUME NEW p \in Proc, Tick(p) PROVE LockInv'
  BY <1>5 DEF Tick, Goto
<1>6. ASSUME NEW p \in Proc, ReadSnap(p) PROVE LockInv'
  BY <1>6 DEF ReadSnap, Goto
<1>7. ASSUME NEW p \in Proc, StoreSnap(p) PROVE LockInv'
  BY <1>7 DEF StoreSnap, Goto
<1>8. ASSUME NEW p \in Proc, Send(p) PROVE LockInv'
  BY <1>8 DEF Send, Goto
<1>9. ASSUME NEW p \in Proc, CallQuota(p) \/ LimitPanics(p) PROVE LockInv'
  BY <1>9 DEF CallQuota, LimitPanics, Goto
<1>10. ASSUME NEW p \in Proc, StoreLimit(p) PROVE LockInv'
  BY <1>10 DEF StoreLimit, Goto
<1>11. ASSUME Use PROVE LockInv'
  BY <1>11 DEF Use
<1>12. ASSUME Crash PROVE LockInv'
  BY <1>12 DEF Crash
<1>13. ASSUME UNCHANGED vars PROVE LockInv'
  BY <1>13 DEF vars
<1> HIDE DEF TypeOK, LockInv, Holding, Roles, Syncing, Reporting
<1>14. QED
  BY <1>1, <1>2, <1>3, <1>4, <1>5, <1>6, <1>7, <1>8, <1>9, <1>10, <1>11, <1>12, <1>13 DEF Next,
     Report, Sync, ChangeQuota

\* The holder of snapMu takes or waits for nothing else; only a caller that changes a
\* quota does.
HolderInv ==
    \A p \in Proc :
        /\ mu = p => pc[p] \in {"load", "read", "store"} \/ p \in Quota
        /\ pc[p] \in {"quota", "limit", "relock", "relocked"} => p \in Quota

LEMMA HolderStep == ASSUME TypeOK, LockInv, HolderInv, [Next]_vars PROVE HolderInv'
<1> USE TrafficAssumption DEF TypeOK, HolderInv, Holding
<1>1. ASSUME NEW p \in Proc, Acquire(p) PROVE HolderInv'
  BY <1>1 DEF Acquire, Waiting, LockInv
<1>2. ASSUME NEW p \in Proc, Sync(p) PROVE HolderInv'
  BY <1>2 DEF Sync, Ask, LoadBaseline, StoreList, Goto, daemon
<1>3. ASSUME NEW p \in Proc, Report(p) PROVE HolderInv'
  BY <1>3 DEF Report, Tick, ReadSnap, StoreSnap, Send, Goto
<1>4. ASSUME NEW p \in Proc, ChangeQuota(p) PROVE HolderInv'
  BY <1>4 DEF ChangeQuota, CallQuota, StoreLimit, LimitPanics, Goto
<1>5. CASE Use \/ Crash \/ UNCHANGED vars
  BY <1>5 DEF Use, Crash, vars
<1>6. QED
  BY <1>1, <1>2, <1>3, <1>4, <1>5 DEF Next

\* daemon.go:109-115, 285-299, 317-356: for any number of goroutines, who holds snapMu
\* waits for nothing else, unless it changes a quota.
THEOREM LockMovesOn == Spec => []HolderGoesOn
<1>1. Init => LockInv /\ HolderInv
  BY TrafficAssumption DEF Init, LockInv, Roles, Syncing, Reporting, Holding, HolderInv
<1>2. TypeOK /\ LockInv /\ HolderInv => HolderGoesOn
  BY TrafficAssumption DEF HolderInv, HolderGoesOn, TypeOK
<1>3. QED
  BY <1>1, <1>2, LockStep, HolderStep, TypeCorrect, PTL DEF Spec

\* A stored limit is not forgotten.
LEMMA LimitedStays == ASSUME [Next]_vars, limited PROVE limited'
  BY DEF Next, Acquire, Sync, Ask, LoadBaseline, StoreList, Report, Tick, ReadSnap, StoreSnap, Send,
     ChangeQuota, CallQuota, StoreLimit, LimitPanics, Use, Crash, vars, ghosts

\* With one of each, where a goroutine is tells which one it is, and who has snapMu.
LEMMA PairRoles ==
    ASSUME NEW s, NEW r, Pair(s, r), LockInv
    PROVE  \A p \in Proc : /\ pc[p] \in {"baseline", "load", "list"} => p = s
                           /\ pc[p] \in {"tick", "read", "store", "send"} => p = r
                           /\ pc[p] \in {"load", "read", "store"} => mu = p
<1> SUFFICES ASSUME NEW p \in Proc
    PROVE  /\ pc[p] \in {"baseline", "load", "list"} => p = s
           /\ pc[p] \in {"tick", "read", "store", "send"} => p = r
           /\ pc[p] \in {"load", "read", "store"} => mu = p
  OBVIOUS
<1>1. pc[p] \in Syncing => p \in Syncer
  BY DEF LockInv, Roles
<1>2. pc[p] \in Reporting => p \in Reporter
  BY DEF LockInv, Roles
<1>3. pc[p] \in Holding => mu = p
  BY DEF LockInv
<1>4. Syncer = {s} /\ Reporter = {r}
  BY DEF Pair
<1>5. QED
  BY <1>1, <1>2, <1>3, <1>4 DEF Syncing, Reporting, Holding

\* One step keeps the order of the counters.
LEMMA ReportStep ==
    ASSUME NEW s, NEW r, Pair(s, r), TypeOK, LockInv, ReportInv(s, r), [Next]_vars
    PROVE  ReportInv(s, r)'
<1> SUFFICES ASSUME ~limited' PROVE Ordered(s, r)'
  BY DEF ReportInv
<1>0. ~limited /\ Ordered(s, r)
  BY LimitedStays DEF ReportInv
<1> s \in Proc /\ r \in Proc /\ s # r
  BY TrafficAssumption DEF Pair, Proc
<1>a. \A p \in Proc :
         /\ pc[p] \in {"baseline", "load", "list"} => p = s
         /\ pc[p] \in {"tick", "read", "store", "send"} => p = r
         /\ pc[p] \in {"load", "read", "store"} => mu = p
  BY PairRoles
<1> USE <1>0, TrafficAssumption DEF TypeOK, Counter, None, Ordered, Reportable, daemon, work, ghosts, Pair
<1>1. ASSUME NEW p \in Proc, Acquire(p) PROVE Ordered(s, r)'
  BY <1>1 DEF Acquire, Waiting
<1>2. ASSUME NEW p \in Proc, Ask(p) PROVE Ordered(s, r)'
  BY <1>2 DEF Ask, Goto
<1>3. ASSUME NEW p \in Proc, LoadBaseline(p) PROVE Ordered(s, r)'
  BY <1>3, <1>a DEF LoadBaseline, Goto
<1>4. ASSUME NEW p \in Proc, StoreList(p) PROVE Ordered(s, r)'
  <2>1. s = p /\ r # p /\ pc'[r] = pc[r] /\ pc[p] = "list"
    BY <1>4, <1>a DEF StoreList, Goto, Sync
  <2>2. CASE got[p] = None
    BY <1>4, <2>1, <2>2 DEF StoreList
  <2>3. CASE got[p] # None
    BY <1>4, <2>1, <2>3 DEF StoreList
  <2>4. QED
    BY <2>2, <2>3
<1>5. ASSUME NEW p \in Proc, Tick(p) PROVE Ordered(s, r)'
  BY <1>5 DEF Tick, Goto
<1>6. ASSUME NEW p \in Proc, ReadSnap(p) PROVE Ordered(s, r)'
  BY <1>6, <1>a DEF ReadSnap, Goto
<1>7. ASSUME NEW p \in Proc, StoreSnap(p) PROVE Ordered(s, r)'
  BY <1>7, <1>a DEF StoreSnap, Goto
<1>8. ASSUME NEW p \in Proc, Send(p) PROVE Ordered(s, r)'
  <2>1. p = r /\ pc'[r] = "idle" /\ delta' = 0
    BY <1>8, <1>a DEF Send, Goto
  <2>2. reported' <= reported + delta
    BY <1>8 DEF Send
  <2>3. QED
    BY <1>8, <2>1, <2>2 DEF Send
<1>9. ASSUME NEW p \in Proc, CallQuota(p) \/ LimitPanics(p) PROVE Ordered(s, r)'
  BY <1>9 DEF CallQuota, LimitPanics, Goto
<1>10. ASSUME NEW p \in Proc, StoreLimit(p) PROVE Ordered(s, r)'
  BY <1>10 DEF StoreLimit, Goto
<1>11. ASSUME Use PROVE Ordered(s, r)'
  BY <1>11 DEF Use
<1>12. ASSUME Crash PROVE Ordered(s, r)'
  BY <1>12 DEF Crash
<1>13. ASSUME UNCHANGED vars PROVE Ordered(s, r)'
  BY <1>13 DEF vars
<1> HIDE DEF TypeOK, Counter, None, Ordered, Reportable, daemon, work, ghosts, Pair
<1>14. QED
  BY <1>1, <1>2, <1>3, <1>4, <1>5, <1>6, <1>7, <1>8, <1>9, <1>10, <1>11, <1>12, <1>13 DEF Next,
     Report, Sync, ChangeQuota

-----------------------------------------------------------------------------
\* With one syncLoop and one reportLoop, the order is kept.
LEMMA InOrder ==
    ASSUME NEW s, NEW r, Pair(s, r)
    PROVE  Spec => [](TypeOK /\ LockInv /\ ReportInv(s, r))
<1>1. Init => LockInv /\ ReportInv(s, r)
  BY TrafficAssumption DEF Init, LockInv, Roles, Syncing, Reporting, Holding, ReportInv, Ordered,
     Reportable, None, Pair, Proc
<1>2. TypeOK /\ LockInv /\ ReportInv(s, r) /\ [Next]_vars => (LockInv /\ ReportInv(s, r))'
  BY LockStep, ReportStep
<1>3. QED
  BY <1>1, <1>2, TypeCorrect, PTL DEF Spec

\* With one syncLoop and one reportLoop, nothing that the panel counted is reported
\* twice, and nothing that it had counted before (daemon.go:109-115, 283-306).
THEOREM NoTrafficTwice == ASSUME NEW s, NEW r, Pair(s, r) PROVE Spec => []NoDoubleReport
<1>1. TypeOK /\ ReportInv(s, r) => NoDoubleReport
  BY TrafficAssumption DEF TypeOK, ReportInv, Ordered, Reportable, NoDoubleReport, Counter, None
<1>2. Spec => [](TypeOK /\ LockInv /\ ReportInv(s, r))
  BY InOrder
<1>3. QED
  BY <1>1, <1>2, PTL

\* With one syncLoop and one reportLoop, a report takes no traffic back
\* (daemon.go:291).
THEOREM NothingTakenBack == ASSUME NEW s, NEW r, Pair(s, r) PROVE Spec => []ReportsNotNegative
<1>1. ReportInv(s, r) => ReportsNotNegative
  BY DEF ReportInv, Ordered, ReportsNotNegative
<1>2. Spec => [](TypeOK /\ LockInv /\ ReportInv(s, r))
  BY InOrder
<1>3. QED
  BY <1>1, <1>2, PTL

-----------------------------------------------------------------------------
\* Until a limit is stored, one step is a step of the ledger: a tick bills the stretch
\* up to the snapshot, a list, a baseline or a crash skips one at most.
LEMMA LedgerStep ==
    ASSUME NEW s, NEW r, Pair(s, r), TypeOK, LockInv, ~limited, Ordered(s, r), ~limited', [Next]_vars
    PROVE  Books!Count \/ Books!Bill \/ Books!Deliver \/ Books!Skip \/ UNCHANGED Books!lvars
<1>0. s \in Proc /\ r \in Proc /\ s # r
  BY TrafficAssumption DEF Pair, Proc
<1>a. \A p \in Proc :
         /\ pc[p] \in {"baseline", "load", "list"} => p = s
         /\ pc[p] \in {"tick", "read", "store", "send"} => p = r
         /\ pc[p] \in {"load", "read", "store"} => mu = p
  BY PairRoles
<1>b. Mark = IF last # None THEN last ELSE IF snap # None /\ pc[r] # "store" THEN snap ELSE Start
  BY DEF Mark, Pair
<1>c. Mark' = IF last' # None THEN last' ELSE IF snap' # None /\ pc'[r] # "store" THEN snap' ELSE Start
  BY DEF Mark, Pair
<1>d. Mark \in Start..total /\ Mark \in Int /\ total \in Int /\ delta \in Int /\ reported \in Int
  BY <1>b, TrafficAssumption DEF TypeOK, Counter, None, Ordered
<1> USE <1>0, <1>b, <1>c, <1>d, TrafficAssumption DEF TypeOK, Counter, None, Ordered, daemon, work, ghosts
<1>1. ASSUME NEW p \in Proc, Acquire(p) PROVE UNCHANGED Books!lvars
  <2>1. pc'[r] = "store" <=> pc[r] = "store"
    BY <1>1 DEF Acquire, Waiting
  <2>2. QED
    BY <1>1, <2>1 DEF Acquire, Books!lvars
<1>2. ASSUME NEW p \in Proc, Ask(p) \/ Tick(p) \/ CallQuota(p) \/ LimitPanics(p) PROVE UNCHANGED Books!lvars
  <2>1. pc'[r] = "store" <=> pc[r] = "store"
    BY <1>2 DEF Ask, Tick, CallQuota, LimitPanics, Goto
  <2>2. QED
    BY <1>2, <2>1 DEF Ask, Tick, CallQuota, LimitPanics, Books!lvars
<1>3. ASSUME NEW p \in Proc, LoadBaseline(p) PROVE Books!Skip
  <2>1. pc[r] # "store" /\ pc'[r] # "store"
    BY <1>3, <1>a DEF LoadBaseline, Goto
  <2>2. Mark' \in Mark..total
    BY <1>3, <2>1 DEF LoadBaseline
  <2>3. QED
    BY <1>3, <2>2 DEF LoadBaseline, Books!Skip
<1>4. ASSUME NEW p \in Proc, StoreList(p) PROVE Books!Skip
  <2>1. p = s /\ pc'[r] = pc[r]
    BY <1>4, <1>a DEF StoreList, Goto
  <2>2. Mark' \in Mark..total
    BY <1>4, <2>1 DEF StoreList
  <2>3. QED
    BY <1>4, <2>2 DEF StoreList, Books!Skip
<1>5. ASSUME NEW p \in Proc, ReadSnap(p) PROVE Books!Bill
  <2>1. p = r /\ pc[r] = "read" /\ pc'[r] = "store"
    BY <1>5, <1>a DEF ReadSnap, Goto
  <2>2. Mark' \in Mark..total /\ delta' = Mark' - Mark /\ delta = 0
    BY <1>5, <2>1 DEF ReadSnap
  <2>3. QED
    BY <1>5, <2>2 DEF ReadSnap, Books!Bill
<1>6. ASSUME NEW p \in Proc, StoreSnap(p) PROVE UNCHANGED Books!lvars
  <2>1. p = r /\ pc[r] = "store" /\ pc'[r] = "send"
    BY <1>6, <1>a DEF StoreSnap, Goto
  <2>2. QED
    BY <1>6, <2>1 DEF StoreSnap, Books!lvars
<1>7. ASSUME NEW p \in Proc, Send(p) PROVE Books!Deliver
  <2>1. p = r /\ pc[r] = "send" /\ pc'[r] = "idle"
    BY <1>7, <1>a DEF Send, Goto
  <2>2. QED
    BY <1>7, <2>1 DEF Send, Books!Deliver
<1>8. ASSUME NEW p \in Proc, StoreLimit(p) PROVE FALSE
  BY <1>8 DEF StoreLimit
<1>9. ASSUME Use PROVE Books!Count
  BY <1>9 DEF Use, Books!Count
<1>10. ASSUME Crash PROVE Books!Skip
  <2>1. pc'[r] = "idle" /\ last' = None /\ snap' = snap
    BY <1>10 DEF Crash
  <2>2. Mark' \in Mark..total
    BY <2>1
  <2>3. QED
    BY <1>10, <2>2 DEF Crash, Books!Skip
<1>11. ASSUME UNCHANGED vars PROVE UNCHANGED Books!lvars
  BY <1>11 DEF vars, Books!lvars
<1> HIDE <1>b, <1>c, <1>d DEF TypeOK, Counter, None, Ordered, daemon, work, ghosts
<1>12. QED
  BY <1>1, <1>2, <1>3, <1>4, <1>5, <1>6, <1>7, <1>8, <1>9, <1>10, <1>11 DEF Next, Report, Sync, ChangeQuota

\* With one syncLoop and one reportLoop, the reports are a ledger of the panel's counter
\* until a limit is stored: each is the stretch from one mark to a later one, which no
\* other report covers (daemon.go:109-136, 283-306).
THEOREM ReportsAreLedger == ASSUME NEW s, NEW r, Pair(s, r) PROVE Spec => ImplementsLedger
<1>1. Init => Books!LInit
  BY DEF Init, Mark, Books!LInit
<1>2. TypeOK /\ LockInv /\ ReportInv(s, r) /\ [Next]_vars => [Books!LNext]_(Books!lvars)
  <2> SUFFICES ASSUME TypeOK, LockInv, ReportInv(s, r), [Next]_vars
               PROVE  [Books!LNext]_(Books!lvars)
    OBVIOUS
  <2>1. CASE limited'
    BY <2>1 DEF Books!LNext
  <2>2. CASE ~limited'
    <3>1. ~limited
      BY <2>2, LimitedStays
    <3>2. Books!Count \/ Books!Bill \/ Books!Deliver \/ Books!Skip \/ UNCHANGED Books!lvars
      BY <2>2, <3>1, LedgerStep DEF ReportInv
    <3>3. QED
      BY <2>2, <3>1, <3>2 DEF Books!LNext
  <2>3. QED
    BY <2>1, <2>2
<1>3. Spec => [](TypeOK /\ LockInv /\ ReportInv(s, r))
  BY InOrder
<1>4. QED
  BY <1>1, <1>2, <1>3, PTL DEF Spec, ImplementsLedger, Books!LSpec
=============================================================================
