----------------------------- MODULE SyncProofs -----------------------------
(***************************************************************************)
(* For any panel, any number of its edits, any contents of a handshake and *)
(* any failures: the types, and for a syncLoop without company that it     *)
(* follows the panel (module Follower) and what it leaves in the inbounds  *)
(* store and in sing-box's file.                                           *)
(***************************************************************************)
EXTENDS Sync, TLAPS

USE DEF disk

\* A 304 is seen only by the two tests for it.
AnswerOK ==
    \A p \in Proc :
        /\ answer[p].cfg \in 0..MaxConfig \/ (pc[p] = "gotConfig" /\ answer[p].cfg = NotModified)
        /\ answer[p].users \in 0..MaxUsers \/ (pc[p] = "gotUsers" /\ answer[p].users = NotModified)

-----------------------------------------------------------------------------
LEMMA Versions == /\ NotModified \in Nat /\ NotModified > MaxConfig /\ NotModified > MaxUsers
                  /\ 1 \in 1..MaxConfig /\ 1 \in 1..MaxUsers
  BY SyncAssumption DEF NotModified

\* What the stores, the client and the goroutines begin with is typed.
LEMMA Beginnings == /\ NoInbounds \in Inbounds /\ Nothing \in Documents /\ NoTag \in ETags
                    /\ NoAnswer \in [cfg : 0..MaxConfig, users : 0..MaxUsers]
                    /\ NoAnswer \in [cfg : 0..NotModified, users : 0..NotModified]
<1>1. NoInbounds \in Inbounds
  BY Versions, SyncAssumption DEF NoInbounds, Inbounds
<1>2. QED
  BY <1>1, Versions, SyncAssumption DEF Nothing, Documents, ETags, NoAnswer

\* The client keeps ETags of the panel's versions only.
LEMMA TagTyped == ASSUME etag \in ETags, NEW e \in {"config", "users"},
                         NEW v \in 0..MaxConfig + MaxUsers, KeepETag(e, v)
                  PROVE  etag' \in ETags
  BY DEF KeepETag, Tag, ETags

\* Bringing the panel's inbound up to date keeps the inbounds typed.
LEMMA UpdateTyped == ASSUME NEW old \in Inbounds, NEW v \in 0..MaxConfig
                     PROVE  [old EXCEPT !.main = v, !.cred = TRUE] \in Inbounds
  BY DEF Inbounds

\* A goroutine that returns keeps the local variables typed.
LEMMA ReturnTyped ==
    ASSUME TypeOK, AnswerOK, NEW p \in Proc, NEW from, Return(p, from)
    PROVE  /\ pc' \in [Proc -> PcValues] /\ hs' \in [Proc -> 0..MaxAttempts]
           /\ answer' \in [Proc -> [cfg : 0..NotModified, users : 0..NotModified]]
           /\ seen' \in [Proc -> Documents]
           /\ AnswerOK'
<1>1. pc' \in [Proc -> PcValues] /\ hs' \in [Proc -> 0..MaxAttempts] /\ seen' \in [Proc -> Documents]
  BY Beginnings, SyncAssumption DEF Return, Goto, TypeOK, PcValues
<1>2. answer' \in [Proc -> [cfg : 0..NotModified, users : 0..NotModified]]
  BY Beginnings DEF Return, TypeOK
<1>3. AnswerOK'
  <2> SUFFICES ASSUME NEW q \in Proc
               PROVE  /\ answer'[q].cfg \in 0..MaxConfig \/ (pc'[q] = "gotConfig" /\ answer'[q].cfg = NotModified)
                      /\ answer'[q].users \in 0..MaxUsers \/ (pc'[q] = "gotUsers" /\ answer'[q].users = NotModified)
    BY DEF AnswerOK
  <2>1. CASE q = p
    BY <2>1, Beginnings DEF Return, TypeOK
  <2>2. CASE q # p
    BY <2>2 DEF Return, Goto, TypeOK, AnswerOK
  <2>3. QED
    BY <2>1, <2>2
<1>4. QED
  BY <1>1, <1>2, <1>3

\* The types, with what they need to be inductive.
LEMMA Typed == Spec => [](TypeOK /\ AnswerOK)
<1>1. ASSUME Init PROVE TypeOK /\ AnswerOK
  <2>1. AnswerOK
    BY <1>1, Beginnings DEF Init, AnswerOK
  <2>2. pc \in [Proc -> PcValues] /\ hs \in [Proc -> 0..MaxAttempts] /\ faults \in 0..MaxFaults
    BY <1>1, SyncAssumption DEF Init, PcValues
  <2>3. users \in 0..MaxUsers
    BY <1>1, SyncAssumption DEF Init
  <2>4. QED
    BY <1>1, <2>1, <2>2, <2>3, Beginnings, Versions DEF Init, TypeOK
<1>2. TypeOK /\ AnswerOK /\ [Next]_vars => (TypeOK /\ AnswerOK)'
  <2> SUFFICES ASSUME TypeOK, AnswerOK, [Next]_vars PROVE (TypeOK /\ AnswerOK)'
    OBVIOUS
  <2> USE Versions, Beginnings, SyncAssumption DEF TypeOK, AnswerOK, PcValues
  <2>1. ASSUME NEW p \in Proc, Begin(p) PROVE (TypeOK /\ AnswerOK)'
    BY <2>1 DEF Begin, Goto, panel, stores, local
  <2>2. ASSUME NEW p \in Proc, HandshakeAsk(p) PROVE (TypeOK /\ AnswerOK)'
    BY <2>2 DEF HandshakeAsk, Goto, panel, stores, local
  <2>3. ASSUME NEW p \in Proc, HandshakeFails(p) PROVE (TypeOK /\ AnswerOK)'
    <3>1. CASE hs[p] < MaxAttempts
      BY <2>3, <3>1 DEF HandshakeFails, Fault, panel, stores
    <3>2. CASE ~(hs[p] < MaxAttempts)
      <4>1. etag' \in ETags /\ connected' \in BOOLEAN
        BY <2>3, <3>2 DEF HandshakeFails
      <4>2. Return(p, "handshake") /\ faults' \in 0..MaxFaults
        BY <2>3, <3>2 DEF HandshakeFails, Fault
      <4>3. QED
        BY <2>3, <4>1, <4>2, ReturnTyped DEF HandshakeFails, panel, stores
    <3>3. QED
      BY <3>1, <3>2
  <2>4. ASSUME NEW p \in Proc, HandshakeDone(p) PROVE (TypeOK /\ AnswerOK)'
    BY <2>4 DEF HandshakeDone, Goto, AfterWrite, panel, stores, local
  <2>5. ASSUME NEW p \in Proc, ReplaceInbounds(p) PROVE (TypeOK /\ AnswerOK)'
    <3>1. ibs' \in Inbounds
      BY <2>5 DEF ReplaceInbounds, Goto, Inbounds
    <3>2. QED
      BY <2>5, <3>1 DEF ReplaceInbounds, Goto, panel, local
  <2>6. ASSUME NEW p \in Proc, ConfigAsk(p) PROVE (TypeOK /\ AnswerOK)'
    BY <2>6 DEF ConfigAsk, Goto, panel, stores, local
  <2>7. ASSUME NEW p \in Proc, ConfigFails(p) PROVE (TypeOK /\ AnswerOK)'
    BY <2>7, ReturnTyped DEF ConfigFails, Fault, panel, stores
  <2>8. ASSUME NEW p \in Proc, ConfigSkip(p) PROVE (TypeOK /\ AnswerOK)'
    BY <2>8, ReturnTyped DEF ConfigSkip, panel, stores
  <2>9. ASSUME NEW p \in Proc, ConfigGot(p) PROVE (TypeOK /\ AnswerOK)'
    <3>1. answer[p].cfg \in 0..MaxConfig + MaxUsers
      BY <2>9 DEF ConfigGot
    <3>2. etag' \in ETags
      BY <2>9, <3>1, TagTyped DEF ConfigGot
    <3>3. QED
      BY <2>9, <3>2 DEF ConfigGot, Goto, panel, stores, local
  <2>10. ASSUME NEW p \in Proc, ConfigUndecoded(p) PROVE (TypeOK /\ AnswerOK)'
    <3>1. answer[p].cfg \in 0..MaxConfig + MaxUsers
      BY <2>10 DEF ConfigUndecoded
    <3>2. etag' \in ETags
      BY <2>10, <3>1, TagTyped DEF ConfigUndecoded
    <3>3. QED
      BY <2>10, <3>2, ReturnTyped DEF ConfigUndecoded, Fault, panel, stores
  <2>11. ASSUME NEW p \in Proc, ReadInbounds(p) PROVE (TypeOK /\ AnswerOK)'
    <3>1. seen' \in [Proc -> Documents]
      BY <2>11 DEF ReadInbounds, Documents
    <3>2. QED
      BY <2>11, <3>1 DEF ReadInbounds, Goto, panel, stores
  <2>12. ASSUME NEW p \in Proc, UpdateInbounds(p) PROVE (TypeOK /\ AnswerOK)'
    <3>1. seen[p].ibs \in Inbounds /\ answer[p].cfg \in 0..MaxConfig
      BY <2>12 DEF UpdateInbounds, Goto, Documents
    <3>2. ibs' \in Inbounds
      BY <2>12, <3>1, UpdateTyped DEF UpdateInbounds
    <3>3. QED
      BY <2>12, <3>2 DEF UpdateInbounds, Goto, panel
  <2>13. ASSUME NEW p \in Proc, UsersAsk(p) PROVE (TypeOK /\ AnswerOK)'
    BY <2>13 DEF UsersAsk, Goto, panel, stores, local
  <2>14. ASSUME NEW p \in Proc, UsersFails(p) PROVE (TypeOK /\ AnswerOK)'
    BY <2>14 DEF UsersFails, Fault, Goto, panel, stores, local
  <2>15. ASSUME NEW p \in Proc, UsersGot(p) PROVE (TypeOK /\ AnswerOK)'
    <3>1. answer[p].users \in 0..MaxConfig + MaxUsers
      BY <2>15 DEF UsersGot
    <3>2. etag' \in ETags
      BY <2>15, <3>1, TagTyped DEF UsersGot
    <3>3. QED
      BY <2>15, <3>2 DEF UsersGot, Goto, panel, stores, local
  <2>16. ASSUME NEW p \in Proc, UsersUndecoded(p) PROVE (TypeOK /\ AnswerOK)'
    <3>1. answer[p].users # NotModified => answer[p].users \in 0..MaxConfig + MaxUsers
      OBVIOUS
    <3>2. etag' \in ETags /\ faults' \in 0..MaxFaults
      BY <2>16, <3>1, TagTyped DEF UsersUndecoded, Fault
    <3>3. QED
      BY <2>16, <3>2 DEF UsersUndecoded, Goto, panel, stores
  <2>17. ASSUME NEW p \in Proc, SetUsers(p) PROVE (TypeOK /\ AnswerOK)'
    BY <2>17 DEF SetUsers, Goto, panel, stores, local
  <2>18. ASSUME NEW p \in Proc, Edit(p) PROVE (TypeOK /\ AnswerOK)'
    <3>1. seen' \in [Proc -> Documents]
      BY <2>18 DEF Edit, Documents
    <3>2. QED
      BY <2>18, <3>1 DEF Edit, Goto, panel, stores
  <2>19. ASSUME NEW p \in Proc, WriteEdited(p) PROVE (TypeOK /\ AnswerOK)'
    <3>1. seen[p].ibs \in Inbounds
      BY DEF Documents
    <3>2. ibs' \in Inbounds
      BY <2>19, <3>1 DEF WriteEdited, Inbounds
    <3>3. QED
      BY <2>19, <3>2 DEF WriteEdited, Goto, panel
  <2>20. ASSUME NEW p \in Proc, GenerateInbounds(p) PROVE (TypeOK /\ AnswerOK)'
    <3>1. seen' \in [Proc -> Documents]
      BY <2>20 DEF GenerateInbounds, Documents
    <3>2. QED
      BY <2>20, <3>1 DEF GenerateInbounds, Goto, panel, stores
  <2>21. ASSUME NEW p \in Proc, GenerateUsers(p) PROVE (TypeOK /\ AnswerOK)'
    <3>1. seen' \in [Proc -> Documents]
      BY <2>21 DEF GenerateUsers, Documents
    <3>2. QED
      BY <2>21, <3>1 DEF GenerateUsers, Goto, panel, stores
  <2>22. ASSUME NEW p \in Proc, WriteConfig(p) PROVE (TypeOK /\ AnswerOK)'
    BY <2>22 DEF WriteConfig, Goto, AfterWrite, panel, stores, local
  <2>23. ASSUME NEW p \in Proc, WriteFails(p) PROVE (TypeOK /\ AnswerOK)'
    <3>1. CASE hs[p] # 0
      <4>1. pc' \in [Proc -> PcValues] /\ seen' \in [Proc -> Documents]
        BY <2>23, <3>1 DEF WriteFails, Goto, AfterWrite
      <4>2. faults' \in 0..MaxFaults
        BY <2>23 DEF WriteFails, Fault
      <4>3. QED
        BY <2>23, <3>1, <4>1, <4>2 DEF WriteFails, Goto, AfterWrite, panel, stores
    <3>2. CASE hs[p] = 0
      BY <2>23, <3>2, ReturnTyped DEF WriteFails, Fault, panel, stores
    <3>3. QED
      BY <3>1, <3>2
  <2>24. ASSUME NEW p \in Proc, RestartSingbox(p) PROVE (TypeOK /\ AnswerOK)'
    BY <2>24, ReturnTyped DEF RestartSingbox, panel, stores
  <2>25. ASSUME PanelEdits PROVE (TypeOK /\ AnswerOK)'
    BY <2>25 DEF PanelEdits, stores, local
  <2>26. ASSUME Crash PROVE (TypeOK /\ AnswerOK)'
    <3>1. AnswerOK'
      BY <2>26 DEF Crash
    <3>2. /\ pc' \in [Proc -> PcValues] /\ hs' \in [Proc -> 0..MaxAttempts] /\ seen' \in [Proc -> Documents]
          /\ answer' \in [Proc -> [cfg : 0..NotModified, users : 0..NotModified]]
      BY <2>26 DEF Crash
    <3>3. QED
      <4>1. etag' \in ETags /\ connected' \in BOOLEAN
        BY <2>26 DEF Crash
      <4>2. faults' \in 0..MaxFaults
        BY <2>26 DEF Crash, Fault
      <4>3. QED
        BY <2>26, <3>1, <3>2, <4>1, <4>2 DEF Crash, panel, stores
  <2>27. ASSUME UNCHANGED vars PROVE (TypeOK /\ AnswerOK)'
    BY <2>27 DEF vars
  <2> HIDE DEF TypeOK, AnswerOK, PcValues
  <2>28. QED
    BY <2>1, <2>2, <2>3, <2>4, <2>5, <2>6, <2>7, <2>8, <2>9, <2>10, <2>11, <2>12, <2>13, <2>14,
       <2>15, <2>16, <2>17, <2>18, <2>19, <2>20, <2>21, <2>22, <2>23, <2>24, <2>25, <2>26,
       <2>27 DEF Next, Work, Handshake, DoSync, Apply, Proc
<1>3. QED
  BY <1>1, <1>2, PTL DEF Spec

\* The variables of Sync keep their types (daemon.go:20-35, client.go:18-24).
THEOREM TypeCorrect == Spec => []TypeOK
<1>1. TypeOK /\ AnswerOK => TypeOK
  OBVIOUS
<1>2. QED
  BY <1>1, Typed, PTL

-----------------------------------------------------------------------------
\* A syncLoop without company.
Single(s) == Syncer = {s} /\ Handler = {}

\* Versions come in the order store, answer, panel; what is read of the inbounds
\* stays true until it is used, and an answer that is used has a version.
Between(low, v, high) == low <= high /\ (v \notin {0, NotModified} => low <= v /\ v <= high)

FollowInv(s) ==
    /\ pc[s] # "edited"
    /\ Between(ibs.main, answer[s].cfg, pcfg) /\ Between(users, answer[s].users, pusers)
    /\ pc[s] \in {"gotConfig", "readInbounds", "updateInbounds", "replaceInbounds"} => answer[s].cfg # 0
    /\ pc[s] \in {"gotUsers", "setUsers"} => answer[s].users # 0
    /\ pc[s] \in {"updateInbounds", "generateUsers", "write"} => seen[s].ibs = ibs
    /\ pc[s] = "write" => seen[s].users = users

\* An answer that is about to be stored is a version, not older than what is stored
\* and not newer than the panel's.
LEMMA AnswerUsed ==
    ASSUME NEW s \in Proc, AnswerOK, TypeOK, FollowInv(s)
    PROVE  /\ pc[s] \in {"replaceInbounds", "updateInbounds"}
                => answer[s].cfg # 0 /\ ibs.main <= answer[s].cfg /\ answer[s].cfg <= pcfg
           /\ pc[s] = "setUsers"
                => answer[s].users # 0 /\ users <= answer[s].users /\ answer[s].users <= pusers
<1>1. pc[s] \in {"replaceInbounds", "updateInbounds"} => answer[s].cfg \notin {0, NotModified}
  BY Versions, SyncAssumption DEF AnswerOK, FollowInv
<1>2. pc[s] = "setUsers" => answer[s].users \notin {0, NotModified}
  BY Versions, SyncAssumption DEF AnswerOK, FollowInv
<1>3. QED
  BY <1>1, <1>2 DEF FollowInv, Between

\* No answer is under way at the beginning.
LEMMA FollowInit == ASSUME NEW s, Single(s) PROVE Init => FollowInv(s)
<1>1. s \in Proc /\ NoInbounds.main = 0 /\ NoAnswer.cfg = 0 /\ NoAnswer.users = 0
  BY DEF Single, Proc, NoInbounds, NoAnswer
<1>2. QED
  BY <1>1, Versions DEF Init, FollowInv, Between

\* One step keeps that order.
LEMMA FollowStep == ASSUME NEW s, Single(s), TypeOK, AnswerOK, FollowInv(s), [Next]_vars
                    PROVE  FollowInv(s)'
<1> s \in Proc /\ \A p \in Proc : p = s
  BY DEF Single, Proc
<1> NoAnswer.cfg = 0 /\ NoAnswer.users = 0
  BY DEF NoAnswer
<1> USE Versions, SyncAssumption DEF FollowInv, Between, TypeOK
<1>1. ASSUME Begin(s) PROVE FollowInv(s)'
  BY <1>1 DEF Begin, Goto, panel, stores
<1>2. ASSUME HandshakeAsk(s) PROVE FollowInv(s)'
  BY <1>2 DEF HandshakeAsk, Goto, panel, stores
<1>3. ASSUME HandshakeFails(s) PROVE FollowInv(s)'
  BY <1>3 DEF HandshakeFails, Goto, Return, panel, stores
<1>4. ASSUME HandshakeDone(s) PROVE FollowInv(s)'
  BY <1>4 DEF HandshakeDone, Goto, AfterWrite, panel, stores, local
<1>5. ASSUME ReplaceInbounds(s) PROVE FollowInv(s)'
  <2>1. ibs'.main = answer[s].cfg /\ pcfg' = pcfg /\ pusers' = pusers /\ users' = users
    BY <1>5 DEF ReplaceInbounds, panel
  <2>2. answer'[s].cfg = 0 /\ answer'[s].users = answer[s].users /\ pc'[s] = "generate"
    BY <1>5 DEF ReplaceInbounds, Goto
  <2>3. ibs'.main <= pcfg
    BY <1>5, <2>1, AnswerUsed DEF ReplaceInbounds, Goto
  <2>4. QED
    BY <2>1, <2>2, <2>3
<1>6. ASSUME ConfigAsk(s) PROVE FollowInv(s)'
  BY <1>6 DEF ConfigAsk, Goto, panel, stores
<1>7. ASSUME ConfigFails(s) PROVE FollowInv(s)'
  BY <1>7 DEF ConfigFails, Goto, Return, panel, stores
<1>8. ASSUME ConfigSkip(s) PROVE FollowInv(s)'
  BY <1>8 DEF ConfigSkip, Goto, Return, panel, stores
<1>9. ASSUME ConfigGot(s) PROVE FollowInv(s)'
  BY <1>9 DEF ConfigGot, Goto, panel, stores, local
<1>10. ASSUME ConfigUndecoded(s) PROVE FollowInv(s)'
  BY <1>10 DEF ConfigUndecoded, Goto, Return, panel, stores
<1>11. ASSUME ReadInbounds(s) PROVE FollowInv(s)'
  BY <1>11 DEF ReadInbounds, Goto, panel, stores
<1>12. ASSUME UpdateInbounds(s) PROVE FollowInv(s)'
  <2>1. seen[s].ibs = ibs /\ pcfg' = pcfg /\ pusers' = pusers /\ users' = users
    BY <1>12 DEF UpdateInbounds, Goto, panel
  <2>2. answer'[s].cfg = 0 /\ answer'[s].users = answer[s].users /\ pc'[s] = "askUsers"
    BY <1>12 DEF UpdateInbounds, Goto
  <2>3. ibs'.main \in {ibs.main, answer[s].cfg}
    BY <1>12, <2>1 DEF UpdateInbounds, Inbounds
  <2>4. ibs'.main <= pcfg
    BY <1>12, <2>3, AnswerUsed DEF UpdateInbounds, Goto
  <2>5. QED
    BY <2>1, <2>2, <2>4
<1>13. ASSUME UsersAsk(s) PROVE FollowInv(s)'
  BY <1>13 DEF UsersAsk, Goto, panel, stores
<1>14. ASSUME UsersFails(s) PROVE FollowInv(s)'
  BY <1>14 DEF UsersFails, Goto, panel, stores, local
<1>15. ASSUME UsersGot(s) PROVE FollowInv(s)'
  BY <1>15 DEF UsersGot, Goto, panel, stores, local
<1>16. ASSUME UsersUndecoded(s) PROVE FollowInv(s)'
  BY <1>16 DEF UsersUndecoded, Goto, panel, stores
<1>17. ASSUME SetUsers(s) PROVE FollowInv(s)'
  <2>1. ibs' = ibs /\ pcfg' = pcfg /\ pusers' = pusers /\ users' \in {users, answer[s].users}
    BY <1>17 DEF SetUsers, panel
  <2>2. answer'[s].cfg = answer[s].cfg /\ answer'[s].users = 0 /\ pc'[s] \in {"restart", "generate"}
    BY <1>17 DEF SetUsers, Goto
  <2>3. users' <= pusers
    BY <1>17, <2>1, AnswerUsed DEF SetUsers, Goto
  <2>4. QED
    BY <2>1, <2>2, <2>3
<1>18. ASSUME WriteEdited(s) PROVE FollowInv(s)'
  BY <1>18 DEF WriteEdited, Goto, panel
<1>19. ASSUME GenerateInbounds(s) PROVE FollowInv(s)'
  BY <1>19 DEF GenerateInbounds, Goto, panel, stores
<1>20. ASSUME GenerateUsers(s) PROVE FollowInv(s)'
  BY <1>20 DEF GenerateUsers, Goto, panel, stores
<1>21. ASSUME WriteConfig(s) PROVE FollowInv(s)'
  BY <1>21 DEF WriteConfig, Goto, AfterWrite, panel, stores
<1>22. ASSUME WriteFails(s) PROVE FollowInv(s)'
  BY <1>22 DEF WriteFails, Goto, AfterWrite, Return, panel, stores
<1>23. ASSUME RestartSingbox(s) PROVE FollowInv(s)'
  BY <1>23 DEF RestartSingbox, Goto, Return, panel, stores
<1>24. ASSUME PanelEdits PROVE FollowInv(s)'
  <2>1. UNCHANGED <<ibs, users, pc, answer, seen>>
    BY <1>24 DEF PanelEdits, stores, local
  <2>2. pcfg' \in Nat /\ pusers' \in Nat /\ pcfg <= pcfg' /\ pusers <= pusers'
    BY <1>24 DEF PanelEdits
  <2>3. /\ ibs.main \in Nat /\ users \in Nat /\ pcfg \in Nat /\ pusers \in Nat
        /\ answer[s].cfg \in Nat /\ answer[s].users \in Nat
    BY DEF Inbounds
  <2>4. Between(ibs.main, answer[s].cfg, pcfg') /\ Between(users, answer[s].users, pusers')
    BY <2>2, <2>3
  <2>5. QED
    BY <2>1, <2>4
<1>25. ASSUME Crash PROVE FollowInv(s)'
  BY <1>25 DEF Crash, panel, stores
<1>26. ASSUME UNCHANGED vars PROVE FollowInv(s)'
  BY <1>26 DEF vars
<1> HIDE DEF FollowInv, Between, TypeOK
<1>27. QED
  BY <1>1, <1>2, <1>3, <1>4, <1>5, <1>6, <1>7, <1>8, <1>9, <1>10, <1>11, <1>12, <1>13, <1>14,
     <1>15, <1>16, <1>17, <1>18, <1>19, <1>20, <1>21, <1>22, <1>23, <1>24, <1>25, <1>26 DEF Next,
     Work, Handshake, DoSync, Apply, Single

\* No step of a syncLoop without company loses the panel's inbound, whatever fails, be
\* the inbound renamed or left out of a handshake (daemon.go:117-128, 213-224).
THEOREM InboundSurvives == ASSUME NEW s, Single(s) PROVE Spec => InboundKept
<1>1. Init => FollowInv(s)
  BY FollowInit
<1>2. TypeOK /\ AnswerOK /\ FollowInv(s) /\ [Next]_vars => FollowInv(s)'
  BY FollowStep
<1>3. TypeOK /\ AnswerOK /\ FollowInv(s) /\ [Next]_vars => [ibs.main # 0 => ibs'.main # 0]_vars
  <2> SUFFICES ASSUME TypeOK, AnswerOK, FollowInv(s), Next, ibs.main # 0 PROVE ibs'.main # 0
    OBVIOUS
  <2>1. s \in Proc /\ \A p \in Proc : p = s
    BY DEF Single, Proc
  <2>2. CASE ReplaceInbounds(s)
    BY <2>1, <2>2, AnswerUsed DEF ReplaceInbounds, Goto
  <2>3. CASE UpdateInbounds(s)
    <3>1. seen[s].ibs = ibs /\ answer[s].cfg # 0
      BY <2>1, <2>3, AnswerUsed DEF UpdateInbounds, Goto, FollowInv
    <3>2. QED
      BY <2>3, <3>1 DEF UpdateInbounds, TypeOK, Inbounds
  <2>4. ~WriteEdited(s)
    BY <2>1 DEF WriteEdited, Goto, FollowInv
  <2>5. CASE UNCHANGED ibs
    BY <2>5
  <2>6. QED
    BY <2>1, <2>2, <2>3, <2>4, <2>5 DEF Next, Work, Handshake, DoSync, Apply, Single, Begin, HandshakeAsk,
       HandshakeFails, HandshakeDone, ConfigAsk, ConfigFails, ConfigSkip, ConfigGot, ConfigUndecoded,
       ReadInbounds, UsersAsk, UsersFails, UsersGot, UsersUndecoded, SetUsers, GenerateInbounds,
       GenerateUsers, WriteConfig, WriteFails, RestartSingbox, PanelEdits, Crash, stores
<1>4. QED
  BY <1>1, <1>2, <1>3, Typed, PTL DEF Spec, InboundKept

-----------------------------------------------------------------------------
\* The file is up to date or known to be behind, or the goroutine is on its way to
\* write it.
CurrentInv(s) ==
    /\ pc[s] \notin {"askUsers", "gotUsers", "setUsers", "generate", "generateUsers", "write"} => Current \/ behind
    /\ pc[s] = "setUsers" /\ hs[s] # 0 => Current \/ behind
    /\ pc[s] \in {"askConfig", "gotConfig", "readInbounds", "updateInbounds", "askUsers", "gotUsers"} => hs[s] = 0

\* One step keeps the file up to date.
LEMMA CurrentStep ==
    ASSUME NEW s, Single(s), TypeOK, FollowInv(s), CurrentInv(s), [Next]_vars
    PROVE  CurrentInv(s)'
<1> s \in Proc /\ \A p \in Proc : p = s
  BY DEF Single, Proc
<1> USE DEF CurrentInv, Current
<1>1. ASSUME Begin(s) PROVE CurrentInv(s)'
  BY <1>1 DEF Begin, Goto, panel, stores, TypeOK
<1>2. ASSUME HandshakeAsk(s) PROVE CurrentInv(s)'
  BY <1>2 DEF HandshakeAsk, Goto, panel, stores, TypeOK
<1>3. ASSUME HandshakeFails(s) PROVE CurrentInv(s)'
  BY <1>3 DEF HandshakeFails, Fault, Return, Goto, panel, stores, TypeOK
<1>4. ASSUME HandshakeDone(s) PROVE CurrentInv(s)'
  BY <1>4 DEF HandshakeDone, Goto, AfterWrite, panel, stores, local, TypeOK
<1>5. ASSUME ReplaceInbounds(s) PROVE CurrentInv(s)'
  BY <1>5 DEF ReplaceInbounds, Goto, panel, TypeOK
<1>6. ASSUME ConfigAsk(s) PROVE CurrentInv(s)'
  BY <1>6 DEF ConfigAsk, Goto, panel, stores, TypeOK
<1>7. ASSUME ConfigFails(s) PROVE CurrentInv(s)'
  BY <1>7 DEF ConfigFails, Return, Goto, panel, stores, TypeOK
<1>8. ASSUME ConfigSkip(s) PROVE CurrentInv(s)'
  BY <1>8 DEF ConfigSkip, Return, Goto, panel, stores, TypeOK
<1>9. ASSUME ConfigGot(s) PROVE CurrentInv(s)'
  BY <1>9 DEF ConfigGot, Goto, panel, stores, local, TypeOK
<1>10. ASSUME ConfigUndecoded(s) PROVE CurrentInv(s)'
  BY <1>10 DEF ConfigUndecoded, Return, Goto, panel, stores, TypeOK
<1>11. ASSUME ReadInbounds(s) PROVE CurrentInv(s)'
  BY <1>11 DEF ReadInbounds, Goto, panel, stores, TypeOK
<1>12. ASSUME UpdateInbounds(s) PROVE CurrentInv(s)'
  BY <1>12 DEF UpdateInbounds, Goto, SameTag, panel, TypeOK
<1>13. ASSUME UsersAsk(s) PROVE CurrentInv(s)'
  BY <1>13 DEF UsersAsk, Goto, panel, stores, TypeOK
<1>14. ASSUME UsersFails(s) PROVE CurrentInv(s)'
  BY <1>14 DEF UsersFails, Goto, panel, stores, local, TypeOK
<1>15. ASSUME UsersGot(s) PROVE CurrentInv(s)'
  BY <1>15 DEF UsersGot, Goto, panel, stores, local, TypeOK
<1>16. ASSUME UsersUndecoded(s) PROVE CurrentInv(s)'
  BY <1>16 DEF UsersUndecoded, Goto, panel, stores, TypeOK
<1>17. ASSUME SetUsers(s) PROVE CurrentInv(s)'
  BY <1>17 DEF SetUsers, Goto, panel, TypeOK
<1>18. ASSUME WriteEdited(s) PROVE CurrentInv(s)'
  BY <1>18 DEF WriteEdited, Goto, FollowInv
<1>19. ASSUME GenerateInbounds(s) PROVE CurrentInv(s)'
  BY <1>19 DEF GenerateInbounds, Goto, panel, stores, TypeOK
<1>20. ASSUME GenerateUsers(s) PROVE CurrentInv(s)'
  BY <1>20 DEF GenerateUsers, Goto, panel, stores, TypeOK
<1>21. ASSUME WriteConfig(s) PROVE CurrentInv(s)'
  <2>1. seen[s] = [ibs |-> ibs, users |-> users]
    BY <1>21 DEF WriteConfig, Goto, FollowInv, TypeOK, Documents
  <2>2. file' = [ibs |-> ibs', users |-> users']
    BY <1>21, <2>1 DEF WriteConfig, stores
  <2>3. QED
    BY <1>21, <2>2 DEF WriteConfig, Goto, AfterWrite, TypeOK
<1>22. ASSUME WriteFails(s) PROVE CurrentInv(s)'
  BY <1>22 DEF WriteFails, Fault, Goto, AfterWrite, Return, panel, stores, TypeOK
<1>23. ASSUME RestartSingbox(s) PROVE CurrentInv(s)'
  BY <1>23 DEF RestartSingbox, Return, Goto, panel, stores, TypeOK
<1>24. ASSUME PanelEdits PROVE CurrentInv(s)'
  BY <1>24 DEF PanelEdits, stores, local
<1>25. ASSUME Crash PROVE CurrentInv(s)'
  BY <1>25 DEF Crash, panel, stores, TypeOK
<1>26. ASSUME UNCHANGED vars PROVE CurrentInv(s)'
  BY <1>26 DEF vars
<1> HIDE DEF CurrentInv, Current
<1>27. QED
  BY <1>1, <1>2, <1>3, <1>4, <1>5, <1>6, <1>7, <1>8, <1>9, <1>10, <1>11, <1>12, <1>13, <1>14,
     <1>15, <1>16, <1>17, <1>18, <1>19, <1>20, <1>21, <1>22, <1>23, <1>24, <1>25, <1>26 DEF Next,
     Work, Handshake, DoSync, Apply, Single

\* Whatever fails and whatever a handshake sends, a syncLoop without company leaves
\* sing-box's file as generated from the stores, but for a crash or a failed write since
\* the last write of it (daemon.go:117-136, 213-241).
THEOREM FileFollows == ASSUME NEW s, Single(s) PROVE Spec => []FileIsCurrent
<1>1. Init => FollowInv(s) /\ CurrentInv(s)
  BY FollowInit DEF Init, CurrentInv, Current, Nothing, Single, Proc
<1>2. TypeOK /\ AnswerOK /\ FollowInv(s) /\ CurrentInv(s) /\ [Next]_vars => (FollowInv(s) /\ CurrentInv(s))'
  BY FollowStep, CurrentStep
<1>3. CurrentInv(s) => FileIsCurrent
  BY DEF CurrentInv, FileIsCurrent, Idle, Single, Proc
<1>4. QED
  BY <1>1, <1>2, <1>3, Typed, PTL DEF Spec

-----------------------------------------------------------------------------
\* A step of the syncLoop, of the panel or of a crash is a step of the follower, or
\* changes nothing it shows.
LEMMA FollowerStep ==
    ASSUME NEW s, Single(s), TypeOK, AnswerOK, FollowInv(s), [Next]_vars
    PROVE  [Follows!FNext]_(Follows!fvars)
<1> s \in Proc /\ \A p \in Proc : p = s
  BY DEF Single, Proc
<1> DEFINE shown == <<pcfg, pusers, ibs, users, file>>
<1>1. ASSUME UNCHANGED shown PROVE UNCHANGED Follows!fvars
  BY <1>1 DEF Follows!fvars
<1>2. ASSUME PanelEdits PROVE \E k \in {"cfg", "users"} : Follows!Publish(k)
  <2>1. UNCHANGED <<ibs, users, file>>
    BY <1>2 DEF PanelEdits, stores
  <2>2. CASE pcfg' = pcfg + 1 /\ pusers' = pusers
    <3>1. Follows!Publish("cfg")
      BY <2>1, <2>2 DEF Follows!Publish
    <3>2. QED
      BY <3>1
  <2>3. CASE pusers' = pusers + 1 /\ pcfg' = pcfg
    <3>1. Follows!Publish("users")
      BY <2>1, <2>3 DEF Follows!Publish
    <3>2. QED
      BY <3>1
  <2>4. QED
    BY <1>2, <2>2, <2>3 DEF PanelEdits
<1>3. ASSUME ReplaceInbounds(s) \/ UpdateInbounds(s) PROVE UNCHANGED shown \/ Follows!LearnInbound
  <2>1. UNCHANGED <<pcfg, pusers, users, file>>
    BY <1>3 DEF ReplaceInbounds, UpdateInbounds, panel
  <2>2. answer[s].cfg # 0 /\ answer[s].cfg \in ibs.main..pcfg
    <3>1. pc[s] \in {"replaceInbounds", "updateInbounds"}
      BY <1>3 DEF ReplaceInbounds, UpdateInbounds, Goto
    <3>2. ibs.main \in Nat /\ answer[s].cfg \in Nat /\ pcfg \in Nat
      BY Versions, SyncAssumption DEF TypeOK, Inbounds
    <3>3. QED
      BY <3>1, <3>2, AnswerUsed
  <2>3. ibs' = ibs \/ (ibs'.main = answer[s].cfg /\ ibs'.cred \in BOOLEAN)
    <3>1. CASE ReplaceInbounds(s)
      BY <3>1 DEF ReplaceInbounds
    <3>2. CASE UpdateInbounds(s)
      <4>1. seen[s].ibs = ibs
        BY <3>2 DEF UpdateInbounds, Goto, FollowInv
      <4>2. QED
        BY <3>2, <4>1 DEF UpdateInbounds, TypeOK, Inbounds
    <3>3. QED
      BY <1>3, <3>1, <3>2
  <2>4. CASE ibs' = ibs
    BY <2>1, <2>4
  <2>5. CASE ibs'.main = answer[s].cfg /\ ibs'.cred \in BOOLEAN
    BY <2>1, <2>2, <2>5 DEF Follows!LearnInbound
  <2>6. QED
    BY <2>3, <2>4, <2>5
<1>4. ASSUME SetUsers(s) PROVE UNCHANGED shown \/ Follows!LearnUsers
  <2>1. UNCHANGED <<pcfg, pusers, ibs, file>> /\ users' \in {users, answer[s].users}
    BY <1>4 DEF SetUsers, panel
  <2>2. answer[s].users # 0 /\ answer[s].users \in users..pusers
    <3>1. users \in Nat /\ answer[s].users \in Nat /\ pusers \in Nat
      BY Versions, SyncAssumption DEF TypeOK
    <3>2. QED
      BY <1>4, <3>1, AnswerUsed DEF SetUsers, Goto
  <2>3. QED
    BY <2>1, <2>2 DEF Follows!LearnUsers
<1>5. ASSUME WriteConfig(s) PROVE Follows!Hand
  <2>1. file'.ibs = ibs /\ file'.users = users
    BY <1>5 DEF WriteConfig, Goto, FollowInv
  <2>2. UNCHANGED <<pcfg, pusers, ibs, users>>
    BY <1>5 DEF WriteConfig, panel, stores
  <2>3. QED
    BY <2>1, <2>2 DEF Follows!Hand
<1>6. ASSUME \/ Begin(s) \/ HandshakeAsk(s) \/ HandshakeFails(s) \/ HandshakeDone(s)
             \/ ConfigAsk(s) \/ ConfigFails(s) \/ ConfigSkip(s) \/ ConfigGot(s) \/ ConfigUndecoded(s)
             \/ ReadInbounds(s)
      PROVE  UNCHANGED shown
  BY <1>6 DEF Begin, HandshakeAsk, HandshakeFails, HandshakeDone, ConfigAsk, ConfigFails, ConfigSkip,
     ConfigGot, ConfigUndecoded, ReadInbounds, panel, stores
<1>7. ASSUME \/ UsersAsk(s) \/ UsersFails(s) \/ UsersGot(s) \/ UsersUndecoded(s)
             \/ GenerateInbounds(s) \/ GenerateUsers(s) \/ WriteFails(s) \/ RestartSingbox(s)
             \/ Crash \/ UNCHANGED vars
      PROVE  UNCHANGED shown
  BY <1>7 DEF UsersAsk, UsersFails, UsersGot, UsersUndecoded, GenerateInbounds, GenerateUsers,
     WriteFails, RestartSingbox, Crash, vars, panel, stores
<1>8. ~WriteEdited(s)
  BY DEF WriteEdited, Goto, FollowInv
<1> HIDE DEF shown
<1>9. QED
  BY <1>1, <1>2, <1>3, <1>4, <1>5, <1>6, <1>7, <1>8 DEF Next, Work, Handshake, DoSync, Apply, Single,
     Follows!FNext

\* A syncLoop without company follows its panel, whatever fails, be it a write of the
\* file, and whatever a handshake sends: no store goes back to an older version, and
\* every file is all that was stored when it was written (daemon.go:117-136, 202-248).
THEOREM FollowsPanel == ASSUME NEW s, Single(s) PROVE Spec => ImplementsFollower
<1>1. Init => FollowInv(s) /\ Follows!FInit
  <2> SUFFICES ASSUME Init PROVE Follows!FInit
    BY FollowInit
  <2>1. NoInbounds.main = 0 /\ NoInbounds.cred = FALSE
    BY DEF NoInbounds
  <2>2. QED
    BY <2>1 DEF Init, Nothing, Follows!FInit, Follows!Unknown
<1>2. TypeOK /\ AnswerOK /\ FollowInv(s) /\ [Next]_vars => FollowInv(s)'
  BY FollowStep
<1>3. TypeOK /\ AnswerOK /\ FollowInv(s) /\ [Next]_vars => [Follows!FNext]_(Follows!fvars)
  BY FollowerStep
<1>4. QED
  BY <1>1, <1>2, <1>3, Typed, PTL DEF Spec, ImplementsFollower, Follows!FSpec

-----------------------------------------------------------------------------
\* What following comes to: sing-box is never given an older inbound or an older list
\* of users than it had, nor one that the panel has not published.
Behind   == /\ file.ibs.main <= ibs.main /\ ibs.main <= pcfg
            /\ file.users <= users /\ users <= pusers
NotOlder == file.ibs.main <= file'.ibs.main /\ file.users <= file'.users

\* This much follows from the follower's steps alone.
LEMMA BehindStep ==
    ASSUME TypeOK, TypeOK', Behind, [Follows!FNext]_(Follows!fvars)
    PROVE  Behind' /\ NotOlder
<1>1. /\ file.ibs.main \in Nat /\ ibs.main \in Nat /\ pcfg \in Nat
      /\ file.users \in Nat /\ users \in Nat /\ pusers \in Nat
  BY SyncAssumption DEF TypeOK, Inbounds, Documents
<1>2. /\ file'.ibs.main \in Nat /\ ibs'.main \in Nat /\ pcfg' \in Nat
      /\ file'.users \in Nat /\ users' \in Nat /\ pusers' \in Nat
  BY SyncAssumption DEF TypeOK, Inbounds, Documents
<1> USE <1>1, <1>2 DEF Behind, NotOlder
<1>3. ASSUME NEW k \in {"cfg", "users"}, Follows!Publish(k) PROVE Behind' /\ NotOlder
  BY <1>3 DEF Follows!Publish
<1>4. CASE Follows!LearnInbound
  BY <1>4 DEF Follows!LearnInbound
<1>5. CASE Follows!LearnUsers
  BY <1>5 DEF Follows!LearnUsers
<1>6. CASE Follows!Hand
  BY <1>6 DEF Follows!Hand
<1>7. CASE UNCHANGED Follows!fvars
  BY <1>7 DEF Follows!fvars
<1>8. QED
  BY <1>3, <1>4, <1>5, <1>6, <1>7 DEF Follows!FNext

\* A syncLoop without company never replaces sing-box's file by an older one, and what
\* the file says is at most what the stores say, and they at most what the panel does.
THEOREM NeverOlder == ASSUME NEW s, Single(s) PROVE Spec => []Behind /\ [][NotOlder]_file
<1>1. Init => Behind
  BY Versions DEF Init, Nothing, NoInbounds, Behind
<1>2. TypeOK /\ TypeOK' /\ Behind /\ [Follows!FNext]_(Follows!fvars) => Behind' /\ [NotOlder]_file
  BY BehindStep
<1>3. Spec => [][Follows!FNext]_(Follows!fvars)
  BY FollowsPanel, PTL DEF ImplementsFollower, Follows!FSpec
<1>4. Spec => []TypeOK /\ Init
  BY TypeCorrect, PTL DEF Spec
<1>5. QED
  BY <1>1, <1>2, <1>3, <1>4, PTL
=============================================================================
