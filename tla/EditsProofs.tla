---------------------------- MODULE EditsProofs ----------------------------
(***************************************************************************)
(* Proofs about Edits, for any lists, requests and number of goroutines.   *)
(* What a filtered list is made of is proved by induction on its length;   *)
(* Inv then says what a goroutine that generates has emitted so far.       *)
(***************************************************************************)
EXTENDS Edits, Induction, SequenceTheorems

\* f[i] is what Only keeps of the first i elements of l.
Filters(f, l, S, n) ==
    f = [i \in 0..n |-> IF i = 0 THEN <<>>
                        ELSE IF l[i] \in S THEN Append(f[i - 1], l[i]) ELSE f[i - 1]]

LEMMA FilterNext ==
    ASSUME NEW f, NEW l, NEW S, NEW n \in Nat, Filters(f, l, S, n), NEW i \in 1..n
    PROVE  f[i] = IF l[i] \in S THEN Append(f[i - 1], l[i]) ELSE f[i - 1]
<1>1. i \in 0..n /\ i # 0
  OBVIOUS
<1>2. f[i] = IF i = 0 THEN <<>> ELSE IF l[i] \in S THEN Append(f[i - 1], l[i]) ELSE f[i - 1]
  BY <1>1, Zenon DEF Filters
<1>3. QED
  BY <1>1, <1>2

LEMMA FilterExists ==
    ASSUME NEW l, NEW S, NEW n \in Nat PROVE \E f : Filters(f, l, S, n)
<1> DEFINE T == {m \in Nat : \E f : Filters(f, l, S, m)}
<1>1. 0 \in T
  <2>1. Filters([i \in 0..0 |-> <<>>], l, S, 0)
    BY DEF Filters
  <2>2. QED
    BY <2>1
<1>2. ASSUME NEW m \in Nat, m \in T PROVE m + 1 \in T
  <2>1. PICK f : Filters(f, l, S, m)
    BY <1>2
  <2> DEFINE g == [i \in 0..(m + 1) |-> IF i <= m THEN f[i]
                                        ELSE IF l[i] \in S THEN Append(f[m], l[i]) ELSE f[m]]
  <2>2. ASSUME NEW i \in 0..(m + 1)
        PROVE  g[i] = IF i = 0 THEN <<>> ELSE IF l[i] \in S THEN Append(g[i - 1], l[i]) ELSE g[i - 1]
    <3>1. CASE i = 0
      BY <2>1, <3>1 DEF Filters
    <3>2. CASE i \in 1..m
      <4>1. g[i] = f[i] /\ g[i - 1] = f[i - 1]
        BY <3>2
      <4>2. f[i] = IF l[i] \in S THEN Append(f[i - 1], l[i]) ELSE f[i - 1]
        BY <2>1, <3>2, FilterNext
      <4>3. QED
        BY <3>2, <4>1, <4>2
    <3>3. CASE i = m + 1
      BY <3>3
    <3>4. QED
      BY <3>1, <3>2, <3>3
  <2>3. Filters(g, l, S, m + 1)
    BY <2>2 DEF Filters
  <2>4. QED
    BY <2>3
<1> HIDE DEF T
<1>3. Nat \subseteq T
  BY <1>1, <1>2, SetInduction
<1>4. QED
  BY <1>3 DEF T

LEMMA OnlyIsFilter ==
    ASSUME NEW l \in Seq(Entry), NEW S
    PROVE  \E f : Filters(f, l, S, Len(l)) /\ Only(l, S) = f[Len(l)]
<1> DEFINE f == CHOOSE f : Filters(f, l, S, Len(l))
<1>1. Len(l) \in Nat
  OBVIOUS
<1>2. Filters(f, l, S, Len(l))
  BY <1>1, FilterExists
<1>3. Only(l, S) = f[Len(l)]
  BY DEF Only, Filters
<1>4. QED
  BY <1>2, <1>3

\* What is kept are elements of the list, of the set, in the list's type; two of them
\* have one tag only if two of the list have.
LEMMA OnlyKeeps ==
    ASSUME NEW l \in Seq(Entry), NEW S
    PROVE  /\ Only(l, S) \in Seq(Entry)
           /\ Unique(l) => Unique(Only(l, S))
<1>1. PICK f : Filters(f, l, S, Len(l)) /\ Only(l, S) = f[Len(l)]
  BY OnlyIsFilter
<1> DEFINE Kept(i) == /\ f[i] \in Seq(Entry)
                      /\ \A k \in DOMAIN f[i] : \E j \in 1..i : f[i][k] = l[j]
                      /\ Unique(l) => Unique(f[i])
           T == {i \in Nat : i <= Len(l) => Kept(i)}
<1>2. 0 \in T
  BY <1>1 DEF Filters, Unique
<1>3. ASSUME NEW i \in Nat, i \in T PROVE i + 1 \in T
  <2>1. SUFFICES ASSUME i + 1 <= Len(l) PROVE Kept(i + 1)
    OBVIOUS
  <2>2. Kept(i)
    BY <1>3, <2>1
  <2>3. f[i + 1] = IF l[i + 1] \in S THEN Append(f[i], l[i + 1]) ELSE f[i]
    <3>1. i + 1 \in 1..Len(l) /\ (i + 1) - 1 = i /\ Len(l) \in Nat
      BY <2>1
    <3>2. f[i + 1] = IF l[i + 1] \in S THEN Append(f[(i + 1) - 1], l[i + 1]) ELSE f[(i + 1) - 1]
      BY <1>1, <3>1, FilterNext
    <3>3. QED
      BY <3>1, <3>2
  <2>4. CASE l[i + 1] \notin S
    BY <2>2, <2>3, <2>4
  <2>5. CASE l[i + 1] \in S
    <3>1. l[i + 1] \in Entry /\ f[i] \in Seq(Entry) /\ f[i + 1] = Append(f[i], l[i + 1])
      BY <2>1, <2>2, <2>3, <2>5
    <3>2. ASSUME NEW k \in DOMAIN f[i + 1] PROVE \E j \in 1..(i + 1) : f[i + 1][k] = l[j]
      BY <2>2, <3>1, <3>2
    <3>3. ASSUME Unique(l) PROVE Unique(f[i + 1])
      <4>1. \A k \in DOMAIN f[i] : f[i][k].tag # l[i + 1].tag
        BY <2>1, <2>2, <3>3 DEF Unique
      <4>2. QED
        BY <2>2, <3>1, <3>3, <4>1 DEF Unique
    <3>4. QED
      BY <3>1, <3>2, <3>3
  <2>6. QED
    BY <2>4, <2>5
<1>4. Len(l) \in T
  <2> HIDE DEF T
  <2> QED BY <1>2, <1>3, SetInduction
<1>5. QED
  BY <1>1, <1>4

\* The first element with a tag is one of the list's, and has it.
LEMMA FirstIsThere ==
    ASSUME NEW l \in Seq(Entry), NEW t, Holds(l, t)
    PROVE  First(l, t) \in DOMAIN l /\ l[First(l, t)].tag = t
<1> DEFINE T == {i \in DOMAIN l : l[i].tag = t}
<1>1. PICK i \in T : \A j \in T : i <= j
  <2>1. T \subseteq Nat /\ T # {}
    BY DEF Holds
  <2>2. QED
    BY <2>1, LeastNat
<1>2. \A j \in 1..(i - 1) : l[j].tag # t
  BY <1>1
<1>3. QED
  BY <1>1, <1>2 DEF First

-----------------------------------------------------------------------------
EmittedInbound == [entry : Entry, users : Seq(Entry), adv : Settings]

LEMMA Selected ==
    ASSUME NEW l \in Seq(Entry)
    PROVE  /\ Enabled(l) \in Seq(Entry) /\ Known(l) \in Seq(Entry)
           /\ Main(l) \in Seq(Entry) /\ Local(l) \in Seq(Entry)
           /\ \A t : AdvancedOf(l, t) \in Settings
<1>1. Enabled(l) \in Seq(Entry) /\ Known(l) \in Seq(Entry) /\ Local(l) \in Seq(Entry)
  BY OnlyKeeps DEF Enabled, Known, Local
<1>2. Main(l) \in Seq(Entry)
  <2>1. Only(l, {e \in Entry : e.panel}) \in Seq(Entry)
    BY OnlyKeeps
  <2>2. QED
    BY <2>1 DEF Main
<1>3. ASSUME NEW t PROVE AdvancedOf(l, t) \in Settings
  BY FirstIsThere DEF AdvancedOf, Settings
<1>4. QED
  BY <1>1, <1>2, <1>3

LEMMA FunctionIsSeq == ASSUME NEW S, NEW n \in Nat, NEW f \in [1..n -> S] PROVE f \in Seq(S)
  BY SeqDef

LEMMA EditedTyped ==
    ASSUME NEW l \in Seq(Entry), NEW r \in TypedRequest, ~Refused(l, r)
    PROVE  Edited(l, r) \in Seq(Entry)
<1>1. r.entry \in Entry /\ r.all \in Seq(Entry) /\ r.op \in {"post", "put", "upsert", "delete", "replace", "sync", "handshake"}
  BY DEF TypedRequest
<1>2. Append(l, r.entry) \in Seq(Entry) /\ (Holds(l, r.path) => Put(l, r.path, r.entry) \in Seq(Entry))
  BY <1>1, FirstIsThere, ExceptSeq DEF Put
<1>3. Delete(l, r.path) \in Seq(Entry)
  BY OnlyKeeps DEF Delete
<1>4. Synced(l, r.path, r.entry) \in Seq(Entry)
  <2>1. ASSUME NEW i \in 1..Len(l) PROVE [l[i] EXCEPT !.val = r.entry.val] \in Entry
    <3>1. l[i] \in Entry
      OBVIOUS
    <3>2. QED
      BY <1>1, <3>1 DEF Entry
  <2>2. Synced(l, r.path, r.entry) \in [1..Len(l) -> Entry]
    BY <2>1 DEF Synced
  <2>3. QED
    BY <2>2, FunctionIsSeq
<1>5. QED
  BY <1>1, <1>2, <1>3, <1>4 DEF Edited, Post, Upsert, Replace, Refused

\* What a handshake stores.
LEMMA HandshakeStores ==
    ASSUME NEW l, NEW r \in Request, r.op = "handshake"
    PROVE  /\ r.list = "inbounds" /\ ~Refused(l, r) /\ Edited(l, r) = <<r.entry>>
           /\ Edited(l, r) \in Seq(Entry) /\ Unique(Edited(l, r))
<1>1. r.entry \in Entry /\ r.list = "inbounds" /\ ~Refused(l, r)
  BY EditsAssumption DEF TypedRequest, Refused
<1>2. Edited(l, r) = <<r.entry>>
  BY DEF Edited
<1>3. QED
  BY <1>1, <1>2 DEF Unique

LEMMA GenerateTyped ==
    ASSUME NEW s \in [Stores -> Seq(Entry)] PROVE Generate(s) \in Document
<1> DEFINE ins == Main(s["inbounds"]) \o Local(s["inbounds"])
<1>0. s["inbounds"] \in Seq(Entry) /\ s["users"] \in Seq(Entry) /\ s["advanced"] \in Seq(Entry)
      /\ s["outbounds"] \in Seq(Entry) /\ s["dns"] \in Seq(Entry)
  BY DEF Stores
<1>1. ins \in Seq(Entry) /\ Enabled(s["users"]) \in Seq(Entry) /\ Known(s["outbounds"]) \in Seq(Entry)
      /\ \A t : AdvancedOf(s["advanced"], t) \in Settings
  BY <1>0, Selected, ConcatProperties
<1> HIDE DEF ins
<1>2. [i \in DOMAIN ins |-> Inbound(ins[i], Enabled(s["users"]), AdvancedOf(s["advanced"], ins[i].tag))]
        \in Seq(EmittedInbound)
  <2>1. \A i \in DOMAIN ins : Inbound(ins[i], Enabled(s["users"]), AdvancedOf(s["advanced"], ins[i].tag))
                                \in EmittedInbound
    BY <1>1 DEF Inbound, EmittedInbound
  <2>2. DOMAIN ins = 1..Len(ins) /\ Len(ins) \in Nat
    BY <1>1
  <2>3. QED
    BY <2>1, <2>2, FunctionIsSeq
<1>3. QED
  BY <1>0, <1>1, <1>2 DEF Generate, Document, EmittedInbound, ins

\* A goroutine that has read the users has an inbound to give them to.
Typed == TypeOK /\ \A p \in Worker : pc[p] \in {"mainAdvanced", "localAdvanced"} => todo[p] # <<>>

LEMMA TypedInit == Init => Typed
<1> SUFFICES ASSUME Init PROVE Typed
  OBVIOUS
<1>1. store \in [Stores -> Seq(Entry)]
  BY EditsAssumption DEF Init
<1>2. file \in Document
  BY <1>1, GenerateTyped DEF Init
<1>3. Blank \in Document
  BY DEF Blank, Document
<1>4. QED
  BY <1>1, <1>2, <1>3, EditsAssumption DEF Init, Typed, TypeOK, PcValues, Stores

LEMMA TypedStep == Typed /\ [Next]_vars => Typed'
<1> SUFFICES ASSUME Typed, [Next]_vars PROVE Typed'
  OBVIOUS
<1> USE EditsAssumption DEF Typed, TypeOK, Goto, PcValues
<1>1. ASSUME NEW p \in Worker, Read(p) PROVE Typed'
  <2>1. PICK r \in Request : /\ Goto(p, "idle", IF r.op = "sync" THEN "sync" ELSE "set")
                             /\ target' = [target EXCEPT ![p] = r.list]
                             /\ copy' = [copy EXCEPT ![p] = Edited(store[r.list], r)]
                             /\ excuses' = IF r.op \in {"put", "upsert"} /\ r.entry.tag # r.path
                                           THEN excuses \cup {"rename"} ELSE excuses
                             /\ ~Refused(store[r.list], r)
    BY <1>1 DEF Read
  <2>2. r.list \in Stores /\ Edited(store[r.list], r) \in Seq(Entry)
    BY <2>1, EditedTyped DEF TypedRequest
  <2>3. requests' \in 0..MaxRequests
    BY <1>1 DEF Read
  <2>4. QED
    BY <1>1, <2>1, <2>2, <2>3 DEF Read, building, numbers
<1>2. ASSUME NEW p \in Worker, Refuse(p) PROVE Typed'
  BY <1>2 DEF Refuse, edit, building, numbers
<1>3. ASSUME NEW p \in Worker, Set(p) PROVE Typed'
  <2>1. store' \in [Stores -> Seq(Entry)]
    BY <1>3 DEF Set, Store
  <2>2. pc' \in [Worker -> PcValues] /\ copy' \in [Worker -> Seq(Entry)] /\ target' \in [Worker -> Stores]
    <3>1. pc' = [pc EXCEPT ![p] = "main"] \/ pc' = [pc EXCEPT ![p] = "setUsers"]
      BY <1>3 DEF Set
    <3>2. copy' = [copy EXCEPT ![p] = <<>>] /\ target' = [target EXCEPT ![p] = "inbounds"]
      BY <1>3 DEF Set
    <3>3. <<>> \in Seq(Entry) /\ "inbounds" \in Stores
      BY DEF Stores
    <3>4. QED
      BY <3>1, <3>2, <3>3
  <2>3. excuses' \subseteq {"rename", "overlap"} /\ disturbed' \subseteq Worker
    BY <1>3 DEF Set, Store, Overlap
  <2>4. QED
    BY <1>3, <2>1, <2>2, <2>3 DEF Set, building, numbers
<1>4. ASSUME NEW p \in Worker, SetUsers(p) PROVE Typed'
  <2>1. PICK u \in Users \cup {<<>>} : Store("users", IF u = <<>> THEN store["users"] ELSE u)
    BY <1>4 DEF SetUsers
  <2>2. store' \in [Stores -> Seq(Entry)]
    BY <2>1 DEF Store, Stores
  <2>3. target' \in [Worker -> Stores]
    BY <1>4 DEF SetUsers, Stores
  <2>4. QED
    BY <1>4, <2>1, <2>2, <2>3 DEF SetUsers, Store, building, numbers
<1>5. ASSUME NEW p \in Worker, ReadMain(p) PROVE Typed'
  <2>1. Main(store["inbounds"]) \in Seq(Entry) /\ Blank \in Document
    BY Selected DEF Stores, Blank, Document
  <2>2. QED
    BY <1>5, <2>1 DEF ReadMain, edit
<1>6. ASSUME NEW p \in Worker, ReadLocals(p) PROVE Typed'
  <2>1. Local(store["inbounds"]) \in Seq(Entry)
    BY Selected DEF Stores
  <2>2. QED
    BY <1>6, <2>1 DEF ReadLocals, edit, numbers
<1>7. ASSUME NEW p \in Worker, ReadUsers(p) PROVE Typed'
  <2>1. Enabled(store["users"]) \in Seq(Entry)
    BY Selected DEF Stores
  <2>2. QED
    BY <1>7, <2>1 DEF ReadUsers, edit, numbers
<1>8. ASSUME NEW p \in Worker, ReadAdvanced(p) PROVE Typed'
  <2>1. doc'[p] \in Document
    <3> DEFINE x == Inbound(Head(todo[p]), enabled[p], AdvancedOf(store["advanced"], Head(todo[p]).tag))
    <3>1. pc[p] \in {"mainAdvanced", "localAdvanced"} /\ todo[p] \in Seq(Entry) /\ todo[p] # <<>>
      BY <1>8 DEF ReadAdvanced
    <3>2. Head(todo[p]) \in Entry
      BY <3>1
    <3>3. x \in EmittedInbound
      BY <3>2, Selected DEF Stores, Inbound, EmittedInbound
    <3>4. doc'[p] = [doc[p] EXCEPT !.inbounds = Append(@, x)]
      BY <1>8 DEF ReadAdvanced
    <3> HIDE DEF x
    <3>5. doc[p] \in [inbounds : Seq(EmittedInbound), outbounds : Seq(Entry), dns : Seq(Entry)]
      BY DEF Document, EmittedInbound
    <3>6. Append(doc[p].inbounds, x) \in Seq(EmittedInbound)
      BY <3>3, <3>5
    <3>7. doc'[p] \in [inbounds : Seq(EmittedInbound), outbounds : Seq(Entry), dns : Seq(Entry)]
      BY <3>4, <3>5, <3>6
    <3>8. QED
      BY <3>7 DEF Document, EmittedInbound
  <2>2. doc' \in [Worker -> Document]
    BY <1>8, <2>1 DEF ReadAdvanced
  <2>3. todo' \in [Worker -> Seq(Entry)]
    <3>1. todo[p] \in Seq(Entry) /\ todo[p] # <<>>
      BY <1>8 DEF ReadAdvanced
    <3>2. Tail(todo[p]) \in Seq(Entry)
      BY <3>1
    <3>3. QED
      BY <1>8, <3>2 DEF ReadAdvanced
  <2>4. pc' \in [Worker -> PcValues] /\ enabled' \in [Worker -> Seq(Entry)]
        /\ UNCHANGED <<store, file, target, copy, excuses, requests, gens, gen, written, disturbed>>
    <3>1. pc' = [pc EXCEPT ![p] = "mainInbound"] \/ pc' = [pc EXCEPT ![p] = "localInbounds"]
      BY <1>8 DEF ReadAdvanced
    <3>2. enabled' = [enabled EXCEPT ![p] = <<>>] /\ <<>> \in Seq(Entry)
      BY <1>8 DEF ReadAdvanced
    <3>3. UNCHANGED <<store, file, edit, requests, numbers, disturbed>>
      BY <1>8 DEF ReadAdvanced
    <3>4. QED
      BY <3>1, <3>2, <3>3 DEF edit, numbers
  <2>5. ASSUME NEW q \in Worker, pc'[q] \in {"mainAdvanced", "localAdvanced"} PROVE todo'[q] # <<>>
    BY <1>8, <2>5 DEF ReadAdvanced
  <2>6. QED
    BY <2>2, <2>3, <2>4, <2>5
<1>9. ASSUME NEW p \in Worker, ReadOutbounds(p) PROVE Typed'
  <2>1. doc'[p] \in Document
    BY <1>9, Selected DEF ReadOutbounds, Document, Stores
  <2>2. QED
    BY <1>9, <2>1 DEF ReadOutbounds, edit, numbers
<1>10. ASSUME NEW p \in Worker, ReadDNS(p) PROVE Typed'
  <2>1. doc'[p] \in Document
    BY <1>10 DEF ReadDNS, Document, Stores
  <2>2. QED
    BY <1>10, <2>1 DEF ReadDNS, edit, numbers
<1>11. ASSUME NEW p \in Worker, WriteFile(p) PROVE Typed'
  <2>1. Blank \in Document
    BY DEF Blank, Document
  <2>2. target' \in [Worker -> Stores]
    BY <1>11 DEF WriteFile, Stores
  <2>3. pc' = [pc EXCEPT ![p] = "idle"] \/ pc' = [pc EXCEPT ![p] = "setUsers"]
    BY <1>11 DEF WriteFile
  <2>4. file' \in Document /\ written' \in 0..gens /\ doc' \in [Worker -> Document]
    BY <1>11, <2>1 DEF WriteFile
  <2>5. UNCHANGED <<store, copy, excuses, todo, enabled, requests, gens, gen, disturbed>>
    BY <1>11 DEF WriteFile
  <2>6. QED
    BY <2>2, <2>3, <2>4, <2>5
<1>12. ASSUME NEW p \in Worker, Handshake(p) PROVE Typed'
  <2>1. pc' = [pc EXCEPT ![p] = "main"] \/ pc' = [pc EXCEPT ![p] = "setUsers"]
    BY <1>12 DEF Handshake
  <2>2. target' \in [Worker -> Stores] /\ requests' \in 0..MaxRequests
    BY <1>12 DEF Handshake, Stores
  <2>3. store' \in [Stores -> Seq(Entry)] /\ excuses' \subseteq {"rename", "overlap"} /\ disturbed' \subseteq Worker
    <3>1. CASE \E r \in Request : r.op = "handshake" /\ Store("inbounds", Edited(store["inbounds"], r))
      <4>1. PICK r \in Request : r.op = "handshake" /\ Store("inbounds", Edited(store["inbounds"], r))
        BY <3>1
      <4>2. Edited(store["inbounds"], r) \in Seq(Entry)
        BY <4>1, HandshakeStores
      <4>3. store' \in [Stores -> Seq(Entry)] /\ disturbed' \subseteq Worker
        BY <4>1, <4>2 DEF Store
      <4>4. excuses' \subseteq {"rename", "overlap"}
        <5>1. Overlap(p, "inbounds") \/ excuses' = excuses
          BY <1>12 DEF Handshake
        <5>2. excuses \subseteq {"rename", "overlap"}
          OBVIOUS
        <5>3. QED
          BY <5>1, <5>2, Zenon DEF Overlap
      <4>5. QED
        BY <4>3, <4>4
    <3>2. CASE UNCHANGED <<store, excuses, disturbed>>
      BY <3>2
    <3>3. QED
      BY <1>12, <3>1, <3>2 DEF Handshake
  <2>4. QED
    BY <1>12, <2>1, <2>2, <2>3 DEF Handshake, building, numbers
<1>13. ASSUME NEW p \in Worker, PutConfig(p) PROVE Typed'
  BY <1>13, BodiesAssumption DEF PutConfig, edit, building
<1>14. CASE UNCHANGED vars
  BY <1>14 DEF vars, edit, building, numbers
<1>15. QED
  BY <1>1, <1>2, <1>3, <1>4, <1>5, <1>6, <1>7, <1>8, <1>9, <1>10, <1>11, <1>12, <1>13, <1>14 DEF Next, Build

\* The variables of Edits keep their types (server.go, generator.go:9-64).
THEOREM TypeCorrect == Spec => []TypeOK
<1>1. Typed => TypeOK
  BY DEF Typed
<1>2. QED
  BY <1>1, TypedInit, TypedStep, PTL DEF Spec

-----------------------------------------------------------------------------
\* The inbound that the stores s call for where the list has e.
InboundOf(s, e) == Inbound(e, Enabled(s["users"]), AdvancedOf(s["advanced"], e.tag))

\* What d has emitted, then what q has yet to emit, is the list all.
Emits(d, q, all, s) ==
    /\ Len(d) + Len(q) = Len(all)
    /\ \A i \in 1..Len(d) : d[i] = InboundOf(s, all[i])
    /\ \A i \in 1..Len(q) : q[i] = all[Len(d) + i]

MainOf(s) == Main(s["inbounds"])
AllOf(s)  == Main(s["inbounds"]) \o Local(s["inbounds"])

\* How far the document of p is, if no store has changed since it was begun.
Building(p) ==
    /\ pc[p] \in {"mainInbound", "mainAdvanced"} => Emits(doc[p].inbounds, todo[p], MainOf(store), store)
    /\ pc[p] \in {"localInbounds", "localAdvanced"} => Emits(doc[p].inbounds, todo[p], AllOf(store), store)
    /\ pc[p] \in {"mainAdvanced", "localAdvanced"} => enabled[p] = Enabled(store["users"])
    /\ pc[p] \in {"dns", "file"} => /\ doc[p].inbounds = Generate(store).inbounds
                                    /\ doc[p].outbounds = Generate(store).outbounds
    /\ pc[p] = "file" => doc[p].dns = Generate(store).dns

BuildInv == \A p \in Worker \ disturbed : Building(p)

LEMMA AllOfTyped ==
    ASSUME NEW s \in [Stores -> Seq(Entry)]
    PROVE  MainOf(s) \in Seq(Entry) /\ AllOf(s) \in Seq(Entry)
           /\ Len(AllOf(s)) = Len(MainOf(s)) + Len(Local(s["inbounds"]))
           /\ \A i \in 1..Len(AllOf(s)) : AllOf(s)[i] = IF i <= Len(MainOf(s)) THEN MainOf(s)[i]
                                                       ELSE Local(s["inbounds"])[i - Len(MainOf(s))]
  BY Selected, ConcatProperties DEF MainOf, AllOf, Stores

\* One more inbound.
LEMMA EmitsNext ==
    ASSUME NEW s, NEW d \in Seq(EmittedInbound), NEW q \in Seq(Entry), q # <<>>, NEW all \in Seq(Entry),
           Emits(d, q, all, s), NEW x \in EmittedInbound, x = InboundOf(s, Head(q))
    PROVE  Emits(Append(d, x), Tail(q), all, s)
<1>1. Len(Append(d, x)) = Len(d) + 1 /\ Len(Tail(q)) = Len(q) - 1 /\ Len(q) \in Nat \ {0} /\ Len(d) \in Nat
  BY HeadTailProperties
<1>2. \A i \in 1..Len(Tail(q)) : Tail(q)[i] = q[i + 1]
  BY HeadTailProperties
<1>3. Head(q) = all[Len(d) + 1]
  BY <1>1 DEF Emits
<1>4. ASSUME NEW i \in 1..Len(Append(d, x)) PROVE Append(d, x)[i] = InboundOf(s, all[i])
  <2>1. CASE i = Len(d) + 1
    <3>1. Append(d, x)[Len(d) + 1] = x
      BY <1>1
    <3>2. QED
      BY <1>3, <2>1, <3>1
  <2>2. CASE i # Len(d) + 1
    <3>1. i \in 1..Len(d) /\ Append(d, x)[i] = d[i]
      BY <1>1, <2>2
    <3>2. QED
      BY <3>1 DEF Emits
  <2>3. QED
    BY <2>1, <2>2
<1>5. ASSUME NEW i \in 1..Len(Tail(q)) PROVE Tail(q)[i] = all[Len(Append(d, x)) + i]
  <2>1. i + 1 \in 1..Len(q) /\ Len(d) + (i + 1) = Len(Append(d, x)) + i
    BY <1>1
  <2>2. q[i + 1] = all[Len(d) + (i + 1)]
    BY <2>1 DEF Emits
  <2>3. QED
    BY <1>2, <2>1, <2>2
<1>6. Len(Append(d, x)) + Len(Tail(q)) = Len(all)
  BY <1>1 DEF Emits
<1>7. QED
  BY <1>4, <1>5, <1>6 DEF Emits

\* Nothing left: what has been emitted is what the stores call for.
LEMMA EmitsAll ==
    ASSUME NEW s \in [Stores -> Seq(Entry)], NEW d \in Seq(EmittedInbound), Emits(d, <<>>, AllOf(s), s)
    PROVE  d = Generate(s).inbounds
<1>1. Len(d) = Len(AllOf(s)) /\ AllOf(s) \in Seq(Entry) /\ DOMAIN d = 1..Len(d)
      /\ DOMAIN AllOf(s) = 1..Len(AllOf(s))
  BY AllOfTyped DEF Emits
<1>2. Generate(s).inbounds = [i \in 1..Len(d) |-> InboundOf(s, AllOf(s)[i])]
  BY <1>1, Zenon DEF Generate, AllOf, InboundOf
<1>3. \A i \in 1..Len(d) : d[i] = InboundOf(s, AllOf(s)[i])
  BY DEF Emits
<1>4. d = [i \in 1..Len(d) |-> d[i]]
  BY <1>1
<1>5. QED
  BY <1>2, <1>3, <1>4

\* A store takes a value: it changes nothing, or everybody who generates is disturbed.
LEMMA StoreDisturbs ==
    ASSUME TypeOK, NEW l \in Stores, NEW v, Store(l, v)
    PROVE  (store' = store /\ disturbed' = disturbed) \/ disturbed' = Worker
  BY DEF Store, TypeOK

\* What concerns q alone.
Own(q) == <<pc[q], todo[q], enabled[q], doc[q]>>

LEMMA BuildingStays ==
    ASSUME NEW q \in Worker, Building(q), store' = store, UNCHANGED Own(q) PROVE Building(q)'
<1>1. pc'[q] = pc[q] /\ todo'[q] = todo[q] /\ enabled'[q] = enabled[q] /\ doc'[q] = doc[q]
  BY DEF Own
<1>2. QED
  BY <1>1 DEF Building

LEMMA BuildStep == ASSUME Typed, Typed', BuildInv, [Next]_vars PROVE BuildInv'
<1> USE DEF Typed, TypeOK, Goto, PcValues
<1>0. /\ store["inbounds"] \in Seq(Entry) /\ store["users"] \in Seq(Entry)
      /\ \A p \in Worker : doc[p].inbounds \in Seq(EmittedInbound) /\ todo[p] \in Seq(Entry)
  BY DEF Stores, Document, EmittedInbound
<1>a. ASSUME NEW p \in Worker, store' = store, disturbed' = disturbed,
             \A q \in Worker \ {p} : UNCHANGED Own(q),
             p \notin disturbed => Building(p)'
      PROVE  BuildInv'
  <2>1. \A q \in Worker \ disturbed : q # p => Building(q)'
    BY <1>a, BuildingStays DEF BuildInv
  <2>2. QED
    BY <1>a, <2>1 DEF BuildInv
<1>b. ASSUME NEW p \in Worker, pc'[p] \in {"idle", "set", "sync", "setUsers", "main"} PROVE Building(p)'
  BY <1>b DEF Building
<1>1. ASSUME NEW p \in Worker, Read(p) PROVE BuildInv'
  <2>1. pc'[p] \in {"set", "sync"} /\ store' = store /\ disturbed' = disturbed
        /\ \A q \in Worker \ {p} : UNCHANGED Own(q)
    BY <1>1 DEF Read, building, Own
  <2>2. QED
    BY <1>a, <1>b, <2>1
<1>2. ASSUME NEW p \in Worker, Refuse(p) \/ PutConfig(p) PROVE BuildInv'
  <2>1. pc'[p] = "idle" /\ store' = store /\ disturbed' = disturbed
        /\ \A q \in Worker \ {p} : UNCHANGED Own(q)
    BY <1>2 DEF Refuse, PutConfig, building, Own
  <2>2. QED
    BY <1>a, <1>b, <2>1
<1>3. ASSUME NEW p \in Worker, Set(p) \/ SetUsers(p) \/ Handshake(p) PROVE BuildInv'
  <2>1. pc'[p] \in {"setUsers", "main"} /\ \A q \in Worker \ {p} : UNCHANGED Own(q)
    BY <1>3 DEF Set, SetUsers, Handshake, building, Own
  <2>2. (store' = store /\ disturbed' = disturbed) \/ disturbed' = Worker
    <3>1. CASE Set(p)
      <4>1. target[p] \in Stores /\ Store(target[p], copy[p])
        BY <3>1 DEF Set
      <4>2. QED
        BY <4>1, StoreDisturbs
    <3>2. CASE SetUsers(p)
      <4>1. PICK u : Store("users", u)
        BY <3>2 DEF SetUsers
      <4>2. QED
        BY <4>1, StoreDisturbs DEF Stores
    <3>3. CASE Handshake(p)
      <4>1. (store' = store /\ disturbed' = disturbed) \/ \E v : Store("inbounds", v)
        BY <3>3 DEF Handshake
      <4>2. QED
        BY <4>1, StoreDisturbs DEF Stores
    <3>4. QED
      BY <1>3, <3>1, <3>2, <3>3
  <2>3. QED
    BY <1>a, <1>b, <2>1, <2>2 DEF BuildInv
<1>4. ASSUME NEW p \in Worker, ReadMain(p) PROVE BuildInv'
  <2>1. /\ store' = store /\ disturbed' = disturbed \ {p}
        /\ \A q \in Worker \ {p} : UNCHANGED Own(q)
    BY <1>4 DEF ReadMain, Own
  <2>2. pc'[p] = "mainInbound" /\ todo'[p] = MainOf(store) /\ doc'[p].inbounds = <<>>
    BY <1>4 DEF ReadMain, MainOf, Blank
  <2>3. Emits(<<>>, MainOf(store), MainOf(store), store)
    BY AllOfTyped DEF Emits
  <2>4. Building(p)'
    BY <2>1, <2>2, <2>3 DEF Building
  <2>5. \A q \in Worker \ disturbed : q # p => Building(q)'
    BY <2>1, BuildingStays DEF BuildInv
  <2>6. QED
    BY <2>1, <2>4, <2>5 DEF BuildInv
<1>5. ASSUME NEW p \in Worker, ReadLocals(p) PROVE BuildInv'
  <2>1. /\ store' = store /\ disturbed' = disturbed
        /\ \A q \in Worker \ {p} : UNCHANGED Own(q)
    BY <1>5 DEF ReadLocals, Own, numbers
  <2>2. /\ pc[p] = "mainInbound" /\ todo[p] = <<>>
        /\ pc'[p] = "localInbounds" /\ todo'[p] = Local(store["inbounds"]) /\ doc'[p] = doc[p]
    BY <1>5 DEF ReadLocals
  <2>3. ASSUME p \notin disturbed PROVE Emits(doc[p].inbounds, Local(store["inbounds"]), AllOf(store), store)
    <3>1. Emits(doc[p].inbounds, <<>>, MainOf(store), store)
      BY <2>2, <2>3 DEF BuildInv, Building
    <3>2. Len(doc[p].inbounds) = Len(MainOf(store)) /\ Len(MainOf(store)) \in Nat
          /\ Local(store["inbounds"]) \in Seq(Entry) /\ MainOf(store) \in Seq(Entry)
          /\ Len(Local(store["inbounds"])) \in Nat
      <4>1. MainOf(store) \in Seq(Entry) /\ Local(store["inbounds"]) \in Seq(Entry)
        BY <1>0, AllOfTyped, Selected
      <4>2. Len(MainOf(store)) \in Nat /\ Len(Local(store["inbounds"])) \in Nat
            /\ Len(doc[p].inbounds) \in Nat
        BY <1>0, <4>1, LenProperties
      <4>3. Len(doc[p].inbounds) + Len(<<>>) = Len(MainOf(store)) /\ Len(<<>>) = 0
        BY <3>1 DEF Emits
      <4>4. QED
        BY <4>1, <4>2, <4>3
    <3>3. Len(AllOf(store)) = Len(MainOf(store)) + Len(Local(store["inbounds"]))
      BY AllOfTyped
    <3>4. ASSUME NEW i \in 1..Len(doc[p].inbounds) PROVE doc[p].inbounds[i] = InboundOf(store, AllOf(store)[i])
      <4>1. doc[p].inbounds[i] = InboundOf(store, MainOf(store)[i])
        BY <3>1 DEF Emits
      <4>2. i \in 1..Len(AllOf(store)) /\ i <= Len(MainOf(store))
        BY <3>2, <3>3
      <4>3. AllOf(store)[i] = MainOf(store)[i]
        BY <4>2, AllOfTyped
      <4>4. QED
        BY <4>1, <4>3
    <3>5. ASSUME NEW i \in 1..Len(Local(store["inbounds"]))
          PROVE  Local(store["inbounds"])[i] = AllOf(store)[Len(doc[p].inbounds) + i]
      <4>1. Len(MainOf(store)) + i \in 1..Len(AllOf(store)) /\ ~(Len(MainOf(store)) + i <= Len(MainOf(store)))
            /\ (Len(MainOf(store)) + i) - Len(MainOf(store)) = i
        <5>1. ASSUME NEW a \in Nat, NEW b \in Nat, NEW j \in 1..b
              PROVE  a + j \in 1..(a + b) /\ ~(a + j <= a) /\ (a + j) - a = j
          OBVIOUS
        <5>2. QED
          BY <3>2, <3>3, <5>1
      <4>2. QED
        BY <3>2, <4>1, AllOfTyped
    <3>6. QED
      BY <3>2, <3>3, <3>4, <3>5 DEF Emits
  <2>4. p \notin disturbed => Building(p)'
    BY <2>1, <2>2, <2>3 DEF Building
  <2>5. QED
    BY <1>a, <2>1, <2>4
<1>6. ASSUME NEW p \in Worker, ReadUsers(p) PROVE BuildInv'
  <2>1. /\ store' = store /\ disturbed' = disturbed
        /\ \A q \in Worker \ {p} : UNCHANGED Own(q)
    BY <1>6 DEF ReadUsers, Own, numbers
  <2>2. /\ \/ pc[p] = "mainInbound" /\ pc'[p] = "mainAdvanced"
           \/ pc[p] = "localInbounds" /\ pc'[p] = "localAdvanced"
        /\ todo'[p] = todo[p] /\ doc'[p] = doc[p] /\ enabled'[p] = Enabled(store["users"])
    BY <1>6 DEF ReadUsers
  <2>3. p \notin disturbed => Building(p)'
    BY <2>1, <2>2 DEF BuildInv, Building
  <2>4. QED
    BY <1>a, <2>1, <2>3
<1>7. ASSUME NEW p \in Worker, ReadAdvanced(p) PROVE BuildInv'
  <2> DEFINE x == Inbound(Head(todo[p]), enabled[p], AdvancedOf(store["advanced"], Head(todo[p]).tag))
  <2>1. /\ store' = store /\ disturbed' = disturbed
        /\ \A q \in Worker \ {p} : UNCHANGED Own(q)
    BY <1>7 DEF ReadAdvanced, Own, numbers
  <2>2. /\ \/ pc[p] = "mainAdvanced" /\ pc'[p] = "mainInbound"
           \/ pc[p] = "localAdvanced" /\ pc'[p] = "localInbounds"
        /\ todo[p] # <<>> /\ todo'[p] = Tail(todo[p])
    BY <1>7 DEF ReadAdvanced
  <2>3. doc'[p].inbounds = Append(doc[p].inbounds, x)
    BY <1>7 DEF ReadAdvanced, Document
  <2>4. x \in EmittedInbound
    <3>1. Head(todo[p]) \in Entry
      BY <1>0, <2>2, HeadTailProperties
    <3>2. store["advanced"] \in Seq(Entry) /\ enabled[p] \in Seq(Entry)
      BY DEF Stores
    <3>3. QED
      BY <3>1, <3>2, Selected DEF Inbound, EmittedInbound
  <2>5. ASSUME p \notin disturbed PROVE x = InboundOf(store, Head(todo[p]))
    BY <2>2, <2>5 DEF BuildInv, Building, InboundOf
  <2> HIDE DEF x
  <2>6. ASSUME p \notin disturbed, NEW all \in Seq(Entry), Emits(doc[p].inbounds, todo[p], all, store)
        PROVE  Emits(doc'[p].inbounds, todo'[p], all, store)
    <3>1. doc[p].inbounds \in Seq(EmittedInbound) /\ todo[p] \in Seq(Entry) /\ todo[p] # <<>>
      BY <1>0, <2>2
    <3>2. Emits(Append(doc[p].inbounds, x), Tail(todo[p]), all, store)
      BY <2>4, <2>5, <2>6, <3>1, EmitsNext
    <3>3. QED
      BY <2>2, <2>3, <3>2
  <2>7. p \notin disturbed => Building(p)'
    BY <2>1, <2>2, <2>6, AllOfTyped DEF BuildInv, Building
  <2>8. QED
    BY <1>a, <2>1, <2>7
<1>8. ASSUME NEW p \in Worker, ReadOutbounds(p) PROVE BuildInv'
  <2>1. /\ store' = store /\ disturbed' = disturbed
        /\ \A q \in Worker \ {p} : UNCHANGED Own(q)
    BY <1>8 DEF ReadOutbounds, Own, numbers
  <2>2. /\ pc[p] = "localInbounds" /\ todo[p] = <<>> /\ pc'[p] = "dns"
        /\ doc'[p].inbounds = doc[p].inbounds /\ doc'[p].outbounds = Known(store["outbounds"])
    BY <1>8 DEF ReadOutbounds, Document
  <2>3. ASSUME p \notin disturbed PROVE doc[p].inbounds = Generate(store).inbounds
    <3>1. Emits(doc[p].inbounds, <<>>, AllOf(store), store)
      BY <2>2, <2>3 DEF BuildInv, Building
    <3>2. QED
      BY <1>0, <3>1, EmitsAll
  <2>4. Generate(store).outbounds = Known(store["outbounds"])
    BY DEF Generate
  <2>5. p \notin disturbed => Building(p)'
    BY <2>1, <2>2, <2>3, <2>4 DEF Building
  <2>6. QED
    BY <1>a, <2>1, <2>5
<1>9. ASSUME NEW p \in Worker, ReadDNS(p) PROVE BuildInv'
  <2>1. /\ store' = store /\ disturbed' = disturbed
        /\ \A q \in Worker \ {p} : UNCHANGED Own(q)
    BY <1>9 DEF ReadDNS, Own, numbers
  <2>2. /\ pc[p] = "dns" /\ pc'[p] = "file" /\ doc'[p].inbounds = doc[p].inbounds
        /\ doc'[p].outbounds = doc[p].outbounds /\ doc'[p].dns = store["dns"]
    BY <1>9 DEF ReadDNS, Document
  <2>3. Generate(store).dns = store["dns"]
    BY DEF Generate
  <2>4. p \notin disturbed => Building(p)'
    BY <2>1, <2>2, <2>3 DEF BuildInv, Building
  <2>5. QED
    BY <1>a, <2>1, <2>4
<1>10. ASSUME NEW p \in Worker, WriteFile(p) PROVE BuildInv'
  <2>1. pc'[p] \in {"idle", "setUsers"} /\ store' = store /\ disturbed' = disturbed
        /\ \A q \in Worker \ {p} : UNCHANGED Own(q)
    BY <1>10 DEF WriteFile, Own
  <2>2. QED
    BY <1>a, <1>b, <2>1
<1>11. CASE UNCHANGED vars
  <2>1. store' = store /\ disturbed' = disturbed /\ \A q \in Worker : UNCHANGED Own(q)
    BY <1>11 DEF vars, building, Own
  <2>2. QED
    BY <2>1, BuildingStays DEF BuildInv
<1>12. QED
  BY <1>1, <1>2, <1>3, <1>4, <1>5, <1>6, <1>7, <1>8, <1>9, <1>10, <1>11 DEF Next, Build

\* A document that is about to be written is the one the stores call for, unless one of
\* them has changed since it was begun, for any lists (generator.go:39-58, 80-103).
THEOREM DocumentAsStored == Spec => []DocumentMatches
<1>1. Init => BuildInv
  BY DEF Init, BuildInv, Building
<1>2. Typed /\ BuildInv => DocumentMatches
  <2> SUFFICES ASSUME Typed, BuildInv, NEW p \in Worker, pc[p] = "file", p \notin disturbed
               PROVE  doc[p] = Generate(store)
    BY DEF DocumentMatches
  <2>1. doc[p].inbounds = Generate(store).inbounds /\ doc[p].outbounds = Generate(store).outbounds
        /\ doc[p].dns = Generate(store).dns
    BY DEF BuildInv, Building
  <2>2. doc[p] \in Document /\ Generate(store) \in Document
    BY GenerateTyped DEF Typed, TypeOK
  <2>3. QED
    BY <2>1, <2>2 DEF Document
<1>3. Spec => []Typed
  BY TypedInit, TypedStep, PTL DEF Spec
<1>4. QED
  BY <1>1, <1>2, <1>3, BuildStep, PTL DEF Spec

-----------------------------------------------------------------------------
Working  == {"mainInbound", "mainAdvanced", "localInbounds", "localAdvanced", "dns", "file"}
Changing == {"setUsers", "main"}

\* Who has changed a store is on its way to begin a document; documents have different
\* numbers, and the number of the file's is nobody's any more.
FileInv ==
    /\ \A p, q \in Worker : pc[p] \in Working /\ pc[q] \in Working /\ gen[p] = gen[q] => p = q
    /\ \A p \in Worker : pc[p] \in Working => gen[p] # written /\ gen[p] # 0
    /\ gens # 0
    /\ \A p \in disturbed : pc[p] \in Working /\ gen[p] = gens => \E q \in Worker : pc[q] \in Changing
    /\ written = gens => file = Generate(store) \/ \E q \in Worker : pc[q] \in Changing

LEMMA FileStep == ASSUME Typed, Typed', DocumentMatches, FileInv, [Next]_vars PROVE FileInv'
<1> USE DEF Goto, Working, Changing
<1>0. /\ pc \in [Worker -> PcValues] /\ gens \in Nat /\ gen \in [Worker -> 0..gens] /\ written \in 0..gens
      /\ disturbed \subseteq Worker
  BY DEF Typed, TypeOK
<1>1. ASSUME NEW p \in Worker, Set(p) \/ SetUsers(p) \/ Handshake(p) PROVE FileInv'
  <2>1. /\ pc' = [pc EXCEPT ![p] = "main"] \/ pc' = [pc EXCEPT ![p] = "setUsers"]
        /\ gens' = gens /\ gen' = gen /\ written' = written
    BY <1>1 DEF Set, SetUsers, Handshake, numbers
  <2>2. \E q \in Worker : pc'[q] \in Changing
    BY <1>0, <2>1
  <2>3. \A q \in Worker : pc'[q] \in Working => pc[q] \in Working
    BY <1>0, <2>1
  <2>4. QED
    BY <2>1, <2>2, <2>3 DEF FileInv
<1>2. ASSUME NEW p \in Worker, ReadMain(p) PROVE FileInv'
  <2>1. /\ pc' = [pc EXCEPT ![p] = "mainInbound"] /\ gens' = gens + 1 /\ written' = written
        /\ gen' = [gen EXCEPT ![p] = gens + 1] /\ disturbed' = disturbed \ {p}
    BY <1>2 DEF ReadMain
  <2>2. \A q \in Worker : gen[q] # gens + 1
    BY <1>0
  <2>3. written # gens + 1
    BY <1>0
  <2>4. \A q \in Worker \ {p} : pc'[q] = pc[q] /\ gen'[q] = gen[q]
    BY <1>0, <2>1
  <2>5. gen'[p] = gens + 1
    BY <1>0, <2>1
  <2>6. \A q, r \in Worker : pc'[q] \in Working /\ pc'[r] \in Working /\ gen'[q] = gen'[r] => q = r
    BY <2>2, <2>4, <2>5 DEF FileInv
  <2>7. QED
    BY <1>0, <2>1, <2>2, <2>3, <2>4, <2>5, <2>6 DEF FileInv
<1>3. ASSUME NEW p \in Worker,
             ReadLocals(p) \/ ReadUsers(p) \/ ReadAdvanced(p) \/ ReadOutbounds(p) \/ ReadDNS(p)
      PROVE  FileInv'
  <2>1. /\ pc[p] \in Working /\ \E to \in Working : pc' = [pc EXCEPT ![p] = to]
        /\ UNCHANGED <<store, file, gens, gen, written, disturbed>>
    BY <1>3 DEF ReadLocals, ReadUsers, ReadAdvanced, ReadOutbounds, ReadDNS, numbers
  <2>2. \A q \in Worker : /\ pc'[q] \in Working <=> pc[q] \in Working
                          /\ pc'[q] \in Changing <=> pc[q] \in Changing
    BY <1>0, <2>1
  <2>3. QED
    BY <2>1, <2>2 DEF FileInv
<1>4. ASSUME NEW p \in Worker, Read(p) \/ Refuse(p) PROVE FileInv'
  <2>1. /\ pc[p] = "idle" /\ \E to \in {"idle", "set", "sync"} : pc' = [pc EXCEPT ![p] = to]
        /\ UNCHANGED <<store, file, gens, gen, written, disturbed>>
    <3>1. CASE Read(p)
      BY <3>1 DEF Read, numbers
    <3>2. CASE Refuse(p)
      <4>1. pc[p] = "idle" /\ UNCHANGED <<store, file, pc, gens, gen, written, disturbed>>
        BY <3>2 DEF Refuse, numbers
      <4>2. pc = [pc EXCEPT ![p] = "idle"]
        BY <1>0, <4>1
      <4>3. QED
        BY <4>1, <4>2
    <3>3. QED
      BY <1>4, <3>1, <3>2
  <2>2. \A q \in Worker : /\ pc'[q] \in Working <=> pc[q] \in Working
                          /\ pc'[q] \in Changing <=> pc[q] \in Changing
    BY <1>0, <2>1
  <2>3. QED
    BY <2>1, <2>2 DEF FileInv
<1>5. ASSUME NEW p \in Worker, WriteFile(p) PROVE FileInv'
  <2>1. /\ pc[p] = "file" /\ \E to \in {"idle", "setUsers"} : pc' = [pc EXCEPT ![p] = to]
        /\ UNCHANGED <<store, gens, gen, disturbed>>
    BY <1>5 DEF WriteFile
  <2>2. \A q \in Worker : /\ pc'[q] \in Working <=> pc[q] \in Working /\ q # p
                          /\ pc[q] \in Changing => pc'[q] \in Changing
    BY <1>0, <2>1
  <2>3. CASE file' = doc[p] /\ written' = gen[p]
    <3>1. written' = gens => file' = Generate(store) \/ \E q \in Worker : pc[q] \in Changing
      BY <2>1, <2>3 DEF FileInv, DocumentMatches
    <3>2. \A q \in Worker : pc'[q] \in Working => gen'[q] # written' /\ gen'[q] # 0
      BY <1>5, <2>1, <2>2, <2>3 DEF FileInv
    <3>3. QED
      BY <1>0, <2>1, <2>2, <3>1, <3>2 DEF FileInv
  <2>4. CASE file' = file /\ written' = written
    BY <1>0, <2>1, <2>2, <2>4 DEF FileInv
  <2>5. QED
    BY <1>5, <2>3, <2>4 DEF WriteFile
<1>6. ASSUME NEW p \in Worker, PutConfig(p) PROVE FileInv'
  BY <1>6 DEF PutConfig, FileInv
<1>7. CASE UNCHANGED vars
  BY <1>7 DEF vars, numbers, FileInv
<1>8. QED
  BY <1>1, <1>2, <1>3, <1>4, <1>5, <1>6, <1>7 DEF Next, Build

\* At rest sing-box's file is what the stores call for, unless the document that was
\* begun last has not been written last, or PUT /config has replaced it
\* (server.go:518-535, 652-665, daemon.go:118-136, 213-240).
THEOREM FileFollows == Spec => []FileMatches
<1>1. Init => FileInv
  BY DEF Init, FileInv, Working
<1>2. FileInv => FileMatches
  BY DEF FileInv, FileMatches, Changing
<1>3. Spec => []Typed
  BY TypedInit, TypedStep, PTL DEF Spec
<1>4. QED
  BY <1>1, <1>2, <1>3, FileStep, DocumentAsStored, PTL DEF Spec

-----------------------------------------------------------------------------
\* Until two requests have overlapped, what a handler is about to store is its request
\* carried out on the list as it is.
SerialInv ==
    "overlap" \notin excuses =>
        \A p \in Worker : pc[p] \in Editing =>
            \E r \in Request : /\ r.list = target[p] /\ ~Refused(store[r.list], r)
                               /\ copy[p] = Edited(store[r.list], r)

\* A handshake that brings the panel's inbound.
Replaces(p) ==
    /\ pc[p] \notin Editing /\ \A q \in Worker : pc'[q] \in Editing => q # p /\ pc[q] \in Editing
    /\ Overlap(p, "inbounds") /\ copy' = copy /\ \A q \in Worker \ {p} : target'[q] = target[q]
    /\ \E r \in Request : r.op = "handshake" /\ store' = [store EXCEPT !["inbounds"] = Edited(store["inbounds"], r)]

\* What a step that neither reads a list nor stores one leaves as it is.
LEMMA StepKinds ==
    ASSUME Typed, [Next]_vars
    PROVE  \/ \E p \in Worker : Read(p) \/ Set(p)
           \/ \E p \in Worker : Replaces(p)
           \/ /\ UNCHANGED <<copy, excuses>>
              /\ \A q \in Worker : pc'[q] \in Editing => pc[q] \in Editing /\ target'[q] = target[q]
              /\ \A l \in Stores \ {"users"} : store'[l] = store[l]
<1> USE DEF Typed, TypeOK, Goto, Editing
<1>1. ASSUME NEW p \in Worker, Refuse(p) \/ PutConfig(p) \/ Build(p)
      PROVE  /\ UNCHANGED <<target, copy, excuses, store>>
             /\ \A q \in Worker : pc'[q] \in Editing => pc[q] \in Editing
  <2>1. CASE Refuse(p) \/ PutConfig(p)
    BY <2>1 DEF Refuse, PutConfig, edit
  <2>2. CASE ReadMain(p) \/ ReadLocals(p) \/ ReadUsers(p) \/ ReadAdvanced(p)
    BY <2>2 DEF ReadMain, ReadLocals, ReadUsers, ReadAdvanced, edit
  <2>3. CASE ReadOutbounds(p) \/ ReadDNS(p)
    BY <2>3 DEF ReadOutbounds, ReadDNS, edit
  <2>4. QED
    BY <1>1, <2>1, <2>2, <2>3 DEF Build
<1>2. ASSUME NEW p \in Worker, SetUsers(p) \/ WriteFile(p)
      PROVE  /\ UNCHANGED <<copy, excuses>>
             /\ \A q \in Worker : pc'[q] \in Editing => pc[q] \in Editing /\ target'[q] = target[q]
             /\ \A l \in Stores \ {"users"} : store'[l] = store[l]
  <2>1. CASE SetUsers(p)
    BY <2>1 DEF SetUsers, Store
  <2>2. CASE WriteFile(p)
    BY <2>2 DEF WriteFile
  <2>3. QED
    BY <1>2, <2>1, <2>2
<1>3. ASSUME NEW p \in Worker, Handshake(p)
      PROVE  \/ Replaces(p)
             \/ /\ UNCHANGED <<copy, excuses, store>>
                /\ \A q \in Worker : pc'[q] \in Editing => pc[q] \in Editing /\ target'[q] = target[q]
  <2>1. /\ pc[p] \notin Editing /\ \A q \in Worker : pc'[q] \in Editing => q # p /\ pc[q] \in Editing
        /\ copy' = copy /\ \A q \in Worker \ {p} : target'[q] = target[q]
    BY <1>3 DEF Handshake
  <2>2. QED
    BY <1>3, <2>1 DEF Handshake, Replaces, Store
<1>4. CASE UNCHANGED vars
  BY <1>4 DEF vars, edit
<1>5. QED
  BY <1>1, <1>2, <1>3, <1>4 DEF Next

LEMMA SerialStep == ASSUME Typed, SerialInv, [Next]_vars PROVE SerialInv'
<1> USE DEF Goto, Editing
<1>0. /\ pc \in [Worker -> PcValues] /\ target \in [Worker -> Stores] /\ copy \in [Worker -> Seq(Entry)]
      /\ store \in [Stores -> Seq(Entry)]
  BY DEF Typed, TypeOK
<1>1. ASSUME NEW p \in Worker, Read(p) PROVE SerialInv'
  <2>1. PICK r \in Request : /\ ~Refused(store[r.list], r)
                             /\ pc' = [pc EXCEPT ![p] = IF r.op = "sync" THEN "sync" ELSE "set"]
                             /\ target' = [target EXCEPT ![p] = r.list]
                             /\ copy' = [copy EXCEPT ![p] = Edited(store[r.list], r)]
    BY <1>1 DEF Read
  <2>2. store' = store /\ ("overlap" \in excuses => "overlap" \in excuses')
    BY <1>1 DEF Read
  <2>3. target'[p] = r.list /\ copy'[p] = Edited(store[r.list], r)
    BY <1>0, <2>1
  <2>4. \A q \in Worker \ {p} : pc'[q] = pc[q] /\ target'[q] = target[q] /\ copy'[q] = copy[q]
    BY <1>0, <2>1
  <2>5. QED
    BY <2>1, <2>2, <2>3, <2>4 DEF SerialInv
<1>2. ASSUME NEW p \in Worker, Set(p) PROVE SerialInv'
  <2>1. SUFFICES ASSUME "overlap" \notin excuses', NEW q \in Worker, pc'[q] \in Editing
        PROVE \E r \in Request : /\ r.list = target'[q] /\ ~Refused(store'[r.list], r)
                                 /\ copy'[q] = Edited(store'[r.list], r)
    BY DEF SerialInv
  <2>2. "overlap" \notin excuses /\ \A w \in Worker \ {p} : pc[w] \in Editing => target[w] # target[p]
    BY <1>2, <2>1 DEF Set, Overlap
  <2>3. q # p /\ pc'[q] = pc[q] /\ target'[q] = target[q] /\ copy'[q] = copy[q]
    BY <1>0, <1>2, <2>1 DEF Set
  <2>4. PICK r \in Request : /\ r.list = target[q] /\ ~Refused(store[r.list], r)
                             /\ copy[q] = Edited(store[r.list], r)
    BY <2>1, <2>2, <2>3 DEF SerialInv
  <2>5. store'[r.list] = store[r.list]
    BY <1>0, <1>2, <2>1, <2>2, <2>3, <2>4 DEF Set, Store
  <2>6. QED
    BY <2>3, <2>4, <2>5
<1>3. ASSUME NEW p \in Worker, Replaces(p) PROVE SerialInv'
  <2>1. SUFFICES ASSUME "overlap" \notin excuses', NEW q \in Worker, pc'[q] \in Editing
        PROVE \E r \in Request : /\ r.list = target'[q] /\ ~Refused(store'[r.list], r)
                                 /\ copy'[q] = Edited(store'[r.list], r)
    BY DEF SerialInv
  <2>2. /\ "overlap" \notin excuses /\ pc[q] \in Editing /\ target[q] # "inbounds"
        /\ target'[q] = target[q] /\ copy'[q] = copy[q]
    BY <1>3, <2>1 DEF Replaces, Overlap
  <2>3. PICK r \in Request : /\ r.list = target[q] /\ ~Refused(store[r.list], r)
                             /\ copy[q] = Edited(store[r.list], r)
    BY <2>2 DEF SerialInv
  <2>4. store'[r.list] = store[r.list]
    BY <1>0, <1>3, <2>2, <2>3 DEF Replaces
  <2>5. QED
    BY <2>2, <2>3, <2>4
<1>4. CASE /\ UNCHANGED <<copy, excuses>>
           /\ \A q \in Worker : pc'[q] \in Editing => pc[q] \in Editing /\ target'[q] = target[q]
           /\ \A l \in Stores \ {"users"} : store'[l] = store[l]
  <2>1. \A r \in Request : store'[r.list] = store[r.list]
    BY <1>4, EditsAssumption DEF TypedRequest
  <2>2. QED
    BY <1>4, <2>1 DEF SerialInv
<1>5. QED
  BY <1>1, <1>2, <1>3, <1>4, StepKinds

\* Without overlapping requests every change of a list is one request on the list as
\* it is, or a handshake's replacement of the inbounds, for any requests and number of
\* goroutines (server.go:231-288, daemon.go:118-126).
THEOREM EditsSerialise == Spec => EditsSerial
<1> DEFINE Serial(l) ==
       \E r \in Request :
          /\ r.list = l
          /\ \/ r.op = "handshake" /\ store'[l] = <<r.entry>>
             \/ r.op # "handshake" /\ ~Refused(store[l], r) /\ store'[l] = Edited(store[l], r)
<1>1. Init => SerialInv
  BY DEF Init, SerialInv, Editing
<1>2. ASSUME Typed, SerialInv, [Next]_vars, NEW l \in Stores \ {"users"}, "overlap" \notin excuses,
             store'[l] # store[l]
      PROVE  Serial(l)
  <2>1. CASE \E p \in Worker : Set(p)
    <3>1. PICK p \in Worker : Set(p)
      BY <2>1
    <3>2. pc[p] \in Editing /\ store' = [store EXCEPT ![target[p]] = copy[p]]
      BY <3>1 DEF Set, Store, Goto, Editing
    <3>3. target[p] = l /\ store'[l] = copy[p]
      BY <1>2, <3>2 DEF Typed, TypeOK
    <3>4. PICK r \in Request : r.list = l /\ ~Refused(store[l], r) /\ store'[l] = Edited(store[l], r)
      BY <1>2, <3>2, <3>3 DEF SerialInv
    <3>5. QED
      BY <3>4, HandshakeStores
  <2>2. CASE \E p \in Worker : Replaces(p)
    <3>1. PICK r \in Request : r.op = "handshake" /\ store' = [store EXCEPT !["inbounds"] = Edited(store["inbounds"], r)]
      BY <2>2 DEF Replaces
    <3>2. l = "inbounds" /\ store'[l] = Edited(store[l], r)
      BY <1>2, <3>1 DEF Typed, TypeOK
    <3>3. QED
      BY <3>1, <3>2, HandshakeStores
  <2>3. QED
    BY <1>2, <2>1, <2>2, StepKinds DEF Read
<1>3. Typed /\ SerialInv /\ [Next]_vars
      => [\A l \in Stores \ {"users"} : "overlap" \notin excuses /\ store'[l] # store[l] => Serial(l)]_vars
  BY <1>2
<1>4. Spec => []Typed
  BY TypedInit, TypedStep, PTL DEF Spec
<1>5. QED
  BY <1>1, <1>3, <1>4, SerialStep, PTL DEF Spec, EditsSerial

-----------------------------------------------------------------------------
Tagged == {"inbounds", "outbounds"}

LEMMA EditedUnique ==
    ASSUME NEW l \in Seq(Entry), Unique(l), NEW r \in Request, r.list \in Tagged, ~Refused(l, r),
           ~(r.op \in {"put", "upsert"} /\ r.entry.tag # r.path)
    PROVE  Unique(Edited(l, r))
<1>1. r.entry \in Entry /\ r.op \in {"post", "put", "upsert", "delete", "sync", "handshake"}
  BY EditsAssumption DEF TypedRequest, Tagged
<1>2. ASSUME ~Holds(l, r.entry.tag) PROVE Unique(Append(l, r.entry))
  BY <1>1, <1>2 DEF Unique, Holds
<1>3. ASSUME Holds(l, r.path), r.entry.tag = r.path PROVE Unique(Put(l, r.path, r.entry))
  <2>1. First(l, r.path) \in 1..Len(l) /\ l[First(l, r.path)].tag = r.path
    BY <1>3, FirstIsThere
  <2>2. /\ DOMAIN Put(l, r.path, r.entry) = DOMAIN l
        /\ \A i \in DOMAIN l : Put(l, r.path, r.entry)[i].tag = l[i].tag
    BY <1>1, <1>3, <2>1 DEF Put
  <2>3. QED
    BY <2>2 DEF Unique
<1>4. Unique(Delete(l, r.path))
  BY OnlyKeeps DEF Delete
<1>5. Unique(Synced(l, r.path, r.entry))
  <2>1. ASSUME NEW i \in DOMAIN l PROVE Synced(l, r.path, r.entry)[i].tag = l[i].tag
    <3>1. l[i] \in Entry
      OBVIOUS
    <3>2. QED
      BY <3>1 DEF Synced, Entry
  <2>2. DOMAIN Synced(l, r.path, r.entry) = DOMAIN l
    BY DEF Synced
  <2>3. QED
    BY <2>1, <2>2 DEF Unique
<1>6. QED
  BY <1>1, <1>2, <1>3, <1>4, <1>5, HandshakeStores DEF Edited, Post, Upsert, Refused

\* The lists in memory, and those about to be stored, have every tag once.
TagInv ==
    "rename" \notin excuses =>
        /\ \A l \in Tagged : Unique(store[l])
        /\ \A p \in Worker : pc[p] \in Editing /\ target[p] \in Tagged => Unique(copy[p])

LEMMA TagStep == ASSUME Typed, TagInv, [Next]_vars PROVE TagInv'
<1> USE DEF Goto, Editing
<1>0. /\ pc \in [Worker -> PcValues] /\ target \in [Worker -> Stores] /\ copy \in [Worker -> Seq(Entry)]
      /\ store \in [Stores -> Seq(Entry)] /\ Tagged \subseteq Stores \ {"users"}
  BY DEF Typed, TypeOK, Tagged, Stores
<1>1. ASSUME NEW p \in Worker, Read(p) PROVE TagInv'
  <2>1. PICK r \in Request : /\ ~Refused(store[r.list], r)
                             /\ pc' = [pc EXCEPT ![p] = IF r.op = "sync" THEN "sync" ELSE "set"]
                             /\ target' = [target EXCEPT ![p] = r.list]
                             /\ copy' = [copy EXCEPT ![p] = Edited(store[r.list], r)]
                             /\ excuses' = IF r.op \in {"put", "upsert"} /\ r.entry.tag # r.path
                                           THEN excuses \cup {"rename"} ELSE excuses
    BY <1>1 DEF Read
  <2>2. store' = store
    BY <1>1 DEF Read
  <2>3. target'[p] = r.list /\ copy'[p] = Edited(store[r.list], r)
    BY <1>0, <2>1
  <2>4. \A q \in Worker \ {p} : pc'[q] = pc[q] /\ target'[q] = target[q] /\ copy'[q] = copy[q]
    BY <1>0, <2>1
  <2>5. ASSUME "rename" \notin excuses', r.list \in Tagged PROVE Unique(copy'[p])
    <3>1. "rename" \notin excuses /\ ~(r.op \in {"put", "upsert"} /\ r.entry.tag # r.path)
      BY <2>1, <2>5
    <3>2. Unique(store[r.list]) /\ store[r.list] \in Seq(Entry)
      BY <1>0, <2>5, <3>1 DEF TagInv
    <3>3. QED
      BY <2>1, <2>3, <2>5, <3>1, <3>2, EditedUnique
  <2>6. "rename" \notin excuses' => "rename" \notin excuses
    BY <2>1
  <2>7. QED
    BY <2>2, <2>3, <2>4, <2>5, <2>6 DEF TagInv
<1>2. ASSUME NEW p \in Worker, Set(p) PROVE TagInv'
  <2>1. pc[p] \in Editing /\ pc'[p] \notin Editing /\ store' = [store EXCEPT ![target[p]] = copy[p]]
        /\ ("rename" \notin excuses' => "rename" \notin excuses)
    BY <1>0, <1>2 DEF Set, Store, Overlap
  <2>2. \A q \in Worker \ {p} : pc'[q] = pc[q] /\ target'[q] = target[q] /\ copy'[q] = copy[q]
    BY <1>0, <1>2 DEF Set
  <2>3. QED
    BY <1>0, <2>1, <2>2 DEF TagInv
<1>3. ASSUME NEW p \in Worker, Replaces(p) PROVE TagInv'
  <2>1. PICK r \in Request : /\ r.op = "handshake"
                             /\ store' = [store EXCEPT !["inbounds"] = Edited(store["inbounds"], r)]
    BY <1>3 DEF Replaces
  <2>2. Unique(store'["inbounds"]) /\ \A l \in Tagged \ {"inbounds"} : store'[l] = store[l]
    <3>1. store'["inbounds"] = Edited(store["inbounds"], r) /\ \A l \in Tagged \ {"inbounds"} : store'[l] = store[l]
      BY <1>0, <2>1 DEF Tagged
    <3>2. QED
      BY <2>1, <3>1, HandshakeStores
  <2>3. /\ "rename" \notin excuses' => "rename" \notin excuses
        /\ \A q \in Worker : pc'[q] \in Editing => /\ pc[q] \in Editing
                                                    /\ target'[q] = target[q] /\ copy'[q] = copy[q]
    BY <1>3 DEF Replaces, Overlap
  <2>4. QED
    BY <2>2, <2>3 DEF TagInv
<1>4. CASE /\ UNCHANGED <<copy, excuses>>
           /\ \A q \in Worker : pc'[q] \in Editing => pc[q] \in Editing /\ target'[q] = target[q]
           /\ \A l \in Stores \ {"users"} : store'[l] = store[l]
  BY <1>0, <1>4 DEF TagInv
<1>5. QED
  BY <1>1, <1>2, <1>3, <1>4, StepKinds

\* From inbounds with every tag once, and unless a PUT changes a tag, no requests store
\* a tag twice, however they overlap (server.go:241-250, 259-274, 403-415).
THEOREM NoTagTwice == Unique(InitialInbounds) /\ Spec => []TagsUnique
<1>1. Unique(InitialInbounds) /\ Init => TagInv
  BY DEF Init, TagInv, Editing, Tagged, Stores, Unique
<1>2. TagInv => TagsUnique
  BY DEF TagInv, TagsUnique, Tagged
<1>3. Spec => []Typed
  BY TypedInit, TypedStep, PTL DEF Spec
<1>4. QED
  BY <1>1, <1>2, <1>3, TagStep, PTL DEF Spec
=============================================================================
