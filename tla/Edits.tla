------------------------------- MODULE Edits -------------------------------
(***************************************************************************)
(* api/server.go and service/generator.go: requests that edit the stores   *)
(* and the document that is generated from them.  A handler reads a list,  *)
(* edits its copy, stores the copy, generates sing-box's document from one *)
(* store after the other and writes it; nothing is locked in between, and  *)
(* doSync does the same beside them.  doHandshake replaces the inbounds    *)
(* without having read them.                                               *)
(*                                                                         *)
(* An access to a store (module DurableStore) and to sing-box's file       *)
(* (module Singbox, as is Restart) is one step.  The stores of TLS,        *)
(* services, endpoints and user rules are like "rules": replaced as a      *)
(* whole, and read by no generator.                                        *)
(***************************************************************************)
EXTENDS Naturals, Sequences

CONSTANTS
    Worker,         \* goroutines that serve a request or run doSync or doHandshake
    Tag, Val,       \* names of entries, and the rest of them
    Live,           \* enabled users, outbound types that the generator knows
    Request,        \* the requests that may be made, see TypedRequest
    InitialInbounds,\* the inbounds when the daemon starts
    Users,          \* lists of users that the panel sends
    Bodies,         \* documents that an administrator puts in the file's place
    MaxRequests     \* bound: requests

Stores == {"inbounds", "advanced", "users", "outbounds", "dns", "rules"}

\* An element of any list; .panel says that an inbound has an XboardTag.
Entry == [tag : Tag, panel : BOOLEAN, val : Val]

TypedRequest == [op    : {"post", "put", "upsert", "delete", "replace", "sync", "handshake"},
                 list  : Stores,
                 path  : Tag,           \* the tag in the URL, in the panel's answer
                 entry : Entry,         \* the body, the panel's inbound
                 all   : Seq(Entry)]    \* the body, if it is a list

ASSUME EditsAssumption ==
    /\ Live \subseteq Val
    /\ Request \subseteq TypedRequest
    /\ \A r \in Request : /\ r.list # "users"
                          /\ r.op = "replace" => r.list \notin {"inbounds", "outbounds"}
                          /\ r.op = "handshake" => r.list = "inbounds"
    /\ InitialInbounds \in Seq(Entry) /\ Users \subseteq Seq(Entry)
    /\ MaxRequests \in Nat

Settings == {<<>>} \cup {<<a>> : a \in Entry}

\* What the generator emits: an inbound with its users and advanced settings, ...
Document ==
    [inbounds  : Seq([entry : Entry, users : Seq(Entry), adv : Settings]),
     outbounds : Seq(Entry),
     dns       : Seq(Entry)]

ASSUME BodiesAssumption == Bodies \subseteq Document

VARIABLES
    store,      \* the lists in memory
    file,       \* sing-box's configuration file
    pc,         \* where each goroutine is
    target,     \* the list that it edits; "users": those of a handshake are still to come
    copy,       \* its edited copy of that list
    todo,       \* the inbounds that its generator still has to emit
    enabled,    \* the users that the generator has read for the next of them
    doc,        \* the document it is building
    requests,   \* how many requests there have been
    excuses,    \* history: "rename", "overlap" of two requests for one list
    gens,       \* history: how many documents have been generated or begun
    gen,        \* history: the number of the worker's document
    written,    \* history: the number of the document in the file (0: not generated)
    disturbed   \* history: the workers during whose generation a store has changed

edit     == <<target, copy, excuses>>
building == <<todo, enabled, doc>>
numbers  == <<gens, gen, written>>
vars     == <<store, file, pc, edit, building, requests, numbers, disturbed>>

-----------------------------------------------------------------------------
\* The elements of the list l that are in S, in their order.
Only(l, S) ==
    LET kept[i \in 0..Len(l)] == IF i = 0 THEN <<>>
                                 ELSE IF l[i] \in S THEN Append(kept[i - 1], l[i]) ELSE kept[i - 1]
    IN  kept[Len(l)]

\* The handlers' edits of the list l.
Holds(l, t) == \E i \in DOMAIN l : l[i].tag = t
First(l, t) == CHOOSE i \in DOMAIN l : l[i].tag = t /\ \A j \in 1..(i - 1) : l[j].tag # t

Post(l, e) == Append(l, e)
Put(l, t, e) == [l EXCEPT ![First(l, t)] = e]
Upsert(l, t, e) == IF Holds(l, t) THEN Put(l, t, e) ELSE Append(l, e)
Replace(all) == all
Delete(l, t) == Only(l, {e \in Entry : e.tag # t})

\* doSync: the panel's configuration goes into every inbound with its tag, as Tag or
\* as XboardTag; that the panel changes the tag is in module Sync.
Synced(l, t, e) == [i \in DOMAIN l |-> IF l[i].tag = t \/ l[i].panel
                                       THEN [l[i] EXCEPT !.val = e.val] ELSE l[i]]

\* What the list l becomes by the request r.
Edited(l, r) ==
    CASE r.op = "post"    -> Post(l, r.entry)
      [] r.op = "put"     -> Put(l, r.path, r.entry)
      [] r.op = "upsert"  -> Upsert(l, r.path, r.entry)
      [] r.op = "delete"  -> Delete(l, r.path)
      [] r.op = "replace" -> Replace(r.all)
      [] r.op = "sync"    -> Synced(l, r.path, r.entry)
      [] r.op = "handshake" -> <<r.entry>>

\* Mutant of Refused: a POST is refused only if it repeats the whole entry.
Refused_SameEntry(l, r) ==
    \/ r.op = "post" /\ \E i \in DOMAIN l : l[i] = r.entry
    \/ r.op = "put" /\ ~Holds(l, r.path)

\* 409 for a tag that exists, 404 for one that does not.
Refused(l, r) ==
    \/ r.op = "post" /\ Holds(l, r.entry.tag)
    \/ r.op = "put" /\ ~Holds(l, r.path)

-----------------------------------------------------------------------------
\* What the generator makes of the lists: users that are enabled, the panel's
\* inbound, the others, the advanced settings of a tag, outbounds of a known type.
Enabled(l) == Only(l, {u \in Entry : u.val \in Live})
Main(l)    == LET p == Only(l, {e \in Entry : e.panel}) IN IF p = <<>> THEN p ELSE <<Head(p)>>
Local(l)   == Only(l, {e \in Entry : ~e.panel})

\* Mutant of AdvancedOf: whatever has the tag.
AdvancedOf_All(l, t) == Only(l, {a \in Entry : a.tag = t})

AdvancedOf(l, t) == IF Holds(l, t) THEN <<l[First(l, t)]>> ELSE <<>>
Known(l) == Only(l, {o \in Entry : o.val \in Live})

Inbound(e, users, adv) == [entry |-> e, users |-> users, adv |-> adv]
Blank == [inbounds |-> <<>>, outbounds |-> <<>>, dns |-> <<>>]

\* The document that the stores s call for.
Generate(s) ==
    LET ins == Main(s["inbounds"]) \o Local(s["inbounds"])
    IN  [inbounds  |-> [i \in DOMAIN ins |-> Inbound(ins[i], Enabled(s["users"]),
                                                     AdvancedOf(s["advanced"], ins[i].tag))],
         outbounds |-> Known(s["outbounds"]),
         dns       |-> s["dns"]]

Init ==
    /\ store = [l \in Stores |-> IF l = "inbounds" THEN InitialInbounds ELSE <<>>]
    /\ file = Generate(store)
    /\ pc = [p \in Worker |-> "idle"]
    /\ target = [p \in Worker |-> "inbounds"] /\ copy = [p \in Worker |-> <<>>]
    /\ todo = copy /\ enabled = copy /\ doc = [p \in Worker |-> Blank]
    /\ requests = 0 /\ excuses = {}
    /\ gens = 1 /\ gen = [p \in Worker |-> 0] /\ written = 1 /\ disturbed = {}

Goto(p, from, to) == pc[p] = from /\ pc' = [pc EXCEPT ![p] = to]

\* The store l becomes v, for p as for everybody.
Store(l, v) ==
    /\ store' = [store EXCEPT ![l] = v]
    /\ disturbed' = IF v = store[l] THEN disturbed ELSE Worker

-----------------------------------------------------------------------------
\* A request arrives and is refused.
Refuse(p) ==
    /\ pc[p] = "idle"
    /\ requests < MaxRequests /\ requests' = requests + 1
    /\ \E r \in Request : Refused(store[r.list], r)
    /\ UNCHANGED <<store, file, pc, edit, building, numbers, disturbed>>

\* A request arrives; its handler, or doSync, reads the list and edits its copy.
Read(p) ==
    /\ requests < MaxRequests /\ requests' = requests + 1
    /\ \E r \in Request :
         /\ r.op # "handshake" /\ ~Refused(store[r.list], r)
         /\ Goto(p, "idle", IF r.op = "sync" THEN "sync" ELSE "set")
         /\ target' = [target EXCEPT ![p] = r.list]
         /\ copy' = [copy EXCEPT ![p] = Edited(store[r.list], r)]
         /\ excuses' = IF r.op \in {"put", "upsert"} /\ r.entry.tag # r.path
                       THEN excuses \cup {"rename"} ELSE excuses
    /\ UNCHANGED <<store, file, building, numbers, disturbed>>

Editing == {"set", "sync"}

\* Whoever stores the list l while another goroutine edits a copy of it overlaps it.
Overlap(p, l) ==
    excuses' = IF \E q \in Worker \ {p} : pc[q] \in Editing /\ target[q] = l
               THEN excuses \cup {"overlap"} ELSE excuses

\* Mutant of Set: the handler of every list stores it as the inbounds.
Set_Inbounds(p) ==
    /\ Goto(p, "set", "main") \/ Goto(p, "sync", "setUsers")
    /\ Store("inbounds", copy[p])
    /\ copy' = [copy EXCEPT ![p] = <<>>] /\ target' = [target EXCEPT ![p] = "inbounds"]
    /\ UNCHANGED <<file, excuses, building, requests, numbers>>

\* SetX of the edited copy.
Set(p) ==
    /\ Goto(p, "set", "main") \/ Goto(p, "sync", "setUsers")
    /\ Store(target[p], copy[p])
    /\ Overlap(p, target[p])
    /\ copy' = [copy EXCEPT ![p] = <<>>] /\ target' = [target EXCEPT ![p] = "inbounds"]
    /\ UNCHANGED <<file, building, requests, numbers>>

\* A handshake: the panel's inbound replaces whatever is stored and is applied, then
\* its users; either may be missing.
Handshake(p) ==
    /\ requests < MaxRequests /\ requests' = requests + 1
    /\ \/ /\ Goto(p, "idle", "main")
          /\ \E r \in Request : r.op = "handshake" /\ Store("inbounds", Edited(store["inbounds"], r))
          /\ Overlap(p, "inbounds")
       \/ Goto(p, "idle", "setUsers") /\ UNCHANGED <<store, excuses, disturbed>>
    /\ target' = [target EXCEPT ![p] = "users"]
    /\ UNCHANGED <<file, copy, building, numbers>>

\* Mutant of SetUsers: without users, the configuration is not applied.
SetUsers_Unapplied(p) ==
    /\ \E u \in Users \cup {<<>>} :
         /\ target[p] = "users" => u # <<>>
         /\ Goto(p, "setUsers", IF u = <<>> THEN "idle" ELSE "main")
         /\ Store("users", IF u = <<>> THEN store["users"] ELSE u)
    /\ target' = [target EXCEPT ![p] = "inbounds"]
    /\ UNCHANGED <<file, copy, excuses, building, requests, numbers>>

\* doSync stores the users, unless the request for them fails or the list is empty;
\* doHandshake, if there are any.
SetUsers(p) ==
    /\ Goto(p, "setUsers", "main")
    /\ \E u \in Users \cup {<<>>} :
         /\ target[p] = "users" => u # <<>>
         /\ Store("users", IF u = <<>> THEN store["users"] ELSE u)
    /\ target' = [target EXCEPT ![p] = "inbounds"]
    /\ UNCHANGED <<file, copy, excuses, building, requests, numbers>>

-----------------------------------------------------------------------------
\* applyAndRestart, applyConfig: the panel's inbound, if there is one, ...
ReadMain(p) ==
    /\ Goto(p, "main", "mainInbound")
    /\ todo' = [todo EXCEPT ![p] = Main(store["inbounds"])]
    /\ doc' = [doc EXCEPT ![p] = Blank]
    /\ gens' = gens + 1 /\ gen' = [gen EXCEPT ![p] = gens + 1]
    /\ disturbed' = disturbed \ {p}
    /\ UNCHANGED <<store, file, edit, enabled, requests, written>>

\* Mutant of ReadLocals: the panel's inbound is one of the others.
ReadLocals_All(p) ==
    /\ todo[p] = <<>>
    /\ Goto(p, "mainInbound", "localInbounds")
    /\ todo' = [todo EXCEPT ![p] = store["inbounds"]]
    /\ UNCHANGED <<store, file, edit, enabled, doc, requests, numbers, disturbed>>

\* ... then the others.  The users and the advanced settings are read anew for
\* every inbound.
ReadLocals(p) ==
    /\ todo[p] = <<>>
    /\ Goto(p, "mainInbound", "localInbounds")
    /\ todo' = [todo EXCEPT ![p] = Local(store["inbounds"])]
    /\ UNCHANGED <<store, file, edit, enabled, doc, requests, numbers, disturbed>>

ReadUsers(p) ==
    /\ todo[p] # <<>>
    /\ \/ Goto(p, "mainInbound", "mainAdvanced")
       \/ Goto(p, "localInbounds", "localAdvanced")
    /\ enabled' = [enabled EXCEPT ![p] = Enabled(store["users"])]
    /\ UNCHANGED <<store, file, edit, todo, doc, requests, numbers, disturbed>>

ReadAdvanced(p) ==
    /\ \/ Goto(p, "mainAdvanced", "mainInbound")
       \/ Goto(p, "localAdvanced", "localInbounds")
    /\ LET e == Head(todo[p])
       IN  doc' = [doc EXCEPT ![p].inbounds =
                     Append(@, Inbound(e, enabled[p], AdvancedOf(store["advanced"], e.tag)))]
    /\ todo' = [todo EXCEPT ![p] = Tail(@)]
    /\ enabled' = [enabled EXCEPT ![p] = <<>>]
    /\ UNCHANGED <<store, file, edit, requests, numbers, disturbed>>

ReadOutbounds(p) ==
    /\ todo[p] = <<>>
    /\ Goto(p, "localInbounds", "dns")
    /\ doc' = [doc EXCEPT ![p].outbounds = Known(store["outbounds"])]
    /\ UNCHANGED <<store, file, edit, todo, enabled, requests, numbers, disturbed>>

ReadDNS(p) ==
    /\ Goto(p, "dns", "file")
    /\ doc' = [doc EXCEPT ![p].dns = store["dns"]]
    /\ UNCHANGED <<store, file, edit, todo, enabled, requests, numbers, disturbed>>

\* WriteConfig, which may fail, and Restart; a handshake goes on to the users it brings.
WriteFile(p) ==
    /\ \/ Goto(p, "file", "idle")
       \/ target[p] = "users" /\ Goto(p, "file", "setUsers")
    /\ \/ file' = doc[p] /\ written' = gen[p]
       \/ UNCHANGED <<file, written>>
    /\ doc' = [doc EXCEPT ![p] = Blank]
    /\ target' = [target EXCEPT ![p] = IF pc'[p] = "idle" THEN "inbounds" ELSE @]
    /\ UNCHANGED <<store, copy, excuses, todo, enabled, requests, gens, gen, disturbed>>

\* PUT /config: a document of the administrator's own takes the file's place.
PutConfig(p) ==
    /\ pc[p] = "idle"
    /\ requests < MaxRequests /\ requests' = requests + 1
    /\ file' \in Bodies /\ written' = 0
    /\ UNCHANGED <<store, pc, edit, building, gens, gen, disturbed>>

Build(p) ==
    \/ ReadMain(p) \/ ReadLocals(p) \/ ReadUsers(p) \/ ReadAdvanced(p)
    \/ ReadOutbounds(p) \/ ReadDNS(p)

Next ==
    \E p \in Worker :
        \/ Read(p) \/ Refuse(p) \/ Set(p) \/ Handshake(p) \/ SetUsers(p)
        \/ Build(p) \/ WriteFile(p) \/ PutConfig(p)

Spec == Init /\ [][Next]_vars

-----------------------------------------------------------------------------
PcValues == {"idle", "set", "sync", "setUsers", "main", "mainInbound", "mainAdvanced",
             "localInbounds", "localAdvanced", "dns", "file"}

TypeOK ==
    /\ store \in [Stores -> Seq(Entry)] /\ file \in Document
    /\ pc \in [Worker -> PcValues]
    /\ target \in [Worker -> Stores] /\ copy \in [Worker -> Seq(Entry)]
    /\ todo \in [Worker -> Seq(Entry)] /\ enabled \in [Worker -> Seq(Entry)]
    /\ doc \in [Worker -> Document]
    /\ requests \in 0..MaxRequests /\ excuses \subseteq {"rename", "overlap"}
    /\ gens \in Nat /\ gen \in [Worker -> 0..gens] /\ written \in 0..gens
    /\ disturbed \subseteq Worker

Unique(l) == \A i, j \in DOMAIN l : l[i].tag = l[j].tag => i = j

\* Two inbounds, or two outbounds, have one tag only after a PUT has changed a tag:
\* POST answers 409 to a tag that exists, and a list is stored as it was checked, so
\* that not even overlapping requests store a tag twice (server.go:241-250, 259-274,
\* 403-415).
TagsUnique ==
    "rename" \notin excuses => Unique(store["inbounds"]) /\ Unique(store["outbounds"])

\* Until two requests for one list have overlapped no edit is lost but to a handshake:
\* every change of a list is one request, carried out on the list as it is and not
\* refused there, or it puts the panel's inbound in the place of all inbounds
\* (server.go:231-288, daemon.go:118-126, 213-224).  Only the panel's users are stored.
EditsSerial ==
    [][\A l \in Stores \ {"users"} :
          "overlap" \notin excuses /\ store'[l] # store[l]
             => \E r \in Request :
                  /\ r.list = l
                  /\ \/ r.op = "handshake" /\ store'[l] = <<r.entry>>
                     \/ r.op # "handshake" /\ ~Refused(store[l], r) /\ store'[l] = Edited(store[l], r)]_vars

\* The document that is written is the one that the stores call for, read one after
\* the other though they are, unless one of them has changed meanwhile
\* (generator.go:39-58, 80-103).
DocumentMatches ==
    \A p \in Worker : pc[p] = "file" /\ p \notin disturbed => doc[p] = Generate(store)

\* When no request is being served, sing-box's file is what the stores call for,
\* unless the document that was begun last has not been written last: it failed, an
\* older one has overtaken it, or PUT /config has replaced it (server.go:518-535,
\* 652-665, daemon.go:118-136, 213-240).
FileMatches ==
    (\A p \in Worker : pc[p] = "idle") /\ written = gens => file = Generate(store)
=============================================================================
