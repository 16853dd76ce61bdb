-------------------------------- MODULE Sync --------------------------------
(***************************************************************************)
(* service/daemon.go and network/client.go: how the node follows the       *)
(* panel.  syncLoop and the ForceSync goroutines of the API each run        *)
(* doHandshake or doSync, nothing keeps two of them apart, and all of them *)
(* share one network.Client with a single ETag for both GET endpoints.     *)
(* Handlers of the API read, change and write back the same inbounds.      *)
(*                                                                         *)
(* A node configuration and a user list of the panel are their version     *)
(* numbers.  A store access (module DurableStore) and a WriteConfig (module *)
(* Singbox) are one step each.                                             *)
(***************************************************************************)
EXTENDS Naturals

CONSTANTS
    Syncer,         \* syncLoop and goroutines of the API that may ForceSync
    Handler,        \* goroutines of the API that may edit the inbounds
    Local,          \* tags of inbounds that only the node knows
    MaxConfig,      \* bound: versions of the panel's node configuration
    MaxUsers,       \* bound: versions of its user list
    Renaming,       \* node configurations with another tag than the one before
    EmptyList,      \* user lists without a user
    HandshakeSends, \* the sets of documents a handshake may be answered with
    ETagOn,         \* endpoints whose answers carry an ETag
    MayFail,        \* requests and writes that may fail
    MaxAttempts,    \* of doHandshake: 3
    MaxFaults       \* bound: failures and crashes

Proc    == Syncer \cup Handler

ASSUME SyncAssumption ==
    /\ MaxConfig \in Nat \ {0} /\ MaxUsers \in Nat \ {0} /\ MaxAttempts \in Nat \ {0} /\ MaxFaults \in Nat
    /\ Renaming \subseteq 1..MaxConfig /\ EmptyList \subseteq 1..MaxUsers
    /\ HandshakeSends \subseteq SUBSET {"config", "users"} /\ ETagOn \subseteq {"config", "users"}
    /\ MayFail \subseteq {"handshake", "config", "users", "body", "write", "crash"}

VARIABLES
    pcfg, pusers,   \* the panel's node configuration and user list
    etag,           \* c.etag of the shared client
    connected,      \* d.connected
    ibs,            \* the inbounds store
    users,          \* the users store (0: none)
    file,           \* what sing-box's configuration file was generated from
    pc,             \* where each goroutine is
    hs,             \* the attempt of a handshake (0: not in a handshake)
    answer,         \* the answer a goroutine is working on
    seen,           \* what it has read from the stores
    faults,         \* failures and crashes so far
    behind          \* a crash or a failed write has left the file behind the stores,
                    \* and none has been written since (history)

disk   == <<file, behind>>
panel  == <<pcfg, pusers>>
stores == <<ibs, users>>
local  == <<hs, answer, seen>>
vars   == <<pcfg, pusers, etag, connected, ibs, users, file, pc, hs, answer, seen, faults, behind>>

\* The panel's inbound in the store: its version (0: none), and whether the uuid
\* and the password have been stored with it; besides it, the local inbounds.
Inbounds == [main : 0..MaxConfig, cred : BOOLEAN, own : SUBSET Local]
\* What a configuration file is generated from.
Documents == [ibs : Inbounds, users : 0..MaxUsers]
NoTag    == <<"none", 0>>
ETags    == {NoTag} \cup (ETagOn \X (0..MaxConfig + MaxUsers))
Tag(endpoint, v) == IF endpoint \in ETagOn THEN <<endpoint, v>> ELSE NoTag

\* A 304 in the place of a version; no version is as large.
NotModified == MaxConfig + MaxUsers + 1

NoAnswer   == [cfg |-> 0, users |-> 0]
NoInbounds == [main |-> 0, cred |-> FALSE, own |-> {}]
Nothing    == [ibs |-> NoInbounds, users |-> 0]

Init ==
    /\ pcfg = 1 /\ pusers = 1
    /\ etag = NoTag /\ connected = FALSE
    /\ ibs = NoInbounds /\ users = 0 /\ file = Nothing
    /\ pc = [p \in Proc |-> "idle"]
    /\ hs = [p \in Proc |-> 0]
    /\ answer = [p \in Proc |-> NoAnswer]
    /\ seen = [p \in Proc |-> Nothing]
    /\ faults = 0 /\ behind = FALSE

Goto(p, from, to) == pc[p] = from /\ pc' = [pc EXCEPT ![p] = to]

\* A goroutine that returns forgets its local variables.
Return(p, from) ==
    /\ Goto(p, from, "idle")
    /\ hs' = [hs EXCEPT ![p] = 0]
    /\ answer' = [answer EXCEPT ![p] = NoAnswer]
    /\ seen' = [seen EXCEPT ![p] = Nothing]

Fault(what) == what \in MayFail /\ faults < MaxFaults /\ faults' = faults + 1

-----------------------------------------------------------------------------
\* An administrator changes something on the panel.
PanelEdits ==
    /\ \/ pcfg < MaxConfig /\ pcfg' = pcfg + 1 /\ UNCHANGED pusers
       \/ pusers < MaxUsers /\ pusers' = pusers + 1 /\ UNCHANGED pcfg
    /\ UNCHANGED <<etag, connected, stores, disk, pc, local, faults>>

\* A tick of syncLoop, or ForceSync: handshake unless connected.
Begin(p) ==
    /\ p \in Syncer
    /\ Goto(p, "idle", IF connected THEN "askConfig" ELSE "handshake")
    /\ hs' = [hs EXCEPT ![p] = IF connected THEN 0 ELSE 1]
    /\ UNCHANGED <<panel, etag, connected, stores, disk, answer, seen, faults>>

-----------------------------------------------------------------------------
\* An attempt reaches the panel, which may send its documents along ...
HandshakeAsk(p) ==
    /\ Goto(p, "handshake", "welcomed")
    /\ \E sent \in HandshakeSends :
          answer' = [answer EXCEPT ![p] = [cfg   |-> IF "config" \in sent THEN pcfg ELSE 0,
                                           users |-> IF "users" \in sent THEN pusers ELSE 0]]
    /\ UNCHANGED <<panel, etag, connected, stores, disk, hs, seen, faults>>

\* ... or fails and is repeated, until the last failure gives up.
HandshakeFails(p) ==
    /\ Fault("handshake")
    /\ IF hs[p] < MaxAttempts
       THEN /\ pc[p] = "handshake" /\ UNCHANGED <<pc, answer, seen>>
            /\ hs' = [hs EXCEPT ![p] = @ + 1]
            /\ UNCHANGED <<etag, connected>>
       ELSE Return(p, "handshake") /\ etag' = NoTag /\ connected' = FALSE
    /\ UNCHANGED <<panel, stores, disk>>

\* A handshake goes on to the users it was sent after the inbounds are applied;
\* whoever has nothing left to do restarts sing-box.
AfterWrite(p) == IF hs[p] # 0 /\ answer[p].users # 0 THEN "setUsers" ELSE "restart"

\* The answer: the client drops its ETag, the daemon is connected.
HandshakeDone(p) ==
    /\ Goto(p, "welcomed", IF answer[p].cfg # 0 THEN "replaceInbounds" ELSE AfterWrite(p))
    /\ etag' = NoTag /\ connected' = TRUE
    /\ UNCHANGED <<panel, stores, disk, local, faults>>

\* All inbounds are replaced by the panel's, stored without uuid and password.
ReplaceInbounds(p) ==
    /\ Goto(p, "replaceInbounds", "generate")
    /\ ibs' = [main |-> answer[p].cfg, cred |-> FALSE, own |-> {}]
    /\ answer' = [answer EXCEPT ![p].cfg = 0]
    /\ UNCHANGED <<panel, etag, connected, users, disk, hs, seen, faults>>

-----------------------------------------------------------------------------
\* doSync asks for the node configuration, with the ETag of whatever came last.
ConfigAsk(p) ==
    /\ Goto(p, "askConfig", "gotConfig")
    /\ answer' = [answer EXCEPT ![p].cfg =
                    IF etag # NoTag /\ etag = Tag("config", pcfg) THEN NotModified ELSE pcfg]
    /\ UNCHANGED <<panel, etag, connected, stores, disk, hs, seen, faults>>

ConfigFails(p) ==
    /\ Fault("config")
    /\ Return(p, "askConfig")
    /\ UNCHANGED <<panel, etag, connected, stores, disk>>

\* 304: nothing else is done, the users are not asked for.
ConfigSkip(p) ==
    /\ answer[p].cfg = NotModified
    /\ Return(p, "gotConfig")
    /\ UNCHANGED <<panel, etag, connected, stores, disk, faults>>

\* Mutant of KeepETag: only the ETags of the users' endpoint are kept.
KeepETag_UsersOnly(endpoint, v) == etag' = IF endpoint = "users" THEN Tag(endpoint, v) ELSE etag

\* 200: the client keeps the ETag if there is one, and decodes the body ...
KeepETag(endpoint, v) == etag' = IF endpoint \in ETagOn THEN Tag(endpoint, v) ELSE etag

\* Mutant of ConfigGot: no test for a 304.
ConfigGot_Unchecked(p) ==
    /\ Goto(p, "gotConfig", "readInbounds")
    /\ KeepETag("config", answer[p].cfg)
    /\ UNCHANGED <<panel, connected, stores, disk, local, faults>>

ConfigGot(p) ==
    /\ answer[p].cfg # NotModified
    /\ Goto(p, "gotConfig", "readInbounds")
    /\ KeepETag("config", answer[p].cfg)
    /\ UNCHANGED <<panel, connected, stores, disk, local, faults>>

\* ... which fails if the body was cut short: its read error is dropped.
ConfigUndecoded(p) ==
    /\ Fault("body") /\ answer[p].cfg # NotModified
    /\ Return(p, "gotConfig")
    /\ KeepETag("config", answer[p].cfg)
    /\ UNCHANGED <<panel, connected, stores, disk>>

ReadInbounds(p) ==
    /\ Goto(p, "readInbounds", "updateInbounds")
    /\ seen' = [seen EXCEPT ![p].ibs = ibs]
    /\ UNCHANGED <<panel, etag, connected, stores, disk, hs, answer, faults>>

\* The inbounds that were read are written back with the panel's, if its tag is
\* among them, brought up to date.
SameTag(v, w) == v # 0 /\ \A r \in Renaming : r \notin (v + 1)..w

\* Mutant of UpdateInbounds: of the panel's inbounds only the matching one is kept.
UpdateInbounds_Matching(p) ==
    /\ Goto(p, "updateInbounds", "askUsers")
    /\ LET old == seen[p].ibs
           hit == SameTag(old.main, answer[p].cfg) IN
          ibs' = [old EXCEPT !.main = IF hit THEN answer[p].cfg ELSE 0, !.cred = hit]
    /\ seen' = [seen EXCEPT ![p] = Nothing]
    /\ answer' = [answer EXCEPT ![p].cfg = 0]
    /\ UNCHANGED <<panel, etag, connected, users, disk, hs, faults>>

UpdateInbounds(p) ==
    /\ Goto(p, "updateInbounds", "askUsers")
    /\ LET old == seen[p].ibs IN
          ibs' = IF SameTag(old.main, answer[p].cfg)
                 THEN [old EXCEPT !.main = answer[p].cfg, !.cred = TRUE]
                 ELSE old
    /\ seen' = [seen EXCEPT ![p] = Nothing]
    /\ answer' = [answer EXCEPT ![p].cfg = 0]
    /\ UNCHANGED <<panel, etag, connected, users, disk, hs, faults>>

UsersAsk(p) ==
    /\ Goto(p, "askUsers", "gotUsers")
    /\ answer' = [answer EXCEPT ![p].users =
                    IF etag # NoTag /\ etag = Tag("users", pusers) THEN NotModified ELSE pusers]
    /\ UNCHANGED <<panel, etag, connected, stores, disk, hs, seen, faults>>

\* The error is logged and the sync goes on without users.
UsersFails(p) ==
    /\ Fault("users")
    /\ Goto(p, "askUsers", "generate")
    /\ UNCHANGED <<panel, etag, connected, stores, disk, local>>

UsersGot(p) ==
    /\ answer[p].users # NotModified
    /\ Goto(p, "gotUsers", "setUsers")
    /\ KeepETag("users", answer[p].users)
    /\ UNCHANGED <<panel, connected, stores, disk, local, faults>>

\* A 304 has no body and a body may be cut short: GetUsers fails to decode it.
UsersUndecoded(p) ==
    /\ Goto(p, "gotUsers", "generate")
    /\ \/ answer[p].users = NotModified /\ UNCHANGED <<etag, faults>>
       \/ answer[p].users # NotModified /\ Fault("body") /\ KeepETag("users", answer[p].users)
    /\ answer' = [answer EXCEPT ![p].users = 0]
    /\ UNCHANGED <<panel, connected, stores, disk, hs, seen>>

\* Mutant of SetUsers: a handshake applies the configuration only once.
SetUsers_Unapplied(p) ==
    /\ Goto(p, "setUsers", IF hs[p] # 0 THEN "restart" ELSE "generate")
    /\ users' = IF answer[p].users \in EmptyList THEN users ELSE answer[p].users
    /\ answer' = [answer EXCEPT ![p].users = 0]
    /\ UNCHANGED <<panel, etag, connected, ibs, disk, hs, seen, faults>>

\* Mutant of SetUsers: a list that is stored already is not applied.
SetUsers_IfNew(p) ==
    /\ Goto(p, "setUsers", IF answer[p].users = users THEN "restart" ELSE "generate")
    /\ users' = IF answer[p].users \in EmptyList THEN users ELSE answer[p].users
    /\ answer' = [answer EXCEPT ![p].users = 0]
    /\ UNCHANGED <<panel, etag, connected, ibs, disk, hs, seen, faults>>

\* db.SetUsers, of doSync and of doHandshake, unless the list is empty.
SetUsers(p) ==
    /\ Goto(p, "setUsers", IF hs[p] # 0 /\ answer[p].users \in EmptyList THEN "restart" ELSE "generate")
    /\ users' = IF answer[p].users \in EmptyList THEN users ELSE answer[p].users
    /\ answer' = [answer EXCEPT ![p].users = 0]
    /\ UNCHANGED <<panel, etag, connected, ibs, disk, hs, seen, faults>>

-----------------------------------------------------------------------------
\* A handler reads the inbounds, changes its copy and writes it back: an inbound
\* of the node is added (POST) or deleted (DELETE).
Edit(p) ==
    /\ p \in Handler
    /\ Goto(p, "idle", "edited")
    /\ seen' = [seen EXCEPT ![p].ibs = ibs]
    /\ UNCHANGED <<panel, etag, connected, stores, disk, hs, answer, faults>>

WriteEdited(p) ==
    /\ Goto(p, "edited", "generate")
    /\ \E t \in Local :
          ibs' = [seen[p].ibs EXCEPT !.own = IF t \in @ THEN @ \ {t} ELSE @ \cup {t}]
    /\ seen' = [seen EXCEPT ![p] = Nothing]
    /\ UNCHANGED <<panel, etag, connected, users, disk, hs, answer, faults>>

\* applyConfig and applyAndRestart: GenerateSingboxConfig reads the inbounds ...
GenerateInbounds(p) ==
    /\ Goto(p, "generate", "generateUsers")
    /\ seen' = [seen EXCEPT ![p].ibs = ibs]
    /\ UNCHANGED <<panel, etag, connected, stores, disk, hs, answer, faults>>

\* Mutant of GenerateUsers: users that the panel has sent are used before they are stored.
GenerateUsers_Sent(p) ==
    /\ Goto(p, "generateUsers", "write")
    /\ seen' = [seen EXCEPT ![p].users = IF answer[p].users # 0 THEN answer[p].users ELSE users]
    /\ UNCHANGED <<panel, etag, connected, stores, disk, hs, answer, faults>>

\* ... then the users; WriteConfig replaces the file, and a handshake does both
\* after the inbounds and again after the users, ignoring a failure.
GenerateUsers(p) ==
    /\ Goto(p, "generateUsers", "write")
    /\ seen' = [seen EXCEPT ![p].users = users]
    /\ UNCHANGED <<panel, etag, connected, stores, disk, hs, answer, faults>>

WriteConfig(p) ==
    /\ Goto(p, "write", AfterWrite(p))
    /\ file' = seen[p] /\ behind' = FALSE
    /\ seen' = [seen EXCEPT ![p] = Nothing]
    /\ UNCHANGED <<panel, etag, connected, stores, hs, answer, faults>>

\* sing-box's file is what the stores give.
Current == file = [ibs |-> ibs, users |-> users]

WriteFails(p) ==
    /\ Fault("write")
    /\ IF hs[p] # 0
       THEN /\ Goto(p, "write", AfterWrite(p))
            /\ seen' = [seen EXCEPT ![p] = Nothing]
            /\ UNCHANGED <<hs, answer>>
       ELSE Return(p, "write")
    /\ behind' = ~Current
    /\ UNCHANGED <<panel, etag, connected, stores, file>>

\* GetSingbox().Restart() (module Singbox), and the call returns.
RestartSingbox(p) ==
    /\ Return(p, "restart")
    /\ UNCHANGED <<panel, etag, connected, stores, disk, faults>>

\* The process dies and is started again; its files are what they were.
Crash ==
    /\ Fault("crash")
    /\ etag' = NoTag /\ connected' = FALSE
    /\ pc' = [p \in Proc |-> "idle"]
    /\ hs' = [p \in Proc |-> 0]
    /\ answer' = [p \in Proc |-> NoAnswer]
    /\ seen' = [p \in Proc |-> Nothing]
    /\ behind' = ~Current
    /\ UNCHANGED <<panel, stores, file>>

-----------------------------------------------------------------------------
Handshake(p) ==
    HandshakeAsk(p) \/ HandshakeFails(p) \/ HandshakeDone(p) \/ ReplaceInbounds(p)

DoSync(p) ==
    \/ ConfigAsk(p) \/ ConfigFails(p) \/ ConfigSkip(p) \/ ConfigGot(p) \/ ConfigUndecoded(p)
    \/ ReadInbounds(p) \/ UpdateInbounds(p)
    \/ UsersAsk(p) \/ UsersFails(p) \/ UsersUndecoded(p) \/ UsersGot(p) \/ SetUsers(p)

Apply(p) ==
    \/ GenerateInbounds(p) \/ GenerateUsers(p) \/ WriteConfig(p) \/ WriteFails(p) \/ RestartSingbox(p)

Work(p) == Handshake(p) \/ DoSync(p) \/ WriteEdited(p) \/ Apply(p)

Next ==
    \/ \E p \in Syncer : Begin(p)
    \/ \E p \in Handler : Edit(p)
    \/ \E p \in Proc : Work(p)
    \/ PanelEdits
    \/ Crash

Spec == Init /\ [][Next]_vars

\* The ticker of syncLoop fires again and again, nothing makes a handler force a sync,
\* and what has begun goes on: requests have a timeout of ten seconds, and no step
\* waits for another.
FairSpec == Spec /\ \A p \in Proc : WF_vars(Work(p)) /\ (p \in Syncer \ Handler => WF_vars(Begin(p)))

-----------------------------------------------------------------------------
PcValues == {"idle", "handshake", "welcomed", "replaceInbounds", "askConfig", "gotConfig",
             "readInbounds", "updateInbounds", "askUsers", "gotUsers", "setUsers",
             "edited", "generate", "generateUsers", "write", "restart"}

TypeOK ==
    /\ pcfg \in 1..MaxConfig /\ pusers \in 1..MaxUsers
    /\ etag \in ETags
    /\ connected \in BOOLEAN
    /\ ibs \in Inbounds /\ users \in 0..MaxUsers
    /\ file \in Documents
    /\ pc \in [Proc -> PcValues]
    /\ hs \in [Proc -> 0..MaxAttempts]
    /\ answer \in [Proc -> [cfg : 0..NotModified, users : 0..NotModified]]
    /\ seen \in [Proc -> Documents]
    /\ faults \in 0..MaxFaults /\ behind \in BOOLEAN

Idle == \A p \in Proc : pc[p] = "idle"

\* Whatever requests fail and whatever a handshake sends, a single syncLoop leaves
\* sing-box's file as generated from the inbounds and the users that are stored:
\* applyConfig runs after the last store access of doHandshake and of doSync.  Only a
\* crash between the two, or a write that fails, leaves it behind, until the next write
\* (daemon.go:117-136, 213-240).
FileIsCurrent == Idle /\ ~behind => Current

\* No step of a single syncLoop loses the panel's inbound, also when the panel renames
\* it or a handshake brings none: doSync writes back all it has read (daemon.go:213-224).
InboundKept == [][ibs.main # 0 => ibs'.main # 0]_vars

\* A single syncLoop follows the panel (module Follower): across handshakes, 304s,
\* cut bodies, failed requests and crashes no store goes back to an older version, and
\* each file holds all that is stored when it is written (daemon.go:117-136, 202-248).
Follows == INSTANCE Follower WITH
    panel  <- [cfg |-> pcfg, users |-> pusers],
    stored <- [cfg |-> ibs.main, cred |-> ibs.cred, users |-> users],
    file   <- [cfg |-> file.ibs.main, cred |-> file.ibs.cred, users |-> file.users]

ImplementsFollower == Follows!FSpec

\* Once the panel stays as it is and failures have stopped, sing-box is given the
\* panel's users for good: no order of ticks and ForceSyncs, and no ETag left over
\* from the other endpoint, keeps it on an old list (daemon.go:202-248, client.go:57-79).
UsersConverge == <>[](file.users = pusers)

\* The client has been left with the ETag of the current configuration: doSync is told
\* 304 and returns (daemon.go:208-211, client.go:57-59).
Stuck == etag = Tag("config", pcfg)

\* Nothing else keeps the users away: whatever fails, they reach sing-box's file for
\* good, or the client is stuck for good, a users' request or a body having failed
\* after the configuration's ETag was kept (daemon.go:202-248, client.go:57-79).
UsersArrive == UsersConverge \/ <>[]Stuck

\* Likewise for the panel's inbound, with its uuid and password (daemon.go:213-224).
InboundConverges == <>[](file.ibs.main = pcfg /\ file.ibs.cred)

\* Edits that stay in the store reach sing-box's file for good, though their own write
\* may fail or an older document may be written after it: a later sync writes the
\* inbounds again, unless the client is stuck by then (daemon.go:208-240,
\* server.go:652-665).
EditsReachSingbox ==
    \/ <>[](file.ibs.own = ibs.own)
    \/ []<><<ibs'.own # ibs.own>>_vars
    \/ <>[]Stuck
=============================================================================
