# pupmsub in TLA+

pupmsub runs on a proxy node: it fetches the node's configuration and users from an
xboard panel, keeps them and the node's own settings in JSON files, generates
sing-box's configuration from them, and starts, stops and restarts sing-box. Its
goroutines (three loops, one per HTTP request, one per forced sync, one per child
process) share the files, the stores, one HTTP client and one child process, mostly
without locks that span more than one access. This directory models what can go
wrong between them, checks it with TLC and proves the core of it with TLAPS.

Line numbers refer to the Go sources one directory up, under `src/`.

## 1. Inventory

| Part | State | Operations | Talks to |
|---|---|---|---|
| `Store[T]`, `db/store.go` | value in memory behind an RWMutex, JSON file, `fn.tmp` | `New`/`load`, `Get` (deep copy), `Set`, `Save`, `SetX` = `Set; Save` | called by everybody |
| `SingboxService`, `service/singbox.go` | `mu`, `cmd`, `running`, `pid`, `oldCfg`, configuration file and its `.tmp`, the child | `Start`, `Stop`, `Restart`, `WriteConfig`, `IsRunning`; a waiting goroutine and a context watcher per child | handlers, daemon, `main`, kernel |
| handshake and sync, `service/daemon.go:44-261` | `connected`, `lastSync`, the inbound and user stores | `Start`, `ForceSync`, `Stop`, `doHandshake`, `doSync`, `applyConfig` | client, stores, generator, sing-box |
| traffic, `service/daemon.go:109-136, 263-356` | `lastTrafficSnap`, `snapMu`, the store `traffic_snap` | `reportLoop`/`pushTraffic`, the baseline of a handshake, `ApplyUserQuotaChange` | client, store, sing-box |
| status, `service/daemon.go:358-393`, `stats.go` | none | posts readings of `/proc` | client |
| `network.Client` | one `etag` for all endpoints | `Handshake`, `GetConfig`, `GetUsers`, `ReportTraffic`, `PushStatus` | the panel |
| generator, `service/generator.go` | none | reads inbounds (twice), users and advanced settings (once per inbound), outbounds, DNS; builds the document | stores |
| HTTP API, `api/server.go` | `sessions` | handlers that read a list, change their copy and store it, then `applyAndRestart`; configuration, restart, sync; login; logs | stores, generator, sing-box, daemon |
| command line, `cmd/`, `main.go` | - | `run` (start order, signals, shutdown), `restart` and `sync` in a process of their own | all |
| configuration, `config/config.go` | the settings | `Load` once, defaults if the file cannot be read | - |
| logger, `web/`, templates, `install.sh`, systemd unit | - | output, installation; the unit restarts a dead process | - |

### What is hard, and what makes each part correct

* **Store.** Overlapping saves share one temporary name, under a read lock only; a
  crash or a failing write may fall in between. *Correct:* at rest the file holds the
  value in memory; documents are never mixed; a restart brings back the value, or an
  older durable one, and a torn file only if saves overlapped or failed.
* **SingboxService.** A caller, the child's waiter and os/exec's watcher race for the
  same child, and `WriteConfig` and the rollback of `Restart` take no lock. *Correct:*
  the running flag is never stuck, `Kill` has a child, no child is forgotten for
  ever, there is one child, only the service kills it, the file is whole unless a
  rollback has failed, calls return.
* **Sync.** Sequences of requests that fail, answer 304 or are cut short, with one
  ETag for two endpoints; unlocked read-modify-write of the inbounds; two syncs, or a
  sync and a handler, at once; handshakes that are answered with any part of the
  documents; a process that dies anywhere. *Correct:* sing-box's
  file follows the stores, the panel's inbound is not lost, the panel's users, its
  inbound and the handlers' edits arrive in the end.
* **Traffic.** The list of a sync is stored outside the lock, between a tick's read
  and its write-back; the baseline after a restart is a file. *Correct:* nothing is
  reported twice, no report is negative, a list that is stored is used, the lock is
  given back.
* **Edits and generator.** Requests overlap on one list, and a handshake replaces the
  inbounds under them; the document is gathered
  from stores that change meanwhile; documents are written out of order. *Correct:*
  unique tags, no edit lost but to a handshake, a document that some state of the stores
  calls for, a current file.
* **The running sing-box.** It reads the file some time after it was started, while
  others write it. *Correct:* at rest it has read what is in the file.
* **Settings.** Several processes load one `config.yaml`; one that finds it
  unreadable overwrites it, truncating first, and fails all the same; one that cannot
  decode it only fails. *Correct:* the daemon comes up where the file can be decoded, and nobody takes a half-written file for settings without
  credentials.
* **Start and shutdown.** The loops are in a wait group, handlers and forced syncs are
  not, and all of them share `s.mu` and `d.syncMu`. *Correct:* a signal ends the
  process, and the service leaves no sing-box of its own behind.
* **Log tail.** *Correct:* at most n lines, without a gap, up to the end.

`PROJECT.json` lists these hazards one by one, with the line where each bites and the
property that would catch it.

## 2. How the source is read

The repository does not compile as it is: `GenerateSingboxConfig` is called without
its parameter, and some variables are unused or misdeclared. The models take the
evident reading: the argument is the panel's inbound that `applyConfig` has just
looked up (daemon.go:250-258), for `applyAndRestart`, which looks none up
(server.go:652-658), too; types that lack their
package mean the `db` types. The handlers are functions that gin calls concurrently;
the routes themselves (some of which gin would refuse) are external.

External, modelled as the code uses them: the kernel's files (`TmpFile`: opening
truncates the inode that the name has, renaming moves whatever inode it has by then),
child processes and os/exec's watcher, the panel, systemd (which starts the daemon
again when it ends by itself, pupmsub.service:8). The panel answers with its current
documents, gives each version of a document an ETag of its own, and its traffic
counters never fall. Answers to POST requests carry no ETag; in the models a
handshake, which is one, clears it.

The race on the client's `etag` (two goroutines, no lock) is modelled by its
interleavings; a torn string is not.

## 3. Modules

```
TmpFile ───┬── Store ───── StoreProofs           DurableStore <- Store (refinement)
           └── Singbox ─┬─ Reads ─────────── SingboxProofs
           Settings ────┴─ Lifecycle ─────── LifecycleProofs
               Sync ────── SyncProofs            Follower <- Sync (refinement)
               Traffic ─── TrafficProofs         Ledger <- Traffic (refinement)
               Edits ───── EditsProofs ──┬ Induction
               LogTail ─── LogTailProofs ┘
```

`Lifecycle` composes `Singbox` and `Settings`: their steps are its steps.

Each `MCx` module extends `x` with what TLC needs. A module treats what another one
models in detail as one step: `Sync`, `Traffic` and `Edits` access a store in one
step, as `DurableStore` allows while no save fails, and `Sync` and `Edits` write
sing-box's file in one.

* **`TmpFile`** - two directory entries, inodes, `os.WriteFile` in its two halves,
  `os.Rename`, `os.ReadFile`. Two different documents written over each other at
  offset zero may leave a mixture.
* **`Store`** - one store. `Announce`/`Set` are the two halves of `Lock` (a waiting
  writer keeps readers out); `SaveBegin`, `SaveOpen`, `SaveWrite`, `SaveRename` are
  `Save` under the read lock; `SaveWriteFails`; `Restart` loses memory and loads.
* **`DurableStore`** - the abstract register: a value, its durable copy, the calls in
  progress, and what a crash may bring back. `Store!ImplementsRegister` is the
  refinement, with the durable copy mapped to what `load` would return.
* **`Singbox`** - `WriteConfig` (`TmpOpen` to `TmpRename`), `Restart` (`ReadBackup`,
  `StartLock`, `Kill`, `Exec`/`ExecFails`, `RollbackOpen`, `RollbackWrite`,
  `RollbackFails`, whose error is dropped), `Stop`
  (`StopLock`, `Kill`), and per child `ChildExits`, `ContextKills`, `WaitReturns`,
  `WaiterClears`. `op` says which sequence of calls a caller is in (`apply`: write,
  restart unless that failed; `handshake`: restart anyway).
* **`Sync`** - `syncLoop` and `ForceSync` (`Begin`), the handshake with its attempts,
  `doSync` request by request, the stores, `applyConfig` (`GenerateInbounds`,
  `GenerateUsers`, `WriteConfig`/`WriteFails`), handlers that edit the inbounds,
  edits on the panel, `Crash`. Documents are version numbers; a 304 is a value no
  version has. `file` holds what the file was generated from; the history variable
  `behind` remembers that a crash or a failed write has left the file behind the stores
  and none has been written since.
* **`Follower`** - what a node promises its panel: versions that are published, taken
  over by the stores (`LearnInbound`, `LearnUsers`) and handed to sing-box (`Hand`), all
  that is stored at once and never back to an older version. `Sync!ImplementsFollower`
  maps the panel's versions, those in the stores and those the file was generated from;
  it is a promise of a `syncLoop` without company. It leaves out ETags, requests, the
  handshake's order and every local variable.
* **`Traffic`** - one user's counter on the panel, in the store, in
  `lastTrafficSnap`, and what has been reported. One counter is enough: no step of
  the code relates two of them. `ApplyUserQuotaChange` is `CallQuota` and `StoreLimit`,
  or `LimitPanics` while no snapshot is stored and its map is nil (daemon.go:320-324).
* **`Ledger`** - what the reports amount to: a mark on the panel's counter that only
  rises; a report is the stretch from the mark to a later one (`Bill`), may be lost
  (`Deliver`), and stretches may be skipped (`Skip`). `Traffic!ImplementsLedger` maps
  the mark to the last snapshot, or without one to the stored snapshot (`Mark`): after a
  restart the next report starts there. While the reporter is about to store again what
  it has read, a first list that arrives meanwhile is about to be overwritten and marks
  nothing yet.
* **`Reads`** - the steps of `Singbox` together with the reading that the started
  sing-box does by itself (`ChildReads`).
* **`Settings`** - `Load` by any number of processes on one file: `ReadInConfig`,
  `ReadFails`, then `OpenDefaults` and `WriteDefaults`, the two halves of viper's
  write; `UnmarshalFails` of a file that is YAML and has a value of the wrong type. The
  settings are told apart by their credentials: with, without (`open`), all zero (a file
  that sets nothing, left so by an administrator, `unset`, or truncated by `Load`,
  `blank`), the defaults.
* **`Lifecycle`** - `runDaemon` from `Boot` to `End`, `Daemon.Start` (`Greet`,
  `StartLoops`) and `Stop` (`StopSingbox` waits for the loops); a loop's `Tick`, with
  a `Restart` of `Singbox` or not, `Stamp` under `d.syncMu`, `LoopReturns`; the API's
  `Request` (restart, or a forced sync) and `Status` (`d.syncMu`, then `s.mu`);
  `Call` and `OfChild` are the steps of `Singbox`; a command loads the settings beside
  the daemon. `Admitted` is what the middleware comes to: with credentials set it
  lets nobody in, since a token that `handleLogin` signs is not one that `validToken`
  accepts (it decodes JSON from a base64 string, server.go:57).
* **`LogTail`** - `tailLines`; a text is its length and its newlines, a line from where
  to where it goes. `LastLines` is the reference.
* **`Induction`** - induction over natural numbers for a set, from the library's
  theorem that `<` is well founded; two modules of proofs use it.
* **`Edits`** - the handlers that edit a list, `doSync` and `doHandshake` beside them
  (`Handshake` replaces the inbounds without having read them, and goes on to the users
  it brings), `PutConfig`, which writes a document of its own, and the generator read by
  read. `Generate` is the reference: the document that one state of
  the stores calls for. Entries have a tag, whether they have an XboardTag, and the
  rest as one value.

## 4. Runs

| Run | Instance | Checks |
|---|---|---|
| `store_savers` | 3 savers, 4 inodes, 3 values, failing writes, any number of restarts | `DurableWhenIdle`, `NeverGarbled`, `TornByOverlap`, refinement of `DurableStore` |
| `singbox_calls` | 2 callers and `main`, 2 children, 2 inodes, 2 documents | `RunningIsWatched`, `KillHasChild`, `ConfigNotBlank`, `RunsCurrent` |
| `singbox_serial` | 1 caller that applies, writes or handshakes, and `main`; writing, starting and rolling back may fail; fairness | `ConfigWhole`, `HolderGoesOn`, `NoneLeftAlone`, `CallsReturn`, `ExitNoticed`, `LostChildDies` |
| `singbox_killed` | 1 caller | violates `KilledOnlyByStop` |
| `singbox_double` | 1 caller | violates `AtMostOneChild` |
| `sync_alone` | `syncLoop`; 3 versions each, one renames the tag, one list is empty; handshakes answered with any part of them; 4 failures of any kind | `FileIsCurrent`, `InboundKept`, refinement of `Follower` |
| `sync_users` | `syncLoop` and a goroutine that forces syncs and serves edits; 1 and 2 versions; 1 failing request for users, body or write, or crash; fairness | `UsersArrive`, `EditsReachSingbox` |
| `sync_stuck` | `syncLoop`, one failing request for the users | violates `UsersConverge` |
| `sync_overlap` | `syncLoop` and a `ForceSync`, nothing fails | violates `InboundConverges` |
| `traffic` | `syncLoop`, `reportLoop`, a change of a quota; counter up to 4, 2 crashes, lost reports; fairness | `NoDoubleReport`, `ReportsNotNegative`, `HolderGoesOn`, `ListTakenOver`, `LockReleased`, refinement of `Ledger` |
| `edits` | 2 goroutines, 3 out of 13 requests, syncs and handshakes, or PUT /config | `TagsUnique`, `DocumentMatches`, `FileMatches`, `EditsSerial`; evaluates `tailLines` on every text of up to 6 characters |
| `lifecycle` | a loop, a goroutine of the API, `main`, a `restart` command, 2 children; any of six settings files; 1 crash or failed write; fairness | `LeftBehind`, `LocksInOrder`, `StopReturns`, `ComesUp`, `ZeroOnlyTorn` |

Every run but the four violations also checks, or is accompanied by a run of the same
module that checks, the module's `TypeOK` (`LifeOK` in `lifecycle`).

### What the violations show

* **A started sing-box is killed** (`singbox_killed`): `Start` defers the `cancel` of
  the context that `CommandContext` watches (singbox.go:86-87), so returning from
  `Start` kills the child. README.md:24 describes spawning, monitoring, restarting.
* **Two at once** (`singbox_double`): `stopLocked` kills and does not wait
  (singbox.go:71), so the next child starts while the old one has its ports;
  README.md:11 promises no second process and no port conflict.
* **Users stuck on 304** (`sync_stuck`): the ETag of the configuration is kept before
  the users are asked for; if that request fails, every later sync is answered 304
  and ends there (daemon.go:208-211). daemon.go:147 says this is to be avoided. If that
  sync has written an older document over a handler's, the handler's edit stays out of
  the file as long.
* **The panel's inbound lost** (`sync_overlap`): `setConnected(true)` comes before
  the stores are filled (daemon.go:106, 120), so a `ForceSync` in between runs
  `doSync` on the old list and writes it back; nothing adds the inbound again.

### What the exceptions in the properties stand for

The properties that hold say what is excepted; these are things the code allows and no
sentence of the repository rules out.

* `RunsCurrent`, a failed `WriteConfig`: caller A renames its document, B has opened
  the same inode as its temporary file, A's sing-box starts and reads; B writes into
  the inode that is now the configuration, fails to rename and restarts nothing. The
  file then holds B's document and sing-box runs A's (singbox.go:156-171).
* `ConfigWhole`, a rollback: it truncates the configuration in place (singbox.go:138),
  without the lock, and drops the error of its write. If that fails too, the file stays
  empty until the next document. The property is therefore one of steps: whatever changes
  the file leaves one whole document in it, but for the steps of a rollback.
* `FileIsCurrent`, a crash or a failed write: the stores are saved before the file is
  written. A process that died in between connects again, and if that handshake is
  answered without a configuration and without users (daemon.go:118, 129; SPEC.md:78
  says it returns the version only), it leaves the file as it was until the next sync
  that is not told 304.
* `UsersArrive` and `EditsReachSingbox`, `Stuck`: a client that holds the ETag of the
  current configuration for good, the case of `sync_stuck`. Nothing else may keep users
  or an edit from sing-box's file.
* `ZeroOnlyTorn`, a blank file: `Load` accepts it, every setting is zero, and
  server.go:103 then asks for no credentials. It is there when an
  administrator leaves it so, and comes about when the process dies, or
  the disk is full, between the truncation and the write of `viper.WriteConfig`, and
  for a moment while another process writes its defaults.
* `ComesUp` needs systemd: on a missing file `Load` writes the defaults and returns
  the error of the read (config.go:53-76), so the first `run` always exits. A file
  that an administrator has broken is overwritten by the same step. A file with a value
  that cannot be decoded (`web_port: abc`) is neither used nor overwritten, and fails
  every start (config.go:74): the one exception of `ComesUp`.
* `LeftBehind`, a starter outside the wait group: a handler or a forced sync may
  restart sing-box after `Stop` has killed it (run.go:60-62; server.go:614 is where a
  forced sync starts).
* `NoDoubleReport`, one `syncLoop`: with a `ForceSync` beside it, the list that
  `syncLoop` was sent first may be stored last, over a newer one that has been reported.
  A later tick then reports less than nothing; if the process dies before, the older
  list is the baseline of the next handshake, and the growth above it is reported again
  (daemon.go:109-136).
* `EditsSerial`, a handshake: it replaces all inbounds by the panel's (daemon.go:120),
  so what was added while the panel could not be reached is lost at the next handshake
  without any overlap, although SPEC.md:247 counts local inbounds among those stored.
* `FileMatches`, `written = gens`: the document begun last has not been written last.
  Its write has failed, an older one has overtaken it, or PUT /config has put a document
  of the administrator's in its place (server.go:529), which lasts until the next
  request or sync.
* `EditsSerial`, overlap: the edit of the first of two requests for one list is lost.
  A tag still cannot exist twice that way, since a handler stores the list that it has
  checked: `TagsUnique` holds under overlap, and only a PUT that renames breaks it.
* `tailLines` counts the empty text after a final newline as a line, and does not
  return the empty line before a newline that begins the text (`LastLines`).

### Bounds

* *Inodes, children.* Two names and one open file per saver: with one inode more than
  savers the bound is never reached in `store_savers`. In `singbox_calls` two callers
  share two: one that opens its file while the other still holds an inode that has lost
  its name waits until that one has written to it, which nobody sees. Two children are enough for one to be started while the other still
  has waiter or watcher; `StartLock` waits for a free slot, which is a bound and not
  code.
* *Versions and faults* (`MaxConfig`, `MaxUsers`, `MaxFaults`, `MaxAttempts`). Three
  versions tell "the one before" from "an older one" with a renaming and an empty list
  between them; four failures exhaust a handshake and hit the following sync. With two
  goroutines and liveness, two versions and one failure. There a handshake is answered with the
  configuration alone: it replaces the inbounds, and the users come by a sync, which is
  the path that an ETag can block. `sync_alone` has every answer.
* *Counters* (`MaxTotal`, `MaxCrashes`). Start is 1, so that a missing snapshot
  differs from a counter of zero; four allow a list, a newer one and a report between.
* *Requests* (`MaxRequests`). Two that overlap and one that finds what they left.
* *Faults and commands of `Lifecycle`.* One fault meets each point of a load once. A
  command runs once and before the daemon has booted, and the count of faults is reset
  then: later ones change nothing that the daemon reads again. The daemon dies only
  while it loads (deaths while it serves are in `Store`, `Sync` and `Traffic`). With
  all settings zero there is no binary, and nothing starts. The sing-box of a command
  is in another process's service and takes no slot. One loop stands for three, since
  they meet only in `s.mu` and `d.syncMu`; `LifecycleProofs` has any number.
* *Symmetry* is used for inodes, savers, callers and children, in runs without
  liveness; `ImplementsRegister` and `TornByOverlap` are safety properties that treat
  them alike.

`CHECK_DEADLOCK FALSE` is set in `edits`, whose bounded requests end, in
`lifecycle`, where the process ends, and in `traffic`, where the daemon really stops: `ApplyUserQuotaChange` locks `snapMu` while
holding it (daemon.go:318, 348), and everybody else then waits for it. No code in the
repository calls it yet, which is why it is a hazard here, and an exception of
`LockReleased` and `HolderGoesOn`, rather than a finding. It also stores the limit as the user's
counter; after that (`limited`) nothing is claimed about reports.

### Fairness

* `Singbox`: weak for the kernel and os/exec (a killed child ends, `Wait` returns, a
  cancelled context kills); strong for whoever has to take `s.mu`, because Go's
  mutexes hand over in turn. Nothing makes a living child exit.
* `Sync`: the ticker of `syncLoop` fires for ever (a goroutine of the API that edits need
  never force a sync), and steps that have begun go on:
  requests end within the client's ten seconds. Failures are bounded in number, so
  "once failures stop" is part of the premise of the liveness properties.
* `Traffic`: both tickers; strong for `Acquire`, as for `s.mu`.

* `Lifecycle`: weak for `main` and systemd, and for a load that has begun; strong for
  whoever waits for `s.mu` or `d.syncMu`; strong for `LoopReturns`, because `select`
  chooses at random between a tick and the end of the context. `Signal` is not fair:
  `StopReturns` starts from it.

`Edits` needs none: its properties speak of states at rest.

## 5. Proofs

For all values of the constants that satisfy the modules' assumptions; tlapm checks
every leaf.

* **`StoreProofs`.** `TypeCorrect`; `Durability` (`DurableWhenIdle`);
  `NoMixedDocuments` (`NeverGarbled`); `NotTorn` (`TornByOverlap`); `Refinement` (`Spec => ImplementsRegister`).
  `DurableWhenIdle` alone is not inductive: while savers overlap, the file may be
  empty or absent. `IInv` adds that savers inside `Save` agree with memory
  (`SaversAgree`, from the read lock), that a saver past its write leaves a whole
  document at one of the two names (`RenamesFresh`, `PastOpen`), that the names have
  different inodes (`NamesApart`), and that the temporary name is not stale when the
  last saver renames it (`TmpNotOld`). `NotTorn` is an action property: of all steps
  only a rename, a write into a published inode and a truncation of one change what
  `load` would return, and `RenameShowsMem` says that a rename without company shows the
  value in memory. The refinement maps every step under `IInv`.
* **`SingboxProofs`.** `TypeCorrect`; `RunningFlag` (`RunningIsWatched`, inductive
  with the types); `KillIsSafe` (`KillHasChild`, with the fact that only the holder of
  `s.mu` is between `StartLock` and `Exec`); `ConfigSurvives` (`ConfigNotBlank`, if
  starting and writing succeed - a rollback truncates the file in place);
  `ChildFollows` (`RunsCurrent`, of `Reads`). `FollowInv` behind it: whenever what
  sing-box has read is not in the file, some caller is on its way to a restart or to
  a failure that will be noted.
  `LockMovesOn` (`HolderGoesOn`): `HolderInv` says that who holds `s.mu` is in `kill` or
  `exec`, and that the child's place found by `StartLock` is still free, because only the
  holder starts a child. `ChildrenEnd` (`NoneLeftAlone`). These two are what safety has
  to say about `CallsReturn` and `LostChildDies`: a call that holds the lock has a step to
  take, and every child has somebody who kills and somebody who reaps it.
  `ConfigIsWhole` (`ConfigWhole`), for one caller beside `main`, whatever fails, the
  rollback's own write included: `WholeInv` follows the two files and the caller's copy - the temporary file is
  the caller's own and empty while it writes (`TmpWhole`), what it has read as a backup is
  whole for as long as a rollback may write it (`BackupWhole`), and the names have
  different inodes (`FilesApart`). The hypothesis is needed: with two callers the file
  may be the temporary file that the other one still writes, and `ConfigSurvives` is what
  remains.
* **`SyncProofs`.** `TypeCorrect`; for a `syncLoop` without company (`Single(s)`),
  whatever fails and whatever handshakes are answered with, `InboundSurvives`
  (`InboundKept`) and `FileFollows` (`FileIsCurrent`). `CurrentInv` says that the
  goroutine is on its way to generate whenever the stores differ from the file and no
  crash or failed write since the last document explains it.
  `FollowsPanel` (`Spec => ImplementsFollower`), under the same hypothesis. `FollowInv`
  behind it:
  a version in an answer lies between the stored and the panel's (`Between`), what a step
  is about to store has one, and what `applyConfig` has read is still stored when it
  writes. `NeverOlder` draws the consequence from the follower's steps alone: no file
  older than the last one, none ahead of the stores, no store ahead of the panel.
* **`TrafficProofs`.** `TypeCorrect`; for one `syncLoop` and one `reportLoop`,
  `NoTrafficTwice` (`NoDoubleReport`) and `NothingTakenBack` (`ReportsNotNegative`).
  `LockInv`: whoever is between `Lock` and `Unlock` holds `snapMu`. `Ordered`: the
  counters come in the order start, last snapshot, stored list, list on its way,
  panel; what the reporter will store again is the last snapshot; what has been
  reported, the delta on its way included, fits below the baseline (`Reportable`).
  With a second syncer the order breaks: an older list may be stored over a newer one.
  `ReportsAreLedger` (`Spec => ImplementsLedger`) needs no invariant beyond these:
  `LedgerStep` maps each action to one of the ledger's, or to none.
  `LockMovesOn` (`HolderGoesOn`), for any number of syncers and reporters: who has
  `snapMu` is between `Lock` and `Unlock` (`HolderInv`), unless it changes a quota.

* **`LifecycleProofs`.** `LifeTyped` (`LifeOK`, over the type invariant of `Singbox`);
  `ServiceInProcess`: a step of the process is a step of the service or the beginning of a
  call (`ServiceView`), so that what `SingboxProofs` shows step by step of the flag, the
  lock and the children holds from boot to end, with `main` among the callers.
  `LocksOrdered` (`LocksInOrder`): nobody who holds `d.syncMu` is in a call of the
  service; since the holder of `s.mu` goes on, the two locks cannot wait for each other.
  `NothingOfItsOwn` (`LeftBehind`): `ShutInv` follows the shutdown, from the loops that
  have returned and call nothing any more, through `main`'s `Stop`, to a child that can
  only be of a caller outside; `ZeroExplained` (`ZeroOnlyTorn`): `BlankInv` says that
  the file is blank, while somebody loads, only after a fault or under a process that is
  about to write.
* **`EditsProofs`.** `TypeCorrect`; `DocumentAsStored` (`DocumentMatches`), with
  `BuildInv`: the part of the document that an undisturbed worker has emitted, followed
  by what it still has to emit, is what the stores call for; `FileFollows`
  (`FileMatches`), with `FileInv`: whoever has changed a store since the last
  document was begun is on its way to begin one, and documents differ in number;
  `EditsSerialise` (`EditsSerial`), with `SerialInv`: a worker's copy is one request's
  edit of the list as it is, until two overlap; a handshake stores the panel's inbound
  (`HandshakeStores`) and counts as an overlap for whoever edits the inbounds meanwhile;
  `NoTagTwice` (`TagsUnique`), with `TagInv`: the lists in memory and the copies about
  to be stored have every tag once.
  `Only`, which filters a list, is a recursive function; `OnlyIsFilter` says what it
  returns for every list, by `SetInduction`.
* **`LogTailProofs`.** `TailIsLastLines`: for every text and every limit. `Found` is
  what the scan knows after k characters, and `SetInduction` carries it through.

Induction over data is within reach where the induction is over a set of numbers:
`Induction` derives it from the library's `WFMin`.

Every invariant and every action property that a run checks is stated by a theorem, some
with hypotheses: `ConfigNotBlank` (nothing fails), `ConfigWhole` (one caller),
`InboundKept`, `FileIsCurrent` and `ImplementsFollower` (`syncLoop` alone),
`NoDoubleReport`, `ReportsNotNegative` and `ImplementsLedger` (one `syncLoop`, one
`reportLoop`). Each of these hypotheses is needed: on a small instance without it TLC
finds the property violated.

Model-checked only: the liveness properties (`CallsReturn`, `ExitNoticed`,
`LostChildDies`, `UsersArrive`, `EditsReachSingbox`, `ListTakenOver`, `LockReleased`,
`StopReturns`, `ComesUp`), which rest on fairness and `ENABLED`.

## 6. Not modelled

* The readings that `statusLoop` posts, the logger, the pages, `install.sh`: no state
  that anything depends on.
* GET handlers: they read stores once. `handleLogs` reads one file, of which
  `LogTail` has the cutting; `handleLogsDelete` truncates it.
* The map of sessions: `validToken` looks at it after a test that no token passes, so
  no state of it is ever observed.
* `status`, `version` and `sync`: the first two print. `sync` calls unexported methods
  of another package and never calls `InitSingbox` (the stores are package-level
  variables, loaded with the package, store.go:97-127); what it means to do is a handshake and a `doSync` of `Sync`.
* A signal before `Notify` (run.go:56) kills the daemon without `Stop`; a sing-box
  that outlives its service is outside the models.
* Loss of local inbounds at a handshake: daemon.go:120 replaces all inbounds by the
  panel's, although SPEC.md:247 counts local ones among them and generator.go:8 merges
  them. It is one step (`ReplaceInbounds`), so no run is spent on it, and `EditsSerial`
  names it as an exception; it also drops the uuid and password that `networkNodeConfigToInbound` extracts, which the next
  `doSync` stores.
* The rollback of `Restart` restores what it has read after the new configuration had
  been renamed, so it restores the new one; `oldCfg` is never used. `ConfigWhole`
  covers that the file is whole.
* Rules, user rules, TLS, services and endpoints are stored and never generated
  (SPEC.md:258-275 says rules and TLS are): `Edits` has them as a store that no
  generator reads.

## 7. Plan

1. `Traffic` with several syncers: what remains true of the reports when an older list
   may be stored over a newer one (no report exceeds what the panel has counted since
   the installation), and a ledger that allows for it.
2. `Follower` beside handlers: an edit keeps the panel's inbound, so the users of the
   file are still never older, while the inbound may go back once.
3. Sessions, once login and validation agree on a token: against an abstract set of
   sessions that are valid.
