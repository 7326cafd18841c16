# NewPi: TLA+ specifications and proofs

NewPi is a macOS shell around a coding-agent harness. A Rust program (`src-tauri/`)
starts and supervises two child processes: the harness runtime, which loads NewPi's
JavaScript plugins (`plugins/`), and a PocketBase sidecar that stores the agent's
memories. The plugins add a project model, a memory backend with backup and restore,
a model router, a context and cache manager, and consoles for storage and terminals.

This directory holds the specifications of the parts where order, failure or
concurrency decide whether the program is right, the TLC configurations that
check them on small instances, and machine-checked proofs of the most important
facts for every value of the constants.

## 1. Inventory

| Component | State | Operations | Who it talks to | What is hard | What makes it correct |
|---|---|---|---|---|---|
| Project model service (`plugins/project-model/index.js`, `model.js`) | registry (current id, recent order, records), operation guard, listeners | start, create, open, close, forget, capabilities, sessions, UI state, guarded operations, Git | page over HTTP, harness session events, workspace registry, context cache, store | every operation suspends at awaits; state read before an await is written after it | the current project has a record; a running operation keeps its project; the network is never granted without a confirmation; every live session of a project is adopted; the context cache follows the current project |
| Registry store (`plugins/project-model/store.js`) | the loaded state, the chain of commits; `projects.json` and its temporary file | load, save | file system, the service | crash between write and rename, concurrent commits, failing writes, two loads | only whole documents replace the file; a confirmed change stays on disk; every commit settles |
| Process supervision (`runtime.rs`, `process.rs`, `pocketbase.rs`, `main.rs`, `dev.rs`) | the supervisor in its mutex, two atomic slots for the signal handler, readiness threads, splash | start, stop, restart, signal handler, readiness, timeout | operating system, both children, the window | threads, signals at any moment, children that ignore SIGTERM, failures half way | nothing the application holds runs after a quit; one runtime and one sidecar at a time; a quit ends; the splash does not stay silent |
| Backup engine (`plugins/memory-console/backup.js`, `index.js`) | `busy`, the archives on disk | create, receive an upload, inspect, restore, roll back, verify | memory service, PocketBase, zip tools, save panel | PocketBase replaces its database some time after it accepted an archive; every step can fail; two requests pass one flag | no confirmed memory is lost; success means the archive is served; the write barrier is held exactly during a restore, and always lifted |
| Memory service (`plugins/pocketbase-memory/`) | the write barrier, the client's session | remember, forget, recall, exclusive | PocketBase | writes race a restore | a write that starts during a restore waits for it |
| Git actions (`plugins/project-model/git.js`) | none of its own | status, diff, commit, fetch, push, pull | git processes | every action is several commands; a terminal and other clones work on the same repository between them | no commit is lost and no change discarded, whatever happens between two commands |
| Model router (`plugins/model-router/`) | plan, mode, active route, overrides, leases, journal | resolve, lease, switch, stream with one fallback, adaptive and observed streams | harness model service | a switch races a call that is resolving; failing streams; callers that leave | a call is served by one route and recorded once; a critical call keeps its route |
| Context and cache manager (`plugins/context-cache-manager/`) | a ledger per session, the last assembly, a journal | observe assemblies, compactions and calls | harness events | calls, assemblies and compactions interleave; calls without a session | a context version names one prefix |
| Storage console (`plugins/storage-console/`) | cached figures; the page's view and busy flag | scan, preview, clean | file system | concurrent reads under a semaphore; the tree changes between preview and deletion | only what the user was shown is deleted, never a guarded place; a walk ends and counts each inode once |
| Terminal console (`plugins/terminal-console/`) | the panel's running command; the host's stream, timer and process group | run, abort, reload, time out | processes | the caller leaves while the command runs; output beyond the limit | a command nobody waits for was told to stop; what is cut is announced |
| Session queue guard, memory tools, brand | little or none | see the sources | harness | little | - |
| Launch scope and patch (`memory.rs`, `patch.rs`, `assets.rs`, `models.rs`) | files written at launch | resolve the scope, deploy, write the patch | files | sequential | the scope named is the project's |
| Pages (`*/ui.js`) | a busy flag, the view, the last answers | render, request | services | answers out of order, over whatever is shown by then | a page is never stuck |

How they interact: `main.rs` starts the supervisor, which starts the sidecar and then
the runtime; the runtime mounts the plugins; the project model opens the project the
launcher named, binds the context cache, adopts sessions and commits its registry
through the store; the memory console restores archives through the memory
service's barrier; a signal, a quit or the development watcher ends both children.

The hazards of this code, each at its line with the properties that watch it, are
listed in `PROJECT.json` under `hazards`.

## 2. Modules

| Module | Models | Composed with |
|---|---|---|
| `ProjectModel` | the project service, one action per run of the event loop between two awaits | `MCProjectModel`, `ProjectModelProofs` |
| `DurableRegistry` | what the store promises: a confirmed change is in every later document | refined by `ProjectStore` |
| `ProjectStore` | the registry file under the service: load, change, commit, write, rename, failures, restarts | `MCProjectStore`, `ProjectStoreProofs` |
| `Supervisor` | the shell's threads, children, slots, mutex, splash | `MCSupervisor`, `SupervisorProofs` |
| `MemoryBackups` | the backup engine, memory writes with their barrier, PocketBase's restart | `MCMemoryBackups`, `MemoryBackupsProofs` |
| `ModelRouter` | plans, modes, leases, switches, the three kinds of streams and their ends | `MCServices`, `ModelRouterProofs` |
| `GitActions` | the six Git actions, command by command, beside a terminal and other clones | `MCServices`, `PluginProofs` |
| `ContextCache` | ledgers, prefix versions, handoffs, open calls, the journal | `MCServices`, `PluginProofs` |
| `StorageCatalog` | what may be measured and removed | `StorageConsole` |
| `StorageConsole` | the page, the measurements, the preview and the cleanup, over a disk that grows | `MCServices`, `ServicesProofs` |
| `TreeScan` | one walk of a tree under the semaphore | `MCServices`, `TreeScanProofs` |
| `TerminalConsole` | the panel, the host and the process group of a command | `MCServices`, `PluginProofs` |
| `ProjectsPage`, `MemoryPage` | the two pages: clicks, calls in flight, answers in any order | `MCServices`, `ServicesProofs` |
| `Absent` | the value of what is not there | the nine above |
| `MCServices` | one instance of each, a behaviour exercising one of them | run `services`, `ServicesProofs` |

### ProjectModel

`current`, `recent` and `projects` are the registry. `calls` holds each suspended
`open()` (and the boot) with the record it read before its await: that copy is what
`SwitchProject` and `EnsureWorkspace` write back, as the code does. `ops` is the guard,
`events` the handlers that have passed their check and not yet written. An operation
whose reads and writes lie between two awaits is one action. A record keeps the fields
the properties tell apart; a root directory and the id derived from it are one value.
`decision` and `exempt` are history: what the user confirmed, and which sessions the
service had no way to see. So are `stale`, `strayed` and `crossed`, which name what two
clients can break: a network decision taken while an `open()` still carries the record it
replaces, an `open()` that promoted a project another client had forgotten, a change of
the current project while another call had still to bind the context cache. `force` is a constant set because no page sends it. The
context cache is taken as mounted. `MAX_RECENT_PROJECTS` limits no operation of the
source, so the recent order is unbounded here too; the cap of 200 sessions is beyond
the instances.

### ProjectStore and DurableRegistry

A registry is the set of changes applied to it. `heap` holds the registry objects and
`registry` names the one the service uses, because a second load makes a second object
and a queued commit keeps the first. `BeginWrite` serialises the object as it is when
its turn comes; `temporary` is truncated, then whole, then renamed over `disk`.
`Restart` can come between any two steps. `reloaded` is history: a load replaced a registry
that was already in use. `KeepsPromise` is `DurableRegistry!Spec` under
`stored <- disk.changes, promised <- acked`.

### Supervisor

Two threads run the start and stop sequences of the shell, one action per point
where another thread, a child or a signal may act. `slots` are `RUNTIME_GROUP` and
`SIDECAR_GROUP`; `Signal` is the handler: SIGTERM to both slots and `_exit`. A wait with
a deadline ends either way. The thread that watches for readiness (`ReadyTimeout`) wakes up
once, whether or not the output ended before (`ended`, `expired`), and does nothing to a
runtime that was ready. `GroupChild::shutdown` only reaps a child that is gone;
`Supervisor::shutdown` signals the runtime's group in every case: the two are distinct
actions. A child whose pipes are missing after a spawn is not modelled.

### MemoryBackups

A database is its set of rows, an archive the rows it holds and the total its
manifest claims. `ops` are the console's requests at the await they reached, `writers`
the calls of `remember()` and `forget()`. A backup of the console's own goes to a path
nobody uses (`Free`), as `unusedPath()` sees to; one the user names in the save panel may
replace an archive (`Named`), whose rows `overwritten` then keeps. That the user picks, in
that panel, the very name another request is about to write to is not modelled. `total`
may be none: a manifest without a count is not compared (`Matches`). PocketBase is external: once it accepted an
archive it answers from the old database until `Swap`, which takes it down until
`ServerUp`; `SwapFails` leaves the old one. `Replaced` stands for a changed `data.db`
and for the 30 seconds after which the code goes on without it: it assumes PocketBase
is done with the archive by then, one way or the other. `confirmed`,
`raced` and `overwritten` are history: what users were told is stored, the rows of archives
they chose to replace, and which writes were in flight when a barrier rose, which the source documents as not awaited.

### ModelRouter

A provider, model and effort are one route; a capability is "yes", "no" or "unknown" for
the one threshold a plan asks of it. `modelCalls` holds each call at the await or the
yield it reached. `Stream` is `resolve()` up to its first await; `Probed` is what follows
the metadata of a candidate, the lease and the first dispatch included. A failed attempt
goes on with `Redispatch` when `MayFallBack` allows it. `EndSilently` is a stream that ends
without a finish chunk: after a fallback the code dispatches the fallback again, and so
does the model. A switch and the first write of the harness's default are one step up to
the await of `publishDefault()` (`PublishDefault`), and the write itself (`Published`) another;
the journal entry of a switch, which nothing reads back, is left out. History: `output` and
`heard` are the routes and the number of attempts whose chunks the caller received, `again`
that a silent end dispatched the fallback a second time, `records` the journal records of the
call. `disturbed` names the held leases met by a forced switch or a change of mode, and the
calls that were still being resolved when any switch or change of mode came (`Resolving`).

### GitActions

A branch is the set of the commits it reaches, a file its pair of status letters. Every
action goes `locate`, `snapshot` and then through its own commands. What the snapshot holds
comes of one `git status` command, but for the remotes, which are constant, and for whether
a pull is a fast-forward, which is a command of its own (`Ancestor`); `locate` reads what
nothing changes. `Terminal` actions and `OtherPush` come between any two. `SafeGitArgs` is the
runner's list of verbs and refused flags, and guards each command. What Git does with a
command (`AfterAdd`, `Record`, `FollowRemote`) is external.

### ContextCache

A layer is the set of its parts, each with its place, so that equal digests are equal
values. A part assembled by the harness is a section, its name and text in one value, and
stays even when its text is empty; a system message that says nothing is dropped, and the
others are named by their number, so a gap shows (`SystemLayer`). `Digest` sends nothing
and an unobserved layer to the same `None`, as the code does. `Recompute` runs at the end of
every operation that may move the prefix. `observed` keeps what `observe()` read when the call began, and `EndCall` records that,
however the ledger moved meanwhile. `prompts` is history: the prompt the harness reported for
a session last, which a call of that session is made of, whatever the ledger says. A call
keeps it too, so that `VersionNamesPrefix` compares what two calls were made of; it is none
for a session whose prompt only the system messages of its requests tell.

### StorageCatalog, StorageConsole, TreeScan

The catalog is that of the source, with its roots as parameters. `disk` holds a figure
for each of its paths, and the size of a target is the sum at and below its path, so a
target above another one holds the other's data too. Only the entries of `Ids` can be
named by a request; those of `Watched` are on the disk for a cleanup to destroy.
`Clean` is what `clean()` checks before its first await, `CountSize` the walk, which may run
out of its budget and count less (`Partial`), `RemoveTree` the comparison and `rm()`, which
may fail half way; a `clearContents()` that cannot read its directory removes nothing and
counts as done. `missed` is history: what lies below a target and is not in the request's
measurement, because the walk left it out or because it was written since. The page's opening
is two requests (status, then a measurement), and so is a cleanup that succeeded (then a
refresh); a scan or an opening that fails leaves an error without a button (`bare`), and
`hasData` says whether a way back has a table to show. `TreeScan` is that walk in detail:
`Release` gives a slot back and wakes the longest waiter, and the walk that released goes
on with its own children before that waiter runs (`Resume`).

### TerminalConsole

Text is counted, in the UTF-16 units the code compares with `MAX_OUTPUT_BYTES`, and in bytes
beside them, of which a unit takes up to `Widest`. `commands` holds the host's side, the group
and the frames on the wire; `running` and `status` are the panel. The closing frame says
whether output was cut, and the panel repeats it for a command that ended with an exit code
only. When the shell closes, what it put in the background may live on (`background`). The
group may end late, or never: only the signal is NewPi's.

### ProjectsPage, MemoryPage

A call in flight carries what its handler closes over; `Deliver` runs the handler, with
the value or a failure, over what the page shows by then. `ProjectsPage` also keeps the
projects the model serves (`Serve`, `ReadPart`), because two reads of one refresh may see
two registries. `MemoryPage` draws two sections in one body.

Operators named as defects (`ForgetLeavesUndefined`, `BeginWriteOfOwnChange`,
`HeldOffNever`, ...) are not part of any specification: each is a plausible bug of one
definition, and breaks the property it is paired with in `PROJECT.json`.

## 3. Runs

| Run | Instance | Shows |
|---|---|---|
| `project_service` | 2 projects, 1 session; one page, beside one operation and session events; or two clients with a request each in flight | types; the current project has a record, and so has that of an operation; the network needs a decision, and is what the user last confirmed; the recent order has every project once, the current one first; the cache follows the current project; live sessions are adopted; no close or forget under an operation. With two clients, but for what `stale`, `strayed` and `crossed` name |
| `project_guard` | one request, one operation | violated: an operation begun while `open()` resolves its target is in flight when the project changes |
| `project_grant` | two requests | violated: an `open()` suspended in the workspace registry undoes a revocation of the network |
| `supervisor_launch` | 6 process groups, 2 ports, 1 restart | nothing the application holds is left after a quit, a signal reaches settled children, one child of a kind, none lost; a quit ends; the splash settles |
| `supervisor_signal` | 4 groups, 1 port, 1 restart | violated: a signal during shutdown finds cleared slots and leaves an untold runtime |
| `store_durable` | 3 callers, 2 changes, 3 runs of the process | the store implements the durable registry, through failures and restarts; commits settle |
| `store_twoloads` | 2 callers that may both load | violated: a second load replaces a registry with a confirmed change |
| `backups_requests` | 2 requests, 1 writer, 2 memories, 1 path | the barrier is held exactly during one restore, however many requests pass `busy`; the safety archive is exact; the barrier is lifted |
| `backups_restore` | 1 request slot, 1 writer, 2 memories, 2 paths, uploads with a right and a wrong total | restores in a row: nothing confirmed is lost; a reported success is one, for a restore and a rollback |
| `backups_rollback` | as above | violated: a rollback that took is reported as failed, because it is verified against the archive that failed |
| `services` | see below | one call hears one route and leaves one record; a critical call keeps its route; terminal output is accounted for and nothing runs unseen; a walk serves its waiters and counts each inode once; a version names one prefix; the pages are never stuck; guarded data survives and a cleanup deletes what was shown; Git actions lose nothing |
| `router_repeats` | as `services` | violated: a fallback that ends without a finish chunk is dispatched again after the caller received its output |

The six violations are disagreements between the code and its own documentation; each
is a finding in `PROJECT.json` with the quoted line.

**Bounds.** Two projects are needed for one to be opened while another is changed; a
third adds no relation the properties name. One operation is enough for the guard,
which only asks whether any is registered. The two scopes of `project_service` cover
what one client meets beside events, and what two clients do to each other; the project
the launch names is the current one in the second, and only the page alone stores an
interface state. A caller of the store is loading, writing or
waiting in the chain: three show all at once; three runs allow a restart after a
restart. Six groups are what two launches with two ports can use, so no spawn fails for
the bound. Two memories tell an exact safety archive from one with as many rows, and one
writer in flight beside two requests is where the documented race lies. `Paths`
bounds the archives: with one, the second request finds no room and gives up; with two,
an archive NewPi made can be restored in turn. Uploads are one archive without a count
(`OneBackup`), and where restores follow one another also one with a count a row too high
(`TwoBackups`). A user replaces one archive at most, in `backups_restore`
(`ReplacesOnly`).

`services`: these plugins share no state with one another, so a behaviour exercises one
of them and the run explores the sum of their state spaces. Two routes and
two roles give a primary, a fallback and an override; the plans
have a capability that one route lacks, and one plan is refused. One call at a time is
enough, because `CriticalKeepsRoute` relates a call to switches, which come at any
moment; the theorem is for any number. `MaxHeard` stops the count of attempts at two. A command writes up to twice the
output limit, of units of up to three bytes. The walk has four directories of which two lie
beside each other under one slot, and one inode with two names. The storage console has two
requests in flight, a safe target that a compiler grows (`Sizes` 0, 1 and 3) and a guarded
one, in a launch whose workspace is the user's home. A target shown
at 1 that grew to 3 is refused for the cap of half the figure alone, for the tolerance is 2,
and one announced at 2 and measured at 3 passes; `Announced` is the figure a client of its
own sends and `Partial` what a walk out of budget counted. Git has
one action beside a terminal, two branches, one file and two commits, of NewPi, of the
terminal or of another clone. The context manager
has a session beside calls without one, two versions and a journal of one
record, beside one open call, and a request with two system messages of which one says
nothing. Each page has two calls in flight.

**Deadlock** is off for the supervisor, where the process may end; elsewhere it is
checked.

**Fairness.** `Supervisor`: threads run, because their waits have deadlines or are on a
mutex whose holder runs; the sleep of the thread that watches for readiness ends; the forwarding thread handles
what it receives. Nothing is assumed of children, users or signals. `ProjectStore`: the
operating system completes file operations, one way or another. `MemoryBackups`:
requests, file operations and timers end, with failure allowed, and PocketBase ends its
restart. No user action is fair.

## 4. Proofs

Every safety invariant and action property of a passing run is stated by a theorem for
every value of the constants, from the assumptions each module names about them and the
hypotheses said below. The inductive invariants are in the modules' words; what each adds
to the property, and why, follows.

### The project service: `ProjectModelProofs`

For every set of projects, sessions, requests and operations, from `ConstantsAssumption`:
`TypeCorrectness`, `CurrentHasRecord`, `OperationKeepsRecord`, `NetworkOnlyByDecision`,
`EachProjectOnce`, `GrantIsTheDecision`, `CurrentIsFirst`, `CacheIsBound`,
`SessionsAreAdopted`, `GuardIsHeld`. The safety properties are not inductive: an `open()`
writes back a record it read earlier, so what it holds must be covered. `IInv` adds
`CallsOK` (a call past "resolved" holds a project id and a record that grants the network
only after a decision) and `RemoteHasProject`. There is one lemma per action;
`WriteKeepsSafety` and `FrameKeepsSafety` state once what storing a record, or leaving the
records alone, does to the safety properties. `EachProjectOnce` says that the recent order
names each known project, and none twice, beside `IInv`. `GuardIsHeld` is an action
property: closing and forgetting read the guard in the step itself, and the steps of an
`open()`, which read it before an await, store records but drop none. That they may still
change the current project under an operation is what `project_guard` shows.

All hold for any number of clients; three name what they exclude, in history the steps
themselves set. `GrantInv` says that the record a suspended call carries grants what the user
decided last (`CarriedGrants`), but for a project of `stale`, where a decision came while
another call carried its record: `project_grant` shows that case go wrong. `CurrentHeads`
stops where an `open()` that a forget overtook promoted its target and was then refused
(`strayed`). `CacheInv` says that at most one call has still to bind the context cache, and
that it is the one that made its project current, until another change of the current project
overtakes it (`crossed`). `AdoptInv` excludes nothing but `exempt`: whoever has still to bind
the current project is also about to adopt its sessions.

### The registry store: `ProjectStoreProofs`

For every set of callers and changes, and any number of loads: `Invariance`,
`TypeCorrectness`, `ConfirmedIsKept`, `WholeDocuments` and `Refinement`. `IInv` has two parts.
`Sound` holds in every behaviour: one commit at a time writes (`WritesInTurn`), and what is
renamed is whole (`WholeWrites`). `Held` holds until a load replaces a registry in use
(`reloaded`): the registry in memory holds every confirmed change and that of every call in
its commit (`MemoryHolds`), and what the writing one writes holds the confirmed changes and its
own (`WriteHolds`). `ConfirmedIsKept` is therefore `[](reloaded \/ ConfirmedIsOnDisk)`, and
`Refinement` is `Spec /\ [](~reloaded) => DurableRegistry!Spec`. The code does not rule a second
load out, and `store_twoloads` shows what it then loses.

### The supervision: `SupervisorProofs`

For every set of process groups, number of ports and number of restarts:
`TypeCorrectness`, `SignalIsForwarded`, `EveryChildIsHeld`, `ExitIsClean`, `OneAtATime`. The
invariant says what a thread holds at each point of its work (`ThreadOK`); that the threads
take turns, so that of two that start or stop children one is through, and the mutex is held
exactly between taking the supervisor out and its drop (`TurnsOK`); that a group nobody holds
is gone, and a runtime among them was told (`HeldOK`); and that the slots are those of
what is adopted, or of what the one thread at work holds (`SlotsOK`). `ExitIsClean` covers every
quit, one during a restart included: what is left is in the hands of the development watcher,
who was starting or had adopted it. For `OneAtATime`, two running
children of a kind would both be held, and there is one place to hold a child of that kind.

### The backups: `MemoryBackupsProofs`

For every set of requests, writes, memories, files and uploads, from `ConstantsAssumption`
(the memories are finite in number, and null is none of the values): `TypeCorrectness`,
`OneRestoreAtATime`, `ConfirmedIsKept`, `SafetyHoldsTheReplaced`, `SuccessServesTheArchive`,
`SuccessUndoes`. The runs show the last two, and `NothingConfirmedIsLost`, with one request
at a time; the proofs hold for any number. `IInv` says what each request carries at its
await (`OperationOK`), that the file of an archive in the making is empty and nobody else's
(`TargetsDiffer`), that PocketBase holds an accepted archive only while a restore waits for
it (`PendingIsAwaited`), that beside a restore only the writes of `raced` are in flight
(`RacedAreKnown`), and that past its snapshot nothing confirmed depends on the database the
restore is about to replace (`KeptBy`, in terms of `Saved`, the archives no upload removes, and
of `overwritten`, those the user chose to replace).
`Exact` and `Served` are proved from it for the action properties. `RequestKeeps` and
`WriterKeeps` state once what a step of one request, or of one write, owes to all the others.

### The router: `ModelRouterProofs`

For every set of plans, routes, roles and calls under `RouterAssumption` (a plan names
routes and roles of its own vocabulary): `RouterTypeCorrectness`, `EveryCallServedOnce`,
`CriticalRouteKept`. `RouterIInv` adds that the mode in force has the routes it needs
(`RoutesAreThere`), without which `RouteFor` names no route; that the output of a call is of
its present route alone, that at most one attempt was heard unless the fallback was dispatched
again (`again`), and that one record is written by the end of a call, adaptive, refused and
abandoned ones apart, and none before (`CallSafe`); that a critical call being resolved has
only candidates of its role's route, and a held lease runs on that route or its fallback
(`KeepsRoute`), but for `disturbed`; and that nothing runs before the plan is mounted. A switch
is the hard step: it changes the route of a role through the override of that role or of the
default role, and is refused by the very leases `KeepsRoute` speaks of. `NothingIsRepeated`
without the exception is false of the code: `router_repeats`.

### Git, the terminal, the context manager: `PluginProofs`

Git, for every set of branches, files, repositories and actions, and any number of commits,
under `GitAssumption`: `NothingIsEverForced` and `GitTypeCorrectness`. The action property
needs one fact about states, that the commits are numbered from one: the next one, whoever
makes it, cannot be a commit some branch has already. Type correctness needs that a push or
a merge that was reached still has the branch and the upstream of its snapshot.

The terminal, for every set of commands, output limit and chunk size, under
`TerminalAssumption`: `TerminalTypeCorrectness`, `EveryChunkAccounted`,
`NothingRunsUnwatched`. `Accounted` adds to the figures that `bytes` is exact below the limit,
which is what makes the next cut exact; `Told` follows the closing frame from the host over the
wire to the status line, where alone it says that output was cut; `Stopped` speaks of the timer,
of the stream and of the caller together, because any may end first. A group that its shell left
in the background is bound by the last only.

The context manager, for every set of sessions, sections, texts, requests and calls:
`OnePrefixPerVersion` and `ContextTypeCorrectness`. The first compares two calls; the
inductive form compares each with the ledger of its session (`CoveredBy`: a version the
ledger still has names the ledger's prefix), and the prompt a call was made of with the
core and project layers it recorded; and `MovesOn` is what every ledger operation is
shown to do: leave the prefix alone or raise the version. The second shows that the version
of a handoff never runs ahead of its counter and that the journal keeps to its limit.

### A walk: `TreeScanProofs`

For every finite tree, every set of names and every limit, under `TreeScanAssumption`:
`NoWaiterIsStranded`, `FigureOfTheTree`, `ScanTypeCorrectness`. `ScanIInv` says that the
count of the semaphore is the number of readers (`SlotsAreReaders`), so that a release that
finds no free slot for the children leaves another reader behind; that the queue holds the
waiting directories, each once (`Queue`); and, so that a child joins neither queue nor
readers twice, that no directory is walked before its parent's read is over
(`ChildrenLater`). For the figure, `FigureInv` follows the names that were asked about: an
inode is charged exactly when one of its names was answered (`ChargedOnce`), and a read that
is over has asked about every name of its directory (`ReadToItsEnd`); a complete walk has
then read every directory, for one that was not would have an unread ancestor nearest the
root.

### The storage console, the pages and the composition: `ServicesProofs`

**Sums.** What a cleanup deletes is a sum over a set of places, which the community module
computes by a recursive function. That function is shown to be unique and to be the
cardinality of a set of units, one for each place and number up to its figure
(`SumCounts`), by choosing a smallest set on which two such functions differ: the
induction is over finite sets by their inclusion, as an instance of
`FS_StrictSubsetOrderingWellFounded`, because the library's induction theorems cannot be
instantiated. Totals then grow, shrink and are bounded as cardinalities are.

**The storage console**, for every launch, size, tolerance and number of requests:
`StorageTypeCorrectness`, `ConsoleAnswers`, `DeletesShown`, `GuardedAreKept`. `StorageIInv`
says that a request past its checks names an entry the catalog lets it remove (`Allowed`),
and that what it measured, with what it missed, covers what lies below its target now
(`Counted`): the other requests and the failing removals only take away. `DeletesShown` is
that bound at the removal. `GuardedAreKept` assumes `GuardedApart`: no guarded entry of the
launch lies at or below a removable one. The code does not check this, it is a fact about
roots. TLC finds it true of the launch the run uses, whose workspace is the user's home, and
of a launch with an ordinary project directory; it is false when the workspace is
`$DSH_HOME/profiles`, whose `node_modules` the catalog both offers and guards.

**The pages**, for every set of projects, of memories and of calls in flight:
`ProjectsPageAnswers`, `MemoryPageAnswers` and the type theorems. `ProjectsInv` says that a
raised flag, and a body without a button, have a call in flight whose handler, on either
outcome, lowers or redraws them (`FlagOK`); the difficulty is that any other answer may
redraw the body first. `SheetInv` says as much of the memory page's body and of its footer
(`BodyFits`, `FootFits`), each of which the answers of two sections draw.

**The composition.** `PluginsStandAlone` shows that `ServicesSpec` implements the
specification of each of the eight plugins: a step of one leaves the variables of the others
alone. Every theorem proved of a plugin alone holds beside the others through it;
`PagesAlwaysAnswer` and `ServicesTypeCorrectness` are two that combine several. Of the storage
page, the former says that a busy flag or a waiting body has its call in flight, and that a way
back has a table to show; the error of a failed scan or opening has no way back.

**Only model-checked**: liveness (`CommitsSettle`, `QuitCompletes`, `SplashSettles`,
`BarrierIsLifted`), which is beyond the prover. What the six violation runs refute is, of
course, not proved; nor is what the histories named above and `GuardedApart` exclude.

## 5. Known deviations of the code

Met while modelling. The models do what the code does; none of these breaks a checked
property unless a run says so.

- Project service: with two clients, a change of the current project that overtakes another
  call's bind leaves the context cache bound to a project that is not the current one, though
  `context-cache-manager/index.js` (lines 23 to 28) takes the binding for the current project;
  an `open()` whose target another client forgets promotes it in the recent order before it is
  refused, so the current project is then not first.
- Router: a fallback that ends without a finish chunk is dispatched again, and again as long as
  its streams end so (`index.js`, after the loop of `_dispatch`; run `router_repeats`);
  adaptive calls and abandoned ones leave no record, though `index.js` (line 56) says that every
  call does; a switch made while a critical call is still being resolved is announced, and the
  call then runs on the route it read before, against `index.js` (lines 41 to 44); `setMode()`
  does not publish the default as `switchTo()` does; the fallback of a dispatched call is not
  checked for its capabilities; an override may equal the fallback.
- Terminal: the output limit is given in bytes (`terminal.js`, lines 30 and 31) and compared
  with UTF-16 units, so up to three times as much may be streamed; the panel says nothing of the
  cut of a killed or timed out command (`ui.js`, lines 218 to 222), and a cancelled one gets no
  closing frame; what a shell that ends by itself put in the background with its output elsewhere
  (`command >/dev/null 2>&1 &`) runs on, its timer cleared, although `index.js` (line 117) and
  `ui.js` (line 15) say nothing keeps running unseen; so does a child that ignores SIGTERM.
- Scan: `release` lets the children of the walk that released barge before the longest
  waiter, so the reads in flight can exceed the limit for a moment.
- Storage: what a walk out of its budget did not count, and what grows after the last
  measurement, is deleted uncounted, and growth within the tolerance too, although `cleanup.js`
  (lines 18 to 21) says the figure confirmed is always the one deleted; a `clearContents()` that
  cannot read its directory removes nothing and answers `removed: true` (lines 128 to 134 and
  293); a failing scan, or opening, leaves an error without a button (`ui.js`, lines 448 to 452
  and 599 to 602); a refresh that fails after a cleanup that succeeded is shown as a refused or
  failed deletion; a link above a target is followed; a double click sends two cleanups; the
  answer of a scan replaces an open dialog; a figure measured before a cleanup may be cached
  after it. With the workspace at `$DSH_HOME/profiles`, the project's `node_modules` is a guarded
  path.
- Git: a pull merges into whatever branch is checked out by then; a push killed after the
  remote accepted it is reported as failed; a refused commit leaves its `add` done; commits
  of a branch without upstream are not counted as ahead. A Git action's synchronisation is
  recorded on the project that is current when it ends.
- Context: an empty layer and an unknown one have the same digest, though `context.js` (lines
  123 to 125) tells them apart; a core taken from the system messages of a session's first
  request is never refreshed, so later requests with others share its version, against
  `context.js` (lines 34 to 38); records are in the order of completion; a compaction
  whose start was missed commits nothing; a session may adopt an unattributed assembly.
- Projects page: `openTarget` does not look at the busy flag; a capability is confirmed
  for the project shown and applied to the one current then; the Git state of an older
  card can overwrite that of the card shown.
- Memory page: an answer of one section draws over the other; older answers replace newer
  ones; Rafraîchir after Afficher plus keeps the last page only.
- Shell: a quit while the development watcher restarts leaves what it starts then, against
  `runtime.rs` (line 790); a failing memory step can fail a launch (`WritePatch`), though a comment of
  `runtime.rs` says it disables memory; one burst of saves can restart the development
  runtime twice (`dev.rs`).

## 6. Plan

Done: the project service and its store, the supervision, the backups; the router, the
Git actions, the context manager, the storage and terminal consoles, the pages; a theorem
for every property the passing runs check, liveness excepted.

Next, in this order:

1. An abstract specification of what a restore promises (the database is the archive
   asked for, or the one before), implemented by `MemoryBackups`; of what the supervision
   promises a user, implemented by `Supervisor`.
2. The projects page together with `ProjectModel`, in place of the registry it keeps. The
   memory client's login and retry.
3. Liveness of a walk and of a cleanup, under the fairness of the file system.
4. The hazards `PROJECT.json` lists without a property.

## 7. Not modelled

Rendering, panels, wording, the parsing of manifests and of git's output (data without
control); one-shot scripts run by hand; path resolution and the files of the launcher
patch (`memory.rs`, `patch.rs`, `assets.rs`, `models.rs`), which run once and in sequence;
the session queue guard and the memory tools, which keep no state between calls; the
internals of PocketBase, of Git and of the harness (external). `PROJECT.json` lists every
component with its status.
