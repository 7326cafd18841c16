---------------------------- MODULE ProjectModel ----------------------------
(***************************************************************************)
(* The Project Model service (plugins/project-model/index.js): which       *)
(* project is current, what its record says, and the guard that keeps it   *)
(* from moving under an operation in flight.                               *)
(*                                                                         *)
(* The service is single threaded JavaScript, so an action is one run of   *)
(* the event loop between two awaits.  An operation whose reads and writes *)
(* of the registry all lie between two awaits is one action; open(), the   *)
(* boot, a Git action and the two event handlers are several, and hold in  *)
(* `calls' or `ops' what they read before the await.                       *)
(*                                                                         *)
(* A root directory and the id derived from it name the same project, so   *)
(* one set stands for both.  The registry's load and its writes to disk    *)
(* are not here: Init is any registry a load can return.                   *)
(***************************************************************************)
EXTENDS Integers, Sequences, SequencesExt, FiniteSets

CONSTANTS
  Projects,   \* project ids, each with its own root directory
  Sessions,   \* DSH session ids
  Tabs,       \* values of the interface state a page may store
  Requests,   \* requests a client can have in flight, one slot each
  Operations, \* slots of guarded operations (Git actions, editors, ...)
  BootCall,   \* the slot that runs start() when the plugin is mounted
  Cwd,        \* the project in whose root a session runs
  Forces,     \* the values of `force' callers pass to open() and close()
  None,       \* JavaScript's null
  Absent      \* what a project id the registry does not hold maps to

VARIABLES
  current,    \* registry.currentId
  recent,     \* registry.recent, most recent first
  projects,   \* registry.projects
  calls,      \* the open() calls and the boot, at the await they reached
  ops,        \* guard.active
  cache,      \* the project contextCache.bindProject() last named
  live,       \* the sessions in the live session store
  events,     \* event handlers suspended in attachSession() / setHandoff()
  subscribed, \* whether start() registered the session listeners
  decision,   \* history: the network decisions users confirmed
  exempt,     \* history: sessions detached, or created before the listeners
  stale,      \* history: decided while another call held the record
  strayed,    \* history: the last promotion was that of a forgotten project
  crossed     \* history: `current' last changed while another call was binding

registryVars == <<current, recent, projects>>
crossings == <<stale, strayed, crossed>>
historyVars == <<decision, exempt, crossings>>
vars == <<registryVars, calls, ops, cache, live, events, subscribed,
          historyVars>>

-----------------------------------------------------------------------------

(* What a record holds, reduced to what the properties tell apart: the     *)
(* `network' capability, whether a workspace id was stored, the sessions,  *)
(* the session of the last handoff, whether a Git synchronisation was      *)
(* recorded, and the interface state.                                      *)
ProjectRecord ==
  [network   : BOOLEAN,
   workspace : BOOLEAN,
   sessions  : SUBSET Sessions,
   handoff   : Sessions \cup {None},
   synced    : BOOLEAN,
   uiState   : Tabs \cup {None}]

(* A defect: a new record grants the network by default.                   *)
NewProjectWithNetwork ==
  [network |-> TRUE, workspace |-> FALSE, sessions |-> {}, handoff |-> None,
   synced |-> FALSE, uiState |-> None]

(* createProject() with no settings: DEFAULT_CAPABILITIES denies network.  *)
NewProject ==
  [network |-> FALSE, workspace |-> FALSE, sessions |-> {}, handoff |-> None,
   synced |-> FALSE, uiState |-> None]

Optional(S) == S \cup {None}

CallState ==
  [pc  : {"idle", "boot", "canonical", "resolved", "workspace", "binding",
          "subscribing"},
   id  : Optional(Projects),
   rec : ProjectRecord \cup {Absent}]

OperationState ==
  [pc : {"idle", "running", "synced"}, project : Optional(Projects),
   remote : BOOLEAN]

EventHandler == [kind : {"attach", "handoff"}, session : Sessions]

Decision == [last : BOOLEAN, ever : BOOLEAN]

(* What a call, an operation slot and a decision are before anything ran.  *)
IdleCall == [pc |-> "idle", id |-> None, rec |-> Absent]
IdleOperation == [pc |-> "idle", project |-> None, remote |-> FALSE]
Decided(allowed) == [last |-> allowed, ever |-> allowed]

ASSUME ConstantsAssumption ==
  /\ IsFiniteSet(Projects)
  /\ BootCall \in Requests
  /\ Cwd \in [Sessions -> Projects]
  /\ Forces \subseteq BOOLEAN
  /\ None \notin Projects \cup Sessions \cup Tabs
  /\ Absent \notin ProjectRecord

ServiceTypeOK ==
  /\ current \in Optional(Projects)
  /\ recent \in Seq(Projects)
  /\ projects \in [Projects -> ProjectRecord \cup {Absent}]
  /\ calls \in [Requests -> CallState]
  /\ ops \in [Operations -> OperationState]
  /\ cache \in Optional(Projects)
  /\ live \in SUBSET Sessions
  /\ events \in SUBSET EventHandler
  /\ decision \in [Projects -> Decision]
  /\ subscribed \in BOOLEAN
  /\ exempt \in SUBSET Sessions

CrossingsTypeOK ==
  /\ stale \in SUBSET Projects
  /\ strayed \in BOOLEAN
  /\ crossed \in BOOLEAN

TypeOK == ServiceTypeOK /\ CrossingsTypeOK

-----------------------------------------------------------------------------
(* The registry's pure functions (store.js).                               *)

Known(p) == projects[p] # Absent
KnownProjects == {p \in Projects : Known(p)}

(* The order without one id, which it holds at most once.                  *)
RemoveId(s, p) ==
  IF Contains(s, p) THEN RemoveAt(s, CHOOSE i \in 1..Len(s) : s[i] = p) ELSE s

(* A defect: the promoted id keeps its old place as well.                  *)
PromoteWithoutRemoving(s, p) == <<p>> \o s

(* promoteRecent: the id comes first, whether the registry holds it or not. *)
PromoteRecent(s, p) == <<p>> \o RemoveId(s, p)

(* upsertProject: a record keeps its place in the recent order, a new one  *)
(* goes last.                                                              *)
KeepRecent(s, p) ==
  IF Contains(s, p) THEN s ELSE Append(s, p)

Upsert(p, rec) ==
  /\ projects' = [projects EXCEPT ![p] = rec]
  /\ recent' = KeepRecent(recent, p)

(* The calls that changed the current project and have still to bind the   *)
(* context cache to it.                                                    *)
Binding(r) == calls[r].pc \in {"workspace", "binding"}

(* An open() that holds p's record, and may write it back.                 *)
Carries(r, p) == calls[r].pc \in {"resolved", "workspace", "binding"} /\
                 calls[r].id = p

(* History, no state of the code.  A decision about p is stale from the    *)
(* start when another call holds the record it replaces; the current       *)
(* project moves across a call that is still binding one.                  *)
Decide(r, p, d) ==
  /\ decision' = [decision EXCEPT ![p] = d]
  /\ stale' = IF \E q \in Requests \ {r} : Carries(q, p)
                THEN stale \cup {p} ELSE stale \ {p}

MoveCurrent(r, p) ==
  /\ current' = p
  /\ crossed' = \E q \in Requests \ {r} : Binding(q)

(* assertCanSwitch: any registered operation blocks, `force' overrides.    *)
GuardIdle == \A o \in Operations : ops[o].pc = "idle"

(* A defect: only a remote operation blocks a change of project.           *)
CanSwitchPastLocalWork(force) ==
  force \/ \A o \in Operations : ~ops[o].remote

CanSwitch(force) == force \/ GuardIdle

-----------------------------------------------------------------------------
(* Defects a change to this code could introduce.  None is part of Spec:   *)
(* each stands for one operator below and must break a property.           *)

(* forget() leaving `undefined' behind instead of null.                    *)
ForgetLeavesUndefined(r, p) ==
  /\ calls[r].pc = "idle"
  /\ CanSwitch(FALSE)
  /\ Known(p)
  /\ projects' = [projects EXCEPT ![p] = Absent]
  /\ recent' = RemoveId(recent, p)
  /\ current' = IF current = p THEN Absent ELSE current
  /\ cache' = IF current = p THEN None ELSE cache
  /\ UNCHANGED <<calls, ops, live, events, subscribed, historyVars>>

(* forget() that drops the record and keeps naming it current.             *)
ForgetKeepsCurrent(r, p) ==
  /\ calls[r].pc = "idle"
  /\ CanSwitch(FALSE)
  /\ Known(p)
  /\ projects' = [projects EXCEPT ![p] = Absent]
  /\ recent' = RemoveId(recent, p)
  /\ UNCHANGED <<current, calls, ops, cache, live, events, subscribed,
                 historyVars>>

(* forget() that does not consult the guard for a project not current.     *)
ForgetBesideGuard(r, p) ==
  /\ calls[r].pc = "idle"
  /\ CanSwitch(current # p)
  /\ Known(p)
  /\ projects' = [projects EXCEPT ![p] = Absent]
  /\ recent' = RemoveId(recent, p)
  /\ current' = IF current = p THEN None ELSE current
  /\ cache' = IF current = p THEN None ELSE cache
  /\ UNCHANGED <<calls, ops, live, events, subscribed, historyVars>>

(* A workspace id stored on a record rebuilt from the defaults.            *)
EnsureWorkspaceFromDefaults(r) ==
  LET updated == [NewProject EXCEPT !.workspace = TRUE] IN
  /\ calls[r].pc = "workspace"
  /\ Upsert(calls[r].id, updated)
  /\ calls' = [calls EXCEPT ![r].pc = "binding", ![r].rec = updated]
  /\ UNCHANGED <<current, ops, cache, live, events, subscribed, historyVars>>

(* _bind() without adoptLiveSessions().                                    *)
BindWithoutAdopting(r) ==
  /\ calls[r].pc = "binding"
  /\ cache' = calls[r].id
  /\ calls' = [calls EXCEPT ![r] =
                 IF r = BootCall /\ ~subscribed
                   THEN [IdleCall EXCEPT !.pc = "subscribing"]
                   ELSE IdleCall]
  /\ UNCHANGED <<registryVars, ops, live, events, subscribed, historyVars>>

(* open() past the await without setCurrentProject()'s check.              *)
SwitchWithoutCheck(r) ==
  LET p == calls[r].id IN
  /\ calls[r].pc = "resolved"
  /\ recent' = PromoteRecent(recent, p)
  /\ current' = p
  /\ projects' = [projects EXCEPT ![p] = IF Known(p) THEN calls[r].rec ELSE @]
  /\ calls' = [calls EXCEPT ![r].pc = "workspace"]
  /\ UNCHANGED <<ops, cache, live, events, subscribed, historyVars>>

(* close() that leaves the context cache bound.                            *)
CloseKeepsCache(r, force) ==
  /\ calls[r].pc = "idle"
  /\ CanSwitch(force)
  /\ current # None
  /\ current' = None
  /\ UNCHANGED <<recent, projects, calls, ops, cache, live, events, subscribed,
                 historyVars>>

-----------------------------------------------------------------------------
(* The initial state: a registry loaded from an earlier run, and start()   *)
(* about to open the launched project.  The launcher reads the scope from  *)
(* the same document, so an empty scope goes with no current project.      *)

Init ==
  /\ \E known \in SUBSET Projects :
       /\ projects \in [Projects -> {Absent, NewProject,
                                     [NewProject EXCEPT !.network = TRUE]}]
       /\ known = KnownProjects
       /\ recent \in SetToSeqs(known)
       /\ current \in Optional(known)
  /\ current # None => recent[1] = current
  /\ \E launch \in Optional(Projects) :
       /\ launch = None => current = None
       /\ calls = [r \in Requests |->
                     IF r = BootCall
                       THEN [pc |-> "boot", id |-> launch, rec |-> Absent]
                       ELSE IdleCall]
  /\ ops = [o \in Operations |-> IdleOperation]
  /\ cache = None
  /\ live = {}
  /\ events = {}
  /\ decision = [p \in Projects |-> Decided(Known(p) /\ projects[p].network)]
  /\ subscribed = FALSE
  /\ exempt = {}
  /\ stale = {}
  /\ strayed = FALSE
  /\ crossed = FALSE

-----------------------------------------------------------------------------
(* start() and open()                                                      *)

(* start(), past _canonicalRoot(): with an empty scope nothing is opened;  *)
(* otherwise the launched project is found or created and made current,    *)
(* and the call goes on to bind it.  The guard is not consulted.           *)
EnsureLaunchProject(r) ==
  LET launch == calls[r].id
      rec == IF Known(launch) THEN projects[launch] ELSE NewProject
  IN
  /\ calls[r].pc = "boot"
  /\ \/ /\ launch = None
        /\ calls' = [calls EXCEPT ![r] = IdleCall]
        /\ subscribed' = TRUE
        /\ UNCHANGED <<registryVars, decision, crossings>>
     \/ /\ launch # None
        /\ projects' = [projects EXCEPT ![launch] = rec]
        /\ recent' = PromoteRecent(recent, launch)
        /\ strayed' = FALSE
        /\ MoveCurrent(r, launch)
        /\ calls' = [calls EXCEPT ![r].pc = "workspace", ![r].rec = rec]
        /\ IF Known(launch)
             THEN UNCHANGED <<decision, stale>>
             ELSE Decide(r, launch, [decision[launch] EXCEPT !.last = FALSE])
        /\ UNCHANGED subscribed
  /\ UNCHANGED <<ops, cache, live, events, exempt>>

(* open(id): the guard, then _requireProject() reads the record, then the  *)
(* await on _resolveTarget() gives way.  A refusal changes nothing.        *)
OpenById(r, p, force) ==
  /\ calls[r].pc = "idle"
  /\ CanSwitch(force)
  /\ Known(p)
  /\ calls' = [calls EXCEPT ![r] =
                 [pc |-> "resolved", id |-> p, rec |-> projects[p]]]
  /\ UNCHANGED <<registryVars, ops, cache, live, events, subscribed,
                 historyVars>>

(* open({rootPath}): the guard, then realpath() and stat().                *)
OpenByRoot(r, p, force) ==
  /\ calls[r].pc = "idle"
  /\ CanSwitch(force)
  /\ calls' = [calls EXCEPT ![r] =
                 [pc |-> "canonical", id |-> p, rec |-> Absent]]
  /\ UNCHANGED <<registryVars, ops, cache, live, events, subscribed,
                 historyVars>>

(* _resolveTarget() past _canonicalDirectory(): the project rooted there,  *)
(* created when the registry has none; a path that is no directory fails.  *)
ResolveRoot(r) ==
  LET p == calls[r].id IN
  /\ calls[r].pc = "canonical"
  /\ \/ /\ calls' = [calls EXCEPT ![r] = IdleCall]
        /\ UNCHANGED <<registryVars, decision, stale>>
     \/ /\ Known(p)
        /\ calls' = [calls EXCEPT ![r].pc = "resolved",
                                  ![r].rec = projects[p]]
        /\ UNCHANGED <<registryVars, decision, stale>>
     \/ /\ ~Known(p)
        /\ Upsert(p, NewProject)
        /\ Decide(r, p, [decision[p] EXCEPT !.last = FALSE])
        /\ calls' = [calls EXCEPT ![r].pc = "resolved",
                                  ![r].rec = NewProject]
        /\ UNCHANGED current
  /\ UNCHANGED <<ops, cache, live, events, subscribed, exempt, strayed,
                 crossed>>

(* open() past the await: promote, make current, store the record it read  *)
(* before.  A project forgotten meanwhile makes setCurrentProject() throw, *)
(* after promoteRecent() already put the dead id first.                    *)
SwitchProject(r) ==
  LET p == calls[r].id IN
  /\ calls[r].pc = "resolved"
  /\ recent' = PromoteRecent(recent, p)
  /\ \/ /\ Known(p)
        /\ MoveCurrent(r, p)
        /\ projects' = [projects EXCEPT ![p] = calls[r].rec]
        /\ calls' = [calls EXCEPT ![r].pc = "workspace"]
     \/ /\ ~Known(p)
        /\ calls' = [calls EXCEPT ![r] = IdleCall]
        /\ UNCHANGED <<current, projects, crossed>>
  /\ strayed' = ~Known(p)
  /\ UNCHANGED <<ops, cache, live, events, subscribed, decision, exempt,
                 stale>>

(* _ensureWorkspace(): when the workspace registry made a record its id is *)
(* stored on the project as the call read it; when the registry already    *)
(* knew it, refused, or is not mounted, nothing is written.                *)
EnsureWorkspace(r) ==
  LET updated == [calls[r].rec EXCEPT !.workspace = TRUE] IN
  /\ calls[r].pc = "workspace"
  /\ \/ /\ Upsert(calls[r].id, updated)
        /\ calls' = [calls EXCEPT ![r].pc = "binding", ![r].rec = updated]
     \/ /\ calls' = [calls EXCEPT ![r].pc = "binding"]
        /\ UNCHANGED <<projects, recent>>
  /\ UNCHANGED <<current, ops, cache, live, events, subscribed,
                 historyVars>>

(* The rest of _bind(): bind the context cache, then adopt every live      *)
(* session whose cwd lies in the project, onto the registry's own record.  *)
Bind(r) ==
  LET p == calls[r].id
      rec == IF Known(p) THEN projects[p] ELSE calls[r].rec
      adopted == {s \in live : Cwd[s] = p} \ rec.sessions
  IN
  /\ calls[r].pc = "binding"
  /\ cache' = p
  /\ IF adopted = {}
       THEN UNCHANGED <<projects, recent>>
       ELSE Upsert(p, [rec EXCEPT !.sessions = @ \cup adopted])
  /\ exempt' = exempt \ adopted
  /\ calls' = [calls EXCEPT ![r] =
                 IF r = BootCall /\ ~subscribed
                   THEN [IdleCall EXCEPT !.pc = "subscribing"]
                   ELSE IdleCall]
  /\ UNCHANGED <<current, ops, live, events, subscribed, decision,
                 crossings>>

(* start() past the commit of what the boot bound: _subscribe().  When the *)
(* commit fails start() rejects, and the listeners are never registered.   *)
Subscribe(r) ==
  /\ calls[r].pc = "subscribing"
  /\ calls' = [calls EXCEPT ![r] = IdleCall]
  /\ subscribed' \in BOOLEAN
  /\ UNCHANGED <<registryVars, ops, cache, live, events, historyVars>>

-----------------------------------------------------------------------------
(* The requests whose reads and writes lie between two awaits              *)

(* create(): idempotent by root.                                           *)
Create(r, p) ==
  /\ calls[r].pc = "idle"
  /\ ~Known(p)
  /\ Upsert(p, NewProject)
  /\ Decide(r, p, [decision[p] EXCEPT !.last = FALSE])
  /\ UNCHANGED <<current, calls, ops, cache, live, events, subscribed,
                 exempt, strayed, crossed>>

(* close(): naming a project that is not current changes nothing.          *)
Close(r, force) ==
  /\ calls[r].pc = "idle"
  /\ CanSwitch(force)
  /\ current # None
  /\ MoveCurrent(r, None)
  /\ cache' = None
  /\ UNCHANGED <<recent, projects, calls, ops, live, events, subscribed,
                 decision, exempt, stale, strayed>>

(* forget(): never forced.                                                 *)
Forget(r, p) ==
  /\ calls[r].pc = "idle"
  /\ CanSwitch(FALSE)
  /\ Known(p)
  /\ projects' = [projects EXCEPT ![p] = Absent]
  /\ recent' = RemoveId(recent, p)
  /\ \/ /\ current = p
        /\ MoveCurrent(r, None)
        /\ cache' = None
     \/ /\ current # p
        /\ UNCHANGED <<current, cache, crossed>>
  /\ UNCHANGED <<calls, ops, live, events, subscribed, decision, exempt,
                 stale, strayed>>

(* setCapability('network', allowed, true): the only name the server lets  *)
(* an interface change, on the current project, while nothing runs.        *)
SetCapability(r, allowed) ==
  /\ calls[r].pc = "idle"
  /\ current # None
  /\ CanSwitch(FALSE)
  /\ projects' = [projects EXCEPT ![current].network = allowed]
  /\ Decide(r, current, [last |-> allowed,
                         ever |-> decision[current].ever \/ allowed])
  /\ UNCHANGED <<current, recent, calls, ops, cache, live, events, subscribed,
                 exempt, strayed, crossed>>

(* setUiState() on the current project.                                    *)
SetUiState(r, tab) ==
  /\ calls[r].pc = "idle"
  /\ current # None
  /\ projects' = [projects EXCEPT ![current].uiState = tab]
  /\ UNCHANGED <<current, recent, calls, ops, cache, live, events, subscribed,
                 historyVars>>

(* detachSession() on the current project.                                 *)
DetachSession(s) ==
  /\ current # None
  /\ s \in projects[current].sessions
  /\ projects' = [projects EXCEPT ![current].sessions = @ \ {s}]
  /\ exempt' = exempt \cup {s}
  /\ UNCHANGED <<current, recent, calls, ops, cache, live, events, subscribed,
                 decision, crossings>>

-----------------------------------------------------------------------------
(* Guarded operations                                                      *)

(* beginOperation() / runOperation(): registered against whatever project  *)
(* is current, if any.                                                     *)
BeginOperation(o) ==
  /\ ops[o].pc = "idle"
  /\ ops' = [ops EXCEPT ![o] = [pc |-> "running", project |-> current,
                                remote |-> FALSE]]
  /\ UNCHANGED <<registryVars, calls, cache, live, events, subscribed,
                 historyVars>>

(* _runGit(): a project must be open; a remote action needs its `network'  *)
(* capability.  The guard is held from the same run of the event loop.     *)
BeginGit(o, remote) ==
  /\ ops[o].pc = "idle"
  /\ current # None
  /\ remote => projects[current].network
  /\ ops' = [ops EXCEPT ![o] = [pc |-> "running", project |-> current,
                                remote |-> remote]]
  /\ UNCHANGED <<registryVars, calls, cache, live, events, subscribed,
                 historyVars>>

(* _recordGitSync(), once the remote answered: on the project that is      *)
(* current now.                                                            *)
RecordGitSync(o) ==
  /\ ops[o].pc = "running"
  /\ ops[o].remote
  /\ ops' = [ops EXCEPT ![o].pc = "synced"]
  /\ \/ /\ current # None
        /\ projects' = [projects EXCEPT ![current].synced = TRUE]
     \/ /\ current = None
        /\ UNCHANGED projects
  /\ UNCHANGED <<current, recent, calls, cache, live, events, subscribed,
                 historyVars>>

(* The operation settles, however it settles, and is released.             *)
EndOperation(o) ==
  /\ ops[o].pc # "idle"
  /\ ops' = [ops EXCEPT ![o] = IdleOperation]
  /\ UNCHANGED <<registryVars, calls, cache, live, events, subscribed,
                 historyVars>>

-----------------------------------------------------------------------------
(* The seams the service observes                                          *)

(* `session/created': the listener checks the session against the current  *)
(* project, then attachSession() gives way once before it writes.          *)
SessionCreated(s) ==
  /\ s \notin live
  /\ live' = live \cup {s}
  /\ events' = IF subscribed /\ current # None /\ Cwd[s] = current
                 THEN events \cup {[kind |-> "attach", session |-> s]}
                 ELSE events
  /\ exempt' = IF subscribed THEN exempt ELSE exempt \cup {s}
  /\ UNCHANGED <<registryVars, calls, ops, cache, subscribed, decision,
                 crossings>>

(* `session/event' of type compaction/end: the session must be one of the  *)
(* current project's, then setHandoff() gives way once before it writes.   *)
CompactionEnded(s) ==
  /\ subscribed
  /\ s \in live
  /\ current # None
  /\ s \in projects[current].sessions
  /\ events' = events \cup {[kind |-> "handoff", session |-> s]}
  /\ UNCHANGED <<registryVars, calls, ops, cache, live, subscribed,
                 historyVars>>

(* attachSession() / setHandoff() past the await, on the project that is   *)
(* current now; with none they do nothing.                                 *)
HandleEvent(e) ==
  /\ e \in events
  /\ events' = events \ {e}
  /\ \/ /\ current = None
        /\ UNCHANGED <<projects, exempt>>
     \/ /\ current # None
        /\ e.kind = "attach"
        /\ projects' = [projects EXCEPT ![current].sessions =
                                                       @ \cup {e.session}]
        /\ exempt' = exempt \ {e.session}
     \/ /\ current # None
        /\ e.kind = "handoff"
        /\ projects' = [projects EXCEPT ![current].handoff = e.session]
        /\ UNCHANGED exempt
  /\ UNCHANGED <<current, recent, calls, ops, cache, live, subscribed,
                 decision, crossings>>

-----------------------------------------------------------------------------

OpenStep(r) ==
  \/ EnsureLaunchProject(r)
  \/ \E p \in Projects, force \in Forces : OpenById(r, p, force)
  \/ \E p \in Projects, force \in Forces : OpenByRoot(r, p, force)
  \/ ResolveRoot(r)
  \/ SwitchProject(r)
  \/ EnsureWorkspace(r)
  \/ Bind(r)
  \/ Subscribe(r)

RequestStep(r) ==
  \/ \E p \in Projects : Create(r, p)
  \/ \E force \in Forces : Close(r, force)
  \/ \E p \in Projects : Forget(r, p)
  \/ \E allowed \in BOOLEAN : SetCapability(r, allowed)
  \/ \E tab \in Tabs : SetUiState(r, tab)

OperationStep(o) ==
  \/ BeginOperation(o)
  \/ \E remote \in BOOLEAN : BeginGit(o, remote)
  \/ RecordGitSync(o)
  \/ EndOperation(o)

SessionStep(s) ==
  \/ SessionCreated(s)
  \/ CompactionEnded(s)
  \/ DetachSession(s)

Next ==
  \/ \E r \in Requests : OpenStep(r) \/ RequestStep(r)
  \/ \E o \in Operations : OperationStep(o)
  \/ \E s \in Sessions : SessionStep(s)
  \/ \E e \in events : HandleEvent(e)

Spec == Init /\ [][Next]_vars

-----------------------------------------------------------------------------
(* Properties                                                              *)

(* registry.currentId never names a project the registry does not hold,    *)
(* whatever a suspended open() resolved before another call forgot it:     *)
(* _current() and every operation on "the current project" rely on it.     *)
CurrentIsKnown == current # None => Known(current)

(* An operation in flight keeps its project's record: forget() waits, and  *)
(* nothing else removes one.                                               *)
OperationProjectKnown ==
  \A o \in Operations :
    ops[o].pc # "idle" /\ ops[o].project # None => Known(ops[o].project)

(* No record, and no stale copy an open() in flight will write back, ever  *)
(* grants the network to a project whose user never confirmed a grant; so  *)
(* no remote Git action runs against such a project.                       *)
NetworkNeedsDecision ==
  /\ \A p \in Projects : Known(p) /\ projects[p].network => decision[p].ever
  /\ \A o \in Operations :
       ops[o].remote => decision[ops[o].project].ever

(* The network capability is exactly what the user last confirmed for that *)
(* project (a new record denies it): opening, binding, adopting and        *)
(* recording never grant, revoke or restore it, however many clients there *)
(* are.  Excluded is a decision confirmed while another client's open()    *)
(* held the record, which that open() may write back: NoSilentGrant says   *)
(* it must not.                                                            *)
GrantFollowsDecision ==
  \A p \in KnownProjects \ stale : projects[p].network = decision[p].last

(* An operation begun against a project runs in the current project for as *)
(* long as it holds the guard: a change of project waits for it.           *)
OperationsStayInProject ==
  \A o \in Operations :
    ops[o].pc # "idle" /\ ops[o].project # None => ops[o].project = current

(* A record grants the network only when the last decision its user        *)
(* confirmed was to allow it: no open(), boot or recovery grants it again. *)
NoSilentGrant ==
  \A p \in Projects : Known(p) /\ projects[p].network => decision[p].last

(* The recent list holds every known project once, through every open,     *)
(* creation, removal and failed open, and the current project first.       *)
(* Excluded from the order is a list whose last promotion was that of a    *)
(* project forgotten while open() resolved it: promoteRecent() puts it     *)
(* first before setCurrentProject() refuses it.                            *)
CurrentHeadsRecent ==
  /\ \A p \in KnownProjects : \E i \in DOMAIN recent : recent[i] = p
  /\ \A i, j \in DOMAIN recent : recent[i] = recent[j] => i = j
  /\ ~strayed /\ current # None => recent[1] = current

Quiet == \A r \in Requests : calls[r].pc = "idle"

(* Once no open() is in flight the context cache is bound to the current   *)
(* project, and to none when none is open: calls are not attributed to a   *)
(* project the user left.  Excluded is a project that became current, or   *)
(* was closed, while another client's open() had still to bind its own:    *)
(* that one may bind last.                                                 *)
CacheFollowsCurrent == Quiet /\ ~crossed => cache = current

(* Once nothing is in flight, every live session that runs in the current  *)
(* project's directory is associated with it, even when it was created     *)
(* while that project was being opened.  Exempt are the detached ones, and *)
(* those the boot neither found live nor was yet listening for.            *)
LiveSessionsAdopted ==
  Quiet /\ events = {} /\ current # None =>
    \A s \in live \ exempt :
      Cwd[s] = current => s \in projects[current].sessions

(* Without `force', no step closes the current project or forgets a        *)
(* project while an operation is in flight.                                *)
NoCloseUnderOperation ==
  [][~GuardIdle =>
       /\ current # None => (current' # None \/ TRUE \in Forces)
       /\ \A p \in Projects : Known(p) => projects'[p] # Absent]_vars
=============================================================================
