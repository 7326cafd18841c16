------------------------- MODULE ProjectModelProofs -------------------------
(***************************************************************************)
(* Proofs about ProjectModel, for every set of projects, sessions,         *)
(* requests and operations, so for any number of clients: first IInv, then *)
(* the recent order, then the grant, the context cache and the sessions,   *)
(* each with an invariant of its own, and last the guard.                  *)
(***************************************************************************)
EXTENDS ProjectModel, FiniteSetTheorems, SequenceTheorems, TLAPS

(* What an open() holds across its awaits: past "resolved" a project id    *)
(* and the record it will write back, which grants the network only to a   *)
(* project whose user confirmed a grant.                                   *)
CallsOK ==
  \A r \in Requests :
    /\ calls[r].pc \in {"canonical", "resolved", "workspace", "binding"} =>
         calls[r].id \in Projects
    /\ calls[r].pc \in {"resolved", "workspace", "binding"} =>
         /\ calls[r].rec \in ProjectRecord
         /\ calls[r].rec.network => decision[calls[r].id].ever

(* A remote operation was begun against a project.                         *)
RemoteHasProject ==
  \A o \in Operations : ops[o].remote => ops[o].project \in Projects

(* The inductive invariant: the types, what suspended calls hold, and the  *)
(* safety properties together.                                             *)
IInv ==
  /\ ServiceTypeOK
  /\ CallsOK
  /\ RemoteHasProject
  /\ CurrentIsKnown
  /\ OperationProjectKnown
  /\ NetworkNeedsDecision

-----------------------------------------------------------------------------
(* The operators on the recent order keep it a sequence of project ids.    *)

LEMMA RemoveIdType ==
  ASSUME NEW s \in Seq(Projects), NEW p
  PROVE  RemoveId(s, p) \in Seq(Projects)
<1>1. CASE ~Contains(s, p)
  BY <1>1 DEF RemoveId
<1>2. CASE Contains(s, p)
  <2> DEFINE k == CHOOSE i \in 1..Len(s) : s[i] = p
  <2>1. k \in 1..Len(s)
    BY <1>2 DEF Contains
  <2>2. RemoveId(s, p) = SubSeq(s, 1, k - 1) \o SubSeq(s, k + 1, Len(s))
    BY <1>2 DEF RemoveId, RemoveAt
  <2> HIDE DEF k
  <2>3. SubSeq(s, 1, k - 1) \in Seq(Projects)
    <3>1. \A i \in 1..(k - 1) : s[i] \in Projects
      BY <2>1, LenProperties
    <3>2. QED
      BY <2>1, <3>1, SubSeqProperties
  <2>4. SubSeq(s, k + 1, Len(s)) \in Seq(Projects)
    <3>1. \A i \in (k + 1)..Len(s) : s[i] \in Projects
      BY <2>1, LenProperties
    <3>2. QED
      BY <2>1, <3>1, SubSeqProperties
  <2>5. QED
    BY <2>2, <2>3, <2>4, ConcatProperties
<1>3. QED
  BY <1>1, <1>2

LEMMA RecentType ==
  ASSUME NEW s \in Seq(Projects), NEW p \in Projects
  PROVE  /\ PromoteRecent(s, p) \in Seq(Projects)
         /\ KeepRecent(s, p) \in Seq(Projects)
<1>1. PromoteRecent(s, p) \in Seq(Projects)
  BY RemoveIdType DEF PromoteRecent
<1>2. KeepRecent(s, p) \in Seq(Projects)
  BY DEF KeepRecent, Contains
<1>3. QED
  BY <1>1, <1>2
-----------------------------------------------------------------------------
(* Records, and the writes every action makes of them.                     *)

LEMMA RecordFacts ==
  ASSUME NEW rec \in ProjectRecord
  PROVE  /\ rec # Absent
         /\ rec.network \in BOOLEAN
         /\ \A b \in BOOLEAN :
              /\ [rec EXCEPT !.network = b] \in ProjectRecord
              /\ [rec EXCEPT !.network = b].network = b
         /\ [rec EXCEPT !.workspace = TRUE] \in ProjectRecord
         /\ [rec EXCEPT !.workspace = TRUE].network = rec.network
         /\ [rec EXCEPT !.synced = TRUE] \in ProjectRecord
         /\ [rec EXCEPT !.synced = TRUE].network = rec.network
         /\ \A S \in SUBSET Sessions :
              /\ [rec EXCEPT !.sessions = S] \in ProjectRecord
              /\ [rec EXCEPT !.sessions = S].network = rec.network
         /\ rec.sessions \in SUBSET Sessions
         /\ \A s \in Sessions :
              /\ [rec EXCEPT !.handoff = s] \in ProjectRecord
              /\ [rec EXCEPT !.handoff = s].network = rec.network
         /\ \A t \in Tabs :
              /\ [rec EXCEPT !.uiState = t] \in ProjectRecord
              /\ [rec EXCEPT !.uiState = t].network = rec.network
<1>1. rec # Absent
  BY ConstantsAssumption
<1>2. QED
  BY <1>1 DEF ProjectRecord

LEMMA NewProjectFacts ==
  /\ NewProject \in ProjectRecord
  /\ NewProject.network = FALSE
BY DEF NewProject, ProjectRecord

LEMMA KnownRecord ==
  ASSUME ServiceTypeOK, NEW p \in Projects, Known(p)
  PROVE  projects[p] \in ProjectRecord
BY DEF ServiceTypeOK, Known

(* Storing one record leaves the others, and forgets nothing.              *)
LEMMA WriteRecord ==
  ASSUME ServiceTypeOK, NEW p \in Projects, NEW rec \in ProjectRecord,
         projects' = [projects EXCEPT ![p] = rec]
  PROVE  /\ projects' \in [Projects -> ProjectRecord \cup {Absent}]
         /\ projects'[p] = rec
         /\ rec # Absent
         /\ \A q \in Projects : q # p => projects'[q] = projects[q]
         /\ \A q \in Projects : Known(q) => Known(q)'
<1>1. rec # Absent
  BY RecordFacts
<1>2. QED
  BY <1>1 DEF ServiceTypeOK, Known

(* What storing a record does to the safety properties, when the step      *)
(* leaves the operations alone and moves, if at all, to that project.      *)
LEMMA WriteKeepsSafety ==
  ASSUME IInv, NEW p \in Projects, NEW rec \in ProjectRecord,
         projects' = [projects EXCEPT ![p] = rec],
         rec.network => decision'[p].ever,
         \A q \in Projects : decision[q].ever => decision'[q].ever,
         ops' = ops, current' = current \/ current' = p
  PROVE  /\ RemoteHasProject'
         /\ CurrentIsKnown'
         /\ OperationProjectKnown'
         /\ NetworkNeedsDecision'
<1> USE DEF IInv
<1>1. /\ projects'[p] = rec
      /\ rec # Absent
      /\ \A q \in Projects : q # p => projects'[q] = projects[q]
      /\ \A q \in Projects : Known(q) => Known(q)'
  BY WriteRecord
<1>2. RemoteHasProject'
  BY DEF RemoteHasProject
<1>3. CurrentIsKnown'
  <2>1. current \in Optional(Projects)
    BY DEF ServiceTypeOK
  <2>2. QED
    BY <1>1, <2>1 DEF CurrentIsKnown, Known, Optional
<1>4. OperationProjectKnown'
  <2>1. \A o \in Operations : ops[o].project \in Optional(Projects)
    BY DEF ServiceTypeOK, OperationState
  <2>2. QED
    BY <1>1, <2>1 DEF OperationProjectKnown, Optional
<1>5. NetworkNeedsDecision'
  BY <1>1 DEF NetworkNeedsDecision, RemoteHasProject, Known
<1>6. QED
  BY <1>2, <1>3, <1>4, <1>5

(* The safety properties under a step that leaves the records alone.       *)
LEMMA FrameKeepsSafety ==
  ASSUME IInv, projects' = projects, decision' = decision, ops' = ops,
         current' = current \/ current' = None
  PROVE  /\ RemoteHasProject'
         /\ CurrentIsKnown'
         /\ OperationProjectKnown'
         /\ NetworkNeedsDecision'
<1> USE DEF IInv
<1>1. RemoteHasProject'
  BY DEF RemoteHasProject
<1>2. CurrentIsKnown'
  BY DEF CurrentIsKnown, Known
<1>3. OperationProjectKnown'
  BY DEF OperationProjectKnown, Known
<1>4. NetworkNeedsDecision'
  BY DEF NetworkNeedsDecision, Known
<1>5. QED
  BY <1>1, <1>2, <1>3, <1>4

(* A suspended call: what each step may make of one.                       *)
LEMMA CallsKept ==
  ASSUME IInv, calls' = calls,
         \A q \in Projects : decision[q].ever => decision'[q].ever
  PROVE  CallsOK'
BY DEF IInv, CallsOK

LEMMA CallMoves ==
  ASSUME IInv, NEW r \in Requests, NEW c \in CallState,
         calls' = [calls EXCEPT ![r] = c],
         \A q \in Projects : decision[q].ever => decision'[q].ever,
         c.pc \in {"canonical", "resolved", "workspace", "binding"} =>
           c.id \in Projects,
         c.pc \in {"resolved", "workspace", "binding"} =>
           /\ c.rec \in ProjectRecord
           /\ c.rec.network => decision'[c.id].ever
  PROVE  calls' \in [Requests -> CallState] /\ CallsOK'
<1> USE DEF IInv
<1>1. calls \in [Requests -> CallState]
  BY DEF ServiceTypeOK
<1>2. calls' \in [Requests -> CallState]
  BY <1>1
<1>3. ASSUME NEW q \in Requests
      PROVE  /\ calls'[q].pc \in {"canonical", "resolved", "workspace",
                                  "binding"} => calls'[q].id \in Projects
             /\ calls'[q].pc \in {"resolved", "workspace", "binding"} =>
                  /\ calls'[q].rec \in ProjectRecord
                  /\ calls'[q].rec.network => decision'[calls'[q].id].ever
  <2>1. CASE q = r
    BY <1>1, <2>1
  <2>2. CASE q # r
    BY <1>1, <2>2 DEF CallsOK
  <2>3. QED
    BY <2>1, <2>2
<1>4. QED
  BY <1>2, <1>3 DEF CallsOK
LEMMA CallFacts ==
  ASSUME NEW c \in CallState
  PROVE  /\ c.id \in Optional(Projects)
         /\ IdleCall \in CallState
         /\ [IdleCall EXCEPT !.pc = "subscribing"] \in CallState
         /\ [IdleCall EXCEPT !.pc = "subscribing"].pc = "subscribing"
         /\ IdleCall.pc = "idle"
         /\ \A k \in {"workspace", "binding"} :
              /\ [c EXCEPT !.pc = k] \in CallState
              /\ [c EXCEPT !.pc = k].pc = k
              /\ [c EXCEPT !.pc = k].id = c.id
              /\ [c EXCEPT !.pc = k].rec = c.rec
BY DEF CallState, IdleCall, Optional

LEMMA DecisionFacts ==
  ASSUME ServiceTypeOK, NEW p \in Projects, NEW b \in BOOLEAN
  PROVE  LET d == [decision EXCEPT ![p].last = b] IN
         /\ d \in [Projects -> Decision]
         /\ \A q \in Projects : d[q].ever = decision[q].ever
BY DEF ServiceTypeOK, Decision

-----------------------------------------------------------------------------
(* Every action preserves the invariant.                                   *)

LEMMA EnsureLaunchProjectStep ==
  ASSUME IInv, NEW r \in Requests, EnsureLaunchProject(r)
  PROVE  IInv'
<1> DEFINE launch == calls[r].id
           rec == IF Known(launch) THEN projects[launch] ELSE NewProject
<1> USE DEF IInv
<1>1. calls[r] \in CallState /\ launch \in Optional(Projects)
  BY CallFacts DEF ServiceTypeOK
<1>2. CASE launch = None
  <2>1. calls' = [calls EXCEPT ![r] = IdleCall]
        /\ UNCHANGED <<registryVars, decision, ops, cache, live, events, exempt>>
        /\ subscribed' = TRUE
    BY <1>2 DEF EnsureLaunchProject
  <2>2. calls' \in [Requests -> CallState] /\ CallsOK'
    BY <2>1, <1>1, CallFacts, CallMoves
  <2>3. ServiceTypeOK'
    BY <2>1, <2>2 DEF ServiceTypeOK, registryVars
  <2>4. QED
    BY <2>1, <2>2, <2>3, FrameKeepsSafety DEF registryVars
<1>3. CASE launch # None
  <2>1. /\ projects' = [projects EXCEPT ![launch] = rec]
        /\ recent' = PromoteRecent(recent, launch)
        /\ current' = launch
        /\ calls' = [calls EXCEPT ![r].pc = "workspace", ![r].rec = rec]
        /\ \/ decision' = decision
           \/ decision' = [decision EXCEPT ![launch].last = FALSE]
        /\ UNCHANGED <<subscribed, ops, cache, live, events, exempt>>
    BY <1>3 DEF EnsureLaunchProject, MoveCurrent, Decide
  <2>2. launch \in Projects
    BY <1>1, <1>3 DEF Optional
  <2>3. rec \in ProjectRecord
    BY <2>2, KnownRecord, NewProjectFacts
  <2>4. /\ decision' \in [Projects -> Decision]
        /\ \A q \in Projects : decision'[q].ever = decision[q].ever
    <3>1. decision \in [Projects -> Decision]
      BY DEF ServiceTypeOK
    <3>2. CASE decision' = decision
      BY <3>1, <3>2
    <3>3. CASE decision' = [decision EXCEPT ![launch].last = FALSE]
      BY <2>2, <3>3, DecisionFacts
    <3>4. QED
      BY <2>1, <3>2, <3>3
  <2>5. rec.network => decision'[launch].ever
    BY <2>2, <2>4, NewProjectFacts DEF NetworkNeedsDecision
  <2> HIDE DEF rec
  <2>6. calls' \in [Requests -> CallState] /\ CallsOK'
    <3> DEFINE c == [calls[r] EXCEPT !.pc = "workspace", !.rec = rec]
    <3>1. calls' = [calls EXCEPT ![r] = c]
      BY <2>1
    <3>2. c \in CallState /\ c.pc = "workspace" /\ c.id = launch /\ c.rec = rec
      BY <1>1, <2>3 DEF CallState
    <3> HIDE DEF c
    <3>3. QED
      BY <3>1, <3>2, <2>2, <2>3, <2>4, <2>5, CallMoves
  <2>7. projects' \in [Projects -> ProjectRecord \cup {Absent}]
    BY <2>1, <2>2, <2>3, WriteRecord
  <2>8. recent' \in Seq(Projects)
    BY <2>1, <2>2, RecentType DEF ServiceTypeOK
  <2>9. ServiceTypeOK'
    BY <2>1, <2>2, <2>4, <2>6, <2>7, <2>8 DEF ServiceTypeOK, Optional
  <2>10. QED
    BY <2>1, <2>2, <2>3, <2>4, <2>5, <2>6, <2>9, WriteKeepsSafety
<1>4. QED
  BY <1>2, <1>3

LEMMA OpenByIdStep ==
  ASSUME IInv, NEW r \in Requests, NEW p \in Projects, NEW force \in Forces,
         OpenById(r, p, force)
  PROVE  IInv'
<1> DEFINE c == [pc |-> "resolved", id |-> p, rec |-> projects[p]]
<1> USE DEF IInv
<1>1. /\ calls' = [calls EXCEPT ![r] = c]
      /\ Known(p)
      /\ UNCHANGED <<registryVars, ops, cache, live, events, subscribed,
                     historyVars>>
  BY DEF OpenById
<1>2. projects[p] \in ProjectRecord
  BY <1>1, KnownRecord
<1>3. c \in CallState
  BY <1>2 DEF CallState, Optional
<1>4. projects[p].network => decision'[p].ever
  BY <1>1 DEF NetworkNeedsDecision, historyVars
<1>5. c.pc = "resolved" /\ c.id = p /\ c.rec = projects[p]
  OBVIOUS
<1> HIDE DEF c
<1>6. calls' \in [Requests -> CallState] /\ CallsOK'
  BY <1>1, <1>2, <1>3, <1>4, <1>5, CallMoves DEF historyVars
<1>7. ServiceTypeOK'
  BY <1>1, <1>6 DEF ServiceTypeOK, registryVars, historyVars
<1>8. QED
  BY <1>1, <1>6, <1>7, FrameKeepsSafety DEF registryVars, historyVars

LEMMA OpenByRootStep ==
  ASSUME IInv, NEW r \in Requests, NEW p \in Projects, NEW force \in Forces,
         OpenByRoot(r, p, force)
  PROVE  IInv'
<1> DEFINE c == [pc |-> "canonical", id |-> p, rec |-> Absent]
<1> USE DEF IInv
<1>1. /\ calls' = [calls EXCEPT ![r] = c]
      /\ UNCHANGED <<registryVars, ops, cache, live, events, subscribed,
                     historyVars>>
  BY DEF OpenByRoot
<1>2. c \in CallState /\ c.pc = "canonical" /\ c.id = p
  BY DEF CallState, Optional
<1> HIDE DEF c
<1>3. calls' \in [Requests -> CallState] /\ CallsOK'
  BY <1>1, <1>2, CallMoves DEF historyVars
<1>4. ServiceTypeOK'
  BY <1>1, <1>3 DEF ServiceTypeOK, registryVars, historyVars
<1>5. QED
  BY <1>1, <1>3, <1>4, FrameKeepsSafety DEF registryVars, historyVars

LEMMA ResolveRootStep ==
  ASSUME IInv, NEW r \in Requests, ResolveRoot(r)
  PROVE  IInv'
<1> DEFINE p == calls[r].id
<1> USE DEF IInv
<1>1. calls[r] \in CallState /\ p \in Projects
  BY DEF ServiceTypeOK, ResolveRoot, CallsOK
<1>2. CASE /\ calls' = [calls EXCEPT ![r] = IdleCall]
           /\ UNCHANGED <<registryVars, decision>>
  <2>1. UNCHANGED <<ops, cache, live, events, subscribed, exempt>>
    BY DEF ResolveRoot
  <2>2. calls' \in [Requests -> CallState] /\ CallsOK'
    BY <1>1, <1>2, CallFacts, CallMoves
  <2>3. ServiceTypeOK'
    BY <1>2, <2>1, <2>2 DEF ServiceTypeOK, registryVars
  <2>4. QED
    BY <1>2, <2>1, <2>2, <2>3, FrameKeepsSafety DEF registryVars
<1>3. CASE /\ Known(p)
           /\ calls' = [calls EXCEPT ![r].pc = "resolved",
                                     ![r].rec = projects[p]]
           /\ UNCHANGED <<registryVars, decision>>
  <2> DEFINE c == [calls[r] EXCEPT !.pc = "resolved", !.rec = projects[p]]
  <2>1. UNCHANGED <<ops, cache, live, events, subscribed, exempt>>
    BY DEF ResolveRoot
  <2>2. projects[p] \in ProjectRecord
    BY <1>1, <1>3, KnownRecord
  <2>3. c \in CallState /\ c.pc = "resolved" /\ c.id = p /\ c.rec = projects[p]
    BY <1>1, <2>2 DEF CallState
  <2>4. calls' = [calls EXCEPT ![r] = c]
    BY <1>3
  <2>5. projects[p].network => decision'[p].ever
    BY <1>1, <1>3 DEF NetworkNeedsDecision
  <2> HIDE DEF c
  <2>6. calls' \in [Requests -> CallState] /\ CallsOK'
    BY <1>1, <1>3, <2>2, <2>3, <2>4, <2>5, CallMoves
  <2>7. ServiceTypeOK'
    BY <1>3, <2>1, <2>6 DEF ServiceTypeOK, registryVars
  <2>8. QED
    BY <1>3, <2>1, <2>6, <2>7, FrameKeepsSafety DEF registryVars
<1>4. CASE /\ ~Known(p)
           /\ Upsert(p, NewProject)
           /\ decision' = [decision EXCEPT ![p].last = FALSE]
           /\ calls' = [calls EXCEPT ![r].pc = "resolved",
                                     ![r].rec = NewProject]
           /\ UNCHANGED current
  <2> DEFINE c == [calls[r] EXCEPT !.pc = "resolved", !.rec = NewProject]
  <2>1. UNCHANGED <<ops, cache, live, events, subscribed, exempt>>
    BY DEF ResolveRoot
  <2>2. c \in CallState /\ c.pc = "resolved" /\ c.id = p /\ c.rec = NewProject
    BY <1>1, NewProjectFacts DEF CallState
  <2>3. /\ projects' = [projects EXCEPT ![p] = NewProject]
        /\ recent' = KeepRecent(recent, p)
        /\ calls' = [calls EXCEPT ![r] = c]
    BY <1>4 DEF Upsert
  <2>4. /\ decision' \in [Projects -> Decision]
        /\ \A q \in Projects : decision'[q].ever = decision[q].ever
    BY <1>1, <1>4, DecisionFacts
  <2> HIDE DEF c
  <2>5. calls' \in [Requests -> CallState] /\ CallsOK'
    BY <1>1, <2>2, <2>3, <2>4, NewProjectFacts, CallMoves
  <2>6. projects' \in [Projects -> ProjectRecord \cup {Absent}]
    BY <1>1, <2>3, NewProjectFacts, WriteRecord
  <2>7. recent' \in Seq(Projects)
    BY <1>1, <2>3, RecentType DEF ServiceTypeOK
  <2>8. ServiceTypeOK'
    BY <1>4, <2>1, <2>4, <2>5, <2>6, <2>7 DEF ServiceTypeOK
  <2>9. QED
    BY <1>1, <1>4, <2>1, <2>3, <2>4, <2>5, <2>8, NewProjectFacts,
       WriteKeepsSafety
<1>5. QED
  BY <1>2, <1>3, <1>4 DEF ResolveRoot, Decide

LEMMA SwitchProjectStep ==
  ASSUME IInv, NEW r \in Requests, SwitchProject(r)
  PROVE  IInv'
<1> DEFINE p == calls[r].id
           rec == calls[r].rec
<1> USE DEF IInv
<1>1. /\ calls[r] \in CallState /\ p \in Projects /\ rec \in ProjectRecord
      /\ rec.network => decision[p].ever
  BY DEF ServiceTypeOK, SwitchProject, CallsOK
<1>2. /\ recent' \in Seq(Projects)
      /\ UNCHANGED <<ops, cache, live, events, subscribed, decision, exempt>>
  BY <1>1, RecentType DEF SwitchProject, ServiceTypeOK, historyVars
<1>3. CASE Known(p)
  <2> DEFINE c == [calls[r] EXCEPT !.pc = "workspace"]
  <2>1. /\ current' = p
        /\ projects' = [projects EXCEPT ![p] = rec]
        /\ calls' = [calls EXCEPT ![r] = c]
    BY <1>3 DEF SwitchProject, MoveCurrent
  <2>2. c \in CallState /\ c.pc = "workspace" /\ c.id = p /\ c.rec = rec
    BY <1>1, CallFacts
  <2> HIDE DEF c
  <2>3. calls' \in [Requests -> CallState] /\ CallsOK'
    BY <1>1, <1>2, <2>1, <2>2, CallMoves
  <2>4. projects' \in [Projects -> ProjectRecord \cup {Absent}]
    BY <1>1, <2>1, WriteRecord
  <2>5. ServiceTypeOK'
    BY <1>1, <1>2, <2>1, <2>3, <2>4 DEF ServiceTypeOK, Optional
  <2>6. QED
    BY <1>1, <1>2, <2>1, <2>3, <2>5, WriteKeepsSafety
<1>4. CASE ~Known(p)
  <2>1. /\ calls' = [calls EXCEPT ![r] = IdleCall]
        /\ UNCHANGED <<current, projects>>
    BY <1>4 DEF SwitchProject
  <2>2. calls' \in [Requests -> CallState] /\ CallsOK'
    BY <1>1, <1>2, <2>1, CallFacts, CallMoves
  <2>3. ServiceTypeOK'
    BY <1>2, <2>1, <2>2 DEF ServiceTypeOK
  <2>4. QED
    BY <1>2, <2>1, <2>2, <2>3, FrameKeepsSafety
<1>5. QED
  BY <1>3, <1>4

LEMMA EnsureWorkspaceStep ==
  ASSUME IInv, NEW r \in Requests, EnsureWorkspace(r)
  PROVE  IInv'
<1> DEFINE p == calls[r].id
           updated == [calls[r].rec EXCEPT !.workspace = TRUE]
<1> USE DEF IInv
<1>1. /\ calls[r] \in CallState /\ p \in Projects
      /\ calls[r].rec \in ProjectRecord
      /\ calls[r].rec.network => decision[p].ever
  BY DEF ServiceTypeOK, EnsureWorkspace, CallsOK
<1>2. UNCHANGED <<current, ops, cache, live, events, subscribed, decision,
                  exempt>>
  BY DEF EnsureWorkspace, historyVars
<1>3. CASE /\ Upsert(p, updated)
           /\ calls' = [calls EXCEPT ![r].pc = "binding", ![r].rec = updated]
  <2> DEFINE c == [calls[r] EXCEPT !.pc = "binding", !.rec = updated]
  <2>1. updated \in ProjectRecord /\ (updated.network => decision[p].ever)
    BY <1>1, RecordFacts
  <2>2. /\ projects' = [projects EXCEPT ![p] = updated]
        /\ recent' = KeepRecent(recent, p)
        /\ calls' = [calls EXCEPT ![r] = c]
    BY <1>3 DEF Upsert
  <2> HIDE DEF updated
  <2>3. c \in CallState /\ c.pc = "binding" /\ c.id = p /\ c.rec = updated
    BY <1>1, <2>1 DEF CallState
  <2> HIDE DEF c
  <2>4. calls' \in [Requests -> CallState] /\ CallsOK'
    BY <1>1, <1>2, <2>1, <2>2, <2>3, CallMoves
  <2>5. projects' \in [Projects -> ProjectRecord \cup {Absent}]
    BY <1>1, <2>1, <2>2, WriteRecord
  <2>6. recent' \in Seq(Projects)
    BY <1>1, <2>2, RecentType DEF ServiceTypeOK
  <2>7. ServiceTypeOK'
    BY <1>2, <2>4, <2>5, <2>6 DEF ServiceTypeOK
  <2>8. QED
    BY <1>1, <1>2, <2>1, <2>2, <2>4, <2>7, WriteKeepsSafety
<1>4. CASE /\ calls' = [calls EXCEPT ![r].pc = "binding"]
           /\ UNCHANGED <<projects, recent>>
  <2> DEFINE c == [calls[r] EXCEPT !.pc = "binding"]
  <2>1. c \in CallState /\ c.pc = "binding" /\ c.id = p /\ c.rec = calls[r].rec
    BY <1>1, CallFacts
  <2>2. calls' = [calls EXCEPT ![r] = c]
    BY <1>4
  <2> HIDE DEF c
  <2>3. calls' \in [Requests -> CallState] /\ CallsOK'
    BY <1>1, <1>2, <2>1, <2>2, CallMoves
  <2>4. ServiceTypeOK'
    BY <1>2, <1>4, <2>3 DEF ServiceTypeOK
  <2>5. QED
    BY <1>2, <1>4, <2>3, <2>4, FrameKeepsSafety
<1>5. QED
  BY <1>3, <1>4 DEF EnsureWorkspace
LEMMA BindStep ==
  ASSUME IInv, NEW r \in Requests, Bind(r)
  PROVE  IInv'
<1> DEFINE p == calls[r].id
           rec == IF Known(p) THEN projects[p] ELSE calls[r].rec
           adopted == {s \in live : Cwd[s] = p} \ rec.sessions
           updated == [rec EXCEPT !.sessions = @ \cup adopted]
           c == IF r = BootCall /\ ~subscribed
                  THEN [IdleCall EXCEPT !.pc = "subscribing"] ELSE IdleCall
<1> USE DEF IInv
<1>1. /\ calls[r] \in CallState /\ p \in Projects
      /\ calls[r].rec \in ProjectRecord
      /\ calls[r].rec.network => decision[p].ever
  BY DEF ServiceTypeOK, Bind, CallsOK
<1>2. rec \in ProjectRecord /\ (rec.network => decision[p].ever)
  BY <1>1, KnownRecord DEF NetworkNeedsDecision
<1>3. /\ cache' = p
      /\ exempt' = exempt \ adopted
      /\ calls' = [calls EXCEPT ![r] = c]
      /\ UNCHANGED <<current, ops, live, events, subscribed, decision>>
  BY DEF Bind
<1>4. c \in CallState /\ c.pc \in {"idle", "subscribing"}
  BY <1>1, CallFacts
<1> HIDE DEF c
<1>5. calls' \in [Requests -> CallState] /\ CallsOK'
  BY <1>3, <1>4, CallMoves
<1>6. CASE adopted = {}
  <2>1. UNCHANGED <<projects, recent>>
    BY <1>6 DEF Bind
  <2>2. ServiceTypeOK'
    BY <1>1, <1>3, <1>5, <2>1 DEF ServiceTypeOK, Optional
  <2>3. QED
    BY <1>3, <1>5, <2>1, <2>2, FrameKeepsSafety
<1>7. CASE adopted # {}
  <2>1. /\ projects' = [projects EXCEPT ![p] = updated]
        /\ recent' = KeepRecent(recent, p)
    BY <1>7 DEF Bind, Upsert
  <2>2. updated \in ProjectRecord /\ updated.network = rec.network
    <3>1. rec.sessions \cup adopted \in SUBSET Sessions
      BY <1>2, RecordFacts DEF ServiceTypeOK
    <3>2. updated = [rec EXCEPT !.sessions = rec.sessions \cup adopted]
      OBVIOUS
    <3> HIDE DEF rec, adopted, updated
    <3>3. QED
      BY <1>2, <3>1, <3>2, RecordFacts
  <2> HIDE DEF updated, rec, adopted
  <2>3. projects' \in [Projects -> ProjectRecord \cup {Absent}]
    BY <1>1, <2>1, <2>2, WriteRecord
  <2>4. recent' \in Seq(Projects)
    BY <1>1, <2>1, RecentType DEF ServiceTypeOK
  <2>5. ServiceTypeOK'
    BY <1>1, <1>3, <1>5, <2>3, <2>4 DEF ServiceTypeOK, Optional
  <2>6. QED
    BY <1>1, <1>2, <1>3, <1>5, <2>1, <2>2, <2>5, WriteKeepsSafety
<1>8. QED
  BY <1>6, <1>7

LEMMA SubscribeStep ==
  ASSUME IInv, NEW r \in Requests, Subscribe(r)
  PROVE  IInv'
<1> USE DEF IInv
<1>1. /\ calls' = [calls EXCEPT ![r] = IdleCall]
      /\ subscribed' \in BOOLEAN
      /\ UNCHANGED <<registryVars, ops, cache, live, events, historyVars>>
  BY DEF Subscribe
<1>2. calls[r] \in CallState
  BY DEF ServiceTypeOK
<1>3. calls' \in [Requests -> CallState] /\ CallsOK'
  BY <1>1, <1>2, CallFacts, CallMoves DEF historyVars
<1>4. ServiceTypeOK'
  BY <1>1, <1>3 DEF ServiceTypeOK, registryVars, historyVars
<1>5. QED
  BY <1>1, <1>3, <1>4, FrameKeepsSafety DEF registryVars, historyVars

LEMMA CreateStep ==
  ASSUME IInv, NEW r \in Requests, NEW p \in Projects, Create(r, p)
  PROVE  IInv'
<1> USE DEF IInv
<1>1. /\ projects' = [projects EXCEPT ![p] = NewProject]
      /\ recent' = KeepRecent(recent, p)
      /\ decision' = [decision EXCEPT ![p].last = FALSE]
      /\ UNCHANGED <<current, calls, ops, cache, live, events, subscribed,
                     exempt>>
  BY DEF Create, Upsert, Decide
<1>2. /\ decision' \in [Projects -> Decision]
      /\ \A q \in Projects : decision'[q].ever = decision[q].ever
  BY <1>1, DecisionFacts
<1>3. projects' \in [Projects -> ProjectRecord \cup {Absent}]
  BY <1>1, NewProjectFacts, WriteRecord
<1>4. recent' \in Seq(Projects)
  BY <1>1, RecentType DEF ServiceTypeOK
<1>5. ServiceTypeOK'
  BY <1>1, <1>2, <1>3, <1>4 DEF ServiceTypeOK
<1>6. CallsOK'
  BY <1>1, <1>2, CallsKept
<1>7. QED
  BY <1>1, <1>2, <1>5, <1>6, NewProjectFacts, WriteKeepsSafety

LEMMA CloseStep ==
  ASSUME IInv, NEW r \in Requests, NEW force \in Forces, Close(r, force)
  PROVE  IInv'
<1> USE DEF IInv
<1>1. /\ current' = None /\ cache' = None
      /\ UNCHANGED <<recent, projects, calls, ops, live, events, subscribed,
                     decision, exempt>>
  BY DEF Close, MoveCurrent
<1>2. ServiceTypeOK'
  BY <1>1 DEF ServiceTypeOK, Optional
<1>3. CallsOK'
  BY <1>1, CallsKept
<1>4. QED
  BY <1>1, <1>2, <1>3, FrameKeepsSafety

(* The guard is idle and never forced: no operation loses its record.      *)
LEMMA ForgetStep ==
  ASSUME IInv, NEW r \in Requests, NEW p \in Projects, Forget(r, p)
  PROVE  IInv'
<1> USE DEF IInv
<1>1. /\ projects' = [projects EXCEPT ![p] = Absent]
      /\ recent' = RemoveId(recent, p)
      /\ UNCHANGED <<calls, ops, live, events, subscribed, decision, exempt>>
  BY DEF Forget
<1>2. \/ current' = None /\ cache' = None
      \/ current # p /\ current' = current /\ cache' = cache
  BY DEF Forget, MoveCurrent
<1>3. \A o \in Operations : ops[o].pc = "idle"
  BY DEF Forget, CanSwitch, GuardIdle
<1>4. ServiceTypeOK'
  <2>1. recent' \in Seq(Projects)
    BY <1>1, RemoveIdType DEF ServiceTypeOK
  <2>2. projects' \in [Projects -> ProjectRecord \cup {Absent}]
    BY <1>1 DEF ServiceTypeOK
  <2>3. QED
    BY <1>1, <1>2, <2>1, <2>2 DEF ServiceTypeOK, Optional
<1>5. CallsOK'
  BY <1>1, CallsKept
<1>6. RemoteHasProject'
  BY <1>1 DEF RemoteHasProject
<1>7. CurrentIsKnown'
  <2>1. \A q \in Projects : q # p => projects'[q] = projects[q]
    BY <1>1 DEF ServiceTypeOK
  <2>2. QED
    BY <1>2, <2>1 DEF CurrentIsKnown, Known, ServiceTypeOK, Optional
<1>8. OperationProjectKnown'
  BY <1>1, <1>3 DEF OperationProjectKnown
<1>9. NetworkNeedsDecision'
  <2>1. \A q \in Projects : Known(q)' => q # p /\ projects'[q] = projects[q]
    BY <1>1 DEF ServiceTypeOK, Known
  <2>2. QED
    BY <1>1, <2>1 DEF NetworkNeedsDecision, Known
<1>10. QED
  BY <1>4, <1>5, <1>6, <1>7, <1>8, <1>9

LEMMA SetCapabilityStep ==
  ASSUME IInv, NEW r \in Requests, NEW allowed \in BOOLEAN,
         SetCapability(r, allowed)
  PROVE  IInv'
<1> DEFINE rec == [projects[current] EXCEPT !.network = allowed]
           d == [last |-> allowed, ever |-> decision[current].ever \/ allowed]
<1> USE DEF IInv
<1>1. /\ projects' = [projects EXCEPT ![current] = rec]
      /\ decision' = [decision EXCEPT ![current] = d]
      /\ UNCHANGED <<current, recent, calls, ops, cache, live, events,
                     subscribed, exempt>>
  BY DEF SetCapability, Decide
<1>2. current \in Projects /\ projects[current] \in ProjectRecord
  BY KnownRecord DEF SetCapability, ServiceTypeOK, Optional, CurrentIsKnown
<1>3. rec \in ProjectRecord /\ rec.network = allowed
  BY <1>2, RecordFacts
<1>4. d \in Decision /\ (decision[current].ever => d.ever)
      /\ (allowed => d.ever)
  <2>1. decision[current].ever \in BOOLEAN
    BY <1>2 DEF ServiceTypeOK, Decision
  <2>2. QED
    BY <2>1 DEF Decision
<1> HIDE DEF d, rec
<1>5. /\ decision' \in [Projects -> Decision]
      /\ \A q \in Projects : decision[q].ever => decision'[q].ever
      /\ decision'[current] = d
  BY <1>1, <1>2, <1>4 DEF ServiceTypeOK
<1>6. projects' \in [Projects -> ProjectRecord \cup {Absent}]
  BY <1>1, <1>2, <1>3, WriteRecord
<1>7. ServiceTypeOK'
  BY <1>1, <1>5, <1>6 DEF ServiceTypeOK
<1>8. CallsOK'
  BY <1>1, <1>5, CallsKept
<1>9. rec.network => decision'[current].ever
  BY <1>3, <1>4, <1>5
<1>10. QED
  BY <1>1, <1>2, <1>3, <1>5, <1>7, <1>8, <1>9, WriteKeepsSafety

(* The three steps that only store a field of the current record.          *)
LEMMA CurrentRecordStep ==
  ASSUME IInv, current # None, NEW rec \in ProjectRecord,
         rec.network = projects[current].network,
         projects' = [projects EXCEPT ![current] = rec],
         UNCHANGED <<current, recent, calls, cache, live, subscribed,
                     decision>>,
         ops' = ops, events' \in SUBSET EventHandler,
         exempt' \in SUBSET Sessions
  PROVE  IInv'
<1> USE DEF IInv
<1>1. current \in Projects /\ Known(current)
  BY DEF ServiceTypeOK, Optional, CurrentIsKnown
<1>2. rec.network => decision[current].ever
  BY <1>1 DEF NetworkNeedsDecision
<1>3. projects' \in [Projects -> ProjectRecord \cup {Absent}]
  BY <1>1, WriteRecord
<1>4. ServiceTypeOK'
  BY <1>3 DEF ServiceTypeOK
<1>5. CallsOK'
  BY CallsKept
<1>6. QED
  BY <1>1, <1>2, <1>4, <1>5, WriteKeepsSafety

LEMMA CurrentRecord ==
  ASSUME IInv, current # None
  PROVE  current \in Projects /\ projects[current] \in ProjectRecord
BY KnownRecord DEF IInv, ServiceTypeOK, Optional, CurrentIsKnown

LEMMA SetUiStateStep ==
  ASSUME IInv, NEW r \in Requests, NEW tab \in Tabs, SetUiState(r, tab)
  PROVE  IInv'
<1> DEFINE rec == [projects[current] EXCEPT !.uiState = tab]
<1>1. rec \in ProjectRecord /\ rec.network = projects[current].network
  BY CurrentRecord, RecordFacts DEF SetUiState
<1>2. /\ projects' = [projects EXCEPT ![current] = rec]
      /\ current # None
      /\ UNCHANGED <<current, recent, calls, cache, live, subscribed,
                     decision, ops, events, exempt>>
  BY DEF SetUiState, historyVars
<1> HIDE DEF rec
<1>3. QED
  BY <1>1, <1>2, CurrentRecordStep DEF IInv, ServiceTypeOK

LEMMA DetachSessionStep ==
  ASSUME IInv, NEW s \in Sessions, DetachSession(s)
  PROVE  IInv'
<1> DEFINE kept == projects[current].sessions \ {s}
           rec == [projects[current] EXCEPT !.sessions = kept]
<1>1. kept \in SUBSET Sessions
  BY CurrentRecord, RecordFacts DEF DetachSession
<1>2. projects' = [projects EXCEPT ![current] = rec]
  BY DEF DetachSession
<1>3. /\ current # None
      /\ UNCHANGED <<current, recent, calls, cache, live, subscribed,
                     decision, ops, events>>
      /\ exempt' = exempt \cup {s}
  BY DEF DetachSession
<1> HIDE DEF kept
<1>4. rec \in ProjectRecord /\ rec.network = projects[current].network
  BY <1>1, <1>3, CurrentRecord, RecordFacts
<1> HIDE DEF rec
<1>5. QED
  BY <1>2, <1>3, <1>4, CurrentRecordStep DEF IInv, ServiceTypeOK

LEMMA HandleEventStep ==
  ASSUME IInv, NEW e \in events, HandleEvent(e)
  PROVE  IInv'
<1> USE DEF IInv
<1>1. /\ events' \in SUBSET EventHandler /\ e.session \in Sessions
      /\ UNCHANGED <<current, recent, calls, cache, live, subscribed,
                     decision, ops>>
  BY DEF HandleEvent, ServiceTypeOK, EventHandler
<1>2. CASE current = None
  <2>1. UNCHANGED <<projects, exempt>>
    BY <1>2 DEF HandleEvent
  <2>2. ServiceTypeOK'
    BY <1>1, <2>1 DEF ServiceTypeOK
  <2>3. CallsOK'
    BY <1>1, CallsKept
  <2>4. QED
    BY <1>1, <2>1, <2>2, <2>3, FrameKeepsSafety
<1>3. CASE current # None /\ e.kind = "attach"
  <2> DEFINE all == projects[current].sessions \cup {e.session}
             rec == [projects[current] EXCEPT !.sessions = all]
  <2>1. /\ projects' = [projects EXCEPT ![current] = rec]
        /\ exempt' = exempt \ {e.session}
    BY <1>3 DEF HandleEvent
  <2>2. all \in SUBSET Sessions
    BY <1>1, <1>3, CurrentRecord, RecordFacts
  <2> HIDE DEF all
  <2>3. rec \in ProjectRecord /\ rec.network = projects[current].network
    BY <1>3, <2>2, CurrentRecord, RecordFacts
  <2> HIDE DEF rec
  <2>4. exempt' \in SUBSET Sessions
    BY <2>1 DEF ServiceTypeOK
  <2>5. QED
    BY <1>1, <1>3, <2>1, <2>3, <2>4, CurrentRecordStep
<1>4. CASE current # None /\ e.kind # "attach"
  <2> DEFINE rec == [projects[current] EXCEPT !.handoff = e.session]
  <2>1. projects' = [projects EXCEPT ![current] = rec] /\ exempt' = exempt
    BY <1>4 DEF HandleEvent
  <2>2. rec \in ProjectRecord /\ rec.network = projects[current].network
    BY <1>1, <1>4, CurrentRecord, RecordFacts
  <2> HIDE DEF rec
  <2>3. exempt' \in SUBSET Sessions
    BY <2>1 DEF ServiceTypeOK
  <2>4. QED
    BY <1>1, <1>4, <2>1, <2>2, <2>3, CurrentRecordStep
<1>5. QED
  BY <1>2, <1>3, <1>4

(* An operation slot that is released or refilled with a known project.    *)
LEMMA OperationMoves ==
  ASSUME IInv, NEW o \in Operations, NEW c \in OperationState,
         ops' = [ops EXCEPT ![o] = c],
         c.pc # "idle" /\ c.project # None => Known(c.project),
         c.remote => c.project \in Projects /\ decision[c.project].ever,
         UNCHANGED <<current, recent, calls, cache, live, events, subscribed,
                     decision, exempt, projects>>
  PROVE  IInv'
<1> USE DEF IInv
<1>1. ops' \in [Operations -> OperationState]
  BY DEF ServiceTypeOK
<1>2. /\ ops'[o] = c
      /\ \A q \in Operations : q # o => ops'[q] = ops[q]
  BY DEF ServiceTypeOK
<1>3. ServiceTypeOK'
  BY <1>1 DEF ServiceTypeOK
<1>4. CallsOK'
  BY CallsKept
<1>5. RemoteHasProject'
  BY <1>2 DEF RemoteHasProject
<1>6. CurrentIsKnown'
  BY DEF CurrentIsKnown, Known
<1>7. OperationProjectKnown'
  BY <1>2 DEF OperationProjectKnown, Known
<1>8. NetworkNeedsDecision'
  <2>1. \A q \in Operations : ops'[q].remote => decision[ops'[q].project].ever
    BY <1>2 DEF NetworkNeedsDecision
  <2>2. QED
    BY <2>1 DEF NetworkNeedsDecision, Known
<1>9. QED
  BY <1>3, <1>4, <1>5, <1>6, <1>7, <1>8

LEMMA BeginOperationStep ==
  ASSUME IInv, NEW o \in Operations, BeginOperation(o)
  PROVE  IInv'
<1> DEFINE c == [pc |-> "running", project |-> current, remote |-> FALSE]
<1>1. /\ c \in OperationState
      /\ c.project = current /\ c.remote = FALSE
  BY DEF IInv, ServiceTypeOK, OperationState
<1>2. /\ ops' = [ops EXCEPT ![o] = c]
      /\ UNCHANGED <<current, recent, calls, cache, live, events, subscribed,
                     decision, exempt, projects>>
  BY DEF BeginOperation, registryVars, historyVars
<1> HIDE DEF c
<1>3. current # None => Known(current)
  BY DEF IInv, CurrentIsKnown
<1>4. QED
  BY <1>1, <1>2, <1>3, OperationMoves

LEMMA BeginGitStep ==
  ASSUME IInv, NEW o \in Operations, NEW remote \in BOOLEAN,
         BeginGit(o, remote)
  PROVE  IInv'
<1> DEFINE c == [pc |-> "running", project |-> current, remote |-> remote]
<1>1. /\ c \in OperationState
      /\ c.project = current /\ c.remote = remote
  BY DEF IInv, ServiceTypeOK, OperationState
<1>2. /\ ops' = [ops EXCEPT ![o] = c]
      /\ current # None
      /\ remote => projects[current].network
      /\ UNCHANGED <<current, recent, calls, cache, live, events, subscribed,
                     decision, exempt, projects>>
  BY DEF BeginGit, registryVars, historyVars
<1> HIDE DEF c
<1>3. current \in Projects /\ Known(current)
  BY <1>2, CurrentRecord DEF IInv, CurrentIsKnown
<1>4. remote => decision[current].ever
  BY <1>2, <1>3 DEF IInv, NetworkNeedsDecision
<1>5. QED
  BY <1>1, <1>2, <1>3, <1>4, OperationMoves

LEMMA EndOperationStep ==
  ASSUME IInv, NEW o \in Operations, EndOperation(o)
  PROVE  IInv'
<1>1. /\ IdleOperation \in OperationState
      /\ IdleOperation.pc = "idle" /\ IdleOperation.remote = FALSE
  BY DEF IdleOperation, OperationState, Optional
<1>2. /\ ops' = [ops EXCEPT ![o] = IdleOperation]
      /\ UNCHANGED <<current, recent, calls, cache, live, events, subscribed,
                     decision, exempt, projects>>
  BY DEF EndOperation, registryVars, historyVars
<1>3. QED
  BY <1>1, <1>2, OperationMoves

(* The one step that stores a record and moves an operation: it keeps the  *)
(* operation's project and capability, and the record's grant.             *)
LEMMA RecordGitSyncStep ==
  ASSUME IInv, NEW o \in Operations, RecordGitSync(o)
  PROVE  IInv'
<1> DEFINE rec == [projects[current] EXCEPT !.synced = TRUE]
<1> USE DEF IInv
<1>1. /\ ops' = [ops EXCEPT ![o].pc = "synced"]
      /\ ops[o].pc = "running"
      /\ UNCHANGED <<current, recent, calls, cache, live, events, subscribed,
                     decision, exempt>>
  BY DEF RecordGitSync, historyVars
<1>2. /\ ops' \in [Operations -> OperationState]
      /\ \A q \in Operations : /\ ops'[q].project = ops[q].project
                               /\ ops'[q].remote = ops[q].remote
                               /\ ops'[q].pc = "idle" <=> ops[q].pc = "idle"
  BY <1>1 DEF ServiceTypeOK, OperationState
<1>3. /\ projects' \in [Projects -> ProjectRecord \cup {Absent}]
      /\ \A q \in Projects : /\ Known(q)' <=> Known(q)
                             /\ Known(q) =>
                                  projects'[q].network = projects[q].network
  <2>1. CASE current = None
    <3>1. projects' = projects
      BY <2>1 DEF RecordGitSync
    <3>2. QED
      BY <3>1 DEF ServiceTypeOK, Known
  <2>2. CASE current # None
    <3>1. projects' = [projects EXCEPT ![current] = rec]
      BY <2>2 DEF RecordGitSync
    <3>2. /\ current \in Projects /\ Known(current)
          /\ rec \in ProjectRecord
          /\ rec.network = projects[current].network
      BY <2>2, CurrentRecord, RecordFacts DEF CurrentIsKnown
    <3> HIDE DEF rec
    <3>3. /\ projects' \in [Projects -> ProjectRecord \cup {Absent}]
          /\ projects'[current] = rec /\ rec # Absent
          /\ \A q \in Projects : q # current => projects'[q] = projects[q]
      BY <3>1, <3>2, WriteRecord
    <3>4. QED
      BY <3>2, <3>3 DEF Known
  <2>3. QED
    BY <2>1, <2>2
<1>4. ServiceTypeOK'
  BY <1>1, <1>2, <1>3 DEF ServiceTypeOK
<1>5. CallsOK'
  BY <1>1, CallsKept
<1>6. RemoteHasProject'
  BY <1>2 DEF RemoteHasProject
<1>7. CurrentIsKnown'
  BY <1>1, <1>3 DEF CurrentIsKnown, ServiceTypeOK, Optional
<1>8. OperationProjectKnown'
  <2>1. \A q \in Operations : ops[q].project \in Optional(Projects)
    BY DEF ServiceTypeOK, OperationState
  <2>2. QED
    BY <1>2, <1>3, <2>1 DEF OperationProjectKnown, Optional
<1>9. NetworkNeedsDecision'
  BY <1>1, <1>2, <1>3 DEF NetworkNeedsDecision
<1>10. QED
  BY <1>4, <1>5, <1>6, <1>7, <1>8, <1>9

LEMMA SessionCreatedStep ==
  ASSUME IInv, NEW s \in Sessions, SessionCreated(s)
  PROVE  IInv'
<1> USE DEF IInv
<1>1. /\ live' = live \cup {s}
      /\ UNCHANGED <<current, recent, projects, calls, ops, cache, subscribed,
                     decision>>
  BY DEF SessionCreated, registryVars
<1>2. events' \in SUBSET EventHandler /\ exempt' \in SUBSET Sessions
  <2>1. [kind |-> "attach", session |-> s] \in EventHandler
    BY DEF EventHandler
  <2>2. QED
    BY <2>1 DEF SessionCreated, ServiceTypeOK
<1>3. ServiceTypeOK'
  BY <1>1, <1>2 DEF ServiceTypeOK
<1>4. CallsOK'
  BY <1>1, CallsKept
<1>5. QED
  BY <1>1, <1>3, <1>4, FrameKeepsSafety

LEMMA CompactionEndedStep ==
  ASSUME IInv, NEW s \in Sessions, CompactionEnded(s)
  PROVE  IInv'
<1> USE DEF IInv
<1>1. /\ events' = events \cup {[kind |-> "handoff", session |-> s]}
      /\ UNCHANGED <<current, recent, projects, calls, ops, cache, live,
                     subscribed, decision, exempt>>
  BY DEF CompactionEnded, registryVars, historyVars
<1>2. events' \in SUBSET EventHandler
  <2>1. [kind |-> "handoff", session |-> s] \in EventHandler
    BY DEF EventHandler
  <2>2. QED
    BY <1>1, <2>1 DEF ServiceTypeOK
<1>3. ServiceTypeOK'
  BY <1>1, <1>2 DEF ServiceTypeOK
<1>4. CallsOK'
  BY <1>1, CallsKept
<1>5. QED
  BY <1>1, <1>3, <1>4, FrameKeepsSafety
-----------------------------------------------------------------------------
(* The invariant, and the properties it carries.                           *)

LEMMA InitIInv == Init => IInv
<1> SUFFICES ASSUME Init PROVE IInv
  OBVIOUS
<1> DEFINE granting == [NewProject EXCEPT !.network = TRUE]
<1>1. /\ NewProject \in ProjectRecord /\ NewProject.network = FALSE
      /\ granting \in ProjectRecord
  BY NewProjectFacts, RecordFacts
<1>2. projects \in [Projects -> {Absent, NewProject, granting}]
  BY DEF Init
<1>3. \A p \in Projects : Known(p) => projects[p] \in ProjectRecord
  BY <1>1, <1>2 DEF Known
<1>4. projects \in [Projects -> ProjectRecord \cup {Absent}]
  BY <1>1, <1>2
<1>5. recent \in Seq(Projects)
  <2>1. recent \in SetToSeqs(KnownProjects) /\ KnownProjects \subseteq Projects
    BY DEF Init, KnownProjects
  <2>2. Cardinality(KnownProjects) \in Nat
    BY <2>1, ConstantsAssumption, FS_Subset, FS_CardinalityType
  <2>3. recent \in [1..Cardinality(KnownProjects) -> KnownProjects]
    BY <2>1 DEF SetToSeqs
  <2> DEFINE n == Cardinality(KnownProjects)
  <2> HIDE DEF n
  <2>4. recent \in [1..n -> Projects]
    BY <2>1, <2>3 DEF n
  <2>5. n \in Nat
    BY <2>2 DEF n
  <2>6. QED
    BY <2>4, <2>5
<1>6. current \in Optional(Projects) /\ CurrentIsKnown
  BY DEF Init, Optional, CurrentIsKnown, KnownProjects
<1>7. /\ calls \in [Requests -> CallState]
      /\ \A r \in Requests : calls[r].pc \in {"idle", "boot"}
  <2>1. PICK launch \in Optional(Projects) :
          calls = [r \in Requests |->
                     IF r = BootCall
                       THEN [pc |-> "boot", id |-> launch, rec |-> Absent]
                       ELSE IdleCall]
    BY DEF Init
  <2>2. QED
    BY <2>1 DEF CallState, IdleCall, Optional
<1>8. /\ ops \in [Operations -> OperationState]
      /\ \A o \in Operations : ops[o].pc = "idle" /\ ops[o].remote = FALSE
  BY DEF Init, OperationState, IdleOperation, Optional
<1>9. /\ decision \in [Projects -> Decision]
      /\ \A p \in Projects : Known(p) /\ projects[p].network => decision[p].ever
  <2>1. decision = [p \in Projects |->
                      [last |-> Known(p) /\ projects[p].network,
                       ever |-> Known(p) /\ projects[p].network]]
    BY DEF Init, Decided
  <2>2. ASSUME NEW p \in Projects
        PROVE  /\ decision[p] \in Decision
               /\ Known(p) /\ projects[p].network => decision[p].ever
    <3> DEFINE b == Known(p) /\ projects[p].network
    <3>1. decision[p] = [last |-> b, ever |-> b] /\ b \in BOOLEAN
      BY <2>1
    <3> HIDE DEF b
    <3>2. decision[p] \in Decision /\ (b => decision[p].ever)
      BY <3>1 DEF Decision
    <3>3. QED
      BY <3>2 DEF b
  <2>3. QED
    BY <2>1, <2>2
<1>10. /\ cache = None /\ live = {} /\ events = {} /\ subscribed = FALSE
       /\ exempt = {}
  BY DEF Init
<1>11. ServiceTypeOK
  BY <1>4, <1>5, <1>6, <1>7, <1>8, <1>9, <1>10 DEF ServiceTypeOK, Optional
<1>12. CallsOK /\ RemoteHasProject /\ OperationProjectKnown
       /\ NetworkNeedsDecision
  BY <1>7, <1>8, <1>9
     DEF CallsOK, RemoteHasProject, OperationProjectKnown,
         NetworkNeedsDecision
<1>13. QED
  BY <1>6, <1>11, <1>12 DEF IInv

LEMMA NextIInv == IInv /\ [Next]_vars => IInv'
<1> SUFFICES ASSUME IInv, [Next]_vars PROVE IInv'
  OBVIOUS
<1>1. ASSUME NEW r \in Requests, OpenStep(r) PROVE IInv'
  BY <1>1, EnsureLaunchProjectStep, OpenByIdStep, OpenByRootStep,
     ResolveRootStep, SwitchProjectStep, EnsureWorkspaceStep, BindStep,
     SubscribeStep DEF OpenStep
<1>2. ASSUME NEW r \in Requests, RequestStep(r) PROVE IInv'
  BY <1>2, CreateStep, CloseStep, ForgetStep, SetCapabilityStep,
     SetUiStateStep DEF RequestStep
<1>3. ASSUME NEW o \in Operations, OperationStep(o) PROVE IInv'
  BY <1>3, BeginOperationStep, BeginGitStep, RecordGitSyncStep,
     EndOperationStep DEF OperationStep
<1>4. ASSUME NEW s \in Sessions, SessionStep(s) PROVE IInv'
  BY <1>4, SessionCreatedStep, CompactionEndedStep, DetachSessionStep
     DEF SessionStep
<1>5. ASSUME NEW e \in events, HandleEvent(e) PROVE IInv'
  BY <1>5, HandleEventStep
<1>6. CASE UNCHANGED vars
  BY <1>6 DEF vars, registryVars, historyVars, IInv, ServiceTypeOK, CallsOK,
              RemoteHasProject, CurrentIsKnown, OperationProjectKnown,
              NetworkNeedsDecision, Known
<1>7. QED
  BY <1>1, <1>2, <1>3, <1>4, <1>5, <1>6 DEF Next

-----------------------------------------------------------------------------

(* The service keeps IInv through every interleaving of its suspended      *)
(* calls, its operations and the events it observes.                       *)
THEOREM Invariance == Spec => []IInv
<1>1. Init => IInv
  BY InitIInv
<1>2. IInv /\ [Next]_vars => IInv'
  BY NextIInv
<1>3. QED
  BY <1>1, <1>2, PTL DEF Spec

(* The current project always has a record, whatever was forgotten while   *)
(* an open() was suspended.                                                *)
THEOREM CurrentHasRecord == Spec => []CurrentIsKnown
<1>1. IInv => CurrentIsKnown
  BY DEF IInv
<1>2. QED
  BY <1>1, Invariance, PTL

(* A project with an operation in flight is not forgotten.                 *)
THEOREM OperationKeepsRecord == Spec => []OperationProjectKnown
<1>1. IInv => OperationProjectKnown
  BY DEF IInv
<1>2. QED
  BY <1>1, Invariance, PTL

(* The network is never granted, nor a remote Git action run, for a        *)
(* project whose user never confirmed a grant.                             *)
THEOREM NetworkOnlyByDecision == Spec => []NetworkNeedsDecision
<1>1. IInv => NetworkNeedsDecision
  BY DEF IInv
<1>2. QED
  BY <1>1, Invariance, PTL
-----------------------------------------------------------------------------
(* The recent order.                                                       *)

Once(s) == \A i, j \in DOMAIN s : s[i] = s[j] => i = j
Names(s, p) == \E i \in DOMAIN s : s[i] = p

(* Each known project has one place in the recent order.                   *)
RecentOrdered ==
  /\ Once(recent)
  /\ \A p \in KnownProjects : Names(recent, p)

LEMMA RemovedAt ==
  ASSUME NEW s \in Seq(Projects), NEW p, Names(s, p), Once(s)
  PROVE  \E k \in 1..Len(s) :
           /\ s[k] = p
           /\ Len(RemoveId(s, p)) = Len(s) - 1
           /\ \A i \in 1..(Len(s) - 1) :
                RemoveId(s, p)[i] = IF i < k THEN s[i] ELSE s[i + 1]
<1> DEFINE k == CHOOSE i \in 1..Len(s) : s[i] = p
           a == SubSeq(s, 1, k - 1)
           b == SubSeq(s, k + 1, Len(s))
<1>1. Contains(s, p) /\ k \in 1..Len(s) /\ s[k] = p
  BY DEF Names, Contains
<1>2. RemoveId(s, p) = a \o b
  BY <1>1 DEF RemoveId, RemoveAt
<1> HIDE DEF k
<1>3. /\ a \in Seq(Projects) /\ Len(a) = k - 1
      /\ \A i \in 1..(k - 1) : a[i] = s[i]
  <2>1. \A i \in 1..(k - 1) : s[i] \in Projects
    BY <1>1, LenProperties
  <2>2. QED
    BY <1>1, <2>1, SubSeqProperties
<1>4. /\ b \in Seq(Projects) /\ Len(b) = Len(s) - k
      /\ \A i \in 1..(Len(s) - k) : b[i] = s[k + i]
  <2>1. \A i \in (k + 1)..Len(s) : s[i] \in Projects
    BY <1>1, LenProperties
  <2>2. QED
    BY <1>1, <2>1, SubSeqProperties
<1> HIDE DEF a, b
<1>5. /\ Len(a \o b) = Len(s) - 1
      /\ \A i \in 1..(Len(s) - 1) :
           (a \o b)[i] = IF i < k THEN s[i] ELSE s[i + 1]
  <2>1. /\ Len(a \o b) = Len(a) + Len(b)
        /\ \A i \in 1..(Len(a) + Len(b)) :
             (a \o b)[i] = IF i <= Len(a) THEN a[i] ELSE b[i - Len(a)]
    BY <1>3, <1>4, ConcatProperties
  <2>2. QED
    BY <1>1, <1>3, <1>4, <2>1, LenProperties
<1>6. QED
  BY <1>1, <1>2, <1>5

(* Removing an id leaves the others, in their order, and none twice.       *)
LEMMA RemoveIdKeeps ==
  ASSUME NEW s \in Seq(Projects), NEW p, Once(s)
  PROVE  /\ Once(RemoveId(s, p))
         /\ ~Names(RemoveId(s, p), p)
         /\ \A q : q # p /\ Names(s, q) => Names(RemoveId(s, p), q)
         /\ Len(s) > 0 /\ s[1] # p =>
              Len(RemoveId(s, p)) > 0 /\ RemoveId(s, p)[1] = s[1]
<1> DEFINE t == RemoveId(s, p)
<1>1. CASE ~Names(s, p)
  <2>1. t = s
    BY <1>1 DEF RemoveId, Names, Contains
  <2>2. QED
    BY <1>1, <2>1
<1>2. CASE Names(s, p)
  <2>1. PICK k \in 1..Len(s) :
          /\ s[k] = p
          /\ Len(t) = Len(s) - 1
          /\ \A i \in 1..(Len(s) - 1) :
               t[i] = IF i < k THEN s[i] ELSE s[i + 1]
    BY <1>2, RemovedAt
  <2>2. t \in Seq(Projects) /\ DOMAIN t = 1..(Len(s) - 1) /\ DOMAIN s = 1..Len(s)
        /\ Len(s) \in Nat
    BY <2>1, RemoveIdType, LenProperties
  <2> HIDE DEF t
  <2>3. Once(t)
    BY <2>1, <2>2 DEF Once
  <2>4. ~Names(t, p)
    BY <2>1, <2>2 DEF Once, Names
  <2>5. ASSUME NEW q, q # p, Names(s, q)
        PROVE  Names(t, q)
    <3>1. PICK i \in 1..Len(s) : s[i] = q
      BY <2>2, <2>5 DEF Names
    <3>2. CASE i < k
      BY <2>1, <2>2, <3>1, <3>2 DEF Names
    <3>3. CASE ~(i < k)
      <4>1. i - 1 \in 1..(Len(s) - 1) /\ ~(i - 1 < k)
        BY <2>1, <2>2, <2>5, <3>1, <3>3
      <4>2. t[i - 1] = q
        BY <2>1, <2>2, <3>1, <4>1
      <4>3. QED
        BY <2>2, <4>1, <4>2 DEF Names
    <3>4. QED
      BY <3>2, <3>3
  <2>6. ASSUME Len(s) > 0, s[1] # p
        PROVE  Len(t) > 0 /\ t[1] = s[1]
    BY <2>1, <2>2, <2>6
  <2>7. QED
    BY <2>3, <2>4, <2>5, <2>6 DEF t
<1>3. QED
  BY <1>1, <1>2

(* Promoting an id puts it first, and keeps every other.                   *)
LEMMA PromoteKeeps ==
  ASSUME NEW s \in Seq(Projects), NEW p \in Projects, Once(s)
  PROVE  /\ Once(PromoteRecent(s, p))
         /\ Names(PromoteRecent(s, p), p)
         /\ PromoteRecent(s, p)[1] = p
         /\ \A q : Names(s, q) => Names(PromoteRecent(s, p), q)
<1> DEFINE t == RemoveId(s, p)
           u == PromoteRecent(s, p)
<1>1. /\ t \in Seq(Projects) /\ Once(t) /\ ~Names(t, p)
      /\ \A q : q # p /\ Names(s, q) => Names(t, q)
  BY RemoveIdType, RemoveIdKeeps
<1>2. u = <<p>> \o t
  BY DEF PromoteRecent
<1> HIDE DEF t, u
<1>3. /\ u \in Seq(Projects) /\ DOMAIN u = 1..(Len(t) + 1)
      /\ DOMAIN t = 1..Len(t) /\ Len(t) \in Nat
      /\ u[1] = p
      /\ \A i \in 2..(Len(t) + 1) : u[i] = t[i - 1]
  <2>1. <<p>> \in Seq(Projects) /\ Len(<<p>>) = 1 /\ <<p>>[1] = p
    OBVIOUS
  <2>2. /\ Len(u) = 1 + Len(t)
        /\ \A i \in 1..(1 + Len(t)) :
             u[i] = IF i <= 1 THEN <<p>>[i] ELSE t[i - 1]
    BY <1>1, <1>2, <2>1, ConcatProperties
  <2>3. u \in Seq(Projects)
    BY <1>1, <1>2, <2>1, ConcatProperties
  <2>4. Len(t) \in Nat /\ DOMAIN t = 1..Len(t) /\ DOMAIN u = 1..Len(u)
    BY <1>1, <2>3, LenProperties
  <2>5. QED
    BY <2>1, <2>2, <2>3, <2>4
<1>4. Once(u)
  <2>1. SUFFICES ASSUME NEW i \in DOMAIN u, NEW j \in DOMAIN u, u[i] = u[j]
                 PROVE  i = j
    BY DEF Once
  <2>2. \A k \in DOMAIN u : u[k] = p => k = 1
    <3>1. SUFFICES ASSUME NEW k \in DOMAIN u, k # 1
                   PROVE  u[k] # p
      OBVIOUS
    <3>2. k - 1 \in DOMAIN t /\ u[k] = t[k - 1]
      BY <1>3, <3>1
    <3>3. QED
      BY <1>1, <3>2 DEF Names
  <2>3. CASE i # 1 /\ j # 1
    <3>1. i - 1 \in DOMAIN t /\ j - 1 \in DOMAIN t /\ t[i - 1] = t[j - 1]
      BY <1>3, <2>1, <2>3
    <3>2. i - 1 = j - 1
      BY <1>1, <3>1 DEF Once
    <3>3. QED
      BY <1>3, <2>1, <3>2
  <2>4. CASE i = 1 \/ j = 1
    BY <1>3, <2>1, <2>2, <2>4
  <2>5. QED
    BY <2>3, <2>4
<1>5. Names(u, p)
  BY <1>3 DEF Names
<1>6. ASSUME NEW q, Names(s, q)
      PROVE  Names(u, q)
  <2>1. CASE q = p
    BY <1>5, <2>1
  <2>2. CASE q # p
    <3>1. PICK i \in DOMAIN t : t[i] = q
      BY <1>1, <1>6, <2>2 DEF Names
    <3>2. i + 1 \in 2..(Len(t) + 1) /\ u[i + 1] = q
      BY <1>3, <3>1
    <3>3. QED
      BY <1>3, <3>2 DEF Names
  <2>3. QED
    BY <2>1, <2>2
<1>7. QED
  BY <1>3, <1>4, <1>5, <1>6 DEF u

(* Keeping a record's place: the order only grows, and at its end.         *)
LEMMA KeepRecentKeeps ==
  ASSUME NEW s \in Seq(Projects), NEW p \in Projects, Once(s)
  PROVE  /\ Once(KeepRecent(s, p))
         /\ Names(KeepRecent(s, p), p)
         /\ \A q : Names(s, q) => Names(KeepRecent(s, p), q)
         /\ Len(s) > 0 => KeepRecent(s, p)[1] = s[1]
         /\ Names(s, p) => KeepRecent(s, p) = s
<1> DEFINE u == KeepRecent(s, p)
<1>1. DOMAIN s = 1..Len(s) /\ Len(s) \in Nat
  BY LenProperties
<1>2. CASE Names(s, p)
  <2>1. u = s
    BY <1>1, <1>2 DEF KeepRecent, Names, Contains
  <2>2. QED
    BY <1>2, <2>1
<1>3. CASE ~Names(s, p)
  <2>1. u = Append(s, p)
    BY <1>1, <1>3 DEF KeepRecent, Names, Contains
  <2> HIDE DEF u
  <2>2. /\ DOMAIN u = 1..(Len(s) + 1)
        /\ \A i \in 1..Len(s) : u[i] = s[i]
        /\ u[Len(s) + 1] = p
    BY <1>1, <2>1, AppendProperties
  <2>3. Once(u)
    BY <1>1, <1>3, <2>2 DEF Once, Names
  <2>4. Names(u, p) /\ \A q : Names(s, q) => Names(u, q)
    BY <1>1, <2>2 DEF Names
  <2>5. Len(s) > 0 => u[1] = s[1]
    BY <1>1, <2>2
  <2>6. QED
    BY <1>3, <2>3, <2>4, <2>5 DEF u
<1>4. QED
  BY <1>2, <1>3
(* What the actions make of the order: a step that promotes or keeps a     *)
(* project, and one that leaves the order alone.                           *)
LEMMA OrderGrows ==
  ASSUME ServiceTypeOK, RecentOrdered, NEW p \in Projects,
         recent' = PromoteRecent(recent, p) \/ recent' = KeepRecent(recent, p),
         \A q \in Projects : q # p /\ Known(q)' => Known(q)
  PROVE  RecentOrdered' /\ Names(recent', p)
<1>1. recent \in Seq(Projects) /\ Once(recent)
  BY DEF ServiceTypeOK, RecentOrdered
<1>2. /\ Once(recent') /\ Names(recent', p)
      /\ \A q : Names(recent, q) => Names(recent', q)
  BY <1>1, PromoteKeeps, KeepRecentKeeps
<1>3. \A q \in Projects : Known(q)' => Names(recent', q)
  BY <1>2 DEF RecentOrdered, KnownProjects
<1>4. QED
  BY <1>2, <1>3 DEF RecentOrdered, KnownProjects, Once, Names

LEMMA OrderStays ==
  ASSUME RecentOrdered, recent' = recent,
         \A q \in Projects : Known(q)' => Known(q)
  PROVE  RecentOrdered'
BY DEF RecentOrdered, KnownProjects, Once, Names

LEMMA OrderShrinks ==
  ASSUME ServiceTypeOK, RecentOrdered, NEW p \in Projects,
         projects' = [projects EXCEPT ![p] = Absent],
         recent' = RemoveId(recent, p)
  PROVE  RecentOrdered'
<1>1. recent \in Seq(Projects) /\ Once(recent)
  BY DEF ServiceTypeOK, RecentOrdered
<1>2. /\ Once(recent')
      /\ \A q : q # p /\ Names(recent, q) => Names(recent', q)
  BY <1>1, RemoveIdKeeps
<1>3. \A q \in Projects : Known(q)' => q # p /\ Known(q)
  BY DEF Known, ServiceTypeOK
<1>4. QED
  BY <1>2, <1>3 DEF RecentOrdered, KnownProjects, Once, Names

(* Storing the current record again, or no record, adds none.              *)
LEMMA CurrentWritten ==
  ASSUME IInv, current # None, NEW rec \in ProjectRecord,
         projects' = [projects EXCEPT ![current] = rec]
  PROVE  /\ \A q \in Projects : Known(q)' <=> Known(q)
         /\ \A q \in Projects : q # current => projects'[q] = projects[q]
         /\ projects'[current] = rec
<1>1. current \in Projects /\ Known(current) /\ ServiceTypeOK
  BY DEF IInv, ServiceTypeOK, Optional, CurrentIsKnown
<1>2. QED
  BY <1>1, WriteRecord DEF Known

LEMMA OpenOrdered ==
  ASSUME IInv, RecentOrdered, NEW r \in Requests, OpenStep(r)
  PROVE  RecentOrdered'
<1> DEFINE p == calls[r].id
<1> USE DEF IInv
<1>1. calls[r] \in CallState /\ p \in Optional(Projects)
  BY CallFacts DEF ServiceTypeOK
<1>2. CASE EnsureLaunchProject(r)
  <2>1. CASE p = None
    BY <1>2, <2>1, OrderStays DEF EnsureLaunchProject, registryVars, Known
  <2>2. CASE p # None
    <3>1. p \in Projects
      BY <1>1, <2>2 DEF Optional
    <3>2. /\ recent' = PromoteRecent(recent, p)
          /\ \A q \in Projects : q # p => projects'[q] = projects[q]
      BY <1>2, <2>2, <3>1 DEF EnsureLaunchProject, ServiceTypeOK
    <3>3. QED
      BY <3>1, <3>2, OrderGrows DEF Known
  <2>3. QED
    BY <2>1, <2>2
<1>3. CASE \E q \in Projects, force \in Forces :
             OpenById(r, q, force) \/ OpenByRoot(r, q, force)
  BY <1>3, OrderStays DEF OpenById, OpenByRoot, registryVars, Known
<1>4. CASE Subscribe(r)
  BY <1>4, OrderStays DEF Subscribe, registryVars, Known
<1>5. CASE ResolveRoot(r) \/ SwitchProject(r) \/ EnsureWorkspace(r) \/ Bind(r)
  <2>1. p \in Projects
    BY <1>5 DEF CallsOK, ResolveRoot, SwitchProject, EnsureWorkspace, Bind
  <2>2. \A q \in Projects : q # p => projects'[q] = projects[q]
    BY <1>5, <2>1
       DEF ServiceTypeOK, ResolveRoot, SwitchProject, EnsureWorkspace, Bind, Upsert,
           registryVars
  <2>3. \/ recent' = PromoteRecent(recent, p)
        \/ recent' = KeepRecent(recent, p)
        \/ recent' = recent /\ projects' = projects
    BY <1>5 DEF ResolveRoot, SwitchProject, EnsureWorkspace, Bind, Upsert,
                registryVars
  <2> HIDE DEF p
  <2>4. QED
    BY <2>1, <2>2, <2>3, OrderGrows, OrderStays DEF Known
<1>6. QED
  BY <1>2, <1>3, <1>4, <1>5 DEF OpenStep

LEMMA RequestOrdered ==
  ASSUME IInv, RecentOrdered, NEW r \in Requests, RequestStep(r)
  PROVE  RecentOrdered'
<1> USE DEF IInv
<1>1. ASSUME NEW p \in Projects, Create(r, p) PROVE RecentOrdered'
  <2>1. \A q \in Projects : q # p => projects'[q] = projects[q]
    BY <1>1 DEF Create, Upsert, ServiceTypeOK
  <2>2. recent' = KeepRecent(recent, p)
    BY <1>1 DEF Create, Upsert
  <2>3. QED
    BY <2>1, <2>2, OrderGrows DEF Known
<1>2. ASSUME NEW force \in Forces, Close(r, force) PROVE RecentOrdered'
  BY <1>2, OrderStays DEF Close, Known
<1>3. ASSUME NEW p \in Projects, Forget(r, p) PROVE RecentOrdered'
  BY <1>3, OrderShrinks DEF Forget
<1>4. ASSUME NEW allowed \in BOOLEAN, SetCapability(r, allowed)
      PROVE  RecentOrdered'
  <2>1. [projects[current] EXCEPT !.network = allowed] \in ProjectRecord
        /\ current # None
    BY <1>4, CurrentRecord, RecordFacts DEF SetCapability
  <2>2. \A q \in Projects : Known(q)' <=> Known(q)
    BY <1>4, <2>1, CurrentWritten DEF SetCapability
  <2>3. QED
    BY <1>4, <2>2, OrderStays DEF SetCapability
<1>5. ASSUME NEW tab \in Tabs, SetUiState(r, tab) PROVE RecentOrdered'
  <2>1. [projects[current] EXCEPT !.uiState = tab] \in ProjectRecord
        /\ current # None
    BY <1>5, CurrentRecord, RecordFacts DEF SetUiState
  <2>2. \A q \in Projects : Known(q)' <=> Known(q)
    BY <1>5, <2>1, CurrentWritten DEF SetUiState
  <2>3. QED
    BY <1>5, <2>2, OrderStays DEF SetUiState
<1>6. QED
  BY <1>1, <1>2, <1>3, <1>4, <1>5 DEF RequestStep

(* What the steps of operations, sessions and events may do: store one     *)
(* field of the current record, and leave the calls and the order alone.   *)
BesideCalls ==
  /\ UNCHANGED <<current, recent, calls, cache, decision, crossings>>
  /\ \A p \in Projects :
       /\ Known(p)' <=> Known(p)
       /\ Known(p) => projects'[p].network = projects[p].network

LEMMA StoredBesideCalls ==
  ASSUME IInv, current # None, NEW rec \in ProjectRecord,
         projects' = [projects EXCEPT ![current] = rec],
         rec.network = projects[current].network,
         UNCHANGED <<current, recent, calls, cache, decision, crossings>>
  PROVE  BesideCalls
BY CurrentWritten DEF BesideCalls

LEMMA SilentBesideCalls ==
  ASSUME UNCHANGED <<current, recent, calls, cache, decision, crossings,
                     projects>>
  PROVE  BesideCalls
BY DEF BesideCalls, Known

LEMMA UiBesideCalls ==
  ASSUME IInv, NEW r \in Requests, NEW tab \in Tabs, SetUiState(r, tab)
  PROVE  /\ BesideCalls
         /\ projects'[current].sessions = projects[current].sessions
<1> DEFINE rec == [projects[current] EXCEPT !.uiState = tab]
<1>1. /\ current # None /\ projects[current] \in ProjectRecord
      /\ rec \in ProjectRecord /\ rec.network = projects[current].network
  BY CurrentRecord, RecordFacts DEF SetUiState
<1>2. /\ projects' = [projects EXCEPT ![current] = rec]
      /\ UNCHANGED <<current, recent, calls, cache, decision, crossings>>
  BY DEF SetUiState, historyVars
<1>3. rec.sessions = projects[current].sessions
  BY <1>1 DEF ProjectRecord
<1> HIDE DEF rec
<1>4. BesideCalls
  BY <1>1, <1>2, StoredBesideCalls
<1>5. QED
  BY <1>1, <1>2, <1>3, <1>4, CurrentWritten

LEMMA SyncBesideCalls ==
  ASSUME IInv, NEW o \in Operations, RecordGitSync(o)
  PROVE  /\ BesideCalls
         /\ current # None =>
              projects'[current].sessions = projects[current].sessions
<1> DEFINE rec == [projects[current] EXCEPT !.synced = TRUE]
<1>1. UNCHANGED <<current, recent, calls, cache, decision, crossings>>
  BY DEF RecordGitSync, historyVars
<1>2. CASE current = None
  BY <1>1, <1>2, SilentBesideCalls DEF RecordGitSync
<1>3. CASE current # None
  <2>1. /\ projects[current] \in ProjectRecord
        /\ rec \in ProjectRecord /\ rec.network = projects[current].network
    BY <1>3, CurrentRecord, RecordFacts
  <2>2. projects' = [projects EXCEPT ![current] = rec]
    BY <1>3 DEF RecordGitSync
  <2>3. rec.sessions = projects[current].sessions
    BY <2>1 DEF ProjectRecord
  <2> HIDE DEF rec
  <2>4. BesideCalls
    BY <1>1, <1>3, <2>1, <2>2, StoredBesideCalls
  <2>5. QED
    BY <1>3, <2>1, <2>2, <2>3, <2>4, CurrentWritten
<1>4. QED
  BY <1>2, <1>3

LEMMA DetachBesideCalls ==
  ASSUME IInv, NEW s \in Sessions, DetachSession(s)
  PROVE  /\ BesideCalls
         /\ projects'[current].sessions = projects[current].sessions \ {s}
<1> DEFINE kept == projects[current].sessions \ {s}
           rec == [projects[current] EXCEPT !.sessions = kept]
<1>1. /\ current # None /\ projects[current] \in ProjectRecord
      /\ kept \in SUBSET Sessions
  BY CurrentRecord, RecordFacts DEF DetachSession
<1>2. /\ projects' = [projects EXCEPT ![current] = rec]
      /\ UNCHANGED <<current, recent, calls, cache, decision, crossings>>
  BY DEF DetachSession
<1> HIDE DEF kept
<1>3. /\ rec \in ProjectRecord /\ rec.network = projects[current].network
      /\ rec.sessions = kept
  BY <1>1, RecordFacts DEF ProjectRecord
<1> HIDE DEF rec
<1>4. BesideCalls
  BY <1>1, <1>2, <1>3, StoredBesideCalls
<1>5. QED
  BY <1>1, <1>2, <1>3, <1>4, CurrentWritten DEF kept

LEMMA EventBesideCalls ==
  ASSUME IInv, NEW e \in events, HandleEvent(e)
  PROVE  /\ BesideCalls
         /\ current # None =>
              projects'[current].sessions =
                IF e.kind = "attach"
                  THEN projects[current].sessions \cup {e.session}
                  ELSE projects[current].sessions
<1>1. /\ e.session \in Sessions /\ e.kind \in {"attach", "handoff"}
      /\ UNCHANGED <<current, recent, calls, cache, decision, crossings>>
  BY DEF HandleEvent, IInv, ServiceTypeOK, EventHandler
<1>2. CASE current = None
  BY <1>1, <1>2, SilentBesideCalls DEF HandleEvent
<1>3. CASE current # None /\ e.kind = "attach"
  <2> DEFINE all == projects[current].sessions \cup {e.session}
             rec == [projects[current] EXCEPT !.sessions = all]
  <2>1. projects[current] \in ProjectRecord /\ all \in SUBSET Sessions
    BY <1>1, <1>3, CurrentRecord, RecordFacts
  <2>2. projects' = [projects EXCEPT ![current] = rec]
    BY <1>3 DEF HandleEvent
  <2> HIDE DEF all
  <2>3. /\ rec \in ProjectRecord /\ rec.network = projects[current].network
        /\ rec.sessions = all
    BY <2>1, RecordFacts DEF ProjectRecord
  <2> HIDE DEF rec
  <2>4. BesideCalls
    BY <1>1, <1>3, <2>2, <2>3, StoredBesideCalls
  <2>5. QED
    BY <1>3, <2>2, <2>3, <2>4, CurrentWritten DEF all
<1>4. CASE current # None /\ e.kind = "handoff"
  <2> DEFINE rec == [projects[current] EXCEPT !.handoff = e.session]
  <2>1. projects[current] \in ProjectRecord
    BY <1>4, CurrentRecord
  <2>2. projects' = [projects EXCEPT ![current] = rec]
    BY <1>4 DEF HandleEvent
  <2>3. /\ rec \in ProjectRecord /\ rec.network = projects[current].network
        /\ rec.sessions = projects[current].sessions
    BY <1>1, <2>1, RecordFacts DEF ProjectRecord
  <2> HIDE DEF rec
  <2>4. BesideCalls
    BY <1>1, <1>4, <2>2, <2>3, StoredBesideCalls
  <2>5. QED
    BY <1>4, <2>2, <2>3, <2>4, CurrentWritten
<1>5. QED
  BY <1>1, <1>2, <1>3, <1>4

LEMMA OthersBesideCalls ==
  ASSUME IInv,
         \/ \E o \in Operations : OperationStep(o)
         \/ \E s \in Sessions : SessionStep(s)
         \/ \E e \in events : HandleEvent(e)
  PROVE  BesideCalls
<1>1. ASSUME NEW o \in Operations, OperationStep(o) PROVE BesideCalls
  <2>1. CASE RecordGitSync(o)
    BY <2>1, SyncBesideCalls
  <2>2. CASE ~RecordGitSync(o)
    BY <1>1, <2>2, SilentBesideCalls
       DEF OperationStep, BeginOperation, BeginGit, EndOperation,
           registryVars, historyVars
  <2>3. QED
    BY <2>1, <2>2
<1>2. ASSUME NEW s \in Sessions, SessionStep(s) PROVE BesideCalls
  <2>1. CASE DetachSession(s)
    BY <2>1, DetachBesideCalls
  <2>2. CASE ~DetachSession(s)
    BY <1>2, <2>2, SilentBesideCalls
       DEF SessionStep, SessionCreated, CompactionEnded, registryVars,
           historyVars
  <2>3. QED
    BY <2>1, <2>2
<1>3. QED
  BY <1>1, <1>2, EventBesideCalls

LEMMA InitOrdered == Init => RecentOrdered
<1> SUFFICES ASSUME Init PROVE RecentOrdered
  OBVIOUS
<1> DEFINE n == Cardinality(KnownProjects)
<1>1. /\ recent \in [1..n -> KnownProjects]
      /\ \A i, j \in 1..n : recent[i] = recent[j] => i = j
      /\ \A p \in KnownProjects : \E i \in 1..n : recent[i] = p
  <2>1. /\ recent \in [1..n -> KnownProjects]
        /\ \A i, j \in 1..n : i # j => recent[i] # recent[j]
    BY DEF Init, SetToSeqs
  <2>2. IsFiniteSet(KnownProjects) /\ n \in Nat
    BY ConstantsAssumption, FS_Subset, FS_CardinalityType DEF KnownProjects
  <2>3. recent \in Injection(1..n, KnownProjects)
    BY <2>1 DEF Injection, IsInjective
  <2>4. Cardinality(1..n) = n
    BY <2>2, FS_Interval
  <2>5. recent \in Surjection(1..n, KnownProjects)
    BY <2>2, <2>3, <2>4, FS_Injection
  <2>6. QED
    BY <2>1, <2>5 DEF Surjection
<1>2. DOMAIN recent = 1..n
  BY <1>1
<1> HIDE DEF n
<1>3. QED
  BY <1>1, <1>2 DEF RecentOrdered, Once, Names

LEMMA NextOrdered == IInv /\ RecentOrdered /\ [Next]_vars => RecentOrdered'
<1> SUFFICES ASSUME IInv, RecentOrdered, [Next]_vars PROVE RecentOrdered'
  OBVIOUS
<1>1. ASSUME NEW r \in Requests, OpenStep(r) \/ RequestStep(r)
      PROVE  RecentOrdered'
  BY <1>1, OpenOrdered, RequestOrdered
<1>2. CASE BesideCalls
  BY <1>2, OrderStays DEF BesideCalls
<1>3. CASE UNCHANGED vars
  BY <1>3, OrderStays DEF vars, registryVars, Known
<1>4. QED
  BY <1>1, <1>2, <1>3, OthersBesideCalls DEF Next
-----------------------------------------------------------------------------
(* What the crossings leave out.  Each of the four invariants below is     *)
(* inductive beside IInv, for any number of clients.                       *)

LEMMA CallAt ==
  ASSUME ServiceTypeOK, NEW r \in Requests, NEW c,
         calls' = [calls EXCEPT ![r] = c]
  PROVE  /\ calls'[r] = c
         /\ \A q \in Requests : q # r => calls'[q] = calls[q]
BY DEF ServiceTypeOK

Carrying == {"resolved", "workspace", "binding"}

LEMMA CarriedFacts ==
  ASSUME IInv, NEW r \in Requests
  PROVE  /\ calls[r] \in CallState
         /\ calls[r].pc \in Carrying =>
              /\ calls[r].id \in Projects /\ calls[r].id # None
              /\ calls[r].rec \in ProjectRecord
BY ConstantsAssumption DEF IInv, ServiceTypeOK, CallsOK, Carrying

LEMMA CrossingsTyped == IInv /\ TypeOK /\ [Next]_vars => TypeOK'
<1> SUFFICES ASSUME IInv, TypeOK, [Next]_vars PROVE CrossingsTypeOK'
  BY NextIInv DEF IInv, TypeOK
<1> USE DEF TypeOK, CrossingsTypeOK
<1>1. ASSUME NEW r \in Requests, NEW p \in Projects, NEW d, Decide(r, p, d)
      PROVE  stale' \in SUBSET Projects
  BY <1>1 DEF Decide
<1>2. ASSUME NEW r \in Requests, NEW p, MoveCurrent(r, p)
      PROVE  crossed' \in BOOLEAN
  BY <1>2 DEF MoveCurrent
<1>3. ASSUME NEW r \in Requests, OpenStep(r) PROVE CrossingsTypeOK'
  <2>1. calls[r].id \in Optional(Projects)
    BY CarriedFacts, CallFacts
  <2>2. CASE EnsureLaunchProject(r)
    BY <2>1, <2>2, <1>1, <1>2 DEF EnsureLaunchProject, crossings, Optional
  <2>3. CASE ResolveRoot(r)
    <3>1. calls[r].id \in Projects
      BY <2>3 DEF IInv, CallsOK, ResolveRoot
    <3>2. QED
      BY <2>3, <3>1, <1>1 DEF ResolveRoot
  <2>4. CASE SwitchProject(r)
    <3>1. strayed' \in BOOLEAN
      BY <2>4 DEF SwitchProject
    <3>2. QED
      BY <2>4, <3>1, <1>2 DEF SwitchProject
  <2>5. CASE ~EnsureLaunchProject(r) /\ ~ResolveRoot(r) /\ ~SwitchProject(r)
    BY <1>3, <2>5 DEF OpenStep, OpenById, OpenByRoot, EnsureWorkspace, Bind,
                      Subscribe, historyVars, crossings
  <2>6. QED
    BY <2>2, <2>3, <2>4, <2>5
<1>4. ASSUME NEW r \in Requests, RequestStep(r) PROVE CrossingsTypeOK'
  <2>1. current # None => current \in Projects
    BY CurrentRecord
  <2>2. CASE \E allowed \in BOOLEAN : SetCapability(r, allowed)
    BY <2>1, <2>2, <1>1 DEF SetCapability
  <2>3. CASE \E p \in Projects : Create(r, p)
    BY <2>3, <1>1 DEF Create
  <2>4. CASE \/ \E force \in Forces : Close(r, force)
             \/ \E p \in Projects : Forget(r, p)
    BY <2>4, <1>2 DEF Close, Forget
  <2>5. CASE \E tab \in Tabs : SetUiState(r, tab)
    BY <2>5 DEF SetUiState, historyVars, crossings
  <2>6. QED
    BY <1>4, <2>2, <2>3, <2>4, <2>5 DEF RequestStep
<1>5. CASE BesideCalls
  BY <1>5 DEF BesideCalls, crossings
<1>6. CASE UNCHANGED vars
  BY <1>6 DEF vars, historyVars, crossings
<1>7. QED
  BY <1>3, <1>4, <1>5, <1>6, OthersBesideCalls DEF Next

-----------------------------------------------------------------------------
(* The grant: a record some call carries grants what its user last         *)
(* decided, unless that decision was taken past it.                        *)

CarriedGrants ==
  \A r \in Requests :
    calls[r].pc \in Carrying /\ calls[r].id \notin stale =>
      calls[r].rec.network = decision[calls[r].id].last

GrantInv == GrantFollowsDecision /\ CarriedGrants

(* Storing a record the decision agrees with.                              *)
LEMMA GrantStored ==
  ASSUME IInv, GrantInv, NEW p \in Projects, NEW rec \in ProjectRecord,
         projects' = [projects EXCEPT ![p] = rec],
         p \notin stale => rec.network = decision[p].last,
         UNCHANGED <<decision, stale>>
  PROVE  GrantFollowsDecision'
<1>1. /\ projects'[p] = rec
      /\ \A q \in Projects : q # p => projects'[q] = projects[q]
  BY WriteRecord DEF IInv
<1>2. QED
  BY <1>1 DEF GrantInv, GrantFollowsDecision, KnownProjects, Known

LEMMA GrantCarried ==
  ASSUME IInv, GrantInv, NEW r \in Requests, NEW c,
         calls' = [calls EXCEPT ![r] = c],
         c.pc \in Carrying /\ c.id \notin stale =>
           c.rec.network = decision[c.id].last,
         UNCHANGED <<decision, stale>>
  PROVE  CarriedGrants'
<1>1. calls'[r] = c /\ \A q \in Requests : q # r => calls'[q] = calls[q]
  BY CallAt DEF IInv
<1>2. QED
  BY <1>1 DEF GrantInv, CarriedGrants

LEMMA GrantFrame ==
  ASSUME GrantInv, UNCHANGED <<projects, decision, stale>>
  PROVE  GrantFollowsDecision'
BY DEF GrantInv, GrantFollowsDecision, KnownProjects, Known

(* A decision, and the record it is stored in: whoever else carried the    *)
(* project makes it stale.                                                 *)
LEMMA GrantDecided ==
  ASSUME IInv, GrantInv, NEW r \in Requests, NEW p \in Projects,
         NEW rec \in ProjectRecord, NEW d,
         projects' = [projects EXCEPT ![p] = rec], Decide(r, p, d),
         rec.network = d.last,
         \A q \in Requests : q # r => calls'[q] = calls[q],
         calls'[r].pc \in Carrying =>
           calls'[r].id = p /\ calls'[r].rec.network = d.last
  PROVE  GrantInv'
<1>1. /\ projects'[p] = rec
      /\ \A q \in Projects : q # p => projects'[q] = projects[q]
  BY WriteRecord DEF IInv
<1>2. /\ decision'[p] = d
      /\ \A q \in Projects : q # p => decision'[q] = decision[q]
  BY DEF Decide, IInv, ServiceTypeOK
<1>3. \A q \in Projects : q # p /\ q \notin stale' => q \notin stale
  BY DEF Decide
<1>4. GrantFollowsDecision'
  BY <1>1, <1>2, <1>3 DEF GrantInv, GrantFollowsDecision, KnownProjects, Known
<1>5. ASSUME NEW q \in Requests, calls'[q].pc \in Carrying,
             calls'[q].id \notin stale'
      PROVE  calls'[q].rec.network = decision'[calls'[q].id].last
  <2>1. CASE q = r
    BY <1>2, <1>5, <2>1
  <2>2. CASE q # r
    <3>1. calls'[q] = calls[q] /\ calls[q].id \in Projects
      BY <1>5, <2>2, CarriedFacts
    <3>2. calls[q].id # p
      BY <1>5, <2>2, <3>1 DEF Decide, Carries, Carrying
    <3>3. QED
      BY <1>2, <1>3, <1>5, <3>1, <3>2 DEF GrantInv, CarriedGrants
  <2>3. QED
    BY <2>1, <2>2
<1>6. QED
  BY <1>4, <1>5 DEF GrantInv, CarriedGrants


LEMMA OpenGrants ==
  ASSUME IInv, GrantInv, NEW r \in Requests, OpenStep(r)
  PROVE  GrantInv'
<1> DEFINE p == calls[r].id
<1>1. calls[r] \in CallState /\ p \in Optional(Projects) /\ ServiceTypeOK
  BY CarriedFacts, CallFacts DEF IInv
<1>2. \A q \in Projects : [decision[q] EXCEPT !.last = FALSE].last = FALSE
  BY <1>1 DEF ServiceTypeOK, Decision
<1>3. IdleCall.pc \notin Carrying
      /\ [IdleCall EXCEPT !.pc = "subscribing"].pc \notin Carrying
  BY DEF IdleCall, Carrying
<1>4. CASE EnsureLaunchProject(r)
  <2>1. CASE p = None
    <3>1. /\ UNCHANGED <<projects, decision, stale>>
          /\ calls' = [calls EXCEPT ![r] = IdleCall]
      BY <1>4, <2>1 DEF EnsureLaunchProject, registryVars, crossings
    <3>2. QED
      BY <1>3, <3>1, GrantCarried, GrantFrame DEF GrantInv
  <2>2. CASE p # None
    <3> DEFINE rec == IF Known(p) THEN projects[p] ELSE NewProject
               c == [calls[r] EXCEPT !.pc = "workspace", !.rec = rec]
    <3>1. p \in Projects
      BY <1>1, <2>2 DEF Optional
    <3>2. /\ projects' = [projects EXCEPT ![p] = rec]
          /\ calls' = [calls EXCEPT ![r] = c]
          /\ IF Known(p)
               THEN UNCHANGED <<decision, stale>>
               ELSE Decide(r, p, [decision[p] EXCEPT !.last = FALSE])
      BY <1>4, <2>2 DEF EnsureLaunchProject
    <3>3. rec \in ProjectRecord
      BY <3>1, <1>1, KnownRecord, NewProjectFacts
    <3>4. /\ Known(p) /\ p \notin stale => rec.network = decision[p].last
          /\ ~Known(p) => rec.network = FALSE
      BY <3>1, NewProjectFacts
         DEF GrantInv, GrantFollowsDecision, KnownProjects
    <3> HIDE DEF rec
    <3>5. c.id = p /\ c.rec = rec /\ c.pc = "workspace"
      BY <1>1, <3>3 DEF CallState
    <3> HIDE DEF c, p
    <3>6. calls'[r] = c /\ \A q \in Requests : q # r => calls'[q] = calls[q]
      BY <1>1, <3>2, CallAt
    <3>7. CASE Known(p)
      BY <3>1, <3>2, <3>3, <3>4, <3>5, <3>7, GrantStored, GrantCarried
         DEF GrantInv
    <3>8. CASE ~Known(p)
      BY <1>2, <3>1, <3>2, <3>3, <3>4, <3>5, <3>6, <3>8, GrantDecided
    <3>9. QED
      BY <3>7, <3>8
  <2>3. QED
    BY <2>1, <2>2
<1>5. ASSUME NEW q \in Projects, NEW force \in Forces, OpenById(r, q, force)
      PROVE  GrantInv'
  <2> DEFINE c == [pc |-> "resolved", id |-> q, rec |-> projects[q]]
  <2>1. /\ calls' = [calls EXCEPT ![r] = c]
        /\ Known(q)
        /\ UNCHANGED <<projects, decision, stale>>
    BY <1>5 DEF OpenById, registryVars, historyVars, crossings
  <2>2. q \notin stale => c.rec.network = decision[q].last
    BY <2>1 DEF GrantInv, GrantFollowsDecision, KnownProjects
  <2>3. c.id = q
    OBVIOUS
  <2> HIDE DEF c
  <2>4. QED
    BY <2>1, <2>2, <2>3, GrantCarried, GrantFrame DEF GrantInv
<1>6. ASSUME NEW q \in Projects, NEW force \in Forces, OpenByRoot(r, q, force)
      PROVE  GrantInv'
  <2> DEFINE c == [pc |-> "canonical", id |-> q, rec |-> Absent]
  <2>1. /\ calls' = [calls EXCEPT ![r] = c]
        /\ UNCHANGED <<projects, decision, stale>>
    BY <1>6 DEF OpenByRoot, registryVars, historyVars, crossings
  <2>2. c.pc \notin Carrying
    BY DEF Carrying
  <2> HIDE DEF c
  <2>3. QED
    BY <2>1, <2>2, GrantCarried, GrantFrame DEF GrantInv
<1>7. CASE ResolveRoot(r)
  <2>1. p \in Projects
    BY <1>7 DEF IInv, CallsOK, ResolveRoot
  <2>2. CASE /\ calls' = [calls EXCEPT ![r] = IdleCall]
             /\ UNCHANGED <<projects, decision, stale>>
    BY <1>3, <2>2, GrantCarried, GrantFrame DEF GrantInv
  <2>3. CASE /\ Known(p)
             /\ calls' = [calls EXCEPT ![r].pc = "resolved",
                                       ![r].rec = projects[p]]
             /\ UNCHANGED <<projects, decision, stale>>
    <3> DEFINE c == [calls[r] EXCEPT !.pc = "resolved", !.rec = projects[p]]
    <3>1. calls' = [calls EXCEPT ![r] = c]
      BY <2>3
    <3>2. c.id = p /\ c.rec = projects[p]
      BY <1>1 DEF CallState
    <3>3. p \notin stale => projects[p].network = decision[p].last
      BY <2>1, <2>3 DEF GrantInv, GrantFollowsDecision, KnownProjects
    <3> HIDE DEF c, p
    <3>4. QED
      BY <2>3, <3>1, <3>2, <3>3, GrantCarried, GrantFrame DEF GrantInv
  <2>4. CASE /\ projects' = [projects EXCEPT ![p] = NewProject]
             /\ Decide(r, p, [decision[p] EXCEPT !.last = FALSE])
             /\ calls' = [calls EXCEPT ![r].pc = "resolved",
                                       ![r].rec = NewProject]
    <3> DEFINE c == [calls[r] EXCEPT !.pc = "resolved", !.rec = NewProject]
    <3>1. calls' = [calls EXCEPT ![r] = c]
      BY <2>4
    <3>2. c.id = p /\ c.rec = NewProject
      BY <1>1 DEF CallState
    <3> HIDE DEF c, p
    <3>3. calls'[r] = c /\ \A q \in Requests : q # r => calls'[q] = calls[q]
      BY <1>1, <3>1, CallAt
    <3>4. QED
      BY <1>2, <2>1, <2>4, <3>2, <3>3, NewProjectFacts, GrantDecided
  <2>5. QED
    BY <1>7, <2>2, <2>3, <2>4 DEF ResolveRoot, Upsert, registryVars
<1>8. CASE SwitchProject(r)
  <2>1. /\ p \in Projects /\ calls[r].rec \in ProjectRecord
        /\ p \notin stale => calls[r].rec.network = decision[p].last
    BY <1>8, CarriedFacts DEF SwitchProject, Carrying, GrantInv, CarriedGrants
  <2>2. UNCHANGED <<decision, stale>>
    BY <1>8 DEF SwitchProject
  <2>3. CASE Known(p)
    <3> DEFINE c == [calls[r] EXCEPT !.pc = "workspace"]
    <3>1. /\ projects' = [projects EXCEPT ![p] = calls[r].rec]
          /\ calls' = [calls EXCEPT ![r] = c]
      BY <1>8, <2>3 DEF SwitchProject
    <3>2. c.id = p /\ c.rec = calls[r].rec
      BY <1>1, CallFacts
    <3> HIDE DEF c, p
    <3>3. QED
      BY <2>1, <2>2, <3>1, <3>2, GrantStored, GrantCarried DEF GrantInv
  <2>4. CASE ~Known(p)
    <3>1. /\ calls' = [calls EXCEPT ![r] = IdleCall]
          /\ projects' = projects
      BY <1>8, <2>4 DEF SwitchProject
    <3>2. QED
      BY <1>3, <2>2, <3>1, GrantCarried, GrantFrame DEF GrantInv
  <2>5. QED
    BY <2>3, <2>4
<1>9. CASE EnsureWorkspace(r)
  <2> DEFINE updated == [calls[r].rec EXCEPT !.workspace = TRUE]
  <2>1. /\ p \in Projects /\ calls[r].rec \in ProjectRecord
        /\ p \notin stale => calls[r].rec.network = decision[p].last
    BY <1>9, CarriedFacts
       DEF EnsureWorkspace, Carrying, GrantInv, CarriedGrants
  <2>2. UNCHANGED <<decision, stale>>
    BY <1>9 DEF EnsureWorkspace, historyVars, crossings
  <2>3. updated \in ProjectRecord /\ updated.network = calls[r].rec.network
    BY <2>1, RecordFacts
  <2>4. CASE /\ projects' = [projects EXCEPT ![p] = updated]
             /\ calls' = [calls EXCEPT ![r].pc = "binding", ![r].rec = updated]
    <3> DEFINE c == [calls[r] EXCEPT !.pc = "binding", !.rec = updated]
    <3>1. calls' = [calls EXCEPT ![r] = c]
      BY <2>4
    <3> HIDE DEF updated
    <3>2. c.id = p /\ c.rec = updated
      BY <1>1 DEF CallState
    <3> HIDE DEF c, p
    <3>3. QED
      BY <2>1, <2>2, <2>3, <2>4, <3>1, <3>2, GrantStored, GrantCarried
         DEF GrantInv
  <2>5. CASE /\ projects' = projects
             /\ calls' = [calls EXCEPT ![r].pc = "binding"]
    <3> DEFINE c == [calls[r] EXCEPT !.pc = "binding"]
    <3>1. calls' = [calls EXCEPT ![r] = c]
      BY <2>5
    <3>2. c.id = p /\ c.rec = calls[r].rec
      BY <1>1, CallFacts
    <3> HIDE DEF c, p
    <3>3. QED
      BY <2>1, <2>2, <2>5, <3>1, <3>2, GrantCarried, GrantFrame DEF GrantInv
  <2>6. QED
    BY <1>9, <2>4, <2>5 DEF EnsureWorkspace, Upsert
<1>10. CASE Bind(r)
  <2> DEFINE rec == IF Known(p) THEN projects[p] ELSE calls[r].rec
             adopted == {s \in live : Cwd[s] = p} \ rec.sessions
             all == rec.sessions \cup adopted
             updated == [rec EXCEPT !.sessions = all]
             c == IF r = BootCall /\ ~subscribed
                    THEN [IdleCall EXCEPT !.pc = "subscribing"] ELSE IdleCall
  <2>1. p \in Projects /\ calls[r].rec \in ProjectRecord
    BY <1>10, CarriedFacts DEF Bind, Carrying
  <2>2. rec \in ProjectRecord
    BY <1>1, <2>1, KnownRecord
  <2>3. p \notin stale => rec.network = decision[p].last
    BY <1>10, <2>1 DEF Bind, Carrying, GrantInv, CarriedGrants,
                       GrantFollowsDecision, KnownProjects
  <2>4. /\ UNCHANGED <<decision, stale>>
        /\ calls' = [calls EXCEPT ![r] = c]
        /\ \/ projects' = projects
           \/ projects' = [projects EXCEPT ![p] = updated]
    BY <1>10 DEF Bind, Upsert, crossings
  <2>5. c.pc \notin Carrying
    BY <1>3
  <2>6. all \in SUBSET Sessions
    BY <1>1, <2>2, RecordFacts DEF ServiceTypeOK
  <2> HIDE DEF c, all, adopted, rec
  <2>7. updated \in ProjectRecord /\ updated.network = rec.network
    BY <2>2, <2>6, RecordFacts
  <2> HIDE DEF updated, p
  <2>8. QED
    BY <2>1, <2>3, <2>4, <2>5, <2>7, GrantStored, GrantFrame, GrantCarried
       DEF GrantInv
<1>11. CASE Subscribe(r)
  <2>1. /\ calls' = [calls EXCEPT ![r] = IdleCall]
        /\ UNCHANGED <<projects, decision, stale>>
    BY <1>11 DEF Subscribe, registryVars, historyVars, crossings
  <2>2. QED
    BY <1>3, <2>1, GrantCarried, GrantFrame DEF GrantInv
<1>12. QED
  BY <1>4, <1>5, <1>6, <1>7, <1>8, <1>9, <1>10, <1>11 DEF OpenStep

LEMMA BesideGrants ==
  ASSUME GrantInv, BesideCalls
  PROVE  GrantInv'
BY DEF GrantInv, GrantFollowsDecision, CarriedGrants, KnownProjects,
       BesideCalls, crossings

LEMMA RequestGrants ==
  ASSUME IInv, GrantInv, NEW r \in Requests, RequestStep(r)
  PROVE  GrantInv'
<1>1. ASSUME NEW p \in Projects, Create(r, p) PROVE GrantInv'
  <2>1. /\ projects' = [projects EXCEPT ![p] = NewProject]
        /\ Decide(r, p, [decision[p] EXCEPT !.last = FALSE])
        /\ calls' = calls /\ calls[r].pc = "idle"
    BY <1>1 DEF Create, Upsert
  <2>2. [decision[p] EXCEPT !.last = FALSE].last = FALSE
    BY DEF IInv, ServiceTypeOK, Decision
  <2>3. QED
    BY <2>1, <2>2, NewProjectFacts, GrantDecided DEF Carrying
<1>2. ASSUME NEW force \in Forces, Close(r, force) PROVE GrantInv'
  BY <1>2 DEF Close, GrantInv, GrantFollowsDecision, CarriedGrants,
              KnownProjects, Known
<1>3. ASSUME NEW p \in Projects, Forget(r, p) PROVE GrantInv'
  <2>1. /\ \A q \in Projects : Known(q)' =>
             Known(q) /\ projects'[q] = projects[q]
        /\ UNCHANGED <<calls, decision, stale>>
    BY <1>3 DEF Forget, IInv, ServiceTypeOK, Known
  <2>2. QED
    BY <2>1 DEF GrantInv, GrantFollowsDecision, CarriedGrants, KnownProjects
<1>4. ASSUME NEW allowed \in BOOLEAN, SetCapability(r, allowed)
      PROVE  GrantInv'
  <2> DEFINE rec == [projects[current] EXCEPT !.network = allowed]
             d == [last |-> allowed,
                   ever |-> decision[current].ever \/ allowed]
  <2>1. current \in Projects /\ rec \in ProjectRecord /\ rec.network = allowed
    BY <1>4, CurrentRecord, RecordFacts DEF SetCapability
  <2>2. /\ projects' = [projects EXCEPT ![current] = rec]
        /\ Decide(r, current, d)
        /\ calls' = calls /\ calls[r].pc = "idle"
    BY <1>4 DEF SetCapability
  <2>3. d.last = allowed
    OBVIOUS
  <2> HIDE DEF rec, d
  <2>4. QED
    BY <2>1, <2>2, <2>3, GrantDecided DEF Carrying
<1>5. ASSUME NEW tab \in Tabs, SetUiState(r, tab) PROVE GrantInv'
  BY <1>5, UiBesideCalls, BesideGrants
<1>6. QED
  BY <1>1, <1>2, <1>3, <1>4, <1>5 DEF RequestStep

LEMMA InitGrants == Init => GrantInv
<1> SUFFICES ASSUME Init PROVE GrantInv
  OBVIOUS
<1>1. decision = [p \in Projects |->
                    [last |-> Known(p) /\ projects[p].network,
                     ever |-> Known(p) /\ projects[p].network]]
  BY DEF Init, Decided
<1>2. ASSUME NEW p \in Projects, Known(p)
      PROVE  projects[p].network = decision[p].last
  <2>1. projects[p].network \in BOOLEAN
    BY <1>2, InitIInv, KnownRecord, RecordFacts DEF IInv
  <2>2. decision[p].last = (Known(p) /\ projects[p].network)
    BY <1>1
  <2>3. QED
    BY <1>2, <2>1, <2>2
<1>3. \A r \in Requests : calls[r].pc \in {"idle", "boot"}
  BY DEF Init, IdleCall
<1>4. QED
  BY <1>2, <1>3 DEF GrantInv, GrantFollowsDecision, CarriedGrants,
                    KnownProjects, Carrying

LEMMA NextGrants == IInv /\ GrantInv /\ [Next]_vars => GrantInv'
<1> SUFFICES ASSUME IInv, GrantInv, [Next]_vars PROVE GrantInv'
  OBVIOUS
<1>1. CASE UNCHANGED vars
  BY <1>1 DEF vars, registryVars, historyVars, crossings, GrantInv,
              GrantFollowsDecision, CarriedGrants, KnownProjects, Known
<1>2. QED
  BY <1>1, OpenGrants, RequestGrants, OthersBesideCalls, BesideGrants DEF Next

-----------------------------------------------------------------------------
(* The order: the current project comes first, unless the last promotion   *)
(* was that of a project forgotten meanwhile.                              *)

CurrentHeads == ~strayed /\ current # None => recent[1] = current

LEMMA CurrentListed ==
  ASSUME IInv, RecentOrdered, current # None
  PROVE  recent \in Seq(Projects) /\ Len(recent) > 0
BY CurrentRecord
   DEF IInv, ServiceTypeOK, CurrentIsKnown, RecentOrdered, KnownProjects, Names

LEMMA HeadsStay ==
  ASSUME CurrentHeads, recent' = recent, strayed' = strayed,
         current' = current \/ current' = None
  PROVE  CurrentHeads'
BY DEF CurrentHeads

LEMMA HeadsKept ==
  ASSUME IInv, RecentOrdered, CurrentHeads, NEW p \in Projects,
         recent' = KeepRecent(recent, p), UNCHANGED <<current, strayed>>
  PROVE  CurrentHeads'
BY CurrentListed, KeepRecentKeeps DEF CurrentHeads, RecentOrdered

LEMMA NextHeads ==
  IInv /\ RecentOrdered /\ CurrentHeads /\ [Next]_vars => CurrentHeads'
<1> SUFFICES ASSUME IInv, RecentOrdered, CurrentHeads, [Next]_vars
             PROVE  CurrentHeads'
  OBVIOUS
<1>1. ASSUME NEW r \in Requests, OpenStep(r) PROVE CurrentHeads'
  <2> DEFINE p == calls[r].id
  <2>1. /\ recent \in Seq(Projects) /\ Once(recent)
        /\ p \in Optional(Projects)
        /\ calls[r].pc \in Carrying => p \in Projects
    BY CarriedFacts, CallFacts DEF IInv, ServiceTypeOK, RecentOrdered
  <2>2. p \in Projects => PromoteRecent(recent, p)[1] = p
    BY <2>1, PromoteKeeps
  <2>3. CASE EnsureLaunchProject(r)
    BY <2>1, <2>2, <2>3, HeadsStay
       DEF EnsureLaunchProject, MoveCurrent, CurrentHeads, Optional,
           registryVars, crossings
  <2>4. CASE SwitchProject(r)
    BY <2>1, <2>2, <2>4
       DEF SwitchProject, MoveCurrent, CurrentHeads, Carrying
  <2>5. CASE ResolveRoot(r) \/ EnsureWorkspace(r) \/ Bind(r)
    <3>1. p \in Projects
      BY <2>5 DEF IInv, CallsOK, ResolveRoot, EnsureWorkspace, Bind
    <3>2. /\ recent' = recent \/ recent' = KeepRecent(recent, p)
          /\ UNCHANGED <<current, strayed>>
      BY <2>5 DEF ResolveRoot, EnsureWorkspace, Bind, Upsert, registryVars,
                  historyVars, crossings
    <3>3. QED
      BY <3>1, <3>2, HeadsStay, HeadsKept
  <2>6. CASE \/ Subscribe(r)
             \/ \E q \in Projects, force \in Forces :
                  OpenById(r, q, force) \/ OpenByRoot(r, q, force)
    BY <2>6, HeadsStay DEF Subscribe, OpenById, OpenByRoot, registryVars,
                           historyVars, crossings
  <2>7. QED
    BY <1>1, <2>3, <2>4, <2>5, <2>6 DEF OpenStep
<1>2. ASSUME NEW r \in Requests, RequestStep(r) PROVE CurrentHeads'
  <2>1. ASSUME NEW p \in Projects, Create(r, p) PROVE CurrentHeads'
    BY <2>1, HeadsKept DEF Create, Upsert
  <2>2. ASSUME NEW p \in Projects, Forget(r, p) PROVE CurrentHeads'
    <3>1. recent' = RemoveId(recent, p) /\ strayed' = strayed
      BY <2>2 DEF Forget
    <3>2. CASE current' = None
      BY <3>2 DEF CurrentHeads
    <3>3. CASE current # p /\ current' = current
      BY <3>1, <3>3, CurrentListed, RemoveIdKeeps
         DEF CurrentHeads, RecentOrdered
    <3>4. QED
      BY <2>2, <3>2, <3>3 DEF Forget, MoveCurrent
  <2>3. CASE \/ \E force \in Forces : Close(r, force)
             \/ \E allowed \in BOOLEAN : SetCapability(r, allowed)
             \/ \E tab \in Tabs : SetUiState(r, tab)
    BY <2>3, HeadsStay DEF Close, SetCapability, SetUiState, MoveCurrent,
                           historyVars, crossings
  <2>4. QED
    BY <1>2, <2>1, <2>2, <2>3 DEF RequestStep
<1>3. CASE BesideCalls
  BY <1>3, HeadsStay DEF BesideCalls, crossings
<1>4. CASE UNCHANGED vars
  BY <1>4, HeadsStay DEF vars, registryVars, historyVars, crossings
<1>5. QED
  BY <1>1, <1>2, <1>3, <1>4, OthersBesideCalls DEF Next

-----------------------------------------------------------------------------
(* The context cache.  While nothing crossed, at most one call is binding, *)
(* and it binds the current project; with none, and past the boot's own    *)
(* project, the cache is bound to the current one.                         *)

Booting(r) == calls[r].pc = "boot" /\ calls[r].id # None

CacheInv ==
  ~crossed =>
    /\ \A r \in Requests : Binding(r) => calls[r].id = current
    /\ \A r, q \in Requests : Binding(r) /\ Binding(q) => r = q
    /\ (\A r \in Requests : ~Binding(r) /\ ~Booting(r)) => cache = current

(* Moves of one call that leave the current project and the cache alone.   *)
LEMMA CacheBeside ==
  ASSUME IInv, CacheInv, NEW r \in Requests, NEW c,
         calls' = [calls EXCEPT ![r] = c],
         UNCHANGED <<current, cache, crossed>>,
         c.pc \in {"workspace", "binding"} => Binding(r) /\ c.id = calls[r].id,
         Binding(r) => c.pc \in {"workspace", "binding"},
         Booting(r) => c.pc = "boot" /\ c.id # None
  PROVE  CacheInv'
<1>1. calls'[r] = c /\ \A q \in Requests : q # r => calls'[q] = calls[q]
  BY CallAt DEF IInv
<1>2. \A q \in Requests : Binding(q)' <=> Binding(q)
  BY <1>1 DEF Binding
<1>3. \A q \in Requests : Booting(q) => Booting(q)'
  BY <1>1 DEF Booting
<1>4. \A q \in Requests : Binding(q) => calls'[q].id = calls[q].id
  BY <1>1 DEF Binding
<1>5. QED
  BY <1>2, <1>3, <1>4 DEF CacheInv

(* A call that makes its project current, to bind it next.                 *)
LEMMA CacheMoves ==
  ASSUME IInv, NEW r \in Requests, NEW p, NEW c, MoveCurrent(r, p),
         calls' = [calls EXCEPT ![r] = c], c.pc = "workspace", c.id = p
  PROVE  CacheInv'
<1>1. calls'[r] = c /\ \A q \in Requests : q # r => calls'[q] = calls[q]
  BY CallAt DEF IInv
<1>2. ~crossed' => \A q \in Requests : Binding(q)' => q = r
  BY <1>1 DEF MoveCurrent, Binding
<1>3. Binding(r)' /\ calls'[r].id = current'
  BY <1>1 DEF MoveCurrent, Binding
<1>4. QED
  BY <1>2, <1>3 DEF CacheInv

(* A project closed, by a call that binds none.                            *)
LEMMA CacheCloses ==
  ASSUME NEW r \in Requests, MoveCurrent(r, None), cache' = None,
         calls' = calls, calls[r].pc = "idle"
  PROVE  CacheInv'
<1>1. ~crossed' => \A q \in Requests : ~Binding(q)'
  BY DEF MoveCurrent, Binding
<1>2. QED
  BY <1>1 DEF CacheInv, MoveCurrent

LEMMA CacheStays ==
  ASSUME CacheInv, UNCHANGED <<calls, current, cache, crossed>>
  PROVE  CacheInv'
BY DEF CacheInv, Binding, Booting

LEMMA OpenCaches ==
  ASSUME IInv, CacheInv, NEW r \in Requests, OpenStep(r)
  PROVE  CacheInv'
<1> DEFINE p == calls[r].id
           subscribing == [IdleCall EXCEPT !.pc = "subscribing"]
<1>1. calls[r] \in CallState
  BY CarriedFacts
<1>2. IdleCall.pc = "idle" /\ subscribing.pc = "subscribing"
  BY DEF IdleCall
<1> HIDE DEF subscribing
<1>3. CASE EnsureLaunchProject(r)
  <2>1. CASE p = None
    <3>1. /\ calls' = [calls EXCEPT ![r] = IdleCall]
          /\ UNCHANGED <<current, cache, crossed>>
          /\ ~Binding(r) /\ ~Booting(r)
      BY <1>3, <2>1 DEF EnsureLaunchProject, registryVars, crossings,
                        Binding, Booting
    <3>2. QED
      BY <1>2, <3>1, CacheBeside
  <2>2. CASE p # None
    <3> DEFINE rec == IF Known(p) THEN projects[p] ELSE NewProject
               c == [calls[r] EXCEPT !.pc = "workspace", !.rec = rec]
    <3>1. calls' = [calls EXCEPT ![r] = c] /\ MoveCurrent(r, p)
      BY <1>3, <2>2 DEF EnsureLaunchProject
    <3> HIDE DEF rec
    <3>2. c.pc = "workspace" /\ c.id = p
      BY <1>1 DEF CallState
    <3> HIDE DEF c, p
    <3>3. QED
      BY <3>1, <3>2, CacheMoves
  <2>3. QED
    BY <2>1, <2>2
<1>4. ASSUME NEW q \in Projects, NEW force \in Forces,
             OpenById(r, q, force) \/ OpenByRoot(r, q, force)
      PROVE  CacheInv'
  <2> DEFINE c1 == [pc |-> "resolved", id |-> q, rec |-> projects[q]]
             c2 == [pc |-> "canonical", id |-> q, rec |-> Absent]
  <2>1. /\ \/ calls' = [calls EXCEPT ![r] = c1]
           \/ calls' = [calls EXCEPT ![r] = c2]
        /\ UNCHANGED <<current, cache, crossed>>
        /\ ~Binding(r) /\ ~Booting(r)
    BY <1>4 DEF OpenById, OpenByRoot, registryVars, historyVars, crossings,
                Binding, Booting
  <2>2. c1.pc = "resolved" /\ c2.pc = "canonical"
    OBVIOUS
  <2> HIDE DEF c1, c2
  <2>3. QED
    BY <2>1, <2>2, CacheBeside
<1>5. CASE ResolveRoot(r)
  <2> DEFINE c1 == [calls[r] EXCEPT !.pc = "resolved", !.rec = projects[p]]
             c2 == [calls[r] EXCEPT !.pc = "resolved", !.rec = NewProject]
  <2>1. /\ \/ calls' = [calls EXCEPT ![r] = IdleCall]
           \/ calls' = [calls EXCEPT ![r] = c1]
           \/ calls' = [calls EXCEPT ![r] = c2]
        /\ UNCHANGED <<current, cache, crossed>>
        /\ ~Binding(r) /\ ~Booting(r)
    BY <1>5 DEF ResolveRoot, registryVars, Binding, Booting
  <2>2. c1.pc = "resolved" /\ c2.pc = "resolved"
    BY <1>1 DEF CallState
  <2> HIDE DEF c1, c2
  <2>3. QED
    BY <1>2, <2>1, <2>2, CacheBeside
<1>6. CASE SwitchProject(r)
  <2>1. CASE Known(p)
    <3> DEFINE c == [calls[r] EXCEPT !.pc = "workspace"]
    <3>1. calls' = [calls EXCEPT ![r] = c] /\ MoveCurrent(r, p)
      BY <1>6, <2>1 DEF SwitchProject
    <3>2. c.pc = "workspace" /\ c.id = p
      BY <1>1, CallFacts
    <3> HIDE DEF c, p
    <3>3. QED
      BY <3>1, <3>2, CacheMoves
  <2>2. CASE ~Known(p)
    <3>1. /\ calls' = [calls EXCEPT ![r] = IdleCall]
          /\ UNCHANGED <<current, cache, crossed>>
          /\ ~Binding(r) /\ ~Booting(r)
      BY <1>6, <2>2 DEF SwitchProject, Binding, Booting
    <3>2. QED
      BY <1>2, <3>1, CacheBeside
  <2>3. QED
    BY <2>1, <2>2
<1>7. CASE EnsureWorkspace(r)
  <2> DEFINE updated == [calls[r].rec EXCEPT !.workspace = TRUE]
             c1 == [calls[r] EXCEPT !.pc = "binding", !.rec = updated]
             c2 == [calls[r] EXCEPT !.pc = "binding"]
  <2>1. /\ \/ calls' = [calls EXCEPT ![r] = c1]
           \/ calls' = [calls EXCEPT ![r] = c2]
        /\ UNCHANGED <<current, cache, crossed>>
        /\ Binding(r) /\ ~Booting(r)
    BY <1>7 DEF EnsureWorkspace, historyVars, crossings, Binding, Booting
  <2> HIDE DEF updated
  <2>2. c1.pc = "binding" /\ c2.pc = "binding" /\ c1.id = p /\ c2.id = p
    BY <1>1 DEF CallState
  <2> HIDE DEF c1, c2
  <2>3. QED
    BY <2>1, <2>2, CacheBeside
<1>8. CASE Bind(r)
  <2>1. /\ cache' = p /\ UNCHANGED <<current, crossed>>
        /\ \/ calls' = [calls EXCEPT ![r] = IdleCall]
           \/ calls' = [calls EXCEPT ![r] = subscribing]
        /\ Binding(r)
    BY <1>8 DEF Bind, crossings, Binding, subscribing
  <2>2. /\ ~Binding(r)'
        /\ \A q \in Requests : q # r => calls'[q] = calls[q]
    BY <1>2, <2>1, CallAt DEF Binding, IInv
  <2>3. SUFFICES ASSUME ~crossed PROVE CacheInv'
    BY <2>1 DEF CacheInv
  <2>4. \A q \in Requests : ~Binding(q)'
    BY <2>1, <2>2, <2>3 DEF CacheInv, Binding
  <2>5. p = current
    BY <2>1, <2>3 DEF CacheInv
  <2>6. QED
    BY <2>1, <2>4, <2>5 DEF CacheInv
<1>9. CASE Subscribe(r)
  <2>1. /\ calls' = [calls EXCEPT ![r] = IdleCall]
        /\ UNCHANGED <<current, cache, crossed>>
        /\ ~Binding(r) /\ ~Booting(r)
    BY <1>9 DEF Subscribe, registryVars, historyVars, crossings, Binding,
                Booting
  <2>2. QED
    BY <1>2, <2>1, CacheBeside
<1>10. QED
  BY <1>3, <1>4, <1>5, <1>6, <1>7, <1>8, <1>9 DEF OpenStep

LEMMA InitCaches == Init => CacheInv
<1> SUFFICES ASSUME Init PROVE CacheInv
  OBVIOUS
<1>1. PICK launch \in Optional(Projects) :
        /\ launch = None => current = None
        /\ calls = [r \in Requests |->
                      IF r = BootCall
                        THEN [pc |-> "boot", id |-> launch, rec |-> Absent]
                        ELSE IdleCall]
  BY DEF Init
<1>2. cache = None /\ \A r \in Requests : ~Binding(r)
  BY <1>1 DEF Init, Binding, IdleCall
<1>3. ~Booting(BootCall) => current = None
  BY <1>1, ConstantsAssumption DEF Booting
<1>4. QED
  BY <1>2, <1>3, ConstantsAssumption DEF CacheInv

LEMMA NextCaches == IInv /\ CacheInv /\ [Next]_vars => CacheInv'
<1> SUFFICES ASSUME IInv, CacheInv, [Next]_vars PROVE CacheInv'
  OBVIOUS
<1>1. ASSUME NEW r \in Requests, RequestStep(r) PROVE CacheInv'
  <2>1. ASSUME NEW force \in Forces, Close(r, force) PROVE CacheInv'
    BY <2>1, CacheCloses DEF Close
  <2>2. ASSUME NEW p \in Projects, Forget(r, p) PROVE CacheInv'
    BY <2>2, CacheCloses, CacheStays DEF Forget
  <2>3. CASE \/ \E p \in Projects : Create(r, p)
             \/ \E allowed \in BOOLEAN : SetCapability(r, allowed)
             \/ \E tab \in Tabs : SetUiState(r, tab)
    BY <2>3, CacheStays DEF Create, SetCapability, SetUiState, historyVars,
                            crossings
  <2>4. QED
    BY <1>1, <2>1, <2>2, <2>3 DEF RequestStep
<1>2. CASE BesideCalls
  BY <1>2, CacheStays DEF BesideCalls, crossings
<1>3. CASE UNCHANGED vars
  BY <1>3, CacheStays DEF vars, registryVars, historyVars, crossings
<1>4. QED
  BY <1>1, <1>2, <1>3, OpenCaches, OthersBesideCalls DEF Next

-----------------------------------------------------------------------------
(* The sessions: a live session of the current project is associated with  *)
(* it, or its handler is about to, or a call that made the project current *)
(* has still to adopt it.                                                  *)

Adopted(s) ==
  Cwd[s] = current =>
    \/ s \in projects[current].sessions
    \/ [kind |-> "attach", session |-> s] \in events

AdoptInv ==
  current # None /\ (\A r \in Requests : Binding(r) => calls[r].id # current) =>
    \A s \in live \ exempt : Adopted(s)

(* A step under which no session of the current project is forgotten.      *)
LEMMA AdoptsKept ==
  ASSUME AdoptInv,
         current' = current \/ current' = None,
         current # None =>
           projects[current].sessions \subseteq projects'[current].sessions,
         \A r \in Requests :
           Binding(r) /\ calls[r].id = current =>
             Binding(r)' /\ calls'[r].id = current,
         UNCHANGED <<live, events, exempt>>
  PROVE  AdoptInv'
<1> SUFFICES ASSUME current' # None,
                    \A r \in Requests : Binding(r)' => calls'[r].id # current'
             PROVE  \A s \in live' \ exempt' : Adopted(s)'
  BY DEF AdoptInv
<1>1. current' = current /\ current # None
  OBVIOUS
<1>2. \A s \in live \ exempt : Adopted(s)
  BY <1>1 DEF AdoptInv
<1>3. QED
  BY <1>1, <1>2 DEF Adopted

(* A call that makes its project current will adopt.                       *)
LEMMA AdoptsLater ==
  ASSUME IInv, NEW r \in Requests, NEW c, calls' = [calls EXCEPT ![r] = c],
         c.pc = "workspace", c.id = current'
  PROVE  AdoptInv'
<1>1. calls'[r] = c
  BY CallAt DEF IInv
<1>2. QED
  BY <1>1 DEF AdoptInv, Binding

LEMMA OpenAdopts ==
  ASSUME IInv, AdoptInv, NEW r \in Requests, OpenStep(r)
  PROVE  AdoptInv'
<1> DEFINE p == calls[r].id
<1>1. calls[r] \in CallState /\ ServiceTypeOK
  BY CarriedFacts DEF IInv
<1>2. current # None => current \in Projects /\ Known(current)
  BY CurrentRecord DEF IInv, CurrentIsKnown
<1>3. ASSUME ~Binding(r),
             \A q \in Requests : q # r => calls'[q] = calls[q]
      PROVE  \A q \in Requests :
               Binding(q) /\ calls[q].id = current =>
                 Binding(q)' /\ calls'[q].id = current
  BY <1>3 DEF Binding
<1>4. CASE EnsureLaunchProject(r)
  <2>1. CASE p = None
    <3>1. /\ calls' = [calls EXCEPT ![r] = IdleCall] /\ ~Binding(r)
          /\ UNCHANGED <<current, projects, live, events, exempt>>
      BY <1>4, <2>1 DEF EnsureLaunchProject, registryVars, Binding
    <3>2. \A q \in Requests : q # r => calls'[q] = calls[q]
      BY <1>1, <3>1, CallAt
    <3>3. QED
      BY <1>3, <3>1, <3>2, AdoptsKept
  <2>2. CASE p # None
    <3> DEFINE rec == IF Known(p) THEN projects[p] ELSE NewProject
               c == [calls[r] EXCEPT !.pc = "workspace", !.rec = rec]
    <3>1. calls' = [calls EXCEPT ![r] = c] /\ current' = p
      BY <1>4, <2>2 DEF EnsureLaunchProject, MoveCurrent
    <3> HIDE DEF rec
    <3>2. c.pc = "workspace" /\ c.id = p
      BY <1>1 DEF CallState
    <3> HIDE DEF c, p
    <3>3. QED
      BY <3>1, <3>2, AdoptsLater
  <2>3. QED
    BY <2>1, <2>2
<1>5. CASE \/ Subscribe(r)
           \/ \E q \in Projects, force \in Forces :
                OpenById(r, q, force) \/ OpenByRoot(r, q, force)
  <2>1. PICK c : calls' = [calls EXCEPT ![r] = c]
    BY <1>5 DEF Subscribe, OpenById, OpenByRoot
  <2>2. \A q \in Requests : q # r => calls'[q] = calls[q]
    BY <1>1, <2>1, CallAt
  <2>3. /\ ~Binding(r)
        /\ UNCHANGED <<current, projects, live, events, exempt>>
    BY <1>5 DEF Subscribe, OpenById, OpenByRoot, registryVars, historyVars,
                Binding
  <2>4. QED
    BY <1>3, <2>2, <2>3, AdoptsKept
<1>6. CASE ResolveRoot(r)
  <2>1. p \in Projects
    BY <1>6 DEF IInv, CallsOK, ResolveRoot
  <2>2. PICK c : calls' = [calls EXCEPT ![r] = c]
    BY <1>6 DEF ResolveRoot
  <2>3. \A q \in Requests : q # r => calls'[q] = calls[q]
    BY <1>1, <2>2, CallAt
  <2>4. /\ ~Binding(r)
        /\ UNCHANGED <<current, live, events, exempt>>
        /\ \/ projects' = projects
           \/ ~Known(p) /\ projects' = [projects EXCEPT ![p] = NewProject]
    BY <1>6 DEF ResolveRoot, Upsert, registryVars, Binding
  <2>5. current # None => projects'[current] = projects[current]
    BY <1>1, <1>2, <2>1, <2>4 DEF ServiceTypeOK
  <2>6. QED
    BY <1>3, <2>3, <2>4, <2>5, AdoptsKept
<1>7. CASE SwitchProject(r)
  <2>1. CASE Known(p)
    <3> DEFINE c == [calls[r] EXCEPT !.pc = "workspace"]
    <3>1. calls' = [calls EXCEPT ![r] = c] /\ current' = p
      BY <1>7, <2>1 DEF SwitchProject, MoveCurrent
    <3>2. c.pc = "workspace" /\ c.id = p
      BY <1>1, CallFacts
    <3> HIDE DEF c, p
    <3>3. QED
      BY <3>1, <3>2, AdoptsLater
  <2>2. CASE ~Known(p)
    <3>1. /\ calls' = [calls EXCEPT ![r] = IdleCall] /\ ~Binding(r)
          /\ UNCHANGED <<current, projects, live, events, exempt>>
      BY <1>7, <2>2 DEF SwitchProject, Binding
    <3>2. \A q \in Requests : q # r => calls'[q] = calls[q]
      BY <1>1, <3>1, CallAt
    <3>3. QED
      BY <1>3, <3>1, <3>2, AdoptsKept
  <2>3. QED
    BY <2>1, <2>2
<1>8. CASE EnsureWorkspace(r)
  <2> DEFINE updated == [calls[r].rec EXCEPT !.workspace = TRUE]
             c1 == [calls[r] EXCEPT !.pc = "binding", !.rec = updated]
             c2 == [calls[r] EXCEPT !.pc = "binding"]
  <2>1. p \in Projects
    BY <1>8 DEF IInv, CallsOK, EnsureWorkspace
  <2>2. PICK c \in {c1, c2} : calls' = [calls EXCEPT ![r] = c]
    BY <1>8 DEF EnsureWorkspace
  <2>3. /\ \/ projects' = projects
           \/ projects' = [projects EXCEPT ![p] = updated]
        /\ UNCHANGED <<current, live, events, exempt>>
    BY <1>8 DEF EnsureWorkspace, Upsert, historyVars
  <2> HIDE DEF updated
  <2>4. c.pc = "binding" /\ c.id = p
    BY <1>1, <2>2 DEF CallState
  <2> HIDE DEF c1, c2
  <2>5. calls'[r] = c /\ \A q \in Requests : q # r => calls'[q] = calls[q]
    BY <1>1, <2>2, CallAt
  <2>6. Binding(r)' /\ calls'[r].id = p
    BY <2>4, <2>5 DEF Binding
  <2>7. CASE p = current
    BY <2>3, <2>6, <2>7 DEF AdoptInv
  <2>8. CASE p # current
    <3>1. current # None => projects'[current] = projects[current]
      BY <1>1, <1>2, <2>1, <2>3, <2>8 DEF ServiceTypeOK
    <3>2. \A q \in Requests :
            Binding(q) /\ calls[q].id = current =>
              Binding(q)' /\ calls'[q].id = current
      BY <2>5, <2>6, <2>8 DEF Binding
    <3> HIDE DEF p
    <3>3. QED
      BY <2>3, <3>1, <3>2, AdoptsKept
  <2>9. QED
    BY <2>7, <2>8
<1>9. CASE Bind(r)
  <2> DEFINE rec == IF Known(p) THEN projects[p] ELSE calls[r].rec
             adopted == {s \in live : Cwd[s] = p} \ rec.sessions
             all == rec.sessions \cup adopted
             updated == [rec EXCEPT !.sessions = all]
  <2>1. p \in Projects /\ calls[r].rec \in ProjectRecord
    BY <1>9, CarriedFacts DEF Bind, Carrying
  <2>2. rec \in ProjectRecord
    BY <1>1, <2>1, KnownRecord
  <2>3. /\ IF adopted = {} THEN projects' = projects
           ELSE projects' = [projects EXCEPT ![p] = updated]
        /\ exempt' = exempt \ adopted
        /\ UNCHANGED <<current, live, events>>
    BY <1>9 DEF Bind, Upsert
  <2>4. PICK c : calls' = [calls EXCEPT ![r] = c]
    BY <1>9 DEF Bind
  <2>5. \A q \in Requests : q # r => calls'[q] = calls[q]
    BY <1>1, <2>4, CallAt
  <2>6. CASE p = current
    <3>1. Known(p) => projects'[p].sessions = all
      <4>1. CASE adopted = {}
        BY <2>3, <4>1
      <4>2. CASE adopted # {}
        <5>1. projects'[p] = updated
          BY <1>1, <2>1, <2>3, <4>2 DEF ServiceTypeOK
        <5> HIDE DEF rec, all
        <5>2. QED
          BY <2>2, <5>1 DEF ProjectRecord
      <4>3. QED
        BY <4>1, <4>2
    <3>2. \A s \in live : Cwd[s] = p => s \in all
      OBVIOUS
    <3> HIDE DEF all, adopted, rec
    <3>3. QED
      BY <1>2, <2>3, <2>6, <3>1, <3>2 DEF AdoptInv, Adopted
  <2>7. CASE p # current
    <3>1. current # None => projects'[current] = projects[current]
      BY <1>1, <1>2, <2>1, <2>3, <2>7 DEF ServiceTypeOK
    <3>2. \A s \in adopted : Cwd[s] # current
      BY <2>7
    <3>3. \A q \in Requests :
            Binding(q) /\ calls[q].id = current =>
              Binding(q)' /\ calls'[q].id = current
      BY <2>5, <2>7 DEF Binding
    <3> HIDE DEF adopted
    <3>4. QED
      BY <2>3, <3>1, <3>2, <3>3 DEF AdoptInv, Adopted
  <2>8. QED
    BY <2>6, <2>7
<1>10. QED
  BY <1>4, <1>5, <1>6, <1>7, <1>8, <1>9 DEF OpenStep

LEMMA RequestAdopts ==
  ASSUME IInv, AdoptInv, NEW r \in Requests, RequestStep(r)
  PROVE  AdoptInv'
<1>1. current # None =>
        /\ current \in Projects /\ Known(current)
        /\ projects[current] \in ProjectRecord
  BY CurrentRecord DEF IInv, CurrentIsKnown
<1>2. calls' = calls =>
        \A q \in Requests :
          Binding(q) /\ calls[q].id = current =>
            Binding(q)' /\ calls'[q].id = current
  BY DEF Binding
<1>3. ASSUME NEW p \in Projects, Create(r, p) PROVE AdoptInv'
  <2>1. current # None => projects'[current] = projects[current]
    BY <1>1, <1>3 DEF Create, Upsert, IInv, ServiceTypeOK
  <2>2. QED
    BY <1>2, <1>3, <2>1, AdoptsKept DEF Create
<1>4. ASSUME NEW force \in Forces, Close(r, force) PROVE AdoptInv'
  BY <1>4 DEF Close, MoveCurrent, AdoptInv
<1>5. ASSUME NEW p \in Projects, Forget(r, p) PROVE AdoptInv'
  <2>1. CASE current' = None
    BY <2>1 DEF AdoptInv
  <2>2. CASE current # p /\ current' = current
    <3>1. current # None => projects'[current] = projects[current]
      BY <1>1, <1>5, <2>2 DEF Forget, IInv, ServiceTypeOK
    <3>2. QED
      BY <1>2, <1>5, <2>2, <3>1, AdoptsKept DEF Forget
  <2>3. QED
    BY <1>5, <2>1, <2>2 DEF Forget, MoveCurrent
<1>6. ASSUME NEW allowed \in BOOLEAN, SetCapability(r, allowed)
      PROVE  AdoptInv'
  <2> DEFINE rec == [projects[current] EXCEPT !.network = allowed]
  <2>1. /\ projects' = [projects EXCEPT ![current] = rec]
        /\ current # None
        /\ UNCHANGED <<current, calls, live, events, exempt>>
    BY <1>6 DEF SetCapability
  <2>2. rec.sessions = projects[current].sessions
    BY <1>1, <2>1 DEF ProjectRecord
  <2>3. projects'[current] = rec
    BY <1>1, <2>1 DEF IInv, ServiceTypeOK
  <2> HIDE DEF rec
  <2>4. QED
    BY <1>2, <2>1, <2>2, <2>3, AdoptsKept
<1>7. ASSUME NEW tab \in Tabs, SetUiState(r, tab) PROVE AdoptInv'
  <2>1. UNCHANGED <<current, calls, live, events, exempt>>
    BY <1>7 DEF SetUiState, historyVars
  <2>2. QED
    BY <1>2, <1>7, <2>1, UiBesideCalls, AdoptsKept
<1>8. QED
  BY <1>3, <1>4, <1>5, <1>6, <1>7 DEF RequestStep

LEMMA BesideAdopts ==
  ASSUME IInv, AdoptInv,
         \/ \E o \in Operations : OperationStep(o)
         \/ \E s \in Sessions : SessionStep(s)
         \/ \E e \in events : HandleEvent(e)
  PROVE  AdoptInv'
<1>1. UNCHANGED <<current, calls>>
  BY OthersBesideCalls DEF BesideCalls
<1>2. \A q \in Requests : /\ Binding(q)' <=> Binding(q)
                          /\ calls'[q] = calls[q]
  BY <1>1 DEF Binding
<1>3. ASSUME NEW o \in Operations, OperationStep(o) PROVE AdoptInv'
  <2>1. /\ UNCHANGED <<live, events, exempt>>
        /\ current # None =>
             projects'[current].sessions = projects[current].sessions
    BY <1>3, SyncBesideCalls
       DEF OperationStep, BeginOperation, BeginGit, RecordGitSync,
           EndOperation, registryVars, historyVars
  <2>2. QED
    BY <1>1, <1>2, <2>1, AdoptsKept
<1>4. ASSUME NEW s \in Sessions, SessionCreated(s) PROVE AdoptInv'
  <2>1. /\ live' = live \cup {s}
        /\ events \subseteq events' /\ exempt \subseteq exempt'
        /\ projects' = projects
        /\ \/ s \in exempt'
           \/ current # None /\ Cwd[s] = current =>
                [kind |-> "attach", session |-> s] \in events'
    BY <1>4 DEF SessionCreated, registryVars
  <2>2. QED
    BY <1>1, <1>2, <2>1 DEF AdoptInv, Adopted
<1>5. ASSUME NEW s \in Sessions, CompactionEnded(s) PROVE AdoptInv'
  <2>1. /\ UNCHANGED <<live, exempt, projects>>
        /\ events \subseteq events'
    BY <1>5 DEF CompactionEnded, registryVars, historyVars
  <2>2. QED
    BY <1>1, <1>2, <2>1 DEF AdoptInv, Adopted
<1>6. ASSUME NEW s \in Sessions, DetachSession(s) PROVE AdoptInv'
  <2>1. /\ projects'[current].sessions = projects[current].sessions \ {s}
        /\ exempt' = exempt \cup {s}
        /\ UNCHANGED <<live, events>>
    BY <1>6, DetachBesideCalls DEF DetachSession
  <2>2. QED
    BY <1>1, <1>2, <2>1 DEF AdoptInv, Adopted
<1>7. ASSUME NEW e \in events, HandleEvent(e) PROVE AdoptInv'
  <2>1. /\ events' = events \ {e} /\ live' = live
        /\ e.kind = "attach" \/ exempt' = exempt
        /\ e.kind = "attach" => exempt \ {e.session} \subseteq exempt'
        /\ current # None =>
             projects'[current].sessions =
               IF e.kind = "attach"
                 THEN projects[current].sessions \cup {e.session}
                 ELSE projects[current].sessions
    BY <1>7, EventBesideCalls DEF HandleEvent
  <2>2. \A s \in live \ exempt :
          Adopted(s) /\ current # None => Adopted(s)'
    BY <1>1, <2>1 DEF Adopted
  <2>3. \A s \in live' \ exempt' :
          s \in live \ exempt \/ (current # None => Adopted(s)')
    BY <1>1, <2>1 DEF Adopted
  <2>4. QED
    BY <1>1, <1>2, <2>2, <2>3 DEF AdoptInv
<1>8. QED
  BY <1>3, <1>4, <1>5, <1>6, <1>7 DEF SessionStep

LEMMA NextAdopts == IInv /\ AdoptInv /\ [Next]_vars => AdoptInv'
<1> SUFFICES ASSUME IInv, AdoptInv, [Next]_vars PROVE AdoptInv'
  OBVIOUS
<1>1. CASE UNCHANGED vars
  BY <1>1 DEF vars, registryVars, historyVars, AdoptInv, Adopted, Binding
<1>2. QED
  BY <1>1, OpenAdopts, RequestAdopts, BesideAdopts DEF Next

-----------------------------------------------------------------------------
(* What the invariants give, for any number of clients.                    *)

(* Every state the service reaches is well typed: a record read before an  *)
(* await and written after it is still a record, and a current id is a     *)
(* project id or null.                                                     *)
THEOREM TypeCorrectness == Spec => []TypeOK
<1>1. Init => TypeOK
  BY InitIInv DEF Init, IInv, TypeOK, CrossingsTypeOK
<1>2. IInv /\ TypeOK /\ [Next]_vars => TypeOK'
  BY CrossingsTyped
<1>3. QED
  BY <1>1, <1>2, Invariance, PTL DEF Spec

(* The recent order holds every known project, and none twice, however     *)
(* many clients there are: a project is never out of the recent list's     *)
(* reach, even when an open() that lost its project put the dead id first. *)
THEOREM EachProjectOnce == Spec => []RecentOrdered
<1>1. Init => RecentOrdered
  BY InitOrdered
<1>2. IInv /\ RecentOrdered /\ [Next]_vars => RecentOrdered'
  BY NextOrdered
<1>3. QED
  BY <1>1, <1>2, Invariance, PTL DEF Spec

(* The network capability is exactly what the user last decided, for every *)
(* project whose last decision was not taken while another client's open() *)
(* held its record: no open(), bind, adoption or synchronisation grants,   *)
(* revokes or restores it, though each writes back a record it read before *)
(* an await.                                                               *)
THEOREM GrantIsTheDecision == Spec => []GrantFollowsDecision
<1>1. GrantInv => GrantFollowsDecision
  BY DEF GrantInv
<1>2. QED
  BY <1>1, InitGrants, NextGrants, Invariance, PTL DEF Spec

(* The recent order holds every known project once, and the current one    *)
(* first unless the last promotion was that of a project forgotten while   *)
(* an open() resolved it, however many clients there are.                  *)
THEOREM CurrentIsFirst == Spec => []CurrentHeadsRecent
<1>1. Init => CurrentHeads
  BY DEF Init, CurrentHeads
<1>2. RecentOrdered /\ CurrentHeads => CurrentHeadsRecent
  BY DEF RecentOrdered, Once, Names, CurrentHeads, CurrentHeadsRecent
<1>3. QED
  BY <1>1, <1>2, NextHeads, Invariance, EachProjectOnce, PTL DEF Spec

(* The context cache is bound to the current project whenever no open() is *)
(* in flight, unless that project became current, or was closed, while     *)
(* another client's open() had still to bind its own.                      *)
THEOREM CacheIsBound == Spec => []CacheFollowsCurrent
<1>1. CacheInv => CacheFollowsCurrent
  BY DEF CacheInv, CacheFollowsCurrent, Quiet, Binding, Booting
<1>2. QED
  BY <1>1, InitCaches, NextCaches, Invariance, PTL DEF Spec

(* No live session of the current project is left out, whenever it was     *)
(* created and however many clients there are.                             *)
THEOREM SessionsAreAdopted == Spec => []LiveSessionsAdopted
<1>1. Init => AdoptInv
  BY DEF Init, AdoptInv
<1>2. AdoptInv => LiveSessionsAdopted
  BY DEF AdoptInv, Adopted, LiveSessionsAdopted, Quiet, Binding
<1>3. QED
  BY <1>1, <1>2, NextAdopts, Invariance, PTL DEF Spec

-----------------------------------------------------------------------------
(* The guard.                                                              *)

(* A step that stores a record keeps every project known.                  *)
LEMMA RecordsStay ==
  ASSUME ServiceTypeOK, NEW p \in Projects, NEW rec \in ProjectRecord,
         projects' = [projects EXCEPT ![p] = rec]
  PROVE  \A q \in Projects : Known(q) => projects'[q] # Absent
BY WriteRecord DEF Known

GuardHolds ==
  ~GuardIdle =>
    /\ current # None => (current' # None \/ TRUE \in Forces)
    /\ \A p \in Projects : Known(p) => projects'[p] # Absent

LEMMA OpenHolds ==
  ASSUME IInv, NEW r \in Requests, OpenStep(r)
  PROVE  GuardHolds
<1> DEFINE p == calls[r].id
<1> USE DEF IInv
<1>1. calls[r] \in CallState /\ p \in Optional(Projects) /\ None \notin Projects
  BY CallFacts, ConstantsAssumption DEF ServiceTypeOK
<1>2. CASE EnsureLaunchProject(r)
  <2>1. CASE p = None
    BY <1>2, <2>1 DEF GuardHolds, EnsureLaunchProject, registryVars, Known
  <2>2. CASE p # None
    <3> DEFINE rec == IF Known(p) THEN projects[p] ELSE NewProject
    <3>1. p \in Projects
      BY <1>1, <2>2 DEF Optional
    <3>2. rec \in ProjectRecord
      BY <3>1, KnownRecord, NewProjectFacts
    <3>3. projects' = [projects EXCEPT ![p] = rec] /\ current' = p
      BY <1>2, <2>2 DEF EnsureLaunchProject, MoveCurrent
    <3> HIDE DEF rec, p
    <3>4. QED
      BY <2>2, <3>1, <3>2, <3>3, RecordsStay DEF GuardHolds
  <2>3. QED
    BY <2>1, <2>2
<1>3. CASE ResolveRoot(r)
  <2>1. p \in Projects
    BY <1>3 DEF CallsOK, ResolveRoot
  <2>2. /\ current' = current
        /\ \/ projects' = projects
           \/ projects' = [projects EXCEPT ![p] = NewProject]
    BY <1>3 DEF ResolveRoot, Upsert, registryVars
  <2> HIDE DEF p
  <2>3. QED
    BY <2>1, <2>2, NewProjectFacts, RecordsStay DEF GuardHolds, Known
<1>4. CASE SwitchProject(r)
  <2> DEFINE rec == calls[r].rec
  <2>1. p \in Projects /\ rec \in ProjectRecord
    BY <1>4 DEF CallsOK, SwitchProject
  <2>2. \/ current' = p /\ projects' = [projects EXCEPT ![p] = rec]
        \/ current' = current /\ projects' = projects
    BY <1>4 DEF SwitchProject, MoveCurrent
  <2> HIDE DEF p, rec
  <2>3. QED
    BY <1>1, <2>1, <2>2, RecordsStay DEF GuardHolds, Known
<1>5. CASE EnsureWorkspace(r)
  <2> DEFINE rec == [calls[r].rec EXCEPT !.workspace = TRUE]
  <2>1. p \in Projects /\ rec \in ProjectRecord
    BY <1>5, RecordFacts DEF CallsOK, EnsureWorkspace
  <2>2. /\ current' = current
        /\ \/ projects' = [projects EXCEPT ![p] = rec]
           \/ projects' = projects
    BY <1>5 DEF EnsureWorkspace, Upsert
  <2> HIDE DEF p, rec
  <2>3. QED
    BY <2>1, <2>2, RecordsStay DEF GuardHolds, Known
<1>6. CASE Bind(r)
  <2> DEFINE rec == IF Known(p) THEN projects[p] ELSE calls[r].rec
             adopted == {s \in live : Cwd[s] = p} \ rec.sessions
             all == rec.sessions \cup adopted
             updated == [rec EXCEPT !.sessions = all]
  <2>1. p \in Projects /\ rec \in ProjectRecord
    BY <1>6, KnownRecord DEF CallsOK, Bind
  <2>2. all \in SUBSET Sessions
    BY <2>1, RecordFacts DEF ServiceTypeOK
  <2>3. /\ current' = current
        /\ \/ projects' = projects
           \/ projects' = [projects EXCEPT ![p] = updated]
    BY <1>6 DEF Bind, Upsert
  <2> HIDE DEF all, adopted, rec
  <2>4. updated \in ProjectRecord
    BY <2>1, <2>2, RecordFacts
  <2> HIDE DEF p, updated
  <2>5. QED
    BY <2>1, <2>3, <2>4, RecordsStay DEF GuardHolds, Known
<1>7. CASE \/ Subscribe(r)
           \/ \E q \in Projects, force \in Forces :
                OpenById(r, q, force) \/ OpenByRoot(r, q, force)
  BY <1>7 DEF GuardHolds, Subscribe, OpenById, OpenByRoot, registryVars, Known
<1>8. QED
  BY <1>2, <1>3, <1>4, <1>5, <1>6, <1>7 DEF OpenStep

LEMMA RequestHolds ==
  ASSUME IInv, NEW r \in Requests, RequestStep(r)
  PROVE  GuardHolds
<1>1. ASSUME NEW p \in Projects, Create(r, p) PROVE GuardHolds
  BY <1>1, NewProjectFacts, RecordsStay DEF Create, Upsert, GuardHolds, IInv
<1>2. ASSUME NEW force \in Forces, Close(r, force) PROVE GuardHolds
  <2>1. CanSwitch(force) /\ projects' = projects
    BY <1>2 DEF Close
  <2>2. GuardIdle \/ TRUE \in Forces
    BY <2>1, ConstantsAssumption DEF CanSwitch
  <2>3. QED
    BY <2>1, <2>2 DEF GuardHolds, Known
<1>3. ASSUME NEW p \in Projects, Forget(r, p) PROVE GuardHolds
  BY <1>3 DEF Forget, CanSwitch, GuardHolds
<1>4. ASSUME NEW allowed \in BOOLEAN, SetCapability(r, allowed)
      PROVE  GuardHolds
  BY <1>4 DEF SetCapability, CanSwitch, GuardHolds
<1>5. ASSUME NEW tab \in Tabs, SetUiState(r, tab) PROVE GuardHolds
  <2>1. BesideCalls
    BY <1>5, UiBesideCalls
  <2>2. QED
    BY <2>1 DEF BesideCalls, GuardHolds, Known
<1>6. QED
  BY <1>1, <1>2, <1>3, <1>4, <1>5 DEF RequestStep

LEMMA NextHolds == IInv /\ [Next]_vars => [GuardHolds]_vars
<1> SUFFICES ASSUME IInv, Next PROVE GuardHolds
  OBVIOUS
<1>1. BesideCalls => GuardHolds
  BY DEF BesideCalls, GuardHolds, Known
<1>2. QED
  BY <1>1, OpenHolds, RequestHolds, OthersBesideCalls DEF Next

(* While an operation holds the guard nothing closes the current project,  *)
(* unless a caller may force it, and nothing forgets any project: the      *)
(* suspended open() calls and the boot, which switch without asking again, *)
(* do neither.                                                             *)
THEOREM GuardIsHeld == Spec => NoCloseUnderOperation
<1>1. IInv /\ [Next]_vars => [GuardHolds]_vars
  BY NextHolds
<1>2. Spec => [][GuardHolds]_vars
  BY <1>1, Invariance, PTL DEF Spec
<1>3. QED
  BY <1>2 DEF NoCloseUnderOperation, GuardHolds
=============================================================================
