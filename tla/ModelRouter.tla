----------------------------- MODULE ModelRouter -----------------------------
(***************************************************************************)
(* The model router (plugins/model-router): which provider and model a     *)
(* call runs on, by mode and by role, while routes are switched, providers *)
(* fail and callers leave.                                                 *)
(*                                                                         *)
(* A selection (provider, model, effort) is a route.  A capability is      *)
(* "yes", "no" or "unknown" for the one threshold a plan asks of it.  What *)
(* a caller receives is told by the routes and the attempts it came from.  *)
(***************************************************************************)
EXTENDS Naturals, Sequences, Absent

CONSTANTS
  Routes,      \* the provider and model pairs a plan may name
  Roles,       \* the role vocabulary
  Default,     \* DEFAULT_ROLE
  Coding, Fast, \* the roles the adaptive route looks for by name
  Keys,        \* the capabilities a role may require
  RawPlans,    \* the plans a launcher patch may carry
  Calls        \* the model calls in flight, one slot each

VARIABLES
  plan,      \* router.plan, None until the plugin mounts
  mode,      \* router.currentMode
  active,    \* router.currentActive
  overrides, \* router.overrides
  default,   \* the harness's agentDefaultModel
  saving,    \* the selections whose write to its settings is in flight
  modelCalls,\* the calls, at the await or the yield they reached
  disturbed  \* history: the calls being resolved a switch or a mode change met,
             \* and the held leases a forced one did

routerVars ==
  <<plan, mode, active, overrides, default, saving, modelCalls, disturbed>>

-----------------------------------------------------------------------------
(* Plans and routes                                                        *)

Modes == {"manual", "switch", "auto"}
Capabilities == [Keys -> {"yes", "no", "unknown"}]
Undeclared == [k \in Keys |-> "unknown"]

RoleRoute ==
  [selection : Routes, fallback : Optional(Routes), capabilities : Capabilities]

Plan ==
  [mode : Modes, manual : Optional(Routes), active : Optional(Routes),
   roles : [Roles -> Optional(RoleRoute)],
   requirements : [Roles -> SUBSET Keys]]

(* A mode that only the roles are looked at for.                           *)
SupportsRoles(p, m) == m = "auto" => p.roles[Default] # None

(* What a launcher patch may carry names routes and roles of the plan's    *)
(* own vocabulary.                                                         *)
ASSUME RouterAssumption ==
  /\ {Default, Coding, Fast} \subseteq Roles
  /\ None \notin Routes \cup RawPlans
  /\ RawPlans \subseteq Plan

(* What a mode needs of a plan: parsePlan() and setMode() ask the same.    *)
Supports(p, m) ==
  /\ m = "manual" => p.manual # None
  /\ m = "switch" => p.active # None
  /\ m = "auto" => p.roles[Default] # None

(* A fallback to the primary route is refused, and so is a mode without    *)
(* the routes it needs.                                                    *)
UsablePlan(p) ==
  /\ Supports(p, p.mode)
  /\ \A r \in Roles :
       p.roles[r] # None => p.roles[r].fallback # p.roles[r].selection

(* The route of a role now: the runtime override of the role wins over the *)
(* plan, and an unmapped role inherits what the default role has.          *)
RouteFor(role) ==
  LET mapped == IF plan.roles[role] # None THEN plan.roles[role]
                                           ELSE plan.roles[Default]
      inherited == IF plan.roles[role] = None THEN overrides[Default] ELSE None
      only(selection) == [selection |-> selection, fallback |-> None,
                          capabilities |-> Undeclared]
  IN CASE mode = "manual" -> only(plan.manual)
       [] mode = "switch" -> only(active)
       [] mode = "auto" ->
            [mapped EXCEPT !.selection =
               IF overrides[role] # None THEN overrides[role]
               ELSE IF inherited # None THEN inherited ELSE @]

ActiveSelection == RouteFor(Default).selection

(* What a plan declares wins over what the adapter disclosed, and what     *)
(* neither knows is not a failure.                                         *)
Meets(declared, disclosed, required) ==
  \A k \in required :
    (IF declared[k] # "unknown" THEN declared[k] ELSE disclosed[k]) # "no"

(* The role an adaptive request runs as: auxiliary work on the fast route, *)
(* work with tools on the coding route, when the plan has them.            *)
AdaptiveRole(auxiliary, tools) ==
  LET declared == {r \in Roles : plan.roles[r] # None}
  IN IF auxiliary /\ Fast \in declared THEN Fast
     ELSE IF tools /\ Coding \in declared THEN Coding
     ELSE IF Default \in declared THEN Default
     ELSE IF declared # {} THEN CHOOSE r \in declared : TRUE ELSE None

(* The routes an adaptive request may use, primary first.                  *)
AdaptiveChain(auxiliary, tools) ==
  LET role == AdaptiveRole(auxiliary, tools)
      route == plan.roles[role]
  IN IF role = None THEN <<ActiveSelection>>
     ELSE IF route.fallback \in {None, route.selection}
          THEN <<route.selection>> ELSE <<route.selection, route.fallback>>

-----------------------------------------------------------------------------
(* Calls                                                                   *)

(* Bound: attempts the caller heard of are counted up to this.             *)
MaxHeard == 2

ModelCall ==
  [pc        : {"idle", "probing", "streaming", "finished", "ended"},
   kind      : {"routed", "adaptive", "external"},
   role      : Roles,
   critical  : BOOLEAN,
   chain     : Seq(Routes),        \* candidates still to try
   declared  : Capabilities,
   route     : Optional(Routes),   \* attempt.selection
   fallback  : Optional(Routes),   \* lease.fallback
   emitted   : BOOLEAN,            \* of the current attempt
   fell      : BOOLEAN,            \* whether fallbackRecord is set
   output    : SUBSET Routes,      \* history: who served the caller
   heard     : 0..MaxHeard,        \* history: the attempts that sent it a chunk
   again     : BOOLEAN,            \* history: a fallback was dispatched again
   records   : 0..2,               \* history: the call's journal records
   outcome   : {"none", "completed", "error", "aborted", "threw", "refused",
                "abandoned"}]

NoCall ==
  [pc |-> "idle", kind |-> "routed", role |-> Default, critical |-> FALSE,
   chain |-> <<>>, declared |-> Undeclared, route |-> None, fallback |-> None,
   emitted |-> FALSE, fell |-> FALSE, output |-> {}, heard |-> 0,
   again |-> FALSE, records |-> 0, outcome |-> "none"]

Update(c, call) == modelCalls' = [modelCalls EXCEPT ![c] = call]

(* The leases held: what `activeLeases' contains.                          *)
Held(c) ==
  /\ modelCalls[c].kind = "routed"
  /\ modelCalls[c].pc \in {"streaming", "finished"}

HeldCalls == {c \in Calls : Held(c)}
Resolving == {c \in Calls : modelCalls[c].pc = "probing"}

RoutesUnchanged == UNCHANGED <<plan, mode, active, overrides, default, saving>>

(* An operation is over: its lease is released, whatever ended it, and     *)
(* what happened to its caller is kept.                                    *)
Ended(c, call, outcome, recorded) ==
  /\ Update(c, [NoCall EXCEPT
       !.pc = "ended", !.kind = call.kind, !.output = call.output,
       !.heard = call.heard, !.again = call.again, !.outcome = outcome,
       !.records = IF recorded THEN call.records + 1 ELSE call.records])
  /\ disturbed' = disturbed \ {c}

-----------------------------------------------------------------------------
(* Mounting and switching                                                  *)

(* publishDefault(): the active route is read at once and, unless it is    *)
(* the default already, handed to the harness's settings.  A second write  *)
(* of a selection that is still being written is the same write.           *)
PublishDefault == saving' = saving \cup ({ActiveSelection'} \ {default, None})

(* The settings stored it, or refused it, which is only logged.  The       *)
(* journal's record of the switch follows, which nothing here reads.       *)
Published(selection) ==
  /\ selection \in saving
  /\ default' \in {default, selection}
  /\ saving' = saving \ {selection}
  /\ UNCHANGED <<plan, mode, active, overrides, modelCalls, disturbed>>

(* The plugin mounts with a plan it can parse; a row that carries another  *)
(* fails to load before anything is registered.                            *)
Mount(p) ==
  /\ plan = None
  /\ UsablePlan(p)
  /\ plan' = p
  /\ mode' = p.mode
  /\ active' = p.active
  /\ UNCHANGED <<overrides, default, modelCalls, disturbed>>
  /\ PublishDefault

SetMode(m) ==
  /\ plan # None
  /\ Supports(plan, m)
  /\ mode' = m
  /\ disturbed' = IF m = mode THEN disturbed ELSE HeldCalls \cup Resolving
  /\ UNCHANGED <<plan, active, overrides, default, saving, modelCalls>>

(* switchTo() that does not look at the critical leases.                   *)
SwitchAlways(route, role, force) ==
  /\ plan # None
  /\ mode # "manual"
  /\ IF mode = "switch"
     THEN active' = route /\ UNCHANGED overrides
     ELSE overrides' = [overrides EXCEPT ![role] = route] /\ UNCHANGED active
  /\ UNCHANGED <<plan, mode, modelCalls, default, saving>>
  /\ disturbed' = disturbed \cup Resolving \cup (IF force THEN HeldCalls ELSE {})

(* switchTo(): refused in manual mode and, unless forced, while a critical *)
(* lease is held.  A call that is still being resolved has no lease yet.   *)
SwitchTo(route, role, force) ==
  /\ plan # None
  /\ mode # "manual"
  /\ force \/ \A c \in Calls : Held(c) => ~modelCalls[c].critical
  /\ IF mode = "switch"
     THEN active' = route /\ UNCHANGED overrides
     ELSE overrides' = [overrides EXCEPT ![role] = route] /\ UNCHANGED active
  /\ UNCHANGED <<plan, mode, modelCalls, default>>
  /\ IF mode = "switch" \/ role = Default THEN PublishDefault ELSE UNCHANGED saving
  /\ disturbed' = disturbed \cup Resolving \cup (IF force THEN HeldCalls ELSE {})

-----------------------------------------------------------------------------
(* Routed calls: resolve, lease, dispatch                                  *)

(* resolve() reads the route and asks for the first candidate's metadata.  *)
Stream(c, role, critical) ==
  LET route == RouteFor(role)
  IN /\ plan # None
     /\ modelCalls[c].pc = "idle"
     /\ Update(c, [NoCall EXCEPT !.pc = "probing", !.role = role,
                     !.critical = critical, !.declared = route.capabilities,
                     !.chain = IF route.fallback = None THEN <<route.selection>>
                               ELSE <<route.selection, route.fallback>>])
     /\ RoutesUnchanged
     /\ UNCHANGED disturbed

(* A candidate's metadata arrived, or could not be read.  The first that   *)
(* can do the work is leased and dispatched at once; the second has no     *)
(* fallback of its own; when neither can, the call is refused.             *)
Probed(c, disclosed) ==
  LET call == modelCalls[c]
      capable == Meets(call.declared, disclosed, plan.requirements[call.role])
      left == Tail(call.chain)
  IN /\ call.pc = "probing"
     /\ IF capable
        THEN /\ Update(c, [call EXCEPT !.pc = "streaming", !.chain = <<>>,
                             !.route = Head(call.chain),
                             !.fallback = IF left = <<>> THEN None ELSE Head(left)])
             /\ UNCHANGED disturbed
        ELSE IF left # <<>>
        THEN /\ Update(c, [call EXCEPT !.chain = left, !.declared = Undeclared])
             /\ UNCHANGED disturbed
        ELSE Ended(c, [call EXCEPT !.chain = <<>>], "refused", FALSE)
     /\ RoutesUnchanged

(* A request that selected the adaptive route is rewritten onto the first  *)
(* route of its chain, and one that bypassed the router is observed.       *)
StreamAdaptive(c, auxiliary, tools) ==
  LET chain == AdaptiveChain(auxiliary, tools)
  IN /\ plan # None
     /\ modelCalls[c].pc = "idle"
     /\ Update(c, [NoCall EXCEPT !.pc = "streaming", !.kind = "adaptive",
                     !.route = Head(chain), !.chain = Tail(chain)])
     /\ RoutesUnchanged
     /\ UNCHANGED disturbed

StreamExternal(c, route) ==
  /\ plan # None
  /\ modelCalls[c].pc = "idle"
  /\ Update(c, [NoCall EXCEPT !.pc = "streaming", !.kind = "external",
                  !.route = route])
  /\ RoutesUnchanged
  /\ UNCHANGED disturbed

(* The caller receives a chunk: of an attempt it heard of already, or of   *)
(* one more.                                                               *)
Hears(call) ==
  [call EXCEPT !.emitted = TRUE, !.output = @ \cup {call.route},
               !.heard = IF call.emitted \/ @ = MaxHeard THEN @ ELSE @ + 1]

(* The provider sent a chunk of output, which the caller receives.         *)
OutputChunk(c) ==
  LET call == modelCalls[c]
  IN /\ call.pc = "streaming"
     /\ Update(c, Hears(call))
     /\ RoutesUnchanged
     /\ UNCHANGED disturbed

(* Where a failed attempt may go on: the role's fallback for a routed      *)
(* call, once; the next route of the chain for an adaptive one; nowhere    *)
(* for a call the router only watches.                                     *)
NextRoute(call) ==
  CASE call.kind = "routed" -> IF call.fell THEN None ELSE call.fallback
    [] call.kind = "adaptive" -> IF call.chain = <<>> THEN None
                                 ELSE Head(call.chain)
    [] call.kind = "external" -> None

(* The routed call is dispatched again, on the route of its fallback.      *)
Redispatch(call, route) ==
  [call EXCEPT !.route = route, !.fell = TRUE, !.emitted = FALSE,
               !.chain = IF @ = <<>> THEN @ ELSE Tail(@)]

(* A fallback that does not ask what the caller already received.          *)
MayFallBackAfterOutput(call, eligible) == eligible /\ NextRoute(call) # None

MayFallBack(call, eligible) ==
  /\ eligible
  /\ ~call.emitted
  /\ NextRoute(call) # None

(* The provider's terminal error: an availability failure before any       *)
(* output moves to the next route; any other reaches the caller, recorded  *)
(* by the router for the calls it routes.                                  *)
FinishError(c, eligible) ==
  LET call == modelCalls[c]
  IN /\ call.pc = "streaming"
     /\ Update(c, IF MayFallBack(call, eligible)
                  THEN Redispatch(call, NextRoute(call))
                  ELSE [Hears(call) EXCEPT !.pc = "finished", !.outcome = "error",
                          !.records = IF call.kind = "routed" THEN @ + 1 ELSE @])
     /\ RoutesUnchanged
     /\ UNCHANGED disturbed

(* The provider's other terminal chunks.                                   *)
Finish(c, outcome) ==
  LET call == modelCalls[c]
  IN /\ call.pc = "streaming"
     /\ Update(c, [Hears(call) EXCEPT !.pc = "finished", !.outcome = outcome,
                     !.records = IF call.kind = "routed" THEN @ + 1 ELSE @])
     /\ RoutesUnchanged
     /\ UNCHANGED disturbed

(* The end of the stream recorded beside its terminal chunk.               *)
ReturnRecords(c) ==
  /\ modelCalls[c].pc = "finished"
  /\ Ended(c, modelCalls[c], modelCalls[c].outcome, TRUE)
  /\ RoutesUnchanged

(* The caller took the terminal chunk and asks for the next: the generator *)
(* returns.  observe() records here what it saw.                           *)
Return(c) ==
  /\ modelCalls[c].pc = "finished"
  /\ Ended(c, modelCalls[c], modelCalls[c].outcome,
           modelCalls[c].kind = "external")
  /\ RoutesUnchanged

(* The stream ended without a terminal chunk.  A routed call whose         *)
(* fallbackRecord is set is dispatched on the fallback, again if that is   *)
(* the attempt that ended.                                                 *)
EndSilently(c) ==
  LET call == modelCalls[c]
  IN /\ call.pc = "streaming"
     /\ IF call.kind = "routed" /\ call.fell
        THEN /\ Update(c, [Redispatch(call, call.fallback) EXCEPT !.again = TRUE])
             /\ UNCHANGED disturbed
        ELSE Ended(c, call, "completed", call.kind # "adaptive")
     /\ RoutesUnchanged

(* The harness or a consumer downstream threw: never a change of route.    *)
(* observe() is still reading after the terminal chunk.                    *)
Throw(c) ==
  LET call == modelCalls[c]
  IN /\ call.pc = "streaming" \/ (call.pc = "finished" /\ call.kind = "external")
     /\ Ended(c, call, "threw", call.kind # "adaptive")
     /\ RoutesUnchanged

(* The caller stopped reading: the generators are closed where they are.   *)
Abandon(c) ==
  /\ modelCalls[c].pc \in {"streaming", "finished"}
  /\ Ended(c, modelCalls[c], "abandoned", FALSE)
  /\ RoutesUnchanged

(* The slot of a finished call takes another one.                          *)
Reuse(c) ==
  /\ modelCalls[c].pc = "ended"
  /\ Update(c, NoCall)
  /\ RoutesUnchanged
  /\ UNCHANGED disturbed

-----------------------------------------------------------------------------

RouterInit ==
  /\ plan = None
  /\ mode = "manual"
  /\ active = None
  /\ overrides = [r \in Roles |-> None]
  /\ default = None
  /\ saving = {}
  /\ modelCalls = [c \in Calls |-> NoCall]
  /\ disturbed = {}

StartCall(c) ==
  \/ \E role \in Roles, critical \in BOOLEAN : Stream(c, role, critical)
  \/ \E auxiliary, tools \in BOOLEAN : StreamAdaptive(c, auxiliary, tools)
  \/ \E route \in Routes : StreamExternal(c, route)

CallStep(c) ==
  \/ \E disclosed \in Capabilities : Probed(c, disclosed)
  \/ OutputChunk(c)
  \/ \E eligible \in BOOLEAN : FinishError(c, eligible)
  \/ \E outcome \in {"completed", "aborted"} : Finish(c, outcome)
  \/ Return(c)
  \/ EndSilently(c)
  \/ Throw(c)
  \/ Abandon(c)
  \/ Reuse(c)

RouterNext ==
  \/ \E p \in RawPlans : Mount(p)
  \/ \E m \in Modes : SetMode(m)
  \/ \E route \in Routes, role \in Roles, force \in BOOLEAN :
       SwitchTo(route, role, force)
  \/ \E selection \in Routes : Published(selection)
  \/ \E c \in Calls : StartCall(c) \/ CallStep(c)

RouterSpec == RouterInit /\ [][RouterNext]_routerVars

-----------------------------------------------------------------------------
(* Properties                                                              *)

RouterTypeOK ==
  /\ plan \in Optional(RawPlans)
  /\ mode \in Modes
  /\ active \in Optional(Routes)
  /\ overrides \in [Roles -> Optional(Routes)]
  /\ default \in Optional(Routes)
  /\ saving \in SUBSET Routes
  /\ modelCalls \in [Calls -> ModelCall]
  /\ disturbed \in SUBSET Calls

(* What a caller receives in one call comes from one route, whatever       *)
(* fails, is switched or is overridden meanwhile.                          *)
OneRouteServes ==
  \A c \in Calls : \A r, s \in modelCalls[c].output : r = s

(* It comes from one attempt on that route, unless the stream of a         *)
(* fallback ended without its terminal chunk and it was dispatched again.  *)
OneAttemptServes ==
  \A c \in Calls : modelCalls[c].again \/ modelCalls[c].heard <= 1

(* Nothing a caller received is sent to it again: a fallback is taken only *)
(* before it received any output (index.js says so of every fallback).     *)
NothingIsRepeated == \A c \in Calls : modelCalls[c].heard <= 1

(* A critical call runs on a route its role has now, its primary or its    *)
(* fallback, from its lease to its end: an atomic step is not announced as *)
(* one model and completed with another.  Excluded: a forced switch, a     *)
(* change of mode, and a switch while the call was being resolved.         *)
CriticalKeepsRoute ==
  \A c \in Calls :
    Held(c) /\ modelCalls[c].critical /\ c \notin disturbed
      => modelCalls[c].route \in {RouteFor(modelCalls[c].role).selection,
                                 RouteFor(modelCalls[c].role).fallback}

(* A routed or observed call that was neither refused nor left by its      *)
(* caller ends with exactly one journal record, fallbacks included; an     *)
(* adaptive one leaves none, and one its caller left may leave none.       *)
OneRecordPerCall ==
  \A c \in Calls :
    LET call == modelCalls[c]
    IN /\ call.pc = "ended"
       /\ call.kind # "adaptive"
       /\ call.outcome \notin {"refused", "abandoned"}
       => call.records = 1

(* A call is served once, with the exceptions each part names.             *)
ServedOnce == OneRouteServes /\ OneAttemptServes /\ OneRecordPerCall
=============================================================================
