------------------------- MODULE ModelRouterProofs --------------------------
(***************************************************************************)
(* Proofs about ModelRouter, for every set of routes, roles, capabilities, *)
(* plans and calls.                                                        *)
(***************************************************************************)
EXTENDS ModelRouter, SequenceTheorems, TLAPS

(* The routes a mode needs are there: the plan was accepted with them, and *)
(* a mode change asks for them again.                                      *)
RoutesAreThere ==
  plan # None => /\ Supports(plan, mode)
                 /\ plan.active # None => active # None

(* One call: where it is tells what its caller received and what was       *)
(* recorded of it.  An attempt that has sent nothing runs either for a     *)
(* caller who received nothing, or on the fallback it already runs on.     *)
CallSafe(call) ==
  /\ call.pc \in {"idle", "probing"} =>
       /\ call.kind = "routed" /\ call.output = {} /\ call.records = 0
       /\ ~call.emitted /\ ~call.fell /\ ~call.again /\ call.heard = 0
  /\ ~call.again => /\ call.heard <= 1
                    /\ call.pc = "streaming" /\ ~call.emitted => call.heard = 0
  /\ call.pc = "probing" => call.chain # <<>>
  /\ call.pc \in {"streaming", "finished"} =>
       call.route # None /\ call.output \subseteq {call.route}
  /\ call.pc = "streaming" =>
       /\ call.records = 0
       /\ call.kind = "routed" /\ call.fell => call.fallback = call.route
       /\ ~call.emitted => call.output = {} \/ (call.kind = "routed" /\ call.fell)
  /\ call.pc = "finished" =>
       call.records = IF call.kind = "routed" THEN 1 ELSE 0
  /\ call.pc = "ended" =>
       /\ \A r, s \in call.output : r = s
       /\ call.kind # "adaptive" /\ call.outcome \notin {"refused", "abandoned"}
            => call.records = 1

(* A critical call is resolved among the routes its role has now, and runs *)
(* on one of them, unless it was disturbed.                                *)
HeldCall(call) == call.kind = "routed" /\ call.pc \in {"streaming", "finished"}
RoutesOf(role) == {RouteFor(role).selection, RouteFor(role).fallback}
KeepsRoute(c, call) ==
  call.critical /\ c \notin disturbed =>
    /\ call.pc = "probing" => \A i \in 1..Len(call.chain) :
                                call.chain[i] \in RoutesOf(call.role)
    /\ HeldCall(call) => /\ call.route \in RoutesOf(call.role)
                         /\ call.fallback \in RoutesOf(call.role) \cup {None}

(* The inductive invariant.                                                *)
RouterIInv ==
  /\ RouterTypeOK
  /\ RoutesAreThere
  /\ \A c \in Calls : CallSafe(modelCalls[c]) /\ KeepsRoute(c, modelCalls[c])
  /\ plan = None => \A c \in Calls : modelCalls[c] = NoCall

-----------------------------------------------------------------------------
(* Routes                                                                  *)

(* What a plan in force holds.                                             *)
LEMMA PlanFacts ==
  ASSUME plan \in Optional(RawPlans), plan # None
  PROVE  /\ plan.manual \in Optional(Routes)
         /\ plan.roles \in [Roles -> Optional(RoleRoute)]
         /\ plan.requirements \in [Roles -> SUBSET Keys]
BY RouterAssumption DEF Optional, Plan

(* What routes are chosen from.                                            *)
RoutingOK ==
  /\ plan \in Optional(RawPlans)
  /\ mode \in Modes
  /\ active \in Optional(Routes)
  /\ overrides \in [Roles -> Optional(Routes)]
  /\ RoutesAreThere

(* In every mode, a role has a route.                                      *)
LEMMA RouteForType ==
  ASSUME RoutingOK, plan # None, NEW role \in Roles
  PROVE  RouteFor(role) \in RoleRoute
<1> DEFINE only(selection) == [selection |-> selection, fallback |-> None,
                               capabilities |-> Undeclared]
<1>1. \A selection \in Routes : only(selection) \in RoleRoute
  BY DEF RoleRoute, Optional, Undeclared, Capabilities
<1>2. Default \in Roles
  BY RouterAssumption
<1>3. CASE mode = "manual"
  <2>1. plan.manual \in Routes
    BY <1>3, PlanFacts DEF RoutingOK, RoutesAreThere, Supports, Optional
  <2> QED BY <2>1, <1>1, <1>3 DEF RouteFor
<1>4. CASE mode = "switch"
  <2>1. active \in Routes
    BY <1>4 DEF RoutingOK, RoutesAreThere, Supports, Optional
  <2> QED BY <2>1, <1>1, <1>4 DEF RouteFor
<1>5. CASE mode = "auto"
  <2> DEFINE mapped == IF plan.roles[role] # None THEN plan.roles[role]
                                                  ELSE plan.roles[Default]
             inherited == IF plan.roles[role] = None THEN overrides[Default] ELSE None
  <2>1. plan.roles[Default] # None
    BY <1>5 DEF RoutingOK, RoutesAreThere, Supports
  <2>2. mapped \in RoleRoute
    BY <2>1, <1>2, PlanFacts DEF RoutingOK, Optional
  <2>3. overrides[role] \in Optional(Routes) /\ inherited \in Optional(Routes)
    BY <1>2 DEF RoutingOK, Optional
  <2> HIDE DEF mapped, inherited
  <2> DEFINE chosen == IF overrides[role] # None THEN overrides[role]
                       ELSE IF inherited # None THEN inherited ELSE mapped.selection
  <2>4. chosen \in Routes
    BY <2>2, <2>3 DEF Optional, RoleRoute
  <2>5. [mapped EXCEPT !.selection = chosen] \in RoleRoute
    BY <2>2, <2>4 DEF RoleRoute
  <2>6. RouteFor(role) = [mapped EXCEPT !.selection = chosen]
    BY <1>5 DEF RouteFor, mapped, inherited
  <2> QED BY <2>5, <2>6
<1> QED BY <1>3, <1>4, <1>5 DEF RoutingOK, Modes

LEMMA ActiveType == RoutingOK /\ plan # None => ActiveSelection \in Routes
BY RouteForType, RouterAssumption DEF RoutingOK, ActiveSelection, RoleRoute

LEMMA ActiveTypeNext == (RoutingOK /\ plan # None => ActiveSelection \in Routes)'
BY ActiveType, PTL

(* The routes an adaptive request may use: one at least.                   *)
LEMMA AdaptiveChainType ==
  ASSUME RoutingOK, plan # None, NEW auxiliary \in BOOLEAN, NEW tools \in BOOLEAN
  PROVE  /\ AdaptiveChain(auxiliary, tools) \in Seq(Routes)
         /\ AdaptiveChain(auxiliary, tools) # <<>>
<1> DEFINE role == AdaptiveRole(auxiliary, tools)
           route == plan.roles[role]
<1>1. role # None => role \in Roles /\ plan.roles[role] # None
  BY DEF AdaptiveRole
<1>2. CASE role = None
  <2>1. ActiveSelection \in Routes
    BY ActiveType
  <2> QED BY <2>1, <1>2 DEF AdaptiveChain
<1>3. CASE role # None
  <2>1. route \in RoleRoute
    BY <1>1, <1>3, PlanFacts DEF RoutingOK, Optional
  <2>2. route.selection \in Routes /\ route.fallback \in Optional(Routes)
    BY <2>1 DEF RoleRoute
  <2>3. AdaptiveChain(auxiliary, tools) =
          IF route.fallback \in {None, route.selection}
          THEN <<route.selection>> ELSE <<route.selection, route.fallback>>
    BY <1>3 DEF AdaptiveChain
  <2> HIDE DEF role, route
  <2> QED BY <2>2, <2>3 DEF Optional
<1> QED BY <1>2, <1>3

-----------------------------------------------------------------------------
(* One call moves                                                          *)

LEMMA Stutter ==
  ASSUME RouterIInv, UNCHANGED routerVars
  PROVE  RouterIInv'
<1>1. \A role : RouteFor(role)' = RouteFor(role)
  BY DEF RouteFor, routerVars
<1>2. RouterTypeOK' /\ RoutesAreThere'
  BY DEF RouterIInv, RouterTypeOK, RoutesAreThere, Supports, routerVars
<1>3. ASSUME NEW c \in Calls
      PROVE  CallSafe(modelCalls[c])' /\ KeepsRoute(c, modelCalls[c])'
  <2>1. modelCalls' = modelCalls /\ disturbed' = disturbed
    BY DEF routerVars
  <2>2. CallSafe(modelCalls[c])'
    BY <2>1 DEF RouterIInv, CallSafe
  <2>3. KeepsRoute(c, modelCalls[c])'
    BY <2>1, <1>1 DEF RouterIInv, KeepsRoute, HeldCall, RoutesOf
  <2> QED BY <2>2, <2>3
<1>4. plan' = None => \A c \in Calls : modelCalls'[c] = NoCall
  BY DEF RouterIInv, routerVars
<1> QED BY <1>2, <1>3, <1>4 DEF RouterIInv

(* A call that moves, with the routes left alone, keeps the invariant when *)
(* its new state is safe and keeps its route.                              *)
LEMMA CallMoves ==
  ASSUME RouterIInv, plan # None, RoutesUnchanged,
         NEW c \in Calls, NEW call \in ModelCall,
         CallSafe(call), KeepsRoute(c, call), Update(c, call),
         \/ disturbed' = disturbed
         \/ disturbed' = disturbed \ {c} /\ ~HeldCall(call) /\ call.pc # "probing"
  PROVE  RouterIInv'
<1>1. RouterTypeOK'
  BY DEF RouterIInv, RouterTypeOK, RoutesUnchanged, Update
<1>2. RoutesAreThere'
  BY DEF RouterIInv, RoutesAreThere, RoutesUnchanged, Supports
<1>3. \A role : RouteFor(role)' = RouteFor(role)
  BY DEF RouteFor, RoutesUnchanged
<1>4. modelCalls'[c] = call /\ \A d \in Calls \ {c} : modelCalls'[d] = modelCalls[d]
  BY DEF RouterIInv, RouterTypeOK, Update
<1>5. ASSUME NEW d \in Calls
      PROVE  CallSafe(modelCalls[d])' /\ KeepsRoute(d, modelCalls[d])'
  <2>1. CASE d = c
    <3>1. CallSafe(modelCalls[d])'
      BY <1>4, <2>1 DEF CallSafe
    <3>2. KeepsRoute(d, modelCalls[d])'
      BY <1>3, <1>4, <2>1 DEF KeepsRoute, HeldCall, RoutesOf
    <3> QED BY <3>1, <3>2
  <2>2. CASE d # c
    <3>1. CallSafe(modelCalls[d])'
      BY <1>4, <2>2 DEF RouterIInv, CallSafe
    <3>2. KeepsRoute(d, modelCalls[d])'
      BY <1>3, <1>4, <2>2 DEF RouterIInv, KeepsRoute, HeldCall, RoutesOf
    <3> QED BY <3>1, <3>2
  <2> QED BY <2>1, <2>2
<1>6. plan' # None
  BY DEF RoutesUnchanged
<1> QED BY <1>1, <1>2, <1>5, <1>6 DEF RouterIInv

LEMMA NoCallType == NoCall \in ModelCall
<1>1. Default \in Roles
  BY RouterAssumption
<1>2. <<>> \in Seq(Routes)
  OBVIOUS
<1>3. Undeclared \in Capabilities
  BY DEF Undeclared, Capabilities
<1> QED BY <1>1, <1>2, <1>3 DEF ModelCall, MaxHeard, NoCall, Optional

(* How a call may end, and the records it has then.                        *)
Outcomes == {"completed", "error", "aborted", "threw", "refused", "abandoned"}
Recorded(call, recorded) == IF recorded THEN call.records + 1 ELSE call.records

(* A call that ends, whatever ended it.                                    *)
LEMMA CallEnds ==
  ASSUME RouterIInv, plan # None, RoutesUnchanged,
         NEW c \in Calls, NEW call \in ModelCall,
         \A r, s \in call.output : r = s, ~call.again => call.heard <= 1,
         NEW outcome \in {"none"} \cup Outcomes,
         NEW recorded \in BOOLEAN,
         Recorded(call, recorded) \in 0..1,
         call.kind # "adaptive" /\ outcome \notin {"refused", "abandoned"}
           => Recorded(call, recorded) = 1,
         Ended(c, call, outcome, recorded)
  PROVE  RouterIInv'
<1> DEFINE over == [NoCall EXCEPT
                      !.pc = "ended", !.kind = call.kind, !.output = call.output,
                      !.heard = call.heard, !.again = call.again, !.outcome = outcome,
                      !.records = Recorded(call, recorded)]
<1>1. over \in ModelCall
  <2> DEFINE n == Recorded(call, recorded)
  <2>1. n \in 0..2
    OBVIOUS
  <2>2. /\ call.kind \in {"routed", "adaptive", "external"} /\ call.output \in SUBSET Routes
        /\ call.heard \in 0..MaxHeard /\ call.again \in BOOLEAN
    BY DEF ModelCall
  <2> HIDE DEF n
  <2>3. [NoCall EXCEPT !.pc = "ended", !.kind = call.kind, !.output = call.output,
                       !.heard = call.heard, !.again = call.again,
                       !.outcome = outcome, !.records = n] \in ModelCall
    BY <2>1, <2>2, NoCallType DEF ModelCall, Outcomes
  <2> QED BY <2>3 DEF n
<1>2. /\ over.pc = "ended" /\ over.kind = call.kind /\ over.output = call.output
      /\ over.outcome = outcome /\ over.heard = call.heard /\ over.again = call.again
      /\ over.records = Recorded(call, recorded)
  BY DEF NoCall
<1>3. Update(c, over) /\ disturbed' = disturbed \ {c}
  BY DEF Ended, Recorded
<1> HIDE DEF over
<1>4. CallSafe(over) /\ KeepsRoute(c, over) /\ ~HeldCall(over) /\ over.pc # "probing"
  BY <1>2 DEF CallSafe, KeepsRoute, HeldCall, ModelCall
<1> QED BY <1>1, <1>3, <1>4, CallMoves

-----------------------------------------------------------------------------
(* Routes move                                                             *)

(* Routes may move when no call is held on them, or those that are were    *)
(* disturbed.                                                              *)
LEMMA RoutesMove ==
  ASSUME RouterIInv, RouterTypeOK', RoutesAreThere', plan' # None,
         UNCHANGED modelCalls,
         \A c \in Calls :
           (HeldCall(modelCalls[c]) \/ modelCalls[c].pc = "probing")
             /\ modelCalls[c].critical => c \in disturbed'
  PROVE  RouterIInv'
<1>1. ASSUME NEW c \in Calls
      PROVE  CallSafe(modelCalls[c])' /\ KeepsRoute(c, modelCalls[c])'
  <2>1. modelCalls'[c] = modelCalls[c]
    OBVIOUS
  <2>2. CallSafe(modelCalls[c])'
    BY <2>1 DEF RouterIInv, CallSafe
  <2>3. KeepsRoute(c, modelCalls[c])'
    BY <2>1 DEF KeepsRoute, HeldCall, RoutesOf
  <2> QED BY <2>2, <2>3
<1> QED BY <1>1 DEF RouterIInv

LEMMA MountSafe ==
  ASSUME RouterIInv, NEW p \in RawPlans, Mount(p)
  PROVE  RouterIInv'
<1>1. p \in Plan
  BY RouterAssumption
<1>2. mode' \in Modes /\ active' \in Optional(Routes)
  BY <1>1 DEF Mount, Plan
<1>3. p # None
  BY RouterAssumption
<1>4. RoutesAreThere'
  BY <1>3 DEF Mount, RoutesAreThere, UsablePlan, Supports
<1>5. RoutingOK' /\ plan' # None
  BY <1>2, <1>3, <1>4 DEF RoutingOK, Mount, RouterIInv, RouterTypeOK, Optional
<1>6. ActiveSelection' \in Routes
  BY <1>5, ActiveTypeNext
<1>7. RouterTypeOK'
  BY <1>5, <1>6 DEF RouterTypeOK, RoutingOK, RouterIInv, Mount, PublishDefault, Optional
<1>8. \A c \in Calls : ~HeldCall(modelCalls[c]) /\ modelCalls[c].pc # "probing"
  BY DEF RouterIInv, Mount, NoCall, HeldCall
<1> QED BY <1>4, <1>5, <1>7, <1>8, RoutesMove DEF Mount

LEMMA SetModeSafe ==
  ASSUME RouterIInv, NEW m \in Modes, SetMode(m)
  PROVE  RouterIInv'
<1>1. RouterTypeOK'
  BY DEF RouterIInv, RouterTypeOK, SetMode, HeldCalls, Resolving
<1>2. RoutesAreThere'
  BY DEF RouterIInv, RoutesAreThere, SetMode, Supports
<1>3. CASE m = mode
  <2>1. UNCHANGED routerVars
    BY <1>3 DEF SetMode, routerVars
  <2> QED BY <2>1, Stutter
<1>4. CASE m # mode
  <2>1. disturbed' = HeldCalls \cup Resolving
    BY <1>4 DEF SetMode
  <2> QED BY <1>1, <1>2, <2>1, RoutesMove
          DEF SetMode, Held, HeldCall, HeldCalls, Resolving
<1> QED BY <1>3, <1>4

LEMMA SwitchToSafe ==
  ASSUME RouterIInv, NEW route \in Routes, NEW role \in Roles, NEW force \in BOOLEAN,
         SwitchTo(route, role, force)
  PROVE  RouterIInv'
<1>1. active' \in Optional(Routes) /\ overrides' \in [Roles -> Optional(Routes)]
  BY DEF RouterIInv, RouterTypeOK, SwitchTo, Optional
<1>2. RoutesAreThere'
  BY RouterAssumption DEF RouterIInv, RoutesAreThere, SwitchTo, Supports
<1>3. RoutingOK' /\ plan' # None
  BY <1>1, <1>2 DEF RoutingOK, SwitchTo, RouterIInv, RouterTypeOK
<1>4. ActiveSelection' \in Routes
  BY <1>3, ActiveTypeNext
<1>5. saving' \in SUBSET Routes /\ disturbed' \in SUBSET Calls
  BY <1>4 DEF RouterIInv, RouterTypeOK, SwitchTo, PublishDefault, HeldCalls, Resolving
<1>6. RouterTypeOK'
  BY <1>1, <1>3, <1>5 DEF RoutingOK, RouterIInv, RouterTypeOK, SwitchTo
<1>7. \A c \in Calls :
        (HeldCall(modelCalls[c]) \/ modelCalls[c].pc = "probing")
          /\ modelCalls[c].critical => c \in disturbed'
  BY DEF SwitchTo, Held, HeldCall, HeldCalls, Resolving
<1> QED BY <1>2, <1>3, <1>6, <1>7, RoutesMove DEF SwitchTo

LEMMA PublishedSafe ==
  ASSUME RouterIInv, NEW selection \in Routes, Published(selection)
  PROVE  RouterIInv'
<1>1. \A role : RouteFor(role)' = RouteFor(role)
  BY DEF RouteFor, Published
<1>2. RouterTypeOK' /\ RoutesAreThere'
  BY DEF RouterIInv, RouterTypeOK, RoutesAreThere, Supports, Published, Optional
<1>3. ASSUME NEW c \in Calls
      PROVE  CallSafe(modelCalls[c])' /\ KeepsRoute(c, modelCalls[c])'
  <2>1. modelCalls' = modelCalls /\ disturbed' = disturbed
    BY DEF Published
  <2>2. CallSafe(modelCalls[c])'
    BY <2>1 DEF RouterIInv, CallSafe
  <2>3. KeepsRoute(c, modelCalls[c])'
    BY <2>1, <1>1 DEF RouterIInv, KeepsRoute, HeldCall, RoutesOf
  <2> QED BY <2>2, <2>3
<1>4. plan' = None => \A c \in Calls : modelCalls'[c] = NoCall
  BY DEF RouterIInv, Published
<1> QED BY <1>2, <1>3, <1>4 DEF RouterIInv

-----------------------------------------------------------------------------
(* Calls begin                                                             *)

LEMMA IsRouting == ASSUME RouterIInv PROVE RoutingOK
BY DEF RouterIInv, RoutingOK, RouterTypeOK

LEMMA CallType ==
  ASSUME RouterIInv, NEW c \in Calls
  PROVE  modelCalls[c] \in ModelCall /\ CallSafe(modelCalls[c])
BY DEF RouterIInv, RouterTypeOK

LEMMA StreamSafe ==
  ASSUME RouterIInv, NEW c \in Calls, NEW role \in Roles, NEW critical \in BOOLEAN,
         Stream(c, role, critical)
  PROVE  RouterIInv'
<1> DEFINE route == RouteFor(role)
           chain == IF route.fallback = None THEN <<route.selection>>
                    ELSE <<route.selection, route.fallback>>
           call == [NoCall EXCEPT !.pc = "probing", !.role = role,
                      !.critical = critical, !.declared = route.capabilities,
                      !.chain = chain]
<1>1. plan # None /\ RoutesUnchanged /\ disturbed' = disturbed /\ Update(c, call)
  BY DEF Stream
<1>2. route \in RoleRoute
  BY <1>1, IsRouting, RouteForType
<1>3. route.capabilities \in Capabilities /\ chain \in Seq(Routes) /\ chain # <<>>
  BY <1>2 DEF RoleRoute, Optional
<1>6. \A i \in 1..Len(chain) : chain[i] \in RoutesOf(role)
  BY DEF RoutesOf
<1> HIDE DEF route, chain
<1>4. call \in ModelCall
  BY <1>3, NoCallType DEF ModelCall
<1>7. /\ call.pc = "probing" /\ call.role = role /\ call.chain = chain
      /\ call.kind = "routed" /\ call.output = {} /\ call.records = 0
      /\ ~call.emitted /\ ~call.fell /\ ~call.again /\ call.heard = 0
  BY DEF NoCall
<1>5. CallSafe(call) /\ KeepsRoute(c, call)
  BY <1>3, <1>6, <1>7 DEF CallSafe, KeepsRoute, HeldCall
<1> HIDE DEF call
<1> QED BY <1>1, <1>4, <1>5, CallMoves

LEMMA StreamAdaptiveSafe ==
  ASSUME RouterIInv, NEW c \in Calls, NEW auxiliary \in BOOLEAN, NEW tools \in BOOLEAN,
         StreamAdaptive(c, auxiliary, tools)
  PROVE  RouterIInv'
<1> DEFINE chain == AdaptiveChain(auxiliary, tools)
           call == [NoCall EXCEPT !.pc = "streaming", !.kind = "adaptive",
                      !.route = Head(chain), !.chain = Tail(chain)]
<1>1. plan # None /\ RoutesUnchanged /\ disturbed' = disturbed /\ Update(c, call)
  BY DEF StreamAdaptive
<1>2. chain \in Seq(Routes) /\ chain # <<>>
  BY <1>1, IsRouting, AdaptiveChainType
<1> HIDE DEF chain
<1>3. Head(chain) \in Routes /\ Tail(chain) \in Seq(Routes)
  BY <1>2
<1>4. call \in ModelCall
  BY <1>3, NoCallType DEF ModelCall, Optional
<1>5. CallSafe(call) /\ KeepsRoute(c, call)
  BY <1>3, RouterAssumption DEF NoCall, CallSafe, KeepsRoute, HeldCall, RoutesOf
<1> HIDE DEF call
<1> QED BY <1>1, <1>4, <1>5, CallMoves

LEMMA StreamExternalSafe ==
  ASSUME RouterIInv, NEW c \in Calls, NEW route \in Routes, StreamExternal(c, route)
  PROVE  RouterIInv'
<1> DEFINE call == [NoCall EXCEPT !.pc = "streaming", !.kind = "external",
                      !.route = route]
<1>1. plan # None /\ RoutesUnchanged /\ disturbed' = disturbed /\ Update(c, call)
  BY DEF StreamExternal
<1>2. call \in ModelCall
  BY NoCallType DEF ModelCall, Optional
<1>3. CallSafe(call) /\ KeepsRoute(c, call)
  BY RouterAssumption DEF NoCall, CallSafe, KeepsRoute, HeldCall, RoutesOf
<1> HIDE DEF call
<1> QED BY <1>1, <1>2, <1>3, CallMoves

LEMMA ReuseSafe ==
  ASSUME RouterIInv, plan # None, NEW c \in Calls, Reuse(c)
  PROVE  RouterIInv'
<1>1. CallSafe(NoCall) /\ KeepsRoute(c, NoCall)
  BY DEF NoCall, CallSafe, KeepsRoute, HeldCall, RoutesOf
<1> QED BY <1>1, NoCallType, CallMoves DEF Reuse

-----------------------------------------------------------------------------
(* Calls run                                                               *)

LEMMA ProbedSafe ==
  ASSUME RouterIInv, plan # None, NEW c \in Calls, NEW disclosed \in Capabilities,
         Probed(c, disclosed)
  PROVE  RouterIInv'
<1> DEFINE call == modelCalls[c]
           left == Tail(call.chain)
           capable == Meets(call.declared, disclosed, plan.requirements[call.role])
           leased == [call EXCEPT
                        !.pc = "streaming", !.chain = <<>>,
                        !.route = Head(call.chain),
                        !.fallback = IF left = <<>> THEN None ELSE Head(left)]
           next == [call EXCEPT !.chain = left, !.declared = Undeclared]
           over == [call EXCEPT !.chain = <<>>]
<1>1. /\ call \in ModelCall /\ CallSafe(call) /\ call.pc = "probing" /\ RoutesUnchanged
      /\ KeepsRoute(c, call)
  BY CallType DEF Probed, RouterIInv
<1>2. /\ call.role \in Roles /\ call.chain \in Seq(Routes) /\ call.chain # <<>>
      /\ call.kind = "routed" /\ call.output = {} /\ call.records = 0
      /\ ~call.emitted /\ ~call.fell /\ ~call.again /\ call.heard = 0
  BY <1>1 DEF ModelCall, CallSafe
<1>3. Head(call.chain) \in Routes /\ left \in Seq(Routes)
  BY <1>2
<1>10. call.critical /\ c \notin disturbed =>
         /\ Head(call.chain) \in RoutesOf(call.role)
         /\ \A i \in 1..Len(left) : left[i] \in RoutesOf(call.role)
         /\ left # <<>> => Head(left) \in RoutesOf(call.role)
  <2> SUFFICES ASSUME call.critical, c \notin disturbed
               PROVE  /\ Head(call.chain) \in RoutesOf(call.role)
                      /\ \A i \in 1..Len(left) : left[i] \in RoutesOf(call.role)
                      /\ left # <<>> => Head(left) \in RoutesOf(call.role)
    OBVIOUS
  <2>1. \A i \in 1..Len(call.chain) : call.chain[i] \in RoutesOf(call.role)
    BY <1>1 DEF KeepsRoute
  <2>2. /\ Head(call.chain) = call.chain[1] /\ Len(call.chain) \in Nat \ {0}
        /\ Len(left) = Len(call.chain) - 1
        /\ \A i \in 1..Len(left) : left[i] = call.chain[i + 1]
    BY <1>2
  <2> HIDE DEF call
  <2>3. \A i \in 1..Len(left) : left[i] \in RoutesOf(call.role)
    BY <2>1, <2>2
  <2>4. left # <<>> => Head(left) = left[1] /\ Len(left) >= 1
    BY <1>3
  <2> QED BY <2>1, <2>2, <2>3, <2>4
<1>4. left # <<>> => Head(left) \in Routes
  BY <1>3
<1>6. \/ Update(c, leased) /\ disturbed' = disturbed
      \/ left # <<>> /\ Update(c, next) /\ disturbed' = disturbed
      \/ Ended(c, over, "refused", FALSE)
  BY DEF Probed
<1> HIDE DEF left
<1>7. CASE Update(c, leased) /\ disturbed' = disturbed
  <2>1. <<>> \in Seq(Routes)
    OBVIOUS
  <2>2. leased \in ModelCall
    BY <2>1, <1>1, <1>3, <1>4 DEF ModelCall, Optional
  <2>3. /\ leased.pc = "streaming" /\ leased.kind = "routed" /\ leased.output = {}
        /\ leased.records = 0 /\ ~leased.fell /\ leased.route = Head(call.chain)
        /\ leased.role = call.role /\ leased.critical = call.critical
        /\ leased.fallback = IF left = <<>> THEN None ELSE Head(left)
        /\ leased.heard = 0 /\ ~leased.again
    BY <1>1, <1>2 DEF ModelCall
  <2> HIDE DEF leased, call
  <2>4. CallSafe(leased)
    BY <2>3, <1>3, RouterAssumption DEF CallSafe
  <2>5. KeepsRoute(c, leased)
    BY <2>3, <1>10 DEF KeepsRoute, HeldCall
  <2> QED BY <2>2, <2>4, <2>5, <1>1, <1>7, CallMoves
<1>8. CASE left # <<>> /\ Update(c, next) /\ disturbed' = disturbed
  <2>1. Undeclared \in Capabilities
    BY DEF Undeclared, Capabilities
  <2>2. next \in ModelCall
    BY <2>1, <1>1, <1>3 DEF ModelCall
  <2>3. /\ next.pc = "probing" /\ next.kind = "routed" /\ next.output = {}
        /\ next.records = 0 /\ ~next.emitted /\ ~next.fell /\ next.chain = left
        /\ next.heard = 0 /\ ~next.again /\ next.role = call.role
        /\ next.critical = call.critical
    BY <1>1, <1>2 DEF ModelCall
  <2> HIDE DEF next, call
  <2>4. CallSafe(next) /\ KeepsRoute(c, next)
    BY <2>3, <1>8, <1>10 DEF CallSafe, KeepsRoute, HeldCall
  <2> QED BY <2>2, <2>4, <1>1, <1>8, CallMoves
<1>9. CASE Ended(c, over, "refused", FALSE)
  <2>1. <<>> \in Seq(Routes)
    OBVIOUS
  <2>2. over \in ModelCall /\ over.output = {} /\ over.records = 0 /\ over.heard = 0
    BY <2>1, <1>1, <1>2 DEF ModelCall
  <2> HIDE DEF over, call
  <2>3. Recorded(over, FALSE) \in 0..1
    BY <2>2 DEF Recorded
  <2>4. /\ (\A r, s \in over.output : r = s) /\ (~over.again => over.heard <= 1)
        /\ "refused" \in {"none"} \cup Outcomes
    BY <2>2 DEF Outcomes
  <2> QED BY <2>2, <2>3, <2>4, <1>1, <1>9, CallEnds, Zenon
<1> QED BY <1>6, <1>7, <1>8, <1>9

LEMMA OutputChunkSafe ==
  ASSUME RouterIInv, plan # None, NEW c \in Calls, OutputChunk(c)
  PROVE  RouterIInv'
<1> DEFINE call == modelCalls[c]
           heard == IF call.emitted \/ call.heard = MaxHeard THEN call.heard
                                                            ELSE call.heard + 1
           next == [call EXCEPT !.emitted = TRUE, !.output = @ \cup {call.route},
                                !.heard = heard]
<1>1. /\ call \in ModelCall /\ CallSafe(call) /\ KeepsRoute(c, call)
      /\ call.pc = "streaming" /\ RoutesUnchanged /\ Update(c, next)
      /\ disturbed' = disturbed
  BY CallType DEF OutputChunk, RouterIInv, Hears
<1>2. call.route \in Routes /\ call.output \subseteq {call.route} /\ call.records = 0
  BY <1>1 DEF CallSafe, ModelCall, Optional
<1>6. heard \in 0..MaxHeard /\ (~call.again => heard <= 1)
  BY <1>1 DEF CallSafe, ModelCall, MaxHeard
<1> HIDE DEF heard
<1>3. next \in ModelCall
  BY <1>1, <1>2, <1>6 DEF ModelCall
<1>4. /\ next.pc = "streaming" /\ next.kind = call.kind /\ next.records = 0
      /\ next.route = call.route /\ next.fell = call.fell
      /\ next.fallback = call.fallback /\ next.emitted
      /\ next.critical = call.critical /\ next.role = call.role
      /\ next.again = call.again /\ next.heard = heard
      /\ next.output = {call.route}
  BY <1>1, <1>2 DEF ModelCall
<1> HIDE DEF next, call
<1>5. CallSafe(next) /\ KeepsRoute(c, next)
  BY <1>1, <1>2, <1>4, <1>6, RouterAssumption DEF CallSafe, KeepsRoute, HeldCall, RoutesOf
<1> QED BY <1>1, <1>3, <1>5, CallMoves

(* The terminal chunk reaches the caller.                                  *)
LEMMA FinishedSafe ==
  ASSUME RouterIInv, plan # None, NEW c \in Calls, NEW outcome \in Outcomes,
         modelCalls[c].pc = "streaming", RoutesUnchanged, disturbed' = disturbed,
         Update(c, [Hears(modelCalls[c]) EXCEPT
                      !.pc = "finished", !.outcome = outcome,
                      !.records = IF modelCalls[c].kind = "routed" THEN @ + 1 ELSE @])
  PROVE  RouterIInv'
<1> DEFINE call == modelCalls[c]
           n == IF call.kind = "routed" THEN call.records + 1 ELSE call.records
           heard == IF call.emitted \/ call.heard = MaxHeard THEN call.heard
                                                            ELSE call.heard + 1
           next == [call EXCEPT !.emitted = TRUE, !.pc = "finished",
                      !.outcome = outcome, !.output = @ \cup {call.route},
                      !.heard = heard, !.records = n]
<1>1. call \in ModelCall /\ CallSafe(call) /\ KeepsRoute(c, call) /\ Update(c, next)
  BY CallType DEF RouterIInv, Hears, ModelCall
<1>2. call.route \in Routes /\ call.output \subseteq {call.route} /\ call.records = 0
  BY <1>1 DEF CallSafe, ModelCall, Optional
<1>3. n = IF call.kind = "routed" THEN 1 ELSE 0
  BY <1>2
<1>8. heard \in 0..MaxHeard /\ (~call.again => heard <= 1)
  BY <1>1 DEF CallSafe, ModelCall, MaxHeard
<1> HIDE DEF n, heard
<1>4. next \in ModelCall
  <2>1. n \in 0..2 /\ call.output \cup {call.route} \in SUBSET Routes
    BY <1>2, <1>3
  <2>2. outcome \in {"none"} \cup Outcomes
    OBVIOUS
  <2> QED BY <1>1, <1>8, <2>1, <2>2 DEF ModelCall, Outcomes
<1>5. /\ next.pc = "finished" /\ next.kind = call.kind /\ next.records = n
      /\ next.route = call.route /\ next.output = {call.route}
      /\ next.critical = call.critical /\ next.role = call.role
      /\ next.fallback = call.fallback /\ next.again = call.again
      /\ next.heard = heard
  BY <1>1, <1>2 DEF ModelCall
<1>6. call.pc = "streaming"
  OBVIOUS
<1> HIDE DEF next, call
<1>7. CallSafe(next) /\ KeepsRoute(c, next)
  BY <1>1, <1>2, <1>3, <1>5, <1>6, <1>8, RouterAssumption DEF CallSafe, KeepsRoute, HeldCall, RoutesOf
<1> QED BY <1>1, <1>4, <1>7, CallMoves

(* The call goes on with a route that is the only one its caller may have  *)
(* heard of.                                                               *)
LEMMA RedispatchSafe ==
  ASSUME RouterIInv, plan # None, NEW c \in Calls, NEW route \in Routes,
         NEW again \in BOOLEAN,
         modelCalls[c].pc = "streaming", RoutesUnchanged, disturbed' = disturbed,
         modelCalls[c].output \subseteq {route},
         modelCalls[c].kind = "routed" => modelCalls[c].fallback = route,
         modelCalls[c].kind # "routed" => modelCalls[c].output = {},
         ~again => modelCalls[c].heard = 0,
         Update(c, [Redispatch(modelCalls[c], route) EXCEPT !.again = again])
  PROVE  RouterIInv'
<1> DEFINE call == modelCalls[c]
           next == [Redispatch(call, route) EXCEPT !.again = again]
           chain == IF call.chain = <<>> THEN call.chain ELSE Tail(call.chain)
<1>1. call \in ModelCall /\ CallSafe(call) /\ KeepsRoute(c, call)
  BY CallType DEF RouterIInv
<1>2. chain \in Seq(Routes)
  BY <1>1 DEF ModelCall
<1>3. next = [call EXCEPT !.route = route, !.fell = TRUE, !.emitted = FALSE,
                          !.chain = chain, !.again = again]
  BY <1>1 DEF Redispatch, ModelCall
<1> HIDE DEF chain, next
<1>4. next \in ModelCall
  BY <1>1, <1>2, <1>3 DEF ModelCall, Optional
<1>5. /\ next.pc = call.pc /\ next.kind = call.kind /\ next.records = call.records
      /\ next.route = route /\ next.output = call.output /\ next.fell
      /\ next.fallback = call.fallback /\ next.critical = call.critical
      /\ next.role = call.role /\ next.again = again /\ next.heard = call.heard
  BY <1>1, <1>3 DEF ModelCall
<1>6. /\ call.pc = "streaming" /\ call.output \subseteq {route}
      /\ call.kind = "routed" => call.fallback = route
      /\ call.kind # "routed" => call.output = {}
      /\ ~again => call.heard = 0
      /\ Update(c, next)
  BY DEF next
<1> HIDE DEF call
<1>7. CallSafe(next)
  BY <1>1, <1>5, <1>6, RouterAssumption DEF CallSafe
<1>8. KeepsRoute(c, next)
  BY <1>1, <1>5, <1>6, RouterAssumption DEF KeepsRoute, HeldCall
<1> QED BY <1>1, <1>4, <1>6, <1>7, <1>8, CallMoves

LEMMA FinishErrorSafe ==
  ASSUME RouterIInv, plan # None, NEW c \in Calls, NEW eligible \in BOOLEAN,
         FinishError(c, eligible)
  PROVE  RouterIInv'
<1> DEFINE call == modelCalls[c]
           route == NextRoute(call)
<1>1. /\ call \in ModelCall /\ CallSafe(call) /\ call.pc = "streaming"
      /\ RoutesUnchanged /\ disturbed' = disturbed
  BY CallType DEF FinishError
<1>2. CASE MayFallBack(call, eligible)
  <2>1. route # None /\ ~call.emitted
    BY <1>2 DEF MayFallBack
  <2>4. /\ ~call.again => call.heard = 0
        /\ call.again \in BOOLEAN
        /\ Redispatch(call, route) = [Redispatch(call, route) EXCEPT !.again = call.again]
    BY <1>1, <2>1 DEF CallSafe, ModelCall, Redispatch
  <2>5. Update(c, [Redispatch(call, route) EXCEPT !.again = call.again])
    BY <1>2, <2>4 DEF FinishError
  <2>2. CASE call.kind = "routed"
    <3>1. ~call.fell /\ route = call.fallback
      BY <2>1, <2>2 DEF NextRoute
    <3>2. route \in Routes
      BY <1>1, <2>1, <3>1 DEF ModelCall, Optional
    <3>3. call.output = {}
      BY <1>1, <2>1, <3>1 DEF CallSafe
    <3> QED BY <1>1, <2>2, <2>4, <2>5, <3>1, <3>2, <3>3, RedispatchSafe
  <2>3. CASE call.kind # "routed"
    <3>1. route = Head(call.chain) /\ call.chain # <<>>
      BY <1>1, <2>1, <2>3 DEF NextRoute, ModelCall
    <3>2. route \in Routes
      BY <1>1, <3>1 DEF ModelCall
    <3>3. call.output = {}
      BY <1>1, <2>1, <2>3 DEF CallSafe
    <3> QED BY <1>1, <2>3, <2>4, <2>5, <3>2, <3>3, RedispatchSafe
  <2> QED BY <2>2, <2>3
<1>3. CASE ~MayFallBack(call, eligible)
  BY <1>1, <1>3, FinishedSafe DEF FinishError, Outcomes
<1> QED BY <1>2, <1>3

LEMMA EndSilentlySafe ==
  ASSUME RouterIInv, plan # None, NEW c \in Calls, EndSilently(c)
  PROVE  RouterIInv'
<1> DEFINE call == modelCalls[c]
<1>1. /\ call \in ModelCall /\ CallSafe(call) /\ call.pc = "streaming"
      /\ RoutesUnchanged
  BY CallType DEF EndSilently
<1>2. call.route \in Routes /\ call.output \subseteq {call.route} /\ call.records = 0
  BY <1>1 DEF CallSafe, ModelCall, Optional
<1>3. CASE call.kind = "routed" /\ call.fell
  <2>1. call.fallback = call.route
    BY <1>1, <1>3 DEF CallSafe
  <2> QED BY <1>1, <1>2, <1>3, <2>1, RedispatchSafe DEF EndSilently
<1>4. CASE ~(call.kind = "routed" /\ call.fell)
  <2> DEFINE recorded == call.kind # "adaptive"
  <2>1. Ended(c, call, "completed", recorded)
    BY <1>4 DEF EndSilently
  <2>2. Recorded(call, recorded) = IF recorded THEN 1 ELSE 0
    BY <1>2 DEF Recorded
  <2>3. (\A r, s \in call.output : r = s) /\ (~call.again => call.heard <= 1)
    BY <1>1, <1>2 DEF CallSafe
  <2>4. "completed" \in {"none"} \cup Outcomes /\ recorded \in BOOLEAN
    BY DEF Outcomes
  <2>5. /\ Recorded(call, recorded) \in 0..1
        /\ call.kind # "adaptive" => Recorded(call, recorded) = 1
    BY <2>2
  <2> HIDE DEF recorded, call
  <2> QED BY <1>1, <2>1, <2>3, <2>4, <2>5, CallEnds, Zenon
<1> QED BY <1>3, <1>4

-----------------------------------------------------------------------------
(* Calls end                                                               *)

(* What a caller who may still leave has received came from one route.     *)
LEMMA OutputOfOne ==
  ASSUME RouterIInv, NEW c \in Calls, modelCalls[c].pc \in {"streaming", "finished"}
  PROVE  /\ \A r, s \in modelCalls[c].output : r = s
         /\ ~modelCalls[c].again => modelCalls[c].heard <= 1
BY CallType DEF CallSafe

LEMMA ReturnSafe ==
  ASSUME RouterIInv, plan # None, NEW c \in Calls, Return(c)
  PROVE  RouterIInv'
<1> DEFINE call == modelCalls[c]
           recorded == call.kind = "external"
<1>1. /\ call \in ModelCall /\ CallSafe(call) /\ call.pc = "finished"
      /\ RoutesUnchanged /\ Ended(c, call, call.outcome, recorded)
  BY CallType DEF Return
<1>2. Recorded(call, recorded) =
        IF call.kind = "routed" \/ call.kind = "external" THEN 1 ELSE 0
  BY <1>1 DEF Recorded, CallSafe, ModelCall
<1>3. /\ Recorded(call, recorded) \in 0..1
      /\ call.kind # "adaptive" => Recorded(call, recorded) = 1
  BY <1>1, <1>2 DEF ModelCall
<1>4. (\A r, s \in call.output : r = s) /\ (~call.again => call.heard <= 1)
  BY <1>1, OutputOfOne
<1>5. call.outcome \in {"none"} \cup Outcomes
  BY <1>1 DEF ModelCall, Outcomes
<1>6. recorded \in BOOLEAN
  OBVIOUS
<1> HIDE DEF recorded, call
<1> QED BY <1>1, <1>3, <1>4, <1>5, <1>6, CallEnds, Zenon

LEMMA ThrowSafe ==
  ASSUME RouterIInv, plan # None, NEW c \in Calls, Throw(c)
  PROVE  RouterIInv'
<1> DEFINE call == modelCalls[c]
           recorded == call.kind # "adaptive"
<1>1. /\ call \in ModelCall /\ CallSafe(call) /\ RoutesUnchanged
      /\ call.pc = "streaming" \/ (call.pc = "finished" /\ call.kind = "external")
      /\ Ended(c, call, "threw", recorded)
  BY CallType DEF Throw
<1>2. call.records = 0
  BY <1>1 DEF CallSafe
<1>3. /\ Recorded(call, recorded) \in 0..1
      /\ call.kind # "adaptive" => Recorded(call, recorded) = 1
  BY <1>2 DEF Recorded
<1>4. (\A r, s \in call.output : r = s) /\ (~call.again => call.heard <= 1)
  BY <1>1, OutputOfOne
<1>5. "threw" \in {"none"} \cup Outcomes /\ recorded \in BOOLEAN
  BY DEF Outcomes
<1> HIDE DEF recorded, call
<1> QED BY <1>1, <1>3, <1>4, <1>5, CallEnds, Zenon

LEMMA AbandonSafe ==
  ASSUME RouterIInv, plan # None, NEW c \in Calls, Abandon(c)
  PROVE  RouterIInv'
<1> DEFINE call == modelCalls[c]
<1>1. /\ call \in ModelCall /\ CallSafe(call) /\ RoutesUnchanged
      /\ call.pc \in {"streaming", "finished"}
      /\ Ended(c, call, "abandoned", FALSE)
  BY CallType DEF Abandon
<1>2. call.records \in 0..1
  BY <1>1 DEF CallSafe
<1>3. Recorded(call, FALSE) \in 0..1
  BY <1>2 DEF Recorded
<1>4. (\A r, s \in call.output : r = s) /\ (~call.again => call.heard <= 1)
  BY <1>1, OutputOfOne
<1>5. "abandoned" \in {"none"} \cup Outcomes
  BY DEF Outcomes
<1> HIDE DEF call
<1> QED BY <1>1, <1>3, <1>4, <1>5, CallEnds, Zenon

-----------------------------------------------------------------------------
(* The specification                                                       *)

(* Nothing runs before the router is mounted.                              *)
LEMMA RunsMounted ==
  ASSUME RouterIInv, NEW c \in Calls, CallStep(c)
  PROVE  plan # None
<1> SUFFICES ASSUME plan = None PROVE FALSE
  OBVIOUS
<1>1. modelCalls[c] = NoCall
  BY DEF RouterIInv
<1> QED BY <1>1 DEF CallStep, NoCall, Probed, OutputChunk, FinishError, Finish,
             Return, EndSilently, Throw, Abandon, Reuse

THEOREM RouterInvariance == RouterSpec => []RouterIInv
<1>1. RouterInit => RouterIInv
  <2> SUFFICES ASSUME RouterInit PROVE RouterIInv
    OBVIOUS
  <2>1. RouterTypeOK
    BY NoCallType DEF RouterInit, RouterTypeOK, Optional, Modes
  <2>2. ASSUME NEW c \in Calls
        PROVE  /\ CallSafe(modelCalls[c]) /\ KeepsRoute(c, modelCalls[c])
               /\ modelCalls[c] = NoCall
    BY DEF RouterInit, NoCall, CallSafe, KeepsRoute, HeldCall, RoutesOf
  <2> QED BY <2>1, <2>2 DEF RouterIInv, RouterInit, RoutesAreThere
<1>2. RouterIInv /\ [RouterNext]_routerVars => RouterIInv'
  <2> SUFFICES ASSUME RouterIInv, [RouterNext]_routerVars PROVE RouterIInv'
    OBVIOUS
  <2>1. ASSUME NEW p \in RawPlans, Mount(p) PROVE RouterIInv'
    BY <2>1, MountSafe
  <2>2. ASSUME NEW m \in Modes, SetMode(m) PROVE RouterIInv'
    BY <2>2, SetModeSafe
  <2>3. ASSUME NEW route \in Routes, NEW role \in Roles, NEW force \in BOOLEAN,
               SwitchTo(route, role, force)
        PROVE  RouterIInv'
    BY <2>3, SwitchToSafe
  <2>7. ASSUME NEW selection \in Routes, Published(selection) PROVE RouterIInv'
    BY <2>7, PublishedSafe
  <2>4. ASSUME NEW c \in Calls, StartCall(c) PROVE RouterIInv'
    BY <2>4, StreamSafe, StreamAdaptiveSafe, StreamExternalSafe DEF StartCall
  <2>5. ASSUME NEW c \in Calls, CallStep(c) PROVE RouterIInv'
    <3>1. plan # None
      BY <2>5, RunsMounted
    <3>2. ASSUME NEW disclosed \in Capabilities, Probed(c, disclosed) PROVE RouterIInv'
      BY <3>1, <3>2, ProbedSafe
    <3>3. ASSUME NEW eligible \in BOOLEAN, FinishError(c, eligible) PROVE RouterIInv'
      BY <3>1, <3>3, FinishErrorSafe
    <3>4. ASSUME NEW outcome \in {"completed", "aborted"}, Finish(c, outcome)
          PROVE  RouterIInv'
      BY <3>1, <3>4, FinishedSafe DEF Finish, Outcomes
    <3> QED BY <2>5, <3>1, <3>2, <3>3, <3>4, OutputChunkSafe, ReturnSafe,
               EndSilentlySafe, ThrowSafe, AbandonSafe, ReuseSafe DEF CallStep
  <2>6. CASE UNCHANGED routerVars
    BY <2>6, Stutter
  <2> QED BY <2>1, <2>2, <2>3, <2>4, <2>5, <2>6, <2>7 DEF RouterNext
<1> QED BY <1>1, <1>2, PTL DEF RouterSpec

(* Type correctness: whatever is switched, fails or leaves, a call always  *)
(* has a route of the plan's vocabulary.                                   *)
THEOREM RouterTypeCorrectness == RouterSpec => []RouterTypeOK
<1>1. RouterIInv => RouterTypeOK
  BY DEF RouterIInv
<1> QED BY <1>1, RouterInvariance, PTL

(* What a caller receives in one call comes from one route, and from one   *)
(* attempt unless a fallback ended without a terminal chunk; a routed or   *)
(* observed call that was neither refused nor left by its caller ends with *)
(* one record (_dispatch(), observe()).                                    *)
THEOREM EveryCallServedOnce == RouterSpec => []ServedOnce
<1>1. RouterIInv => ServedOnce
  <2> SUFFICES ASSUME RouterIInv, NEW c \in Calls
               PROVE  /\ \A r, s \in modelCalls[c].output : r = s
                      /\ modelCalls[c].again \/ modelCalls[c].heard <= 1
                      /\ /\ modelCalls[c].pc = "ended"
                         /\ modelCalls[c].kind # "adaptive"
                         /\ modelCalls[c].outcome \notin {"refused", "abandoned"}
                         => modelCalls[c].records = 1
    BY DEF ServedOnce, OneRouteServes, OneAttemptServes, OneRecordPerCall
  <2> QED BY CallType DEF CallSafe, ModelCall
<1> QED BY <1>1, RouterInvariance, PTL

(* A critical call runs on a route its role has now, its primary or its    *)
(* fallback, unless a switch was forced, the mode changed, or a switch met *)
(* it while it was being resolved (lease(), switchTo()).                   *)
THEOREM CriticalRouteKept == RouterSpec => []CriticalKeepsRoute
<1>1. RouterIInv => CriticalKeepsRoute
  BY DEF RouterIInv, CriticalKeepsRoute, KeepsRoute, HeldCall, Held, RoutesOf
<1> QED BY <1>1, RouterInvariance, PTL
=============================================================================
