---------------------------- MODULE ProjectsPage ----------------------------
(***************************************************************************)
(* The page of the projects (plugins/projects-console/ui.js): one panel    *)
(* over the Project Model's endpoint.  A click sends a call and the panel  *)
(* goes on taking clicks; each answer is rendered when it arrives, over    *)
(* whatever the panel shows by then.  A Git zone lives inside the card of  *)
(* the open project, and its calls outlive the card.                       *)
(***************************************************************************)
EXTENDS Naturals, FiniteSets, Absent

CONSTANTS
  Projects,      \* the projects there are
  Launched,      \* the one the launch works in, None without one
  PageCalls,     \* bound: the calls in flight, one slot each
  MaxCards       \* bound: the cards drawn before the page is loaded again

ASSUME ProjectsPageAssumption == Launched \in Optional(Projects) /\ MaxCards \in Nat

VARIABLES
  panel,     \* the page's `state', and what its body shows
  pageCalls, \* the calls in flight
  registry   \* what the Project Model answers from

projectsPageVars == <<panel, pageCalls, registry>>

Targets == [project : Projects, named : BOOLEAN]  \* named: it carries an id
Screens ==
  {"none", "waiting", "panel", "message", "capability", "blocked", "confirm",
   "switched", "forget", "leaving"}
GitActionNames == {"commit", "push", "fetch", "pull"}
Guarding ==  \* the calls made under the busy flag
  {"refresh", "choose", "operations", "create", "open", "capability", "forget"}

NoZone == [kind |-> "none", status |-> None, pull |-> FALSE]
ZoneOf(kind, status) == [NoZone EXCEPT !.kind = kind, !.status = status]

NoPageCall ==
  [action |-> "none", target |-> None, card |-> 0,
   status |-> None, read |-> {}, answer |-> None]
PageCall(action, target) ==
  [NoPageCall EXCEPT !.action = action, !.target = target]

FreeSlots(cs) == {s \in PageCalls : cs[s] = NoPageCall}
Send(cs, c) == [cs EXCEPT ![CHOOSE s \in FreeSlots(cs) : TRUE] = c]

-----------------------------------------------------------------------------
(* What the body shows.  Drawing it anew takes the Git zone out of it.     *)

Screen(p, kind, target) ==
  [p EXCEPT !.screen = kind, !.target = target, !.zone = NoZone]

Working(p) == [Screen(p, "waiting", None) EXCEPT !.busy = TRUE]
Freed(p) == [p EXCEPT !.busy = FALSE]

(* A failure is shown with a way back, and the flag is down.               *)
FailureShownBusy(p) == Screen(p, "message", None)
FailureShown(p) == Screen(Freed(p), "message", None)

(* renderAll(): the card of the current project reads its Git state, under *)
(* a token of its own (loadGit).                                           *)
RenderAll(p, cs, data) ==
  IF data.current = None
  THEN /\ panel' = [Screen(p, "panel", None) EXCEPT !.data = data]
       /\ pageCalls' = cs
  ELSE /\ p.token < MaxCards
       /\ FreeSlots(cs) # {}
       /\ panel' = [Screen(p, "panel", None) EXCEPT !.data = data,
                      !.token = @ + 1, !.zone = ZoneOf("reading", None)]
       /\ pageCalls' = Send(cs, [PageCall("status", None) EXCEPT !.card = p.token + 1])

(* A call the busy flag guards: nothing is sent while another is awaited.  *)
AskModel(p, cs, c) ==
  IF p.busy
  THEN panel' = p /\ pageCalls' = cs
  ELSE /\ FreeSlots(cs) # {}
       /\ panel' = Working(p)
       /\ pageCalls' = Send(cs, c)

RefreshPage(p, cs) == AskModel(p, cs, PageCall("refresh", None))

(* openTarget() sets the flag without having looked at it.                 *)
OpenTarget(p, cs, target) ==
  /\ FreeSlots(cs) # {}
  /\ panel' = Working(p)
  /\ pageCalls' = Send(cs, PageCall("operations", target))

(* renderConfirm(): a project without an id is never taken for the open    *)
(* one.                                                                    *)
RenderConfirm(p, target) ==
  IF p.data # None /\ target.named /\ p.data.current = target.project
  THEN Screen(p, "message", None)
  ELSE Screen(p, "confirm", target)

RenderBlocked(p, target) == Screen(p, "blocked", target)

(* The project that was opened is shown, and what was read is forgotten.   *)
RenderAfterSwitch(p, target) ==
  Screen([p EXCEPT !.data = None], "switched", [target EXCEPT !.named = TRUE])

-----------------------------------------------------------------------------
(* Clicks                                                                  *)

Shows(kind) == panel.shown /\ panel.screen = kind

(* The panel opens on what it last read, whatever is in flight.            *)
OpenProjects ==
  /\ ~panel.shown
  /\ LET p == [panel EXCEPT !.shown = TRUE]
     IN IF p.data # None THEN RenderAll(p, pageCalls, p.data)
        ELSE RefreshPage(p, pageCalls)
  /\ UNCHANGED registry

CloseProjects ==
  /\ panel.shown
  /\ panel' = [panel EXCEPT !.shown = FALSE]
  /\ UNCHANGED <<pageCalls, registry>>

(* Retour, Annuler and Actualiser read the projects again.                 *)
ClickRefresh ==
  /\ panel.shown /\ panel.screen \notin {"none", "waiting", "leaving"}
  /\ RefreshPage(panel, pageCalls)
  /\ UNCHANGED registry

ClickPicker ==
  /\ Shows("panel")
  /\ AskModel(panel, pageCalls, PageCall("choose", None))
  /\ UNCHANGED registry

(* A recent project other than the open one; `Vérifier à nouveau'.         *)
ClickTarget ==
  /\ \/ /\ Shows("panel")
        /\ \E p \in panel.data.recent \ {panel.data.current} :
             OpenTarget(panel, pageCalls, [project |-> p, named |-> TRUE])
     \/ Shows("blocked") /\ OpenTarget(panel, pageCalls, panel.target)
  /\ UNCHANGED registry

ApplySwitch ==
  /\ Shows("confirm")
  /\ AskModel(panel, pageCalls,
       PageCall(IF panel.target.named THEN "open" ELSE "create", panel.target))
  /\ UNCHANGED registry

(* The project whose card is drawn, with the control of its capability and *)
(* the restart it may need.                                                *)
CardOf(p) ==
  CASE p.screen = "panel" -> p.data.current
    [] p.screen = "switched" -> p.target.project
    [] OTHER -> None

(* One capability of the project shown is granted or withdrawn.            *)
OpenCapabilityConfirm ==
  /\ panel.shown /\ CardOf(panel) # None
  /\ panel' = Screen(panel, "capability",
                     [project |-> CardOf(panel), named |-> TRUE])
  /\ UNCHANGED <<pageCalls, registry>>

(* What is sent names the capability and the decision, not the project.    *)
ApplyCapability ==
  /\ Shows("capability")
  /\ AskModel(panel, pageCalls, PageCall("capability", None))
  /\ UNCHANGED registry

ConfirmForget ==
  /\ Shows("panel")
  /\ \E p \in panel.data.recent \ {panel.data.current} :
       panel' = Screen(panel, "forget", [project |-> p, named |-> TRUE])
  /\ UNCHANGED <<pageCalls, registry>>

RunForget ==
  /\ Shows("forget")
  /\ AskModel(panel, pageCalls, PageCall("forget", panel.target))
  /\ UNCHANGED registry

(* A project the launch does not work in is offered a restart.             *)
RestartOffered == panel.shown /\ CardOf(panel) \notin {None, Launched}

(* The restart is asked for without the flag.                              *)
RunRestart ==
  /\ RestartOffered
  /\ FreeSlots(pageCalls) # {}
  /\ panel' = Screen(panel, "waiting", None)
  /\ pageCalls' = Send(pageCalls, PageCall("restart", None))
  /\ UNCHANGED registry

-----------------------------------------------------------------------------
(* The Git zone: its views are drawn in the box, and a view keeps the      *)
(* status it was drawn from.  Of a status only the project is kept: the    *)
(* buttons its files, its commits or its network reach would disable are   *)
(* offered.  What is typed in the views, and kept as the draft, is left    *)
(* out.                                                                    *)

InZone(kind) == Shows("panel") /\ panel.zone.kind = kind

OpenGitView(kind) ==
  /\ InZone("status")
  /\ panel' = [panel EXCEPT !.zone = ZoneOf(kind, panel.zone.status)]
  /\ UNCHANGED <<pageCalls, registry>>

LeaveGitView ==
  /\ InZone("commit") \/ InZone("push")
  /\ panel' = [panel EXCEPT !.zone = ZoneOf("status", @.status)]
  /\ UNCHANGED <<pageCalls, registry>>

RunGit(action) ==
  /\ CASE action = "commit" -> InZone("commit")
       [] action = "push" -> InZone("push")
       [] action = "fetch" -> InZone("status")
       [] action = "pull" -> InZone("status") /\ panel.zone.pull
  /\ FreeSlots(pageCalls) # {}
  /\ panel' = [panel EXCEPT !.zone = ZoneOf("working", None)]
  /\ pageCalls' = Send(pageCalls,
       [PageCall(action, None) EXCEPT !.card = panel.token,
          !.status = IF action = "commit" THEN panel.zone.status ELSE None])
  /\ UNCHANGED registry

(* Drawn only if the box the call was made from is still in the page.      *)
Draw(p, card, zone) ==
  IF p.zone.kind # "none" /\ card = p.token THEN [p EXCEPT !.zone = zone] ELSE p

GitAnswered(c, ok, pull) ==
  LET status == IF ok THEN c.answer ELSE IF c.action = "commit" THEN c.status
                ELSE panel.gitStatus
      zone == IF status = None THEN ZoneOf("failed", None)
              ELSE IF ~ok /\ c.action = "commit" THEN ZoneOf("commit", status)
              ELSE [ZoneOf("status", status) EXCEPT
                      !.pull = ok /\ c.action = "fetch" /\ pull]
  IN Draw([panel EXCEPT !.gitStatus = status], c.card, zone)

(* loadGit() listens to the last card's answer only.                       *)
StatusAnswered(c, ok) ==
  IF c.card # panel.token THEN panel
  ELSE Draw([panel EXCEPT !.gitStatus = IF ok THEN c.answer ELSE None], c.card,
            IF ok THEN ZoneOf("status", c.answer) ELSE ZoneOf("failed", None))

-----------------------------------------------------------------------------
(* The Project Model answers from the project that is current by then.     *)

ReadPart(s, part) ==
  /\ pageCalls[s].action = "refresh"
  /\ part \notin pageCalls[s].read
  /\ pageCalls' = [pageCalls EXCEPT ![s].read = @ \cup {part},
       ![s].answer = [current |-> IF part = "current" THEN registry.current
                                  ELSE IF @ = None THEN None ELSE @.current,
                      recent |-> IF part = "recent" THEN registry.recent
                                 ELSE IF @ = None THEN {} ELSE @.recent]]
  /\ UNCHANGED <<panel, registry>>

(* What the action returns, and what it changes of the projects there are  *)
(* and of the one that is open; what a capability allows is left out.      *)
Answers(c) ==
  CASE c.action = "choose" -> {"cancelled"} \cup Projects
    [] c.action = "operations" -> {"idle", "busy"}
    [] c.action \in GitActionNames \cup {"status"} ->
         {registry.current} \ {None}
    [] OTHER -> {"done"}
Changes(c) ==
  CASE c.action \in {"create", "open"} ->
         [registry EXCEPT !.recent = @ \cup {c.target.project},
            !.current = IF c.action = "open" THEN c.target.project ELSE @]
    [] c.action = "forget" ->
         [current |-> IF registry.current = c.target.project THEN None
                      ELSE registry.current,
          recent |-> registry.recent \ {c.target.project}]
    [] OTHER -> registry

Serve(s) ==
  /\ pageCalls[s] # NoPageCall
  /\ pageCalls[s].action # "refresh"
  /\ pageCalls[s].answer = None
  /\ pageCalls[s].action = "open" => pageCalls[s].target.project \in registry.recent
  /\ pageCalls[s].action = "capability" => registry.current # None
  /\ \E value \in Answers(pageCalls[s]) :
       pageCalls' = [pageCalls EXCEPT ![s].answer = value]
  /\ registry' = Changes(pageCalls[s])
  /\ UNCHANGED panel

(* The page's handler gets the value, or a failure: the model refused, or  *)
(* the answer was lost, before or after the change.  A refresh needs both  *)
(* of its reads, and fails with the first.                                 *)
Arrived(s, ok) ==
  LET c == pageCalls[s] IN
  IF ok THEN /\ c.answer # None
             /\ c.action = "refresh" => c.read = {"current", "recent"}
  ELSE c # NoPageCall

Handled(s, ok, pull) ==
  LET c == pageCalls[s]
      cs == [pageCalls EXCEPT ![s] = NoPageCall]
      freed == Freed(panel)
      end(p) == panel' = p /\ pageCalls' = cs
  IN CASE c.action \in GitActionNames -> end(GitAnswered(c, ok, pull))
       [] c.action = "status" -> end(StatusAnswered(c, ok))
       [] c.action = "restart" ->
            end(Screen(panel, IF ok THEN "leaving" ELSE "message", None))
       [] c.action \in Guarding /\ ~ok ->
            end(FailureShown(panel))
       [] c.action = "refresh" /\ ok -> RenderAll(freed, cs, c.answer)
       [] c.action \in {"capability", "forget"} /\ ok ->
            RefreshPage([freed EXCEPT !.data = None], cs)
       [] c.action = "choose" /\ ok ->
            IF c.answer = "cancelled" THEN end(Screen(freed, "message", None))
            ELSE OpenTarget(freed, cs, [project |-> c.answer, named |-> FALSE])
       [] c.action = "operations" /\ ok ->
            end(IF c.answer = "busy" THEN RenderBlocked(freed, c.target)
                ELSE RenderConfirm(freed, c.target))
       [] c.action = "create" /\ ok ->
            panel' = panel /\ pageCalls' = Send(cs, PageCall("open", c.target))
       [] c.action = "open" /\ ok ->
            end(RenderAfterSwitch(freed, c.target))

Deliver(s) ==
  /\ \E ok, pull \in BOOLEAN :
       /\ pull => ok /\ pageCalls[s].action = "fetch"
       /\ Arrived(s, ok)
       /\ Handled(s, ok, pull)
  /\ UNCHANGED registry

NoPanel ==
  [shown |-> FALSE, busy |-> FALSE, data |-> None, screen |-> "none",
   target |-> None, zone |-> NoZone, gitStatus |-> None, token |-> 0]

(* The page is loaded again, by the user or by a restart of the harness.   *)
ReloadProjects ==
  /\ panel.token = MaxCards \/ \E s \in PageCalls : pageCalls[s].action = "restart"
  /\ panel' = NoPanel
  /\ pageCalls' = [s \in PageCalls |-> NoPageCall]
  /\ UNCHANGED registry

-----------------------------------------------------------------------------

ProjectsInit ==
  /\ panel = NoPanel
  /\ pageCalls = [s \in PageCalls |-> NoPageCall]
  /\ registry \in {[current |-> c, recent |-> Projects] :
                     c \in {None, Launched}}

ProjectsNext ==
  \/ OpenProjects \/ CloseProjects \/ ReloadProjects
  \/ ClickRefresh \/ ClickPicker \/ ClickTarget \/ ApplySwitch
  \/ OpenCapabilityConfirm \/ ApplyCapability
  \/ ConfirmForget \/ RunForget \/ RunRestart
  \/ \E kind \in {"commit", "push"} : OpenGitView(kind)
  \/ LeaveGitView
  \/ \E action \in GitActionNames : RunGit(action)
  \/ \E s \in PageCalls :
       \/ \E part \in {"current", "recent"} : ReadPart(s, part)
       \/ Serve(s) \/ Deliver(s)

ProjectsSpec == ProjectsInit /\ [][ProjectsNext]_projectsPageVars

(* Type invariant: what the panel remembers and the calls in flight.       *)
ProjectsTypeOK ==
  /\ panel \in [shown : BOOLEAN, busy : BOOLEAN, screen : Screens,
                data : Optional([current : Optional(Projects),
                                 recent : SUBSET Projects]),
                target : Optional(Targets), token : 0..MaxCards,
                zone : [kind : {"none", "reading", "status", "failed", "commit",
                                "push", "working"},
                        status : Optional(Projects), pull : BOOLEAN],
                gitStatus : Optional(Projects)]
  /\ \A s \in PageCalls :
       /\ pageCalls[s].target \in Optional(Targets)
       /\ pageCalls[s].status \in Optional(Projects)
       /\ pageCalls[s].card \in 0..MaxCards
  /\ registry \in [current : Optional(Projects), recent : SUBSET Projects]

(* The page is never stuck: while its flag refuses clicks, or its body     *)
(* offers none, a call is in flight whose answer, or failure, ends that.   *)
ProjectsAnswer ==
  LET pending(actions) == \E s \in PageCalls : pageCalls[s].action \in actions
  IN /\ panel.busy => pending(Guarding)
     /\ panel.screen = "waiting" => pending(Guarding \cup {"restart"})
=============================================================================
