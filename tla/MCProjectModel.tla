--------------------------- MODULE MCProjectModel ---------------------------
(* Small instances of ProjectModel for TLC.                                *)
EXTENDS ProjectModel

CONSTANTS p1, p2, s1, t1, o1, boot, r1

VARIABLE scope  \* what a behaviour of ScopedSpec exercises

scopedVars == <<scope, vars>>

(* Every session of the instance runs in the first project's directory.    *)
MCCwd == [s \in Sessions |-> p1]

(* The page never forces: its endpoint declares no such parameter.          *)
MCForce == {FALSE}

(* A launch without NEWPI_WORKSPACE: it opens the project the registry     *)
(* names, if any.                                                          *)
StoredLaunch == Init /\ calls[BootCall].id = current

StoredLaunchSpec ==
  /\ StoredLaunch /\ scope = "all"
  /\ [][Next /\ UNCHANGED scope]_scopedVars

(* A page alone, whose busy flag lets one request be in flight.            *)
PageNext == OpenStep(BootCall) \/ RequestStep(BootCall)

(* The same page beside a Git action and session events.                   *)
BesideNext ==
  \/ PageNext
  \/ \E o \in Operations : OperationStep(o)
  \/ \E s \in Sessions : SessionStep(s)
  \/ \E e \in events : HandleEvent(e)

(* Two clients (two windows, or a page and a plugin) with a request each   *)
(* in flight, and nothing beside them.                                     *)
ClientsNext == \E r \in Requests : OpenStep(r) \/ RequestStep(r)

(* Only the page alone stores an interface state.                          *)
NoTabs == \A p \in Projects : Known(p) => projects[p].uiState = None

ScopedInit ==
  /\ Init
  /\ scope \in {"page", "beside", "clients"}
  /\ scope = "clients" => calls[BootCall].id = current

ScopedNext ==
  /\ scope' = scope
  /\ CASE scope = "page" -> PageNext
       [] scope = "beside" -> BesideNext /\ NoTabs'
       [] scope = "clients" -> ClientsNext /\ NoTabs'

ScopedSpec == ScopedInit /\ [][ScopedNext]_scopedVars
=============================================================================
