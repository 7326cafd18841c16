---------------------------- MODULE MCServices ------------------------------
(***************************************************************************)
(* Small instances of the plugins that share no state with one another:    *)
(* a behaviour exercises one of them, and the others stay as they started. *)
(***************************************************************************)
EXTENDS ModelRouter, TerminalConsole, TreeScan, StorageConsole, GitActions,
        ContextCache, ProjectsPage, MemoryPage, TLC

CONSTANTS ra, rb, default_, coding, vision, c1, k1, d0, d1, d2, d3, n1, n2, i1,
          q1, q2, b1, b2, f1, a1, s1, p1, t1, o1, j1, w1, w2, m1

VARIABLE service  \* the plugin this behaviour exercises

Services == {"router", "terminal", "scan", "storage", "git", "context", "projects",
             "memory"}

Others(name) ==
  /\ service = name
  /\ service' = service
  /\ name # "router" => UNCHANGED routerVars
  /\ name # "terminal" => UNCHANGED terminalVars
  /\ name # "scan" => UNCHANGED treeScanVars
  /\ name # "storage" => UNCHANGED storageVars
  /\ name # "git" => UNCHANGED gitVars
  /\ name # "context" => UNCHANGED contextVars
  /\ name # "projects" => UNCHANGED projectsPageVars
  /\ name # "memory" => UNCHANGED memoryPageVars

ServicesInit ==
  /\ service \in Services
  /\ RouterInit
  /\ TerminalInit
  /\ TreeScanInit
  /\ StorageInit
  /\ GitInit
  /\ ContextInit
  /\ ProjectsInit
  /\ MemoryPageInit
  /\ service # "memory" => ~projectless

ServicesNext ==
  \/ Others("router") /\ RouterNext
  \/ Others("terminal") /\ TerminalNext
  \/ Others("scan") /\ TreeScanNext
  \/ Others("storage") /\ StorageNext
  \/ Others("git") /\ GitNext
  \/ Others("context") /\ ContextNext
  \/ Others("projects") /\ ProjectsNext
  \/ Others("memory") /\ MemoryPageNext

servicesVars ==
  <<service, routerVars, terminalVars, treeScanVars, storageVars, gitVars,
    contextVars, projectsPageVars, memoryPageVars>>

ServicesSpec == ServicesInit /\ [][ServicesNext]_servicesVars

(* The plugin a behaviour exercises is well typed in every state: what it  *)
(* carries across its awaits and its yields stays within the type.         *)
TypesOK ==
  CASE service = "router" -> RouterTypeOK
    [] service = "terminal" -> TerminalTypeOK
    [] service = "scan" -> TreeScanTypeOK
    [] service = "storage" -> StorageTypeOK
    [] service = "git" -> GitTypeOK
    [] service = "context" -> ContextTypeOK
    [] service = "projects" -> ProjectsTypeOK
    [] service = "memory" -> MemoryPageTypeOK

(* None of the three pages waits for nothing: a flag that refuses clicks,  *)
(* or a body emptied for a call, lasts only while a call whose answer, or  *)
(* failure, ends it is in flight, and what a way back shows is there.      *)
PagesAnswer == StorageAnswers /\ ProjectsAnswer /\ MemoryAnswers

-----------------------------------------------------------------------------
(* The router's plans: every mode, a capability that a route lacks, and a  *)
(* plan whose route and fallback are one, which is refused.                *)
NoRoute == [r \in Roles |-> None]
Needs == [r \in Roles |-> IF r = coding THEN {vision} ELSE {}]
Offers(selection, fallback, level) ==
  [selection |-> selection, fallback |-> fallback,
   capabilities |-> [k \in Keys |-> level]]
MCPlans ==
  {[mode |-> "auto", manual |-> None, active |-> ra,
    roles |-> [r \in Roles |-> CASE r = default_ -> Offers(ra, rb, "unknown")
                                 [] r = coding -> Offers(rb, ra, "no")
                                 [] OTHER -> None],
    requirements |-> Needs],
   [mode |-> "switch", manual |-> rb, active |-> ra, roles |-> NoRoute,
    requirements |-> Needs],
   [mode |-> "auto", manual |-> rb, active |-> None,
    roles |-> [r \in Roles |-> Offers(ra, ra, "yes")], requirements |-> Needs]}

(* A tree of two directories under the top, one of them with a child, and  *)
(* one inode with two names in different directories.                      *)
MCParent == [d \in {d1, d2, d3} |-> IF d = d3 THEN d1 ELSE d0]
MCWithin == [n \in {n1, n2} |-> IF n = n1 THEN d2 ELSE d3]
MCInode == [n \in {n1, n2} |-> i1]

(* A launch whose workspace is the user's home: the project's targets and  *)
(* the toolchain's lie side by side.                                       *)
Home == <<"Users", "u">>
State == Home \o <<"Library", "Application Support", "io.newpi.desktop">>
MCLaunches ==
  {[home |-> Home, workspace |-> Home, state |-> State,
    dshHome |-> Home \o <<".dsh">>, data |-> State \o <<"pb_data">>,
    snapshots |-> State \o <<"pb_data", "backups">>,
    backups |-> State \o <<"backups">>]}

(* A repository with a branch that follows its remote and one that does    *)
(* not, and a directory inside another repository.                         *)
Repository(shape, followed) ==
  [shape |-> shape, branch |-> b1, followed |-> followed, remotes |-> 1]
MCLayouts ==
  {Repository("repository", {b1}), Repository("outer", {})}

(* A prompt without and with a project layer, a request without system     *)
(* messages and one with two, the first of which says nothing.             *)
MCAssemblies ==
  {[sections |-> <<p1>>, contexts |-> <<>>],
   [sections |-> <<p1>>, contexts |-> <<p1>>]}
Message(role, text) == [role |-> role, text |-> text]
MCConversations ==
  {<<Message("human", t1)>>,
   <<Message("system", None), Message("system", t1), Message("human", t1)>>}
=============================================================================
