----------------------------- MODULE GitActions -----------------------------
(***************************************************************************)
(* The Git seam of the project model (plugins/project-model/git.js): the   *)
(* six actions NewPi runs on the repository of the open project, command   *)
(* by command, beside the user's own terminal and the other clones.        *)
(*                                                                         *)
(* A branch is the set of the commits it reaches.  A file's status is the  *)
(* pair of letters `git status' prints for it: the index against HEAD and  *)
(* the working tree against the index.  What Git itself does is external.  *)
(***************************************************************************)
EXTENDS Naturals, FiniteSets, Absent

CONSTANTS
  Branches,     \* the branches, here and on the remote
  Files,        \* the files of the project
  GitSlots,     \* the actions in flight, one slot each
  MaxCommits,   \* bound: the commits that are ever made
  Layouts       \* bound: the repositories a project may be opened on

ASSUME GitAssumption ==
  /\ None \notin Branches /\ MaxCommits \in Nat
  /\ \A repository \in Layouts :
       repository.branch \in Optional(Branches) /\ repository.remotes \in Nat

VARIABLES
  layout,       \* what the project's directory is, None before it is opened
  head,         \* the branch checked out, None when detached
  local,        \* the commits of each branch, and of a detached HEAD
  upstream,     \* the remote tracking refs, None for a branch without one
  remote,       \* the branches on the remote
  remotes,      \* how many remotes are configured
  tree,         \* the status of each file
  inProgress,   \* a merge, a rebase or another command holds the repository
  changes,      \* the files each commit made so far changes
  actions       \* the actions, at the command they reached

gitVars == <<layout, head, local, upstream, remote, remotes, tree, inProgress,
             changes, actions>>
repositoryVars == <<layout, head, local, upstream, remote, remotes, tree,
                    inProgress, changes>>

-----------------------------------------------------------------------------
(* Status and snapshots                                                    *)

Status == {"..", ".M", "M.", "MM", "A.", "AM", "??", "UU"}

Staged(xy) == xy \in {"M.", "MM", "A.", "AM", "UU"}
Unstaged(xy) == xy \in {".M", "MM", "AM", "UU"}

(* changeKind(): the index's letter wins over the working tree's.          *)
ChangeKind(xy) ==
  CASE xy = "??" -> "untracked"
    [] xy = "UU" -> "conflicted"
    [] xy \in {"A.", "AM"} -> "added"
    [] OTHER -> "modified"

Changed == {f \in Files : tree[f] # ".."}

(* _snapshot(): all that an action reads of it comes of one command, status *)
(* --porcelain=v2, but the remotes, which do not change, and whether HEAD   *)
(* can be fast-forwarded, which Ancestor reads.  An untracked file does not *)
(* make the copy dirty.                                                     *)
Snapshot ==
  LET tracked == IF head = None THEN None ELSE upstream[head]
      ahead == IF tracked = None THEN {} ELSE local[head] \ tracked
      behind == IF tracked = None THEN {} ELSE tracked \ local[head]
  IN [branch |-> head,
      upstream |-> tracked # None,
      ahead |-> ahead # {},
      behind |-> behind # {},
      dirty |-> \E f \in Files : Staged(tree[f]) \/ Unstaged(tree[f]),
      conflicted |-> \E f \in Files : ChangeKind(tree[f]) = "conflicted",
      remote |-> remotes = 1 \/ tracked # None]

GitAction ==
  [kind     : {"none", "status", "diff", "commit", "fetch", "push", "pull"},
   pc       : {"idle", "locate", "snapshot", "diff", "add", "commit", "fetch",
               "refresh", "ancestor", "push", "merge", "after", "ended"},
   paths    : SUBSET Files,
   busyTree : BOOLEAN,          \* located.inProgress
   branch   : Optional(Branches), \* of the snapshot it goes by
   outcome  : {"none", "ok", "refused", "failed"}]

NoGitAction ==
  [kind |-> "none", pc |-> "idle", paths |-> {}, busyTree |-> FALSE,
   branch |-> None, outcome |-> "none"]

Go(a, pc) == actions' = [actions EXCEPT ![a].pc = pc]
EndAction(a, outcome) ==
  actions' = [actions EXCEPT ![a] =
                [NoGitAction EXCEPT !.pc = "ended", !.outcome = outcome]]

-----------------------------------------------------------------------------
(* The commands                                                            *)

(* assertSafeGitArgs(): the verbs NewPi may run, without a flag that       *)
(* forces, deletes or resets; the only merge is a fast-forward.            *)
SafeGitArgs(verb, options) ==
  /\ verb \in {"rev-parse", "status", "symbolic-ref", "rev-list", "merge-base",
               "diff", "ls-files", "show", "fetch", "push", "merge", "add",
               "commit", "remote"}
  /\ options \cap {"-f", "-D", "--force", "--force-with-lease", "--hard",
                   "--mixed", "--soft", "--delete", "--mirror", "--prune",
                   "--all", "--tags"} = {}
  /\ verb = "merge" => "--ff-only" \in options

(* A command of an action: refused by the runner, failed and classified,   *)
(* or run.                                                                 *)
GitCommand(a, pc, verb, options) ==
  /\ actions[a].pc = pc
  /\ SafeGitArgs(verb, options)

Fails(a) == EndAction(a, "failed") /\ UNCHANGED repositoryVars

(* git add: what the working tree holds of these paths is in the index.    *)
AfterAdd(xy) ==
  CASE xy \in {".M", "MM", "UU"} -> "M."
    [] xy \in {"??", "AM"} -> "A."
    [] OTHER -> xy

NewCommit == Cardinality(DOMAIN changes) + 1
CanCommit == NewCommit <= MaxCommits

(* git commit: the branch that is checked out now gets a commit of these   *)
(* files.                                                                  *)
Record(files) ==
  /\ CanCommit
  /\ changes' = [c \in 1..NewCommit |-> IF c = NewCommit THEN files ELSE changes[c]]
  /\ local' = [local EXCEPT ![head] = @ \cup {NewCommit}]
  /\ tree' = [f \in Files |-> IF f \in files THEN ".." ELSE tree[f]]

(* git fetch: the tracking refs follow the remote.                         *)
FollowRemote ==
  upstream' = [b \in Branches |-> IF upstream[b] = None THEN None ELSE remote[b]]

-----------------------------------------------------------------------------
(* The user, the terminal and the other clones                             *)

(* A project is opened: its directory is a repository of its own, or one   *)
(* that NewPi does not act on.                                             *)
OpenRepository(repository) ==
  /\ layout = None
  /\ layout' = repository.shape
  /\ head' = repository.branch
  /\ remotes' = repository.remotes
  /\ upstream' = [b \in Branches |-> IF b \in repository.followed THEN {} ELSE None]
  /\ UNCHANGED <<local, remote, tree, inProgress, changes, actions>>

Terminal == layout = "repository" /\ UNCHANGED <<layout, remotes, actions>>

Edit(f) ==
  /\ Terminal
  /\ tree' = [tree EXCEPT ![f] = CASE @ = ".." -> ".M" [] @ = "M." -> "MM"
                                   [] @ = "A." -> "AM" [] OTHER -> @]
  /\ UNCHANGED <<head, local, upstream, remote, inProgress, changes>>

AddFile(f) ==
  /\ Terminal
  /\ tree[f] = ".." /\ \A c \in DOMAIN changes : f \notin changes[c]
  /\ tree' = [tree EXCEPT ![f] = "??"]
  /\ UNCHANGED <<head, local, upstream, remote, inProgress, changes>>

StageFile(f) ==
  /\ Terminal
  /\ tree' = [tree EXCEPT ![f] = AfterAdd(@)]
  /\ UNCHANGED <<head, local, upstream, remote, inProgress, changes>>

CommitInTerminal ==
  /\ Terminal
  /\ \E f \in Files : Staged(tree[f])
  /\ Record({f \in Files : Staged(tree[f])})
  /\ UNCHANGED <<head, upstream, remote, inProgress>>

Checkout(b) ==
  /\ Terminal
  /\ \A f \in Files : tree[f] \in {"..", "??"}
  /\ head' = b
  /\ b # head
  /\ local' = [local EXCEPT ![None] = IF b = None THEN local[head] ELSE {}]
  /\ UNCHANGED <<upstream, remote, tree, inProgress, changes>>

(* A merge is begun, with a conflict or not, and later concluded.          *)
BeginMerge(conflicting) ==
  /\ Terminal
  /\ ~inProgress
  /\ inProgress' = TRUE
  /\ tree' = [f \in Files |-> IF f \in conflicting THEN "UU" ELSE tree[f]]
  /\ UNCHANGED <<head, local, upstream, remote, changes>>

EndMerge ==
  /\ Terminal
  /\ inProgress
  /\ \A f \in Files : tree[f] # "UU"
  /\ inProgress' = FALSE
  /\ UNCHANGED <<head, local, upstream, remote, tree, changes>>

(* Someone else pushes to the remote.                                      *)
OtherPush(b, files) ==
  /\ Terminal
  /\ CanCommit /\ remotes > 0
  /\ changes' = [c \in 1..NewCommit |-> IF c = NewCommit THEN files ELSE changes[c]]
  /\ remote' = [remote EXCEPT ![b] = @ \cup {NewCommit}]
  /\ UNCHANGED <<head, local, upstream, tree, inProgress>>

-----------------------------------------------------------------------------
(* The actions                                                             *)

Begin(a, kind, paths) ==
  /\ layout # None
  /\ actions[a].pc = "idle"
  /\ actions' = [actions EXCEPT ![a] = [NoGitAction EXCEPT !.kind = kind,
                   !.pc = "locate", !.paths = paths]]
  /\ UNCHANGED repositoryVars

(* NewPi acts on a repository whose root is the project's, that is no      *)
(* submodule, holds none, and holds no other repository.                   *)
OwnRepository == layout = "repository"

(* locate(): everything else is answered by status(), and refused by the   *)
(* other actions.                                                          *)
Locate(a) ==
  /\ GitCommand(a, "locate", "rev-parse", {"--show-toplevel"})
  /\ IF ~OwnRepository
     THEN EndAction(a, IF actions[a].kind = "status" THEN "ok" ELSE "refused")
     ELSE actions' = [actions EXCEPT
            ![a].busyTree = inProgress,
            ![a].pc = IF actions[a].kind = "diff" THEN "diff" ELSE "snapshot"]
  /\ UNCHANGED repositoryVars

(* normalizeCommitPaths(): files of the project, one at least.             *)
CommitPathsUsable(paths) == paths # {} /\ paths \subseteq Files

(* What stops an action before its first command: assertIdle(), and then   *)
(* what the action itself asks of the snapshot.                            *)
Refused(action, snapshot) ==
  \/ action.busyTree \/ snapshot.conflicted
  \/ CASE action.kind = "commit" -> ~CommitPathsUsable(action.paths)
       [] action.kind = "fetch" -> ~snapshot.remote
       [] action.kind = "push" ->
            \/ snapshot.branch = None
            \/ snapshot.upstream /\ ~snapshot.ahead
            \/ ~snapshot.remote
       [] action.kind = "pull" ->
            \/ snapshot.branch = None
            \/ ~snapshot.upstream
            \/ snapshot.dirty
            \/ ~snapshot.remote
       [] OTHER -> FALSE

FirstCommand(kind) ==
  CASE kind = "commit" -> "add" [] kind = "push" -> "push" [] OTHER -> "fetch"

TakeSnapshot(a) ==
  /\ GitCommand(a, "snapshot", "status", {"--porcelain=v2", "--branch", "-z"})
  /\ CASE actions[a].kind = "status" -> EndAction(a, "ok")
       [] Refused(actions[a], Snapshot) -> EndAction(a, "refused")
       [] OTHER -> actions' = [actions EXCEPT
                     ![a].branch = head,
                     ![a].pc = FirstCommand(actions[a].kind)]
  /\ UNCHANGED repositoryVars

Diff(a) ==
  /\ GitCommand(a, "diff", "diff", {"--no-color", "--no-ext-diff", "--unified=3"})
  /\ EndAction(a, "ok")
  /\ UNCHANGED repositoryVars

Add(a) ==
  /\ GitCommand(a, "add", "add", {})
  /\ Go(a, "commit")
  /\ tree' = [f \in Files |-> IF f \in actions[a].paths THEN AfterAdd(tree[f])
                              ELSE tree[f]]
  /\ UNCHANGED <<layout, head, local, upstream, remote, remotes, inProgress,
                 changes>>

(* Only the selected paths are committed; Git refuses when none of them    *)
(* changed, and in the middle of a merge.                                  *)
CommitPaths(a) ==
  /\ GitCommand(a, "commit", "commit", {"-m"})
  /\ ~inProgress
  /\ actions[a].paths \cap Changed # {}
  /\ Record(actions[a].paths \cap Changed)
  /\ Go(a, "after")
  /\ UNCHANGED <<layout, head, upstream, remote, remotes, inProgress>>

(* Killed after its timeout, a fetch may have moved the tracking refs.     *)
Fetch(a) ==
  /\ GitCommand(a, "fetch", "fetch", {"--no-tags"})
  /\ FollowRemote
  /\ \/ Go(a, IF actions[a].kind = "pull" THEN "refresh" ELSE "after")
     \/ EndAction(a, "failed")
  /\ UNCHANGED <<layout, head, local, remote, remotes, tree, inProgress, changes>>

(* pull() reads the status again: nothing to do, nothing that can be done  *)
(* without a merge, or a fast-forward to ask about.                        *)
Refresh(a) ==
  LET fresh == Snapshot
  IN /\ GitCommand(a, "refresh", "status", {"--porcelain=v2", "--branch", "-z"})
     /\ CASE fresh.dirty \/ (fresh.ahead /\ fresh.behind) -> EndAction(a, "refused")
          [] ~fresh.behind -> EndAction(a, "ok")
          [] OTHER -> actions' = [actions EXCEPT ![a].branch = fresh.branch,
                                                 ![a].pc = "ancestor"]
     /\ UNCHANGED repositoryVars

(* merge-base --is-ancestor HEAD @{upstream}, of the branch checked out by *)
(* then.                                                                   *)
Ancestor(a) ==
  LET tracked == IF head = None THEN None ELSE upstream[head]
  IN /\ GitCommand(a, "ancestor", "merge-base", {"--is-ancestor"})
     /\ IF tracked # None /\ local[head] \subseteq tracked
        THEN Go(a, "merge") ELSE EndAction(a, "refused")
     /\ UNCHANGED repositoryVars

(* pull() that puts the branch where its upstream is.                      *)
MergeByReset(a) ==
  LET target == upstream[actions[a].branch]
  IN /\ GitCommand(a, "merge", "merge", {"--ff-only"})
     /\ local' = [local EXCEPT ![head] = target]
     /\ tree' = [f \in Files |-> IF tree[f] = "??" THEN "??" ELSE ".."]
     /\ Go(a, "after")
     /\ UNCHANGED <<layout, head, upstream, remote, remotes, inProgress, changes>>

(* merge --ff-only of the upstream that was read, into the branch that is  *)
(* checked out: Git refuses a divergence, and a file it would overwrite.   *)
Merge(a) ==
  LET target == upstream[actions[a].branch]
      incoming == UNION {changes[c] : c \in target \ local[head]}
  IN /\ GitCommand(a, "merge", "merge", {"--ff-only"})
     /\ ~inProgress
     /\ local[head] \subseteq target
     /\ incoming \cap Changed = {}
     /\ local' = [local EXCEPT ![head] = target]
     /\ Go(a, "after")
     /\ UNCHANGED <<layout, head, upstream, remote, remotes, tree, inProgress,
                    changes>>

(* The branch that was read is pushed, as it is now; the remote refuses    *)
(* what is not a fast-forward.  A push killed after its timeout may have   *)
(* been accepted.                                                          *)
Push(a) ==
  LET b == actions[a].branch
  IN /\ GitCommand(a, "push", "push", {})
     /\ remote[b] \subseteq local[b]
     /\ remote' = [remote EXCEPT ![b] = local[b]]
     /\ \/ /\ Go(a, "after")
           /\ upstream' = [upstream EXCEPT ![b] = IF @ = None THEN None ELSE local[b]]
        \/ EndAction(a, "failed") /\ UNCHANGED upstream
     /\ UNCHANGED <<layout, head, local, remotes, tree, inProgress, changes>>

(* The status that follows what was done.                                  *)
Answered(a) ==
  /\ GitCommand(a, "after", "status", {"--porcelain=v2", "--branch", "-z"})
  /\ EndAction(a, "ok")
  /\ UNCHANGED repositoryVars

(* A command that exits with an error, or is killed, ends its action: a    *)
(* hook, an identity, the network, a lock.                                 *)
CommandFails(a) ==
  /\ actions[a].pc \notin {"idle", "ended"}
  /\ Fails(a)

ReuseAction(a) ==
  /\ actions[a].pc = "ended"
  /\ actions' = [actions EXCEPT ![a] = NoGitAction]
  /\ UNCHANGED repositoryVars

-----------------------------------------------------------------------------

GitInit ==
  /\ layout = None
  /\ head = None
  /\ local = [b \in Optional(Branches) |-> {}]
  /\ upstream = [b \in Branches |-> None]
  /\ remote = [b \in Branches |-> {}]
  /\ remotes = 0
  /\ tree = [f \in Files |-> ".."]
  /\ inProgress = FALSE
  /\ changes = <<>>
  /\ actions = [a \in GitSlots |-> NoGitAction]

TerminalStep ==
  \/ \E f \in Files : Edit(f) \/ AddFile(f) \/ StageFile(f)
  \/ CommitInTerminal
  \/ \E b \in Optional(Branches) : Checkout(b)
  \/ \E conflicting \in SUBSET Files : BeginMerge(conflicting)
  \/ EndMerge
  \/ \E b \in Branches, f \in Files : OtherPush(b, {f})

GitStep(a) ==
  \/ \E kind \in {"status", "diff", "fetch", "push", "pull"} : Begin(a, kind, {})
  \/ \E paths \in SUBSET Files : Begin(a, "commit", paths)
  \/ Locate(a) \/ TakeSnapshot(a) \/ Diff(a) \/ Add(a) \/ CommitPaths(a)
  \/ Fetch(a) \/ Refresh(a) \/ Ancestor(a) \/ Merge(a) \/ Push(a) \/ Answered(a)
  \/ CommandFails(a) \/ ReuseAction(a)

GitNext ==
  \/ \E repository \in Layouts : OpenRepository(repository)
  \/ TerminalStep
  \/ \E a \in GitSlots : GitStep(a)

GitSpec == GitInit /\ [][GitNext]_gitVars

-----------------------------------------------------------------------------
(* Properties                                                              *)

GitTypeOK ==
  /\ layout \in Optional({repository.shape : repository \in Layouts})
  /\ head \in Optional(Branches)
  /\ local \in [Optional(Branches) -> SUBSET (1..MaxCommits)]
  /\ \A b \in Branches :
       upstream[b] = None \/ upstream[b] \in SUBSET (1..MaxCommits)
  /\ remote \in [Branches -> SUBSET (1..MaxCommits)]
  /\ remotes \in Nat
  /\ tree \in [Files -> Status]
  /\ inProgress \in BOOLEAN
  /\ \A c \in DOMAIN changes : changes[c] \subseteq Files
  /\ actions \in [GitSlots -> GitAction]

(* Whatever the user does in a terminal while an action runs, no commit    *)
(* of a branch is lost, here or on the remote, and a changed file becomes  *)
(* clean only in a commit that holds it: nothing is forced.                *)
NothingIsForced ==
  [][/\ \A b \in Branches : local[b] \subseteq local'[b] /\ remote[b] \subseteq remote'[b]
     /\ \A f \in Files :
          tree[f] # ".." /\ tree'[f] = ".."
            => \E c \in DOMAIN changes' \ DOMAIN changes : f \in changes'[c]]_gitVars
=============================================================================
