---------------------------- MODULE PluginProofs ----------------------------
(***************************************************************************)
(* Proofs about three plugins that share no state: the Git actions, the    *)
(* terminal console and the context and cache manager.  Each is proved for *)
(* every value of its constants: any branches, files, repositories and     *)
(* number of commits; any commands, output limit and size of chunks; any   *)
(* sessions, texts, prompts, requests, calls and limit of the journal.     *)
(***************************************************************************)
EXTENDS GitActions, TerminalConsole, ContextCache, FiniteSetTheorems,
        SequenceTheorems, TLAPS

-----------------------------------------------------------------------------
(* The Git actions.                                                        *)

(* The repository's parts are functions, and the commits are numbered from *)
(* one, so that a new one has a number of its own.                         *)
GitIInv ==
  /\ local = [b \in Optional(Branches) |-> local[b]]
  /\ remote = [b \in Branches |-> remote[b]]
  /\ tree = [f \in Files |-> tree[f]]
  /\ \E n \in Nat : DOMAIN changes = 1..n

(* Nothing is lost in this step.                                           *)
BranchesGrow ==
  \A b \in Branches : local[b] \subseteq local'[b] /\ remote[b] \subseteq remote'[b]

ChangesKept ==
  \A f \in Files :
    tree[f] # ".." /\ tree'[f] = ".."
      => \E c \in DOMAIN changes' \ DOMAIN changes : f \in changes'[c]

GitKept == GitIInv' /\ BranchesGrow /\ ChangesKept

-----------------------------------------------------------------------------

LEMMA RepositoryUnchanged ==
  ASSUME GitIInv, UNCHANGED <<local, remote, tree, changes>>
  PROVE  GitKept
BY DEF GitIInv, GitKept, BranchesGrow, ChangesKept

(* A file that changes its letters, and is not clean after that.           *)
LEMMA TreeChanges ==
  ASSUME GitIInv, UNCHANGED <<local, remote, changes>>,
         tree' = [f \in Files |-> tree'[f]],
         \A f \in Files : tree[f] # ".." => tree'[f] # ".."
  PROVE  GitKept
BY DEF GitIInv, GitKept, BranchesGrow, ChangesKept

(* git add makes no changed file clean.                                    *)
LEMMA AddKeepsChange == \A xy : xy # ".." => AfterAdd(xy) # ".."
BY DEF AfterAdd

(* The next commit has a number that no commit has.                        *)
LEMMA NewCommitIsNew ==
  ASSUME GitIInv
  PROVE  /\ NewCommit \notin DOMAIN changes
         /\ NewCommit \in Nat \ {0}
         /\ DOMAIN changes = 1..(NewCommit - 1)
<1>1. PICK n \in Nat : DOMAIN changes = 1..n
  BY DEF GitIInv
<1>2. Cardinality(1..n) = n
  BY FS_Interval
<1> QED BY <1>1, <1>2 DEF NewCommit

(* A commit, here or by another clone, adds its number to the commits.     *)
LEMMA CommitAdds ==
  ASSUME GitIInv, NEW files,
         changes' = [c \in 1..NewCommit |-> IF c = NewCommit THEN files ELSE changes[c]]
  PROVE  /\ \E n \in Nat : DOMAIN changes' = 1..n
         /\ NewCommit \in DOMAIN changes' \ DOMAIN changes
         /\ changes'[NewCommit] = files
<1>1. NewCommit \in Nat /\ NewCommit \notin DOMAIN changes /\ NewCommit \in 1..NewCommit
  BY NewCommitIsNew
<1> QED BY <1>1

(* git commit, of an action or in the terminal.                            *)
LEMMA RecordKeeps ==
  ASSUME GitIInv, NEW files, Record(files), UNCHANGED remote
  PROVE  GitKept
<1>1. /\ \E n \in Nat : DOMAIN changes' = 1..n
      /\ NewCommit \in DOMAIN changes' \ DOMAIN changes
      /\ changes'[NewCommit] = files
  BY CommitAdds DEF Record
<1>2. BranchesGrow
  <2> SUFFICES ASSUME NEW b \in Branches PROVE local[b] \subseteq local'[b]
    BY DEF BranchesGrow
  <2> QED BY DEF Record, GitIInv, Optional
<1>3. ChangesKept
  <2> SUFFICES ASSUME NEW f \in Files, tree[f] # "..", tree'[f] = ".."
               PROVE  f \in changes'[NewCommit]
    BY <1>1 DEF ChangesKept
  <2> QED BY <1>1 DEF Record
<1>4. GitIInv'
  BY <1>1 DEF Record, GitIInv, Optional
<1> QED BY <1>2, <1>3, <1>4 DEF GitKept

-----------------------------------------------------------------------------
(* The terminal and the other clones                                       *)

LEMMA TerminalKeeps == ASSUME GitIInv, TerminalStep PROVE GitKept
<1>1. ASSUME NEW f \in Files, Edit(f) PROVE GitKept
  BY <1>1, TreeChanges DEF Edit, GitIInv
<1>2. ASSUME NEW f \in Files, AddFile(f) PROVE GitKept
  BY <1>2, TreeChanges DEF AddFile, GitIInv
<1>3. ASSUME NEW f \in Files, StageFile(f) PROVE GitKept
  BY <1>3, TreeChanges, AddKeepsChange DEF StageFile, GitIInv
<1>4. ASSUME CommitInTerminal PROVE GitKept
  BY <1>4, RecordKeeps DEF CommitInTerminal
<1>5. ASSUME NEW b \in Optional(Branches), Checkout(b) PROVE GitKept
  <2>1. \A c \in Branches : local'[c] = local[c]
    BY <1>5, GitAssumption DEF Checkout, GitIInv, Optional
  <2>2. local' = [c \in Optional(Branches) |-> local'[c]]
    BY <1>5 DEF Checkout, GitIInv
  <2> QED BY <1>5, <2>1, <2>2 DEF Checkout, GitKept, BranchesGrow, ChangesKept, GitIInv
<1>6. ASSUME NEW conflicting \in SUBSET Files, BeginMerge(conflicting) PROVE GitKept
  BY <1>6, TreeChanges DEF BeginMerge
<1>7. ASSUME EndMerge PROVE GitKept
  BY <1>7, RepositoryUnchanged DEF EndMerge
<1>8. ASSUME NEW b \in Branches, NEW f \in Files, OtherPush(b, {f}) PROVE GitKept
  <2>1. \E n \in Nat : DOMAIN changes' = 1..n
    BY <1>8, CommitAdds DEF OtherPush
  <2>2. \A c \in Branches : remote[c] \subseteq remote'[c]
    BY <1>8 DEF OtherPush, GitIInv
  <2>3. remote' = [c \in Branches |-> remote'[c]]
    BY <1>8 DEF OtherPush, GitIInv
  <2> QED BY <1>8, <2>1, <2>2, <2>3
          DEF OtherPush, GitKept, BranchesGrow, ChangesKept, GitIInv
<1> QED BY <1>1, <1>2, <1>3, <1>4, <1>5, <1>6, <1>7, <1>8 DEF TerminalStep

-----------------------------------------------------------------------------
(* The actions                                                             *)

(* A fast-forward puts on a branch the commits it had, and more.           *)
LEMMA MergeKeeps ==
  ASSUME GitIInv, NEW a \in GitSlots, Merge(a)
  PROVE  GitKept
<1> DEFINE target == upstream[actions[a].branch]
<1>1. /\ local[head] \subseteq target
      /\ local' = [local EXCEPT ![head] = target]
      /\ UNCHANGED <<remote, tree, changes>>
  BY DEF Merge
<1>2. \A b \in Branches : local[b] \subseteq local'[b]
  BY <1>1 DEF GitIInv, Optional
<1>3. GitIInv'
  BY <1>1 DEF GitIInv
<1> QED BY <1>1, <1>2, <1>3 DEF GitKept, BranchesGrow, ChangesKept

(* The remote takes a push that keeps the commits it had.                  *)
LEMMA PushKeeps ==
  ASSUME GitIInv, NEW a \in GitSlots, Push(a)
  PROVE  GitKept
<1> DEFINE b == actions[a].branch
<1>1. /\ remote[b] \subseteq local[b]
      /\ remote' = [remote EXCEPT ![b] = local[b]]
      /\ UNCHANGED <<local, tree, changes>>
  BY DEF Push
<1>2. \A c \in Branches : remote[c] \subseteq remote'[c]
  BY <1>1 DEF GitIInv
<1>3. GitIInv'
  BY <1>1 DEF GitIInv
<1> QED BY <1>1, <1>2, <1>3 DEF GitKept, BranchesGrow, ChangesKept

LEMMA ActionKeeps == ASSUME GitIInv, NEW a \in GitSlots, GitStep(a) PROVE GitKept
<1>1. ASSUME UNCHANGED repositoryVars PROVE GitKept
  BY <1>1, RepositoryUnchanged DEF repositoryVars
<1>2. CASE Add(a)
  BY <1>2, TreeChanges, AddKeepsChange DEF Add
<1>3. CASE CommitPaths(a)
  BY <1>3, RecordKeeps DEF CommitPaths
<1>4. CASE Fetch(a)
  BY <1>4, RepositoryUnchanged DEF Fetch
<1>5. CASE Refresh(a) \/ Ancestor(a)
  BY <1>1, <1>5 DEF Refresh, Ancestor
<1>6. CASE CommandFails(a)
  BY <1>1, <1>6 DEF CommandFails, Fails
<1>7. CASE \/ \E kind \in {"status", "diff", "fetch", "push", "pull"} : Begin(a, kind, {})
           \/ \E paths \in SUBSET Files : Begin(a, "commit", paths)
           \/ Locate(a) \/ TakeSnapshot(a) \/ Diff(a) \/ Answered(a)
           \/ ReuseAction(a)
  BY <1>1, <1>7 DEF Begin, Locate, TakeSnapshot, Diff, Answered, ReuseAction
<1> QED BY <1>2, <1>3, <1>4, <1>5, <1>6, <1>7, MergeKeeps, PushKeeps DEF GitStep

-----------------------------------------------------------------------------
(* Theorems                                                                *)

LEMMA GitInitIInv == GitInit => GitIInv
<1>1. ASSUME GitInit PROVE DOMAIN changes = 1..0
  BY <1>1 DEF GitInit
<1> QED BY <1>1 DEF GitInit, GitIInv

LEMMA GitNextKept == ASSUME GitIInv, GitNext PROVE GitKept
<1>1. ASSUME NEW repository \in Layouts, OpenRepository(repository) PROVE GitKept
  BY <1>1, RepositoryUnchanged DEF OpenRepository
<1> QED BY <1>1, TerminalKeeps, ActionKeeps DEF GitNext

LEMMA GitNextIInv == GitIInv /\ [GitNext]_gitVars => GitIInv'
<1> SUFFICES ASSUME GitIInv, [GitNext]_gitVars PROVE GitIInv'
  OBVIOUS
<1>1. CASE GitNext
  BY <1>1, GitNextKept DEF GitKept
<1>2. CASE UNCHANGED gitVars
  BY <1>2 DEF gitVars, GitIInv
<1> QED BY <1>1, <1>2

(* Whatever NewPi's actions, a terminal and other clones do, in any order  *)
(* (git.js, commit, push and pull), no branch loses a commit and a changed *)
(* file becomes clean only in a commit that holds it.                      *)
THEOREM NothingIsEverForced == GitSpec => NothingIsForced
<1>1. GitIInv /\ [GitNext]_gitVars => [BranchesGrow /\ ChangesKept]_gitVars
  BY GitNextKept DEF GitKept
<1>2. GitSpec => []GitIInv
  BY GitInitIInv, GitNextIInv, PTL DEF GitSpec
<1>3. GitSpec => [][BranchesGrow /\ ChangesKept]_gitVars
  BY <1>1, <1>2, PTL DEF GitSpec
<1> QED BY <1>3, PTL DEF NothingIsForced, BranchesGrow, ChangesKept

-----------------------------------------------------------------------------
(* The terminal console.                                                   *)

Smaller(m, n) == IF m <= n THEN m ELSE n

(* The text one command produced is where it belongs: `bytes' counts it    *)
(* exactly up to the limit, and has passed the limit once it did.          *)
Accounted(command) ==
  /\ command.sent = Smaller(command.produced, MaxOutput)
  /\ command.sentBytes <= Widest * command.sent
  /\ command.truncated <=> command.produced > MaxOutput
  /\ command.bytes <= command.produced
  /\ command.bytes < MaxOutput => command.bytes = command.produced

(* A group whose stream or whose timer is gone was told to stop.           *)
Stopped(command) ==
  /\ command.group = "running" /\ (command.closed \/ ~command.timer)
       => command.signalled
  /\ command.group \in {"running", "background"} /\ command.abandoned
       => command.signalled
  /\ command.group = "none" => ~command.abandoned /\ ~command.timer

(* The closing frame, once there is one, is the last of the wire or has    *)
(* been read, and what the panel says is what it said.                     *)
NotClosing(wire, last) == \A i \in 1..last : wire[i].type \notin Ending

Said(ended, truncated) ==
  IF ended = "killed" THEN "nothing" ELSE IF truncated THEN "cut" ELSE "whole"

CutAnnounced(command) ==
  /\ command.told = "nothing"
  /\ command.wire # <<>>
  /\ command.wire[Len(command.wire)]
       = [type |-> command.ended, truncated |-> command.truncated]
  /\ NotClosing(command.wire, Len(command.wire) - 1)

Read(command) ==
  /\ command.wire = <<>>
  /\ command.told = Said(command.ended, command.truncated)

Told(command) ==
  /\ command.request = "done" => command.closed
  /\ \/ /\ command.ended = None
        /\ command.told = "nothing"
        /\ NotClosing(command.wire, Len(command.wire))
     \/ /\ command.ended \in Ending
        /\ command.closed
        /\ CutAnnounced(command) \/ Read(command)
        /\ command.request = "done" => Read(command)

CommandSafe(command) ==
  command \in Command /\ Accounted(command) /\ Stopped(command) /\ Told(command)

TerminalIInv ==
  /\ running \in Optional(Commands)
  /\ status \in StatusKinds
  /\ commands = [c \in Commands |-> commands[c]]
  /\ \A c \in Commands : CommandSafe(commands[c])

-----------------------------------------------------------------------------

LEMMA MinOfTwo ==
  ASSUME NEW m \in Nat, NEW n \in Nat
  PROVE  Min({m, n}) = Smaller(m, n)
<1>1. /\ Smaller(m, n) \in {m, n}
      /\ \A y \in {m, n} : Smaller(m, n) <= y
  BY DEF Smaller
<1>2. \A x \in {m, n} : (\A y \in {m, n} : x <= y) => x = Smaller(m, n)
  BY DEF Smaller
<1> QED BY <1>1, <1>2 DEF Min

(* The host replaces what it holds of one command.                         *)
LEMMA HostKeeps ==
  ASSUME TerminalIInv, NEW c, NEW record, Host(c, record),
         c \in Commands => CommandSafe(record)
  PROVE  /\ commands' = [d \in Commands |-> commands'[d]]
         /\ \A d \in Commands : CommandSafe(commands'[d])
<1>1. commands' = [d \in Commands |-> IF d = c THEN record ELSE commands[d]]
  BY DEF Host, TerminalIInv
<1>2. ASSUME NEW d \in Commands PROVE CommandSafe(commands'[d])
  BY <1>1 DEF TerminalIInv
<1> QED BY <1>1, <1>2

(* A frame is put at the end of the wire.                                  *)
LEMMA AppendFrame ==
  ASSUME NEW wire \in Seq(Frame), NEW frame \in Frame,
         NotClosing(wire, Len(wire))
  PROVE  LET longer == Append(wire, frame)
         IN /\ longer \in Seq(Frame)
            /\ longer # <<>>
            /\ longer[Len(longer)] = frame
            /\ NotClosing(longer, Len(longer) - 1)
            /\ frame.type \notin Ending => NotClosing(longer, Len(longer))
<1> DEFINE longer == Append(wire, frame)
           n == Len(wire)
<1>1. /\ longer \in Seq(Frame) /\ Len(longer) = n + 1 /\ n \in Nat
      /\ \A i \in 1..n : longer[i] = wire[i]
      /\ longer[n + 1] = frame
  BY AppendProperties, LenProperties
<1>2. longer # <<>>
  BY <1>1, EmptySeq
<1>3. \A i \in 1..n : wire[i].type \notin Ending
  BY DEF NotClosing
<1> HIDE DEF longer, n
<1>4. Len(longer) - 1 = n
  BY <1>1
<1>5. NotClosing(longer, Len(longer) - 1)
  BY <1>1, <1>3, <1>4 DEF NotClosing
<1>6. ASSUME frame.type \notin Ending PROVE NotClosing(longer, Len(longer))
  <2>1. \A i \in 1..n + 1 : i \in 1..n \/ i = n + 1
    BY <1>1
  <2> QED BY <1>1, <1>3, <1>6, <2>1 DEF NotClosing
<1> QED BY <1>1, <1>2, <1>5, <1>6 DEF longer

LEMMA NoCommandSafe == CommandSafe(NoCommand)
<1>1. <<>> \in Seq(Frame) /\ Len(<<>>) = 0
  BY EmptySeq
<1>2. Widest * 0 = 0
  BY TerminalAssumption
<1>3. NoCommand \in Command
  BY <1>1, <1>2, TerminalAssumption DEF NoCommand, Command, Optional
<1>4. Told(NoCommand)
  BY <1>1 DEF NoCommand, Told, NotClosing
<1> QED BY <1>2, <1>3, <1>4, TerminalAssumption
        DEF NoCommand, CommandSafe, Accounted, Stopped, Smaller

(* No command is closed without the end of its shell being said, unless    *)
(* its caller left.                                                        *)
LEMMA OpenIsUntold ==
  ASSUME NEW command, CommandSafe(command), ~command.closed
  PROVE  /\ command.ended = None /\ command.told = "nothing"
         /\ NotClosing(command.wire, Len(command.wire))
BY TerminalAssumption DEF CommandSafe, Told

(* What concerns neither the text nor the group's end.                     *)
LEMMA RequestKeeps ==
  ASSUME NEW command, CommandSafe(command),
         NEW request \in {"none", "sent", "streaming", "left", "done"},
         request = "done" => command.closed /\ (command.ended = None \/ Read(command))
  PROVE  CommandSafe([command EXCEPT !.request = request])
<1> DEFINE after == [command EXCEPT !.request = request]
<1>1. after \in Command /\ Accounted(after) /\ Stopped(after)
  BY DEF CommandSafe, Command, Accounted, Stopped
<1>2. Told(after)
  BY TerminalAssumption DEF CommandSafe, Command, Told, CutAnnounced, Read, Ending
<1> QED BY <1>1, <1>2 DEF CommandSafe

(* stop() signals a group that is still there.                             *)
LEMMA StopKeeps ==
  ASSUME NEW command, CommandSafe(command), command.group # "none"
  PROVE  /\ CommandSafe(Stop(command))
         /\ Stop(command).group = command.group
         /\ command.group \in {"running", "background"} => Stop(command).signalled
<1> DEFINE after == Stop(command)
<1>1. /\ after \in Command /\ Accounted(after) /\ Stopped(after)
      /\ after.group = command.group
      /\ command.group \in {"running", "background"} => after.signalled
  BY DEF CommandSafe, Command, Accounted, Stopped, Stop
<1>2. Told(after)
  BY DEF CommandSafe, Command, Told, CutAnnounced, Read, Stop
<1> QED BY <1>1, <1>2 DEF CommandSafe

-----------------------------------------------------------------------------
(* Output                                                                  *)

LEMMA WiderText ==
  ASSUME NEW w \in Nat, NEW m \in Nat, NEW n \in Nat
  PROVE  /\ w * (m + n) = w * m + w * n
         /\ w * m \in Nat
         /\ m <= n => w * m <= w * n
<1>1. w * (m + n) = w * m + w * n /\ w * m \in Nat
  OBVIOUS
<1>2. ASSUME m <= n PROVE w * m <= w * n
  <2>1. n - m \in Nat /\ n = m + (n - m)
    BY <1>2
  <2>2. w * n = w * m + w * (n - m) /\ w * (n - m) \in Nat
    BY <2>1
  <2> QED BY <2>2
<1> QED BY <1>1, <1>2

LEMMA KeptIsBounded ==
  ASSUME NEW command, CommandSafe(command), NEW length \in Nat
  PROVE  /\ Kept(command, length) \in Nat
         /\ Kept(command, length)
              = IF command.closed \/ command.bytes >= MaxOutput THEN 0
                ELSE Smaller(length, MaxOutput - command.bytes)
<1>1. MaxOutput \in Nat /\ command.bytes \in Nat
  BY TerminalAssumption DEF CommandSafe, Command
<1>2. CASE command.closed \/ command.bytes >= MaxOutput
  BY <1>2 DEF Kept
<1>3. CASE ~command.closed /\ ~(command.bytes >= MaxOutput)
  <2>1. MaxOutput - command.bytes \in Nat
    BY <1>1, <1>3
  <2> QED BY <1>3, <2>1, MinOfTwo DEF Kept, Smaller
<1> QED BY <1>2, <1>3

LEMMA EmittedIsTyped ==
  ASSUME NEW command \in Command, NEW wire \in Seq(Frame),
         NEW bytes \in 0..Volume + Chunk, NEW sent \in 0..Volume,
         NEW sentBytes \in Nat, NEW truncated \in BOOLEAN, NEW produced \in 0..Volume
  PROVE  [command EXCEPT !.wire = wire, !.bytes = bytes, !.sent = sent,
                         !.sentBytes = sentBytes, !.truncated = truncated,
                         !.produced = produced] \in Command
BY DEF Command

(* A chunk, at the limit, past it or with the limit inside it.             *)
LEMMA EmitKeeps ==
  ASSUME NEW command, CommandSafe(command), NEW length \in 0..Chunk,
         command.produced + length <= Volume,
         NEW size \in Kept(command, length)..Widest * Kept(command, length)
  PROVE  CommandSafe([Emit(command, length, size) EXCEPT
           !.produced = IF command.closed THEN @ ELSE @ + length])
<1> DEFINE kept == Kept(command, length)
           wire == Append(command.wire, Plain("out"))
           after == [Emit(command, length, size) EXCEPT
                       !.produced = IF command.closed THEN @ ELSE @ + length]
           produced == command.produced + length
<1>1. /\ command \in Command /\ Accounted(command) /\ Stopped(command) /\ Told(command)
      /\ MaxOutput \in Nat /\ Chunk \in Nat /\ Volume \in Nat /\ Widest \in Nat
      /\ length \in Nat /\ kept \in Nat
      /\ command.bytes \in Nat /\ command.produced \in Nat /\ command.sent \in Nat
      /\ command.sentBytes \in Nat
  <2> QED BY TerminalAssumption, KeptIsBounded DEF CommandSafe, Command
<1>2. wire \in Seq(Frame)
  <2>1. Plain("out") \in Frame
    BY DEF Plain, Frame
  <2> QED BY <1>1, <2>1, AppendProperties DEF Command
<1>3. CASE command.closed
  <2>1. after = command
    BY <1>1, <1>3 DEF Emit, Command
  <2> QED BY <2>1
<1>4. CASE ~command.closed /\ length = 0
  <2>1. after = command
    BY <1>1, <1>4 DEF Emit, Command
  <2> QED BY <2>1
<1>5. CASE ~command.closed /\ length # 0 /\ kept = 0
  <2>1. after = [command EXCEPT !.truncated = TRUE, !.produced = produced]
    BY <1>1, <1>5 DEF Emit, Command
  <2>2. command.bytes >= MaxOutput
    BY <1>1, <1>5, KeptIsBounded DEF Smaller
  <2>3. produced > MaxOutput /\ produced \in 0..Volume /\ command.sent = MaxOutput
    BY <1>1, <1>5, <2>2 DEF Accounted, Smaller
  <2>4. after \in Command
    BY <1>1, <2>1, <2>3 DEF Command
  <2>5. Accounted(after)
    <3>1. /\ after.sent = command.sent /\ after.bytes = command.bytes
          /\ after.truncated = TRUE /\ after.produced = produced
          /\ after.sentBytes = command.sentBytes
      BY <1>1, <2>1 DEF Command
    <3>2. command.produced >= MaxOutput /\ command.bytes <= produced
      BY <1>1, <2>2 DEF Accounted
    <3>3. after.sent = Smaller(after.produced, MaxOutput)
      BY <1>1, <2>3, <3>1 DEF Smaller
    <3>4. command.sentBytes <= Widest * command.sent
      BY <1>1 DEF Accounted
    <3> QED BY <1>1, <2>2, <2>3, <3>1, <3>2, <3>3, <3>4 DEF Accounted
  <2>6. Stopped(after)
    BY <1>1, <2>1 DEF Stopped, Command
  <2>7. Told(after)
    BY <1>1, <1>5, <2>1, OpenIsUntold DEF Told, Command
  <2> QED BY <2>4, <2>5, <2>6, <2>7 DEF CommandSafe
<1>6. CASE ~command.closed /\ length # 0 /\ kept # 0
  <2> DEFINE longer == command.bytes + length
             total == command.sent + kept
             totalBytes == command.sentBytes + size
             cut == command.truncated \/ kept < length
  <2>1. after = [command EXCEPT !.wire = wire, !.bytes = longer, !.sent = total,
                                !.sentBytes = totalBytes, !.truncated = cut,
                                !.produced = produced]
    BY <1>1, <1>6 DEF Emit, Command
  <2>2. /\ command.bytes < MaxOutput /\ command.bytes = command.produced
        /\ kept = Smaller(length, MaxOutput - command.bytes)
    BY <1>1, <1>6, KeptIsBounded DEF Accounted
  <2>3. command.sent = command.produced /\ ~command.truncated
    BY <1>1, <2>2 DEF Accounted, Smaller, Command
  <2>4. /\ produced \in 0..Volume /\ longer = produced /\ longer \in 0..Volume + Chunk
        /\ total = Smaller(produced, MaxOutput) /\ total \in 0..Volume
        /\ cut <=> produced > MaxOutput
    BY <1>1, <2>2, <2>3 DEF Smaller
  <2>5. cut \in BOOLEAN
    BY <1>1 DEF Command
  <2>6. totalBytes \in Nat /\ totalBytes <= Widest * total
    <3>1. /\ Widest * total = Widest * command.sent + Widest * kept
          /\ Widest * kept \in Nat /\ Widest * command.sent \in Nat
      BY <1>1, WiderText
    <3>2. size \in Nat /\ size <= Widest * kept
      BY <1>1, <3>1
    <3>3. command.sentBytes <= Widest * command.sent
      BY <1>1 DEF Accounted
    <3> HIDE DEF kept, total
    <3> QED BY <1>1, <3>1, <3>2, <3>3
  <2>7. wire \in Seq(Frame)
    BY <1>2
  <2>8. wire # <<>> /\ NotClosing(wire, Len(wire))
    <3>1. command.wire \in Seq(Frame) /\ Plain("out") \in Frame
      BY <1>1 DEF Command, Plain, Frame
    <3>2. NotClosing(command.wire, Len(command.wire))
      BY <1>6, OpenIsUntold
    <3>3. Plain("out").type \notin Ending
      BY DEF Plain, Ending
    <3> QED BY <3>1, <3>2, <3>3, AppendFrame
  <2> HIDE DEF kept, wire, produced, longer, total, totalBytes, cut
  <2>9. after \in Command
    <3>1. [command EXCEPT !.wire = wire, !.bytes = longer, !.sent = total,
                          !.sentBytes = totalBytes, !.truncated = cut,
                          !.produced = produced] \in Command
      BY <1>1, <2>4, <2>5, <2>6, <2>7, EmittedIsTyped
    <3> HIDE DEF after
    <3> QED BY <2>1, <3>1
  <2>10. /\ after.sent = total /\ after.produced = produced /\ after.bytes = longer
         /\ after.truncated = cut /\ after.sentBytes = totalBytes
         /\ after.wire = wire /\ after.ended = command.ended
         /\ after.told = command.told /\ after.request = command.request
         /\ after.closed = command.closed
    BY <1>1, <2>1 DEF Command
  <2>11. Accounted(after)
    BY <1>1, <2>4, <2>6, <2>10 DEF Accounted
  <2>12. Stopped(after)
    BY <1>1, <2>1 DEF Stopped, Command
  <2>13. Told(after)
    BY <1>1, <1>6, <2>8, <2>10, OpenIsUntold DEF Told
  <2> QED BY <2>9, <2>11, <2>12, <2>13 DEF CommandSafe
<1> QED BY <1>3, <1>4, <1>5, <1>6

(* The shell's end: the closing frame is the last one, and names the cut.  *)
LEMMA ExitFramesAnnounce ==
  ASSUME NEW command, CommandSafe(command), ~command.closed, NEW code \in Ending
  PROVE  LET wire == ExitFrames(command, code)
         IN /\ wire \in Seq(Frame)
            /\ wire # <<>>
            /\ wire[Len(wire)] = [type |-> code, truncated |-> command.truncated]
            /\ NotClosing(wire, Len(wire) - 1)
<1> DEFINE outcome == [type |-> code, truncated |-> command.truncated]
           before == IF command.timedOut THEN Append(command.wire, Plain("error"))
                     ELSE command.wire
<1>1. outcome \in Frame /\ Plain("error") \in Frame
  BY DEF CommandSafe, Command, Frame, Plain
<1>2. Plain("error").type \notin Ending
  BY DEF Plain, Ending
<1>3. command.wire \in Seq(Frame) /\ NotClosing(command.wire, Len(command.wire))
  BY OpenIsUntold DEF CommandSafe, Command
<1>4. before \in Seq(Frame) /\ NotClosing(before, Len(before))
  BY <1>1, <1>2, <1>3, AppendFrame
<1>5. ExitFrames(command, code) = Append(before, outcome)
  BY DEF ExitFrames
<1> HIDE DEF before, outcome
<1>6. LET wire == Append(before, outcome)
      IN /\ wire \in Seq(Frame)
         /\ wire # <<>>
         /\ wire[Len(wire)] = outcome
         /\ NotClosing(wire, Len(wire) - 1)
  BY <1>1, <1>4, AppendFrame
<1> QED BY <1>5, <1>6 DEF outcome

LEMMA ClosedKeeps ==
  ASSUME NEW command, CommandSafe(command), command.group = "running",
         NEW code \in Ending, NEW left \in {"gone", "background"}
  PROVE  CommandSafe([command EXCEPT
           !.group = left, !.timer = FALSE, !.closed = TRUE,
           !.ended = IF command.closed THEN @ ELSE code,
           !.wire = IF command.closed THEN @ ELSE ExitFrames(command, code)])
<1> DEFINE wire == ExitFrames(command, code)
           after == [command EXCEPT
                       !.group = left, !.timer = FALSE, !.closed = TRUE,
                       !.ended = IF command.closed THEN @ ELSE code,
                       !.wire = IF command.closed THEN @ ELSE wire]
<1>1. CASE command.closed
  <2>1. after = [command EXCEPT !.group = left, !.timer = FALSE]
    BY <1>1 DEF CommandSafe, Command
  <2>2. after \in Command /\ Accounted(after) /\ Stopped(after)
    BY <1>1, <2>1 DEF CommandSafe, Command, Accounted, Stopped
  <2>3. Told(after)
    BY <2>1 DEF CommandSafe, Command, Told, CutAnnounced, Read
  <2> QED BY <2>2, <2>3 DEF CommandSafe
<1>2. CASE ~command.closed
  <2> DEFINE now == [command EXCEPT !.group = left, !.timer = FALSE, !.closed = TRUE,
                       !.ended = code, !.wire = wire]
  <2>1. command.ended = None /\ command.told = "nothing" /\ command.request # "done"
    BY <1>2, OpenIsUntold DEF CommandSafe, Told
  <2>2. /\ wire \in Seq(Frame) /\ wire # <<>>
        /\ wire[Len(wire)] = [type |-> code, truncated |-> command.truncated]
        /\ NotClosing(wire, Len(wire) - 1)
    BY <1>2, ExitFramesAnnounce
  <2> HIDE DEF wire
  <2>3. now \in Command
    BY <2>2 DEF CommandSafe, Command, Optional
  <2>4. Accounted(now) /\ Stopped(now)
    BY DEF CommandSafe, Command, Accounted, Stopped
  <2>5. /\ now.wire = wire /\ now.ended = code /\ now.told = "nothing"
        /\ now.truncated = command.truncated /\ now.closed
        /\ now.request = command.request
    BY <2>1 DEF CommandSafe, Command
  <2>6. Told(now)
    BY <2>1, <2>2, <2>5 DEF Told, CutAnnounced
  <2>7. after = now
    BY <1>2
  <2>8. CommandSafe(after)
    BY <2>3, <2>4, <2>6, <2>7 DEF CommandSafe
  <2> QED BY <2>8 DEF wire
<1> QED BY <1>1, <1>2

(* A line read from the wire, and what the panel then says.                *)
LEMMA FrameReadKeeps ==
  ASSUME NEW command, CommandSafe(command), command.wire # <<>>,
         command.request = "streaming"
  PROVE  /\ Head(command.wire) \in Frame
         /\ CommandSafe([command EXCEPT
              !.wire = Tail(@),
              !.told = IF Head(command.wire).type \notin {"exit", "failed"} THEN @
                       ELSE IF Head(command.wire).truncated THEN "cut" ELSE "whole"])
<1> DEFINE frame == Head(command.wire)
           rest == Tail(command.wire)
           told == IF frame.type \notin {"exit", "failed"} THEN command.told
                   ELSE IF frame.truncated THEN "cut" ELSE "whole"
           after == [command EXCEPT !.wire = rest, !.told = told]
           n == Len(command.wire)
<1>1. /\ command.wire \in Seq(Frame) /\ n \in Nat /\ n >= 1
      /\ frame \in Frame /\ frame = command.wire[1]
      /\ rest \in Seq(Frame) /\ Len(rest) = n - 1
      /\ \A i \in 1..n - 1 : rest[i] = command.wire[i + 1]
  <2>1. command.wire \in Seq(Frame) /\ command.wire # <<>>
    BY DEF CommandSafe, Command
  <2> QED BY <2>1, HeadTailProperties, LenProperties, EmptySeq
<1>2. told \in {"nothing", "whole", "cut"}
  BY <1>1 DEF CommandSafe, Command, Frame
<1> HIDE DEF frame, rest, told, n
<1>3. after \in Command /\ Accounted(after) /\ Stopped(after)
  BY <1>1, <1>2 DEF CommandSafe, Command, Accounted, Stopped
<1>4. /\ after.wire = rest /\ after.told = told /\ after.request = "streaming"
      /\ after.ended = command.ended /\ after.closed = command.closed
      /\ after.truncated = command.truncated
  BY DEF CommandSafe, Command
<1>5. CASE command.ended = None
  <2>1. command.told = "nothing" /\ NotClosing(command.wire, n)
    BY <1>5, TerminalAssumption DEF CommandSafe, Told, Optional, Ending, n
  <2>2. frame.type \notin Ending
    BY <1>1, <2>1 DEF NotClosing
  <2>3. told = "nothing"
    <3>1. frame.type \notin {"exit", "failed"}
      BY <2>2 DEF Ending
    <3> QED BY <2>1, <3>1 DEF told
  <2>4. NotClosing(rest, Len(rest))
    BY <1>1, <2>1 DEF NotClosing
  <2>5. Told(after)
    BY <1>4, <1>5, <2>3, <2>4 DEF Told
  <2> QED BY <1>1, <1>3, <2>5 DEF CommandSafe, frame, rest, told
<1>6. CASE command.ended # None
  <2>1. command.ended \in Ending /\ command.closed /\ CutAnnounced(command)
    BY <1>6 DEF CommandSafe, Told, Read
  <2>2. CASE n = 1
    <3>1. frame = [type |-> command.ended, truncated |-> command.truncated]
      BY <1>1, <2>1, <2>2 DEF CutAnnounced, n
    <3>2. rest = <<>>
      BY <1>1, <2>2, EmptySeq
    <3>3. command.truncated \in BOOLEAN /\ command.told = "nothing"
      BY <2>1 DEF CommandSafe, Command, CutAnnounced
    <3>4. told = Said(command.ended, command.truncated)
      <4>1. frame.type = command.ended /\ frame.truncated = command.truncated
        BY <3>1
      <4>2. CASE command.ended = "killed"
        <5>1. frame.type \notin {"exit", "failed"}
          BY <4>1, <4>2
        <5> QED BY <3>3, <4>2, <5>1 DEF told, Said
      <4>3. CASE command.ended # "killed"
        <5>1. frame.type \in {"exit", "failed"}
          BY <2>1, <4>1, <4>3 DEF Ending
        <5> QED BY <3>3, <4>1, <4>3, <5>1 DEF told, Said
      <4> QED BY <4>2, <4>3
    <3>5. Told(after)
      BY <1>4, <2>1, <3>2, <3>4 DEF Told, Read
    <3> QED BY <1>1, <1>3, <3>5 DEF CommandSafe, frame, rest, told
  <2>3. CASE n # 1
    <3>1. n - 1 \in 1..n - 1 /\ 1 \in 1..n - 1 /\ n - 1 + 1 = n
      BY <1>1, <2>3
    <3>2. frame.type \notin Ending
      BY <1>1, <2>1, <3>1 DEF CutAnnounced, NotClosing, n
    <3>3. told = "nothing"
      <4>1. frame.type \notin {"exit", "failed"}
        BY <3>2 DEF Ending
      <4> QED BY <2>1, <4>1 DEF told, CutAnnounced
    <3>4. rest # <<>> /\ rest[Len(rest)] = command.wire[n]
      BY <1>1, <3>1, EmptySeq
    <3>5. NotClosing(rest, Len(rest) - 1)
      <4> SUFFICES ASSUME NEW i \in 1..Len(rest) - 1 PROVE rest[i].type \notin Ending
        BY DEF NotClosing
      <4>1. i \in 1..n - 1 /\ i + 1 \in 1..n - 1
        BY <1>1
      <4>2. rest[i] = command.wire[i + 1]
        BY <1>1, <4>1
      <4> QED BY <2>1, <4>1, <4>2 DEF CutAnnounced, NotClosing, n
    <3>6. CutAnnounced(after)
      BY <1>4, <2>1, <3>3, <3>4, <3>5 DEF CutAnnounced, n
    <3>7. Told(after)
      BY <1>4, <2>1, <3>6 DEF Told
    <3> QED BY <1>1, <1>3, <3>7 DEF CommandSafe, frame, rest, told
  <2> QED BY <2>2, <2>3
<1> QED BY <1>5, <1>6

-----------------------------------------------------------------------------
(* Steps                                                                   *)

(* What a step of the host leaves to the panel.                            *)
LEMMA HostStepKeeps ==
  ASSUME TerminalIInv, PanelUnchanged, NEW c \in Commands, NEW record, Host(c, record),
         CommandSafe(record)
  PROVE  TerminalIInv'
BY HostKeeps DEF TerminalIInv, PanelUnchanged

LEMMA PanelKeeps ==
  ASSUME TerminalIInv, Abort \/ Reload \/ Clear \/ HandleFrame \/ Done
  PROVE  TerminalIInv'
<1>1. ASSUME running # None
      PROVE  running \in Commands /\ CommandSafe(commands[running])
  BY <1>1 DEF TerminalIInv, Optional
<1>2. CASE Abort
  <2>1. CommandSafe([commands[running] EXCEPT !.request = "left"])
    BY <1>1, <1>2, RequestKeeps DEF Abort
  <2>2. status' \in StatusKinds /\ running' \in Optional(Commands)
    BY <1>2 DEF Abort, StatusKinds, Optional, Ending
  <2> QED BY <1>2, <2>1, <2>2, HostKeeps DEF Abort, TerminalIInv
<1>3. CASE Reload
  <2>1. status' \in StatusKinds /\ running' \in Optional(Commands)
    BY <1>3 DEF Reload, StatusKinds, Optional
  <2>2. CASE running = None
    BY <1>3, <2>1, <2>2 DEF Reload, TerminalIInv
  <2>3. CASE running # None
    <3>1. CommandSafe([commands[running] EXCEPT !.request = "left"])
      BY <1>1, <2>3, RequestKeeps
    <3>2. Host(running, [commands[running] EXCEPT !.request = "left"])
      BY <1>3, <2>3 DEF Reload, Host, TerminalIInv
    <3> QED BY <2>1, <3>1, <3>2, HostKeeps DEF TerminalIInv
  <2> QED BY <2>2, <2>3
<1>4. CASE Clear
  BY <1>4 DEF Clear, TerminalIInv, StatusKinds
<1>5. CASE HandleFrame
  <2> DEFINE command == commands[running]
             frame == Head(command.wire)
             after == [command EXCEPT
                         !.wire = Tail(@),
                         !.told = IF frame.type \notin {"exit", "failed"} THEN @
                                  ELSE IF frame.truncated THEN "cut" ELSE "whole"]
  <2>1. frame \in Frame /\ CommandSafe(after)
    BY <1>1, <1>5, FrameReadKeeps DEF HandleFrame
  <2>2. /\ status' = IF frame.type = "out" THEN status ELSE frame.type
        /\ Host(running, after) /\ UNCHANGED running
    BY <1>5 DEF HandleFrame
  <2> HIDE DEF frame, after
  <2>3. status' \in StatusKinds
    BY <2>1, <2>2 DEF Frame, StatusKinds, TerminalIInv
  <2> QED BY <2>1, <2>2, <2>3, HostKeeps DEF TerminalIInv
<1>6. CASE Done
  <2>1. status' \in StatusKinds /\ running' \in Optional(Commands)
    BY <1>6 DEF Done, TerminalIInv, StatusKinds, Optional, Ending
  <2>2. CASE UNCHANGED commands
    BY <2>1, <2>2 DEF TerminalIInv
  <2>3. CASE /\ Host(running, [commands[running] EXCEPT !.request = "done"])
             /\ commands[running].closed /\ commands[running].wire = <<>>
    <3>1. commands[running].ended = None \/ Read(commands[running])
      BY <1>1, <1>6, <2>3 DEF Done, CommandSafe, Told, CutAnnounced
    <3>2. CommandSafe([commands[running] EXCEPT !.request = "done"])
      BY <1>1, <1>6, <2>3, <3>1, RequestKeeps DEF Done
    <3> QED BY <2>1, <2>3, <3>2, HostKeeps DEF TerminalIInv
  <2> QED BY <1>6, <2>2, <2>3 DEF Done
<1> QED BY <1>2, <1>3, <1>4, <1>5, <1>6

LEMMA RunKeeps ==
  ASSUME TerminalIInv, NEW c \in Commands, Run(c)
  PROVE  TerminalIInv'
<1>1. CommandSafe([commands[c] EXCEPT !.request = "sent"])
  BY RequestKeeps DEF TerminalIInv
<1>2. status' \in StatusKinds
  BY DEF Run, StatusKinds
<1> QED BY <1>1, <1>2, HostKeeps DEF Run, TerminalIInv, Optional

(* The command is spawned with its timer armed, or refused.                *)
LEMMA HandleKeeps ==
  ASSUME TerminalIInv, NEW c \in Commands, Handle(c)
  PROVE  TerminalIInv'
<1> DEFINE command == commands[c]
           spawned == [command EXCEPT !.group = "running", !.timer = TRUE,
                         !.request = IF @ = "left" THEN @ ELSE "streaming"]
           refused == [command EXCEPT !.request = "done", !.closed = TRUE]
<1>1. /\ CommandSafe(command) /\ ~command.closed /\ command.group = "none"
      /\ ~command.abandoned
      /\ Host(c, spawned) \/ Host(c, refused)
  BY DEF Handle, TerminalIInv, CommandSafe, Stopped
<1>2. /\ command.ended = None /\ command.told = "nothing"
      /\ NotClosing(command.wire, Len(command.wire))
  BY <1>1, OpenIsUntold
<1>3. CommandSafe(spawned)
  <2>1. spawned \in Command /\ Accounted(spawned) /\ Stopped(spawned)
    BY <1>1 DEF CommandSafe, Command, Accounted, Stopped
  <2>2. /\ spawned.request # "done" /\ spawned.ended = command.ended
        /\ spawned.told = command.told /\ spawned.wire = command.wire
    BY <1>1 DEF CommandSafe, Command, Told
  <2>3. Told(spawned)
    BY <1>2, <2>2 DEF Told
  <2> QED BY <2>1, <2>3 DEF CommandSafe
<1>4. CommandSafe(refused)
  <2>1. refused \in Command /\ Accounted(refused) /\ Stopped(refused)
    BY <1>1 DEF CommandSafe, Command, Accounted, Stopped
  <2>2. /\ refused.closed /\ refused.ended = command.ended
        /\ refused.told = command.told /\ refused.wire = command.wire
    BY <1>1 DEF CommandSafe, Command
  <2>3. Told(refused)
    BY <1>2, <2>2 DEF Told
  <2> QED BY <2>1, <2>3 DEF CommandSafe
<1> QED BY <1>1, <1>3, <1>4, HostStepKeeps DEF Handle

LEMMA DataKeeps ==
  ASSUME TerminalIInv, NEW c \in Commands, NEW length \in 0..Chunk, Data(c, length)
  PROVE  TerminalIInv'
<1> DEFINE command == commands[c]
<1>1. CommandSafe(command) /\ command.produced + length <= Volume
  BY DEF Data, TerminalIInv
<1>2. PICK size \in Kept(command, length)..Widest * Kept(command, length) :
        Host(c, [Emit(command, length, size) EXCEPT
                   !.produced = IF command.closed THEN @ ELSE @ + length])
  BY DEF Data
<1>3. CommandSafe([Emit(command, length, size) EXCEPT
                     !.produced = IF command.closed THEN @ ELSE @ + length])
  BY <1>1, EmitKeeps
<1>4. PanelUnchanged
  BY DEF Data
<1> QED BY <1>2, <1>3, <1>4, HostStepKeeps

LEMMA ProcessClosedKeeps ==
  ASSUME TerminalIInv, NEW c \in Commands, NEW code \in Ending,
         NEW left \in {"gone", "background"}, ProcessClosed(c, code, left)
  PROVE  TerminalIInv'
<1>1. CommandSafe(commands[c]) /\ commands[c].group = "running"
  BY DEF TerminalIInv, ProcessClosed
<1> QED BY <1>1, ClosedKeeps, HostStepKeeps DEF ProcessClosed

LEMMA GroupEndsKeeps ==
  ASSUME TerminalIInv, NEW c \in Commands, GroupEnds(c)
  PROVE  TerminalIInv'
<1> DEFINE command == commands[c]
           after == [command EXCEPT !.group = "gone"]
<1>1. CommandSafe(command)
  BY DEF TerminalIInv
<1>2. after \in Command /\ Accounted(after) /\ Stopped(after)
  BY <1>1 DEF CommandSafe, Command, Accounted, Stopped
<1>3. Told(after)
  BY <1>1 DEF CommandSafe, Command, Told, CutAnnounced, Read
<1> QED BY <1>2, <1>3, HostStepKeeps DEF GroupEnds, CommandSafe

(* The time is up: the group is told to stop.                              *)
LEMMA TimeOutKeeps ==
  ASSUME TerminalIInv, NEW c \in Commands, TimeOut(c)
  PROVE  TerminalIInv'
<1> DEFINE stopped == Stop(commands[c])
           after == [stopped EXCEPT !.timer = FALSE, !.timedOut = TRUE]
<1>1. /\ CommandSafe(stopped) /\ stopped.group = commands[c].group
      /\ commands[c].group \in {"running", "background"} => stopped.signalled
  <2>1. CommandSafe(commands[c]) /\ commands[c].group # "none"
    BY DEF TimeOut, TerminalIInv, CommandSafe, Stopped
  <2> QED BY <2>1, StopKeeps
<1> HIDE DEF stopped
<1>2. after \in Command /\ Accounted(after) /\ Stopped(after)
  BY <1>1 DEF CommandSafe, Command, Accounted, Stopped
<1>3. Told(after)
  BY <1>1 DEF CommandSafe, Command, Told, CutAnnounced, Read
<1>4. Host(c, after) /\ PanelUnchanged
  BY DEF TimeOut, stopped
<1> QED BY <1>2, <1>3, <1>4, HostStepKeeps DEF CommandSafe

(* The caller left: the group is told to stop before the stream is closed. *)
LEMMA CancelKeeps ==
  ASSUME TerminalIInv, NEW c \in Commands, Cancel(c)
  PROVE  TerminalIInv'
<1> DEFINE stopped == Stop(commands[c])
<1>1. /\ CommandSafe(stopped) /\ stopped.group = commands[c].group
      /\ commands[c].group \in {"running", "background"} => stopped.signalled
  <2>1. CommandSafe(commands[c]) /\ commands[c].group # "none"
    BY DEF Cancel, TerminalIInv
  <2> QED BY <2>1, StopKeeps
<1>2. PICK cancelled \in BOOLEAN :
        Host(c, [stopped EXCEPT !.timer = FALSE, !.closed = @ \/ cancelled])
  BY DEF Cancel
<1> DEFINE after == [stopped EXCEPT !.timer = FALSE, !.closed = @ \/ cancelled]
<1> HIDE DEF stopped
<1>3. after \in Command /\ Accounted(after) /\ Stopped(after)
  BY <1>1 DEF CommandSafe, Command, Accounted, Stopped
<1>4. Told(after)
  BY <1>1 DEF CommandSafe, Command, Told, CutAnnounced, Read
<1>5. PanelUnchanged
  BY DEF Cancel
<1> QED BY <1>2, <1>3, <1>4, <1>5, HostStepKeeps DEF CommandSafe

LEMMA RecycleKeeps ==
  ASSUME TerminalIInv, NEW c \in Commands, Recycle(c)
  PROVE  TerminalIInv'
BY NoCommandSafe, HostStepKeeps DEF Recycle

-----------------------------------------------------------------------------
(* Theorems                                                                *)

LEMMA TerminalInitIInv == TerminalInit => TerminalIInv
BY NoCommandSafe DEF TerminalInit, TerminalIInv, Optional, StatusKinds

LEMMA TerminalNextIInv == TerminalIInv /\ [TerminalNext]_terminalVars => TerminalIInv'
<1> SUFFICES ASSUME TerminalIInv, [TerminalNext]_terminalVars PROVE TerminalIInv'
  OBVIOUS
<1>1. CASE TerminalNext
  BY <1>1, PanelKeeps, RunKeeps, HandleKeeps, DataKeeps, ProcessClosedKeeps,
     GroupEndsKeeps, TimeOutKeeps, CancelKeeps, RecycleKeeps DEF TerminalNext
<1>2. CASE UNCHANGED terminalVars
  BY <1>2 DEF terminalVars, TerminalIInv
<1> QED BY <1>1, <1>2

(* The terminal keeps its inductive invariant (index.js, handle).          *)
THEOREM TerminalInvariance == TerminalSpec => []TerminalIInv
BY TerminalInitIInv, TerminalNextIInv, PTL DEF TerminalSpec

(* Every reachable state of the terminal is well typed.                    *)
THEOREM TerminalTypeCorrectness == TerminalSpec => []TerminalTypeOK
<1>1. TerminalIInv => TerminalTypeOK
  BY DEF TerminalIInv, TerminalTypeOK, CommandSafe
<1> QED BY <1>1, TerminalInvariance, PTL

(* The stream holds the text of a command up to the limit, in units of     *)
(* text (emit), the closing frame says of a cut what happened, and the     *)
(* panel repeats it for a command that ended with an exit code and for no  *)
(* other (exitFrames, handleFrame).                                        *)
THEOREM EveryChunkAccounted == TerminalSpec => []OutputAccounted
<1>1. TerminalIInv => OutputAccounted
  <2> SUFFICES ASSUME TerminalIInv
               PROVE  OutputAccounted
    OBVIOUS
  <2> SUFFICES ASSUME NEW c \in Commands
               PROVE  LET command == commands[c]
                          cut == command.produced > MaxOutput
                      IN /\ command.sent = Min({command.produced, MaxOutput})
                         /\ command.sentBytes <= Widest * MaxOutput
                         /\ command.told # "nothing" =>
                              /\ command.ended \in {"exit", "failed"}
                              /\ command.told = "cut" <=> cut
                         /\ command.request = "done"
                              /\ command.ended \in {"exit", "failed"} =>
                                command.told = (IF cut THEN "cut" ELSE "whole")
    BY DEF OutputAccounted
  <2> DEFINE command == commands[c]
             cut == command.produced > MaxOutput
  <2>1. /\ CommandSafe(command) /\ Accounted(command) /\ Told(command)
        /\ command.produced \in Nat /\ command.sent \in Nat /\ MaxOutput \in Nat
        /\ command.sentBytes \in Nat /\ Widest \in Nat /\ command.truncated \in BOOLEAN
    <3> QED BY TerminalAssumption DEF TerminalIInv, CommandSafe, Command
  <2>2. command.sent = Min({command.produced, MaxOutput})
    BY <2>1, MinOfTwo DEF Accounted
  <2>3. command.sentBytes <= Widest * MaxOutput
    <3>1. command.sent <= MaxOutput
      BY <2>1 DEF Accounted, Smaller
    <3>2. Widest * command.sent <= Widest * MaxOutput /\ Widest * command.sent \in Nat
          /\ Widest * MaxOutput \in Nat
      BY <2>1, <3>1, WiderText
    <3> QED BY <2>1, <3>2 DEF Accounted
  <2>4. command.truncated <=> cut
    BY <2>1 DEF Accounted
  <2>5. command.told # "nothing" =>
          /\ command.ended \in {"exit", "failed"}
          /\ command.told = "cut" <=> cut
    BY <2>1, <2>4 DEF Told, CutAnnounced, Read, Said, Ending
  <2>6. command.request = "done" /\ command.ended \in {"exit", "failed"} =>
          command.told = (IF cut THEN "cut" ELSE "whole")
    <3> SUFFICES ASSUME command.request = "done", command.ended \in {"exit", "failed"}
                 PROVE  command.told = (IF cut THEN "cut" ELSE "whole")
      OBVIOUS
    <3>1. command.ended # None
      BY TerminalAssumption, <2>1 DEF CommandSafe, Command, Optional, Ending
    <3>2. Read(command)
      BY <2>1, <3>1 DEF Told
    <3> QED BY <2>4, <3>2 DEF Read, Said
  <2> QED BY <2>2, <2>3, <2>5, <2>6
<1> QED BY <1>1, TerminalInvariance, PTL

(* A group that the host learns nobody waits for was told to stop, in      *)
(* whatever order the timer, cancel() and the abort came; what a shell     *)
(* left in the background when it ended by itself is not concerned.        *)
THEOREM NothingRunsUnwatched == TerminalSpec => []UnwatchedIsStopped
<1>1. TerminalIInv => UnwatchedIsStopped
  BY DEF TerminalIInv, CommandSafe, Stopped, UnwatchedIsStopped
<1> QED BY <1>1, TerminalInvariance, PTL

-----------------------------------------------------------------------------
(* The context and cache manager.                                          *)

(* A ledger has its fields, whatever its layers hold.                      *)
Fields == {"core", "project", "history", "live", "handoff", "handoffVersion",
           "pending", "prefix", "contextVersion"}

LedgerShape(ledger) ==
  /\ ledger = [field \in Fields |-> ledger[field]]
  /\ ledger.contextVersion \in Nat

(* What an operation may do to the version of a ledger: leave it with the  *)
(* prefix it names, or move on.                                            *)
MovesOn(before, after) ==
  /\ LedgerShape(after)
  /\ after.contextVersion >= before.contextVersion
  /\ after.contextVersion = before.contextVersion => after.prefix = before.prefix

(* A call whose version its ledger still has was made of its prefix.       *)
CoveredBy(call, ledger) ==
  /\ call.contextVersion \in Nat
  /\ call.contextVersion <= ledger.contextVersion
  /\ call.contextVersion = ledger.contextVersion => call.layers = ledger.prefix

(* The calls of the journal and those that are open.                       *)
CallsRecorded ==
  ToSet(journal) \cup {observed[c] : c \in {d \in Observed : observed[d].open}}

(* The digests of a call are those of the prompt it was made of, if known. *)
MadeOf(call) ==
  call.prompt # None =>
    /\ call.prompt \in Assemblies
    /\ call.layers.core = Digest(TextLayer(call.prompt.sections))
    /\ call.layers.project = Digest(TextLayer(call.prompt.contexts))

(* A version names one prefix of digests.                                  *)
SameLayers ==
  \A x, y \in CallsRecorded :
    x.session = y.session /\ x.contextVersion = y.contextVersion
      => x.layers = y.layers

(* The ledger of a session whose prompt was reported holds its layers.     *)
PromptInForce(s) ==
  prompts[s] # None =>
    /\ prompts[s] \in Assemblies
    /\ ledgers[s].core = TextLayer(prompts[s].sections)
    /\ ledgers[s].project = TextLayer(prompts[s].contexts)

PromptsKnown ==
  /\ prompts = [s \in Sessions |-> prompts[s]]
  /\ \A s \in Sessions : PromptInForce(s)

ContextIInv ==
  /\ ledgers = [key \in Optional(Sessions) |-> ledgers[key]]
  /\ \A key \in Optional(Sessions) : LedgerShape(ledgers[key])
  /\ observed = [c \in Observed |-> observed[c]]
  /\ \E S : journal \in Seq(S)
  /\ \A x \in CallsRecorded :
       /\ x.session \in Optional(Sessions)
       /\ CoveredBy(x, ledgers[x.session])
       /\ MadeOf(x)
  /\ SameLayers
  /\ PromptsKnown

(* Whatever an operation does, the layers of a prompt it knows stay.       *)
KeepsPrompt(before, after) ==
  before.core # None => after.core = before.core /\ after.project = before.project

-----------------------------------------------------------------------------
(* Ledgers                                                                 *)

(* recompute() names the prefix of now, under the version it had or under  *)
(* the next one.                                                           *)
LEMMA RecomputeMovesOn ==
  ASSUME NEW ledger, LedgerShape(ledger)
  PROVE  /\ MovesOn(ledger, Recompute(ledger))
         /\ Recompute(ledger).prefix = Layers(ledger)
         /\ Layers(Recompute(ledger)) = Layers(ledger)
         /\ Recompute(ledger).core = ledger.core
         /\ Recompute(ledger).project = ledger.project
<1>1. CASE ledger.prefix = Layers(ledger)
  BY <1>1 DEF Recompute, MovesOn, LedgerShape
<1>2. CASE ledger.prefix # Layers(ledger)
  <2> DEFINE moved == [ledger EXCEPT !.prefix = Layers(ledger), !.contextVersion = @ + 1]
  <2>1. Recompute(ledger) = moved
    BY <1>2 DEF Recompute
  <2>2. moved = [field \in Fields |->
                   CASE field = "prefix" -> Layers(ledger)
                     [] field = "contextVersion" -> ledger.contextVersion + 1
                     [] OTHER -> ledger[field]]
    BY DEF LedgerShape, Fields
  <2>3. MovesOn(ledger, moved)
    BY <2>2 DEF LedgerShape, MovesOn, Fields
  <2>4. Layers(moved) = Layers(ledger) /\ moved.prefix = Layers(ledger)
    BY <2>2 DEF Layers, Fields
  <2>5. moved.core = ledger.core /\ moved.project = ledger.project
    BY <2>2 DEF Fields
  <2> QED BY <2>1, <2>3, <2>4, <2>5
<1> QED BY <1>1, <1>2

(* Moving on twice is moving on.                                           *)
LEMMA MovesOnTwice ==
  ASSUME NEW x, NEW y, NEW z, LedgerShape(x), MovesOn(x, y), MovesOn(y, z)
  PROVE  MovesOn(x, z)
BY DEF MovesOn, LedgerShape

(* The layers a prompt is assembled of, and those of a request.            *)
LEMMA AssemblyMovesOn ==
  ASSUME NEW ledger, LedgerShape(ledger), NEW assembly
  PROVE  /\ MovesOn(ledger, WithAssembly(ledger, assembly))
         /\ WithAssembly(ledger, assembly).core = TextLayer(assembly.sections)
         /\ WithAssembly(ledger, assembly).project = TextLayer(assembly.contexts)
<1> DEFINE given == [ledger EXCEPT !.core = TextLayer(assembly.sections),
                                   !.project = TextLayer(assembly.contexts)]
<1>1. given = [field \in Fields |->
                 CASE field = "core" -> TextLayer(assembly.sections)
                   [] field = "project" -> TextLayer(assembly.contexts)
                   [] OTHER -> ledger[field]]
  BY DEF LedgerShape, Fields
<1>2. MovesOn(ledger, given)
  BY <1>1 DEF LedgerShape, MovesOn, Fields
<1>3. LedgerShape(given)
  BY <1>2 DEF MovesOn
<1>4. /\ MovesOn(given, Recompute(given))
      /\ Recompute(given).core = given.core
      /\ Recompute(given).project = given.project
  BY <1>3, RecomputeMovesOn
<1>5. WithAssembly(ledger, assembly) = Recompute(given)
  BY DEF WithAssembly
<1>6. given.core = TextLayer(assembly.sections) /\ given.project = TextLayer(assembly.contexts)
  BY <1>1 DEF Fields
<1>7. MovesOn(ledger, Recompute(given))
  BY <1>2, <1>4, MovesOnTwice
<1> QED BY <1>4, <1>5, <1>6, <1>7

LEMMA RequestMovesOn ==
  ASSUME NEW ledger, LedgerShape(ledger), NEW messages
  PROVE  /\ MovesOn(ledger, WithRequest(ledger, messages))
         /\ WithRequest(ledger, messages).prefix
              = Layers(WithRequest(ledger, messages))
         /\ KeepsPrompt(ledger, WithRequest(ledger, messages))
<1> DEFINE split == SplitMessages(messages)
           systems == SystemLayer(messages, split.systems)
           core == IF ledger.core = None THEN systems ELSE ledger.core
           given == [ledger EXCEPT !.core = IF @ = None THEN systems ELSE @,
                                   !.history = split.history, !.live = split.live]
<1>1. given = [field \in Fields |->
                 CASE field = "core" -> core
                   [] field = "history" -> split.history
                   [] field = "live" -> split.live
                   [] OTHER -> ledger[field]]
  BY DEF LedgerShape, Fields
<1>2. MovesOn(ledger, given)
  BY <1>1 DEF LedgerShape, MovesOn, Fields
<1>3. LedgerShape(given)
  BY <1>2 DEF MovesOn
<1>4. /\ MovesOn(given, Recompute(given))
      /\ Recompute(given).prefix = Layers(Recompute(given))
      /\ Recompute(given).core = given.core
      /\ Recompute(given).project = given.project
  BY <1>3, RecomputeMovesOn
<1>5. WithRequest(ledger, messages) = Recompute(given)
  BY DEF WithRequest
<1>6. ledger.core # None => given.core = ledger.core /\ given.project = ledger.project
  BY <1>1 DEF Fields
<1>7. KeepsPrompt(ledger, Recompute(given))
  BY <1>4, <1>6 DEF KeepsPrompt
<1>8. MovesOn(ledger, Recompute(given))
  BY <1>2, <1>4, MovesOnTwice
<1> QED BY <1>4, <1>5, <1>7, <1>8

(* What a compaction does before its end concerns no layer.                *)
LEMMA PendingMovesOn ==
  ASSUME NEW ledger, LedgerShape(ledger), NEW pending
  PROVE  /\ MovesOn(ledger, [ledger EXCEPT !.pending = pending])
         /\ KeepsPrompt(ledger, [ledger EXCEPT !.pending = pending])
<1> DEFINE given == [ledger EXCEPT !.pending = pending]
<1>1. given = [field \in Fields |->
                 IF field = "pending" THEN pending ELSE ledger[field]]
  BY DEF LedgerShape, Fields
<1> QED BY <1>1 DEF LedgerShape, MovesOn, KeepsPrompt, Fields

(* The end of a compaction commits a handoff, or nothing.                  *)
LEMMA FinishMovesOn ==
  ASSUME NEW ledger, LedgerShape(ledger), NEW failed
  PROVE  /\ MovesOn(ledger, FinishCompaction(ledger, failed))
         /\ KeepsPrompt(ledger, FinishCompaction(ledger, failed))
<1> DEFINE closed == [ledger EXCEPT !.pending = None]
           handoff == [version |-> ledger.handoffVersion + 1,
                       digest |-> ledger.pending.summary]
           given == [closed EXCEPT !.handoffVersion = @ + 1, !.handoff = handoff]
<1>1. /\ MovesOn(ledger, closed) /\ KeepsPrompt(ledger, closed)
      /\ closed.core = ledger.core /\ closed.project = ledger.project
  BY PendingMovesOn DEF LedgerShape, Fields
<1>2. LedgerShape(closed)
  BY <1>1 DEF MovesOn
<1>3. CASE ledger.pending = None \/ failed
  <2>1. FinishCompaction(ledger, failed) = closed
    BY <1>3 DEF FinishCompaction
  <2> QED BY <1>1, <2>1
<1>4. CASE ~(ledger.pending = None \/ failed)
  <2>1. FinishCompaction(ledger, failed) = Recompute(given)
    BY <1>4 DEF FinishCompaction
  <2>2. given = [field \in Fields |->
                   CASE field = "handoff" -> handoff
                     [] field = "handoffVersion" -> closed.handoffVersion + 1
                     [] OTHER -> closed[field]]
    BY <1>2 DEF LedgerShape, Fields
  <2>3. MovesOn(closed, given)
    BY <1>2, <2>2 DEF LedgerShape, MovesOn, Fields
  <2>4. LedgerShape(given)
    BY <2>3 DEF MovesOn
  <2>5. /\ MovesOn(given, Recompute(given))
        /\ Recompute(given).core = given.core
        /\ Recompute(given).project = given.project
    BY <2>4, RecomputeMovesOn
  <2>6. MovesOn(closed, Recompute(given))
    BY <1>2, <2>3, <2>5, MovesOnTwice
  <2>7. given.core = closed.core /\ given.project = closed.project
    BY <2>2 DEF Fields
  <2>8. KeepsPrompt(ledger, Recompute(given))
    BY <1>1, <2>5, <2>7 DEF KeepsPrompt
  <2> QED BY <1>1, <2>1, <2>6, <2>8, MovesOnTwice
<1> QED BY <1>3, <1>4

(* The ledger a call is attributed to, with or without an adopted prompt.  *)
LEMMA AttributedMovesOn ==
  ASSUME NEW key, LedgerShape(ledgers[key]), NEW messages
  PROVE  /\ MovesOn(ledgers[key], Attributed(key, messages))
         /\ Attributed(key, messages).prefix = Layers(Attributed(key, messages))
         /\ KeepsPrompt(ledgers[key], Attributed(key, messages))
<1> DEFINE ledger == ledgers[key]
           prompted == WithAssembly(ledger, lastAssembly.assembly)
<1>1. MovesOn(ledger, prompted) /\ LedgerShape(prompted)
  BY AssemblyMovesOn DEF MovesOn
<1>2. CASE Attributed(key, messages) = WithRequest(ledger, messages)
  BY <1>2, RequestMovesOn
<1>3. CASE Attributed(key, messages) = WithRequest(prompted, messages) /\ ledger.core = None
  BY <1>1, <1>3, RequestMovesOn, MovesOnTwice DEF KeepsPrompt
<1> QED BY <1>2, <1>3 DEF Attributed

-----------------------------------------------------------------------------
(* Steps                                                                   *)

(* Two records that say the same of a call.                                *)
SameCall(x, y) ==
  /\ x.session = y.session
  /\ x.contextVersion = y.contextVersion
  /\ x.layers = y.layers
  /\ x.prompt = y.prompt

(* A call made of the prefix its ledger has now.                           *)
Fresh(x) ==
  /\ x.session \in Optional(Sessions)
  /\ x.contextVersion = ledgers[x.session].contextVersion
  /\ x.layers = ledgers[x.session].prefix
  /\ MadeOf(x)

LedgersMoveOn ==
  /\ ledgers' = [key \in Optional(Sessions) |-> ledgers'[key]]
  /\ \A key \in Optional(Sessions) : MovesOn(ledgers[key], ledgers'[key])

PromptsStay ==
  /\ UNCHANGED prompts
  /\ \A key \in Optional(Sessions) : KeepsPrompt(ledgers[key], ledgers'[key])

(* The layers of a known prompt are some, even when they are empty.        *)
LEMMA PromptsKept ==
  ASSUME ContextIInv, PromptsStay
  PROVE  PromptsKnown'
<1>1. ASSUME NEW s \in Sessions, prompts[s] # None
      PROVE  /\ prompts[s] \in Assemblies
             /\ ledgers'[s].core = TextLayer(prompts[s].sections)
             /\ ledgers'[s].project = TextLayer(prompts[s].contexts)
  <2>1. PromptInForce(s)
    BY DEF ContextIInv, PromptsKnown
  <2>2. ledgers[s].core # None
    BY <1>1, <2>1, NoLayerAssumption DEF PromptInForce
  <2>3. KeepsPrompt(ledgers[s], ledgers'[s])
    BY DEF PromptsStay, Optional
  <2> QED BY <1>1, <2>1, <2>2, <2>3 DEF PromptInForce, KeepsPrompt
<1>2. prompts' = prompts /\ prompts = [s \in Sessions |-> prompts[s]]
  BY DEF PromptsStay, ContextIInv, PromptsKnown
<1> QED BY <1>1, <1>2 DEF PromptsKnown, PromptInForce

(* A step that moves the ledgers on, and whose calls are those there were  *)
(* or are made of the prefix of now, keeps what is proved.                 *)
LEMMA CallStepKeeps ==
  ASSUME ContextIInv, LedgersMoveOn, PromptsKnown',
         \A x \in CallsRecorded' : Fresh(x)' \/ \E y \in CallsRecorded : SameCall(x, y),
         observed' = [c \in Observed |-> observed'[c]],
         \E S : journal' \in Seq(S)
  PROVE  ContextIInv'
<1>1. \A key \in Optional(Sessions) : LedgerShape(ledgers'[key])
  BY DEF LedgersMoveOn, MovesOn
<1>2. ASSUME NEW x \in CallsRecorded'
      PROVE  /\ x.session \in Optional(Sessions)
             /\ CoveredBy(x, ledgers'[x.session])
             /\ MadeOf(x)
  <2>1. CASE Fresh(x)'
    <3>1. /\ x.session \in Optional(Sessions)
          /\ x.contextVersion = ledgers'[x.session].contextVersion
          /\ x.layers = ledgers'[x.session].prefix
          /\ MadeOf(x)
      BY <2>1 DEF Fresh, Optional, MadeOf, Digest, TextLayer
    <3>2. LedgerShape(ledgers'[x.session])
      BY <1>1, <3>1
    <3>3. ledgers'[x.session].contextVersion \in Nat
      BY <3>2 DEF LedgerShape
    <3> QED BY <3>1, <3>3 DEF CoveredBy
  <2>2. CASE \E y \in CallsRecorded : SameCall(x, y)
    <3>1. PICK y \in CallsRecorded : SameCall(x, y)
      BY <2>2
    <3>2. /\ y.session \in Optional(Sessions) /\ CoveredBy(y, ledgers[y.session])
          /\ MadeOf(y)
      BY DEF ContextIInv
    <3>3. MovesOn(ledgers[y.session], ledgers'[y.session])
      BY <3>2 DEF LedgersMoveOn
    <3>4. LedgerShape(ledgers[y.session]) /\ LedgerShape(ledgers'[y.session])
      BY <1>1, <3>2 DEF ContextIInv
    <3>5. MadeOf(x)
      BY <3>1, <3>2 DEF SameCall, MadeOf
    <3> QED BY <3>1, <3>2, <3>3, <3>4, <3>5 DEF SameCall, CoveredBy, MovesOn, LedgerShape
  <2> QED BY <1>2, <2>1, <2>2
<1>3. ASSUME NEW x \in CallsRecorded', NEW y \in CallsRecorded',
             x.session = y.session, x.contextVersion = y.contextVersion
      PROVE  x.layers = y.layers
  <2>1. CASE Fresh(x)'
    BY <1>2, <1>3, <2>1 DEF Fresh, CoveredBy
  <2>2. CASE Fresh(y)'
    BY <1>2, <1>3, <2>2 DEF Fresh, CoveredBy
  <2>3. CASE ~Fresh(x)' /\ ~Fresh(y)'
    <3>1. PICK u \in CallsRecorded : SameCall(x, u)
      BY <1>3, <2>3
    <3>2. PICK v \in CallsRecorded : SameCall(y, v)
      BY <1>3, <2>3
    <3>3. u.session = v.session /\ u.contextVersion = v.contextVersion
      BY <1>3, <3>1, <3>2 DEF SameCall
    <3>4. SameLayers
      BY DEF ContextIInv
    <3>5. u.layers = v.layers
      BY <3>3, <3>4 DEF SameLayers
    <3> QED BY <3>1, <3>2, <3>5 DEF SameCall
  <2> QED BY <2>1, <2>2, <2>3
<1>4. SameLayers'
  BY <1>3 DEF SameLayers
<1> QED BY <1>1, <1>2, <1>4 DEF ContextIInv, LedgersMoveOn

(* A ledger is replaced by one that moves on.                              *)
LEMMA OneLedgerMoves ==
  ASSUME ContextIInv, NEW key \in Optional(Sessions), NEW ledger,
         MovesOn(ledgers[key], ledger),
         ledgers' = [ledgers EXCEPT ![key] = ledger]
  PROVE  /\ LedgersMoveOn
         /\ UNCHANGED prompts /\ KeepsPrompt(ledgers[key], ledger) => PromptsStay
<1>1. ledgers' = [k \in Optional(Sessions) |-> IF k = key THEN ledger ELSE ledgers[k]]
  BY DEF ContextIInv
<1>2. ASSUME NEW k \in Optional(Sessions)
      PROVE  MovesOn(ledgers[k], ledgers'[k])
  <2>1. CASE k = key
    BY <1>1, <2>1
  <2>2. CASE k # key
    BY <1>1, <2>2 DEF ContextIInv, MovesOn, LedgerShape
  <2> QED BY <2>1, <2>2
<1>3. ASSUME UNCHANGED prompts, KeepsPrompt(ledgers[key], ledger)
      PROVE  PromptsStay
  BY <1>1, <1>3 DEF PromptsStay, KeepsPrompt
<1> QED BY <1>1, <1>2, <1>3 DEF LedgersMoveOn

(* The ledgers are left as they are.                                       *)
LEMMA LedgersStay ==
  ASSUME ContextIInv, UNCHANGED ledgers
  PROVE  LedgersMoveOn /\ (UNCHANGED prompts => PromptsStay)
BY DEF ContextIInv, LedgersMoveOn, MovesOn, LedgerShape, PromptsStay, KeepsPrompt

(* A step that only reports to a ledger.                                   *)
LEMMA ReportKeeps ==
  ASSUME ContextIInv, LedgersMoveOn, PromptsKnown', UNCHANGED <<observed, journal>>
  PROVE  ContextIInv'
<1>1. \A x \in CallsRecorded' : \E y \in CallsRecorded : SameCall(x, y)
  BY DEF CallsRecorded, SameCall
<1> QED BY <1>1, CallStepKeeps DEF ContextIInv

LEMMA AssemblyKeeps ==
  ASSUME ContextIInv, NEW assembly \in Assemblies, NEW s \in Optional(Sessions),
         ObserveAssembly(assembly, s)
  PROVE  ContextIInv'
<1>1. CASE s = None
  <2>1. prompts' = [t \in Sessions |-> None]
    BY <1>1 DEF ObserveAssembly
  <2>2. PromptsKnown'
    BY <2>1 DEF PromptsKnown, PromptInForce
  <2> QED BY <1>1, <2>2, LedgersStay, ReportKeeps DEF ObserveAssembly
<1>2. CASE s # None
  <2> DEFINE ledger == WithAssembly(ledgers[s], assembly)
  <2>1. /\ MovesOn(ledgers[s], ledger)
        /\ ledger.core = TextLayer(assembly.sections)
        /\ ledger.project = TextLayer(assembly.contexts)
    BY AssemblyMovesOn DEF ContextIInv
  <2>2. /\ ledgers' = [ledgers EXCEPT ![s] = ledger]
        /\ prompts' = [prompts EXCEPT ![s] = assembly]
    BY <1>2 DEF ObserveAssembly, Ledger
  <2> HIDE DEF ledger
  <2>3. LedgersMoveOn
    BY <2>1, <2>2, OneLedgerMoves
  <2>4. /\ ledgers' = [k \in Optional(Sessions) |-> IF k = s THEN ledger ELSE ledgers[k]]
        /\ prompts' = [k \in Sessions |-> IF k = s THEN assembly ELSE prompts[k]]
    BY <2>2 DEF ContextIInv, PromptsKnown
  <2>5. ASSUME NEW k \in Sessions
        PROVE  PromptInForce(k)'
    <3>1. CASE k = s
      BY <2>1, <2>4, <3>1 DEF PromptInForce, Optional
    <3>2. CASE k # s
      <4>1. prompts'[k] = prompts[k] /\ ledgers'[k] = ledgers[k]
        BY <2>4, <3>2 DEF Optional
      <4>2. PromptInForce(k)
        BY DEF ContextIInv, PromptsKnown
      <4> QED BY <4>1, <4>2 DEF PromptInForce
    <3> QED BY <3>1, <3>2
  <2>6. PromptsKnown'
    BY <2>4, <2>5 DEF PromptsKnown
  <2> QED BY <2>3, <2>6, ReportKeeps DEF ObserveAssembly
<1> QED BY <1>1, <1>2

LEMMA SessionEventKeeps ==
  ASSUME ContextIInv, NEW s \in Sessions, NEW ledger, MovesOn(ledgers[s], ledger),
         KeepsPrompt(ledgers[s], ledger), ObserveSessionEvent(s, ledger)
  PROVE  ContextIInv'
<1>1. s \in Optional(Sessions)
  BY DEF Optional
<1>2. LedgersMoveOn /\ PromptsStay
  BY <1>1, OneLedgerMoves DEF ObserveSessionEvent, Ledger
<1> QED BY <1>2, PromptsKept, ReportKeeps DEF ObserveSessionEvent

(* The call that begins is made of the prefix of now.                      *)
LEMMA BeginKeeps ==
  ASSUME ContextIInv, NEW c \in Observed, NEW s \in Optional(Sessions), NEW messages,
         BeginCall(c, s, messages)
  PROVE  ContextIInv'
<1> DEFINE ledger == Attributed(s, messages)
           stream == [NoStream EXCEPT !.open = TRUE, !.session = s,
                        !.contextVersion = ledger.contextVersion,
                        !.handoffVersion = ledger.handoffVersion,
                        !.layers = Layers(ledger),
                        !.prompt = IF s = None THEN None ELSE prompts[s]]
<1>1. /\ ledgers' = [ledgers EXCEPT ![s] = ledger]
      /\ observed' = [observed EXCEPT ![c] = stream]
      /\ journal' = journal /\ UNCHANGED prompts
  BY DEF BeginCall, Ledger, Observe
<1>2. /\ MovesOn(ledgers[s], ledger) /\ ledger.prefix = Layers(ledger)
      /\ KeepsPrompt(ledgers[s], ledger)
  BY AttributedMovesOn DEF ContextIInv
<1>3. LedgersMoveOn /\ PromptsStay
  BY <1>1, <1>2, OneLedgerMoves
<1>10. PromptsKnown'
  BY <1>3, PromptsKept
<1>4. observed' = [d \in Observed |-> IF d = c THEN stream ELSE observed[d]]
  BY <1>1 DEF ContextIInv
<1>5. ledgers'[s] = ledger
  BY <1>1 DEF ContextIInv
<1>6. PICK call : call = stream
  OBVIOUS
<1>7. Fresh(call)'
  <2>1. /\ call.session = s
        /\ call.contextVersion = ledger.contextVersion
        /\ call.layers = Layers(ledger)
        /\ call.prompt = IF s = None THEN None ELSE prompts[s]
    BY <1>6 DEF NoStream
  <2>2. MadeOf(call)
    <3> SUFFICES ASSUME call.prompt # None PROVE MadeOf(call)
      BY DEF MadeOf
    <3>1. s \in Sessions /\ call.prompt = prompts[s]
      BY <2>1 DEF Optional
    <3>2. /\ prompts'[s] = prompts[s] /\ PromptInForce(s)'
      BY <1>1, <1>10, <3>1 DEF PromptsKnown
    <3>3. /\ prompts[s] \in Assemblies
          /\ ledger.core = TextLayer(prompts[s].sections)
          /\ ledger.project = TextLayer(prompts[s].contexts)
      BY <1>5, <3>1, <3>2 DEF PromptInForce
    <3>4. /\ call.layers.core = Digest(ledger.core)
          /\ call.layers.project = Digest(ledger.project)
      BY <2>1 DEF Layers
    <3> QED BY <3>1, <3>3, <3>4 DEF MadeOf
  <2>3. MadeOf(call)'
    BY <2>2 DEF MadeOf, Digest, TextLayer
  <2> QED BY <1>2, <1>5, <2>1, <2>3 DEF Fresh, Optional
<1>8. ASSUME NEW x \in CallsRecorded'
      PROVE  Fresh(x)' \/ \E y \in CallsRecorded : SameCall(x, y)
  <2>1. x = call \/ x \in CallsRecorded
    BY <1>1, <1>4, <1>6 DEF CallsRecorded
  <2> QED BY <1>7, <2>1 DEF SameCall
<1>9. /\ observed' = [d \in Observed |-> observed'[d]]
      /\ \E S : journal' \in Seq(S)
  BY <1>1, <1>4 DEF ContextIInv
<1> QED BY <1>3, <1>8, <1>9, <1>10, CallStepKeeps

(* The journal keeps what it held, or all of it but its oldest record, and *)
(* the entry appended.                                                     *)
LEMMA JournalAppend ==
  ASSUME NEW S, NEW s \in Seq(S), NEW entry, NEW longer,
         \/ longer = Append(s, entry)
         \/ longer = Tail(Append(s, entry))
  PROVE  /\ longer \in Seq(S \cup {entry})
         /\ \A x \in ToSet(longer) : x = entry \/ x \in ToSet(s)
<1> DEFINE T == S \cup {entry}
           whole == Append(s, entry)
<1>1. s \in Seq(T)
  BY SeqMonotonic
<1>2. /\ whole \in Seq(T) /\ Len(whole) = Len(s) + 1
      /\ \A i \in 1..Len(whole) : whole[i] = IF i <= Len(s) THEN s[i] ELSE entry
  BY <1>1, AppendProperties
<1>3. Len(s) \in Nat /\ DOMAIN s = 1..Len(s) /\ DOMAIN whole = 1..Len(whole)
  BY <1>1, <1>2, LenProperties
<1>4. \A i \in 1..Len(whole) : whole[i] = entry \/ whole[i] \in ToSet(s)
  BY <1>2, <1>3 DEF ToSet
<1>5. CASE longer = whole
  BY <1>2, <1>3, <1>4, <1>5 DEF ToSet
<1>6. CASE longer = Tail(whole)
  <2>1. whole # <<>>
    BY <1>2, <1>3
  <2>2. /\ Tail(whole) \in Seq(T) /\ Len(Tail(whole)) = Len(whole) - 1
        /\ \A i \in 1..Len(Tail(whole)) : Tail(whole)[i] = whole[i + 1]
    BY <1>2, <2>1, HeadTailProperties
  <2>3. DOMAIN Tail(whole) = 1..Len(Tail(whole))
    BY <2>2, LenProperties
  <2>4. \A i \in 1..Len(Tail(whole)) : i + 1 \in 1..Len(whole)
    BY <1>2, <1>3, <2>2
  <2> QED BY <1>4, <1>6, <2>2, <2>3, <2>4 DEF ToSet
<1> QED BY <1>5, <1>6

(* What the journal records is what the call was given when it began.      *)
LEMMA EndKeeps ==
  ASSUME ContextIInv, NEW c \in Observed, EndCall(c)
  PROVE  ContextIInv'
<1> DEFINE entry == [session |-> observed[c].session,
                     contextVersion |-> observed[c].contextVersion,
                     handoffVersion |-> observed[c].handoffVersion,
                     layers |-> observed[c].layers,
                     prompt |-> observed[c].prompt]
           longer == Append(journal, entry)
<1>1. /\ observed[c].open
      /\ journal' = IF Len(longer) > JournalLimit THEN Tail(longer) ELSE longer
      /\ observed' = [observed EXCEPT ![c] = NoStream]
      /\ UNCHANGED ledgers /\ UNCHANGED prompts
  BY DEF EndCall, Observe
<1>2. LedgersMoveOn /\ PromptsKnown'
  BY <1>1, LedgersStay, PromptsKept
<1>3. PICK S : journal \in Seq(S)
  BY DEF ContextIInv
<1>4. /\ journal' \in Seq(S \cup {entry})
      /\ \A x \in ToSet(journal') : x = entry \/ x \in ToSet(journal)
  <2>1. journal' = longer \/ journal' = Tail(longer)
    BY <1>1
  <2> QED BY <1>3, <2>1, JournalAppend
<1>5. observed' = [d \in Observed |-> IF d = c THEN NoStream ELSE observed[d]]
  BY <1>1 DEF ContextIInv
<1>6. observed[c] \in CallsRecorded /\ SameCall(entry, observed[c])
  BY <1>1 DEF CallsRecorded, SameCall
<1>7. ASSUME NEW x \in CallsRecorded'
      PROVE  \E y \in CallsRecorded : SameCall(x, y)
  <2>1. x = entry \/ x \in CallsRecorded
    BY <1>4, <1>5 DEF CallsRecorded, NoStream
  <2> QED BY <1>6, <2>1 DEF SameCall
<1>8. observed' = [d \in Observed |-> observed'[d]]
  BY <1>5
<1> QED BY <1>2, <1>4, <1>7, <1>8, CallStepKeeps

LEMMA LeaveKeeps ==
  ASSUME ContextIInv, NEW c \in Observed, LeaveCall(c)
  PROVE  ContextIInv'
<1>1. LedgersMoveOn /\ PromptsKnown'
  BY LedgersStay, PromptsKept DEF LeaveCall
<1>2. observed' = [d \in Observed |-> IF d = c THEN NoStream ELSE observed[d]]
  BY DEF LeaveCall, Observe, ContextIInv
<1>3. ASSUME NEW x \in CallsRecorded'
      PROVE  \E y \in CallsRecorded : SameCall(x, y)
  <2>1. x \in CallsRecorded
    BY <1>2 DEF CallsRecorded, NoStream, LeaveCall
  <2> QED BY <2>1 DEF SameCall
<1>4. /\ observed' = [d \in Observed |-> observed'[d]]
      /\ \E S : journal' \in Seq(S)
  BY <1>2 DEF ContextIInv, LeaveCall
<1> QED BY <1>1, <1>3, <1>4, CallStepKeeps

-----------------------------------------------------------------------------
(* Theorems                                                                *)

LEMMA ContextInitIInv == ContextInit => ContextIInv
<1> SUFFICES ASSUME ContextInit PROVE ContextIInv
  OBVIOUS
<1>1. \A key \in Optional(Sessions) : LedgerShape(ledgers[key])
  BY DEF ContextInit, NoLedger, LedgerShape, Fields
<1>2. journal \in Seq({})
  BY EmptySeq DEF ContextInit
<1>3. CallsRecorded = {}
  BY DEF ContextInit, CallsRecorded, NoStream, ToSet
<1>4. PromptsKnown
  BY DEF ContextInit, PromptsKnown, PromptInForce
<1> QED BY <1>1, <1>2, <1>3, <1>4 DEF ContextInit, ContextIInv, SameLayers

LEMMA ContextNextIInv == ContextIInv /\ [ContextNext]_contextVars => ContextIInv'
<1> SUFFICES ASSUME ContextIInv, [ContextNext]_contextVars PROVE ContextIInv'
  OBVIOUS
<1>1. CASE \E assembly \in Assemblies, s \in Optional(Sessions) :
             ObserveAssembly(assembly, s)
  BY <1>1, AssemblyKeeps
<1>2. CASE AssemblyExpires
  BY <1>2, LedgersStay, PromptsKept, ReportKeeps DEF AssemblyExpires
<1>3. ASSUME NEW s \in Sessions,
             \/ CompactionStart(s)
             \/ \E text \in Texts : CompactionSummary(s, text)
             \/ CompactionPrune(s)
             \/ \E failed \in BOOLEAN : CompactionEnd(s, failed)
      PROVE  ContextIInv'
  <2>1. LedgerShape(ledgers[s])
    BY DEF ContextIInv, Optional
  <2>2. CASE CompactionStart(s)
    BY <2>1, <2>2, PendingMovesOn, SessionEventKeeps DEF CompactionStart
  <2>3. CASE \E text \in Texts : CompactionSummary(s, text)
    BY <2>1, <2>3, PendingMovesOn, SessionEventKeeps DEF CompactionSummary
  <2>4. CASE CompactionPrune(s)
    BY <2>1, <2>4, PendingMovesOn, SessionEventKeeps DEF CompactionPrune
  <2>5. CASE \E failed \in BOOLEAN : CompactionEnd(s, failed)
    BY <2>1, <2>5, FinishMovesOn, SessionEventKeeps DEF CompactionEnd
  <2> QED BY <1>3, <2>2, <2>3, <2>4, <2>5
<1>4. CASE \E c \in Observed :
             \/ \E s \in Optional(Sessions), messages \in Conversations :
                  BeginCall(c, s, messages)
             \/ EndCall(c)
             \/ LeaveCall(c)
  BY <1>4, BeginKeeps, EndKeeps, LeaveKeeps
<1>5. CASE UNCHANGED contextVars
  BY <1>5, LedgersStay, PromptsKept, ReportKeeps DEF contextVars
<1> QED BY <1>1, <1>2, <1>3, <1>4, <1>5 DEF ContextNext

(* The context manager keeps its inductive invariant (context.js,          *)
(* recompute and the operations that end with it; index.js, observe).      *)
THEOREM ContextInvariance == ContextSpec => []ContextIInv
BY ContextInitIInv, ContextNextIInv, PTL DEF ContextSpec

(* A layer tells the parts it was made of.                                 *)
LEMMA LayerTellsParts ==
  ASSUME NEW p \in Seq(Sections), NEW q \in Seq(Sections),
         TextLayer(p) = TextLayer(q)
  PROVE  p = q
<1> DEFINE m == Len(p)
           n == Len(q)
<1>1. m \in Nat /\ n \in Nat /\ DOMAIN p = 1..m /\ DOMAIN q = 1..n
  BY LenProperties
<1>2. \A i : i \in DOMAIN p => i \in DOMAIN q /\ q[i] = p[i]
  <2> SUFFICES ASSUME NEW i \in DOMAIN p PROVE i \in DOMAIN q /\ q[i] = p[i]
    OBVIOUS
  <2>1. <<i, p[i]>> \in TextLayer(q)
    BY DEF TextLayer
  <2>2. PICK j \in DOMAIN q : <<i, p[i]>> = <<j, q[j]>>
    BY <2>1 DEF TextLayer
  <2> QED BY <2>2
<1>3. \A i : i \in DOMAIN q => i \in DOMAIN p
  <2> SUFFICES ASSUME NEW i \in DOMAIN q PROVE i \in DOMAIN p
    OBVIOUS
  <2>1. <<i, q[i]>> \in TextLayer(p)
    BY DEF TextLayer
  <2>2. PICK j \in DOMAIN p : <<i, q[i]>> = <<j, p[j]>>
    BY <2>1 DEF TextLayer
  <2> QED BY <2>2
<1>4. \A i \in 1..m : i \in 1..n
  BY <1>1, <1>2
<1>5. \A i \in 1..n : i \in 1..m
  BY <1>1, <1>3
<1>6. \A i \in 1..m : p[i] = q[i]
  BY <1>1, <1>2
<1> HIDE DEF m, n
<1>7. m = n
  BY <1>1, <1>4, <1>5
<1> QED BY <1>6, <1>7, SeqEqual DEF m, n

(* Two calls of one session that the journal or the open streams show      *)
(* under one context version had the same summary, and the same sections   *)
(* and contexts where the harness had reported the prompt they were made   *)
(* of, whatever happened between them (context.js, recompute).             *)
THEOREM OnePrefixPerVersion == ContextSpec => []VersionNamesPrefix
<1>1. ASSUME ContextIInv, NEW x \in CallsRecorded, NEW y \in CallsRecorded,
             x.session = y.session, x.contextVersion = y.contextVersion
      PROVE  /\ x.layers.handoff = y.layers.handoff
             /\ x.prompt # None /\ y.prompt # None
                  => /\ x.prompt.sections = y.prompt.sections
                     /\ x.prompt.contexts = y.prompt.contexts
  <2>1. x.layers = y.layers
    BY <1>1 DEF ContextIInv, SameLayers
  <2>2. ASSUME x.prompt # None, y.prompt # None
        PROVE  /\ x.prompt.sections = y.prompt.sections
               /\ x.prompt.contexts = y.prompt.contexts
    <3>1. MadeOf(x) /\ MadeOf(y)
      BY <1>1 DEF ContextIInv
    <3>2. /\ x.prompt \in Assemblies /\ y.prompt \in Assemblies
          /\ Digest(TextLayer(x.prompt.sections)) = Digest(TextLayer(y.prompt.sections))
          /\ Digest(TextLayer(x.prompt.contexts)) = Digest(TextLayer(y.prompt.contexts))
      BY <2>1, <2>2, <3>1 DEF MadeOf
    <3>3. /\ TextLayer(x.prompt.sections) = TextLayer(y.prompt.sections)
          /\ TextLayer(x.prompt.contexts) = TextLayer(y.prompt.contexts)
      BY <3>2, NoLayerAssumption DEF Digest
    <3>4. /\ x.prompt.sections \in Seq(Sections) /\ y.prompt.sections \in Seq(Sections)
          /\ x.prompt.contexts \in Seq(Sections) /\ y.prompt.contexts \in Seq(Sections)
      BY <3>2, ContextCacheAssumption
    <3> QED BY <3>3, <3>4, LayerTellsParts
  <2> QED BY <2>1, <2>2
<1>2. ContextIInv => VersionNamesPrefix
  BY <1>1 DEF VersionNamesPrefix, CallsRecorded
<1> QED BY <1>2, ContextInvariance, PTL

-----------------------------------------------------------------------------
(* Types of the Git actions                                                *)

Commits == 1..MaxCommits

(* An action that is about to push has a branch, and one that is about to  *)
(* merge has a branch with an upstream; none runs before a project is open.*)
ActionFits(action) ==
  /\ action \in GitAction
  /\ action.pc = "push" => action.branch \in Branches
  /\ action.pc \in {"ancestor", "merge"} =>
       action.branch \in Branches /\ upstream[action.branch] \in SUBSET Commits
  /\ layout = None => action = NoGitAction

RepositoryOK ==
  /\ layout \in Optional({repository.shape : repository \in Layouts})
  /\ head \in Optional(Branches)
  /\ local \in [Optional(Branches) -> SUBSET Commits]
  /\ upstream \in [Branches -> (SUBSET Commits) \cup {None}]
  /\ remote \in [Branches -> SUBSET Commits]
  /\ remotes \in Nat
  /\ tree \in [Files -> Status]
  /\ inProgress \in BOOLEAN
  /\ \A c \in DOMAIN changes : changes[c] \subseteq Files

GitTyped ==
  /\ RepositoryOK
  /\ actions = [a \in GitSlots |-> actions[a]]
  /\ \A a \in GitSlots : ActionFits(actions[a])

-----------------------------------------------------------------------------
LEMMA NoGitActionFits == ActionFits(NoGitAction)
BY DEF ActionFits, NoGitAction, GitAction, Optional

(* Upstreams that come or move, but do not go.                             *)
UpstreamsStay ==
  \A b \in Branches :
    upstream[b] \in SUBSET Commits => upstream'[b] \in SUBSET Commits

LEMMA TerminalTyped ==
  ASSUME GitTyped, RepositoryOK', actions' = actions, layout' = layout, UpstreamsStay
  PROVE  GitTyped'
BY DEF GitTyped, ActionFits, UpstreamsStay

(* What one action becomes while the repository stays well formed.         *)
LEMMA ActionTyped ==
  ASSUME GitTyped, RepositoryOK', layout # None, layout' = layout, UpstreamsStay,
         NEW a \in GitSlots, NEW action \in GitAction,
         action.pc = "push" => action.branch \in Branches,
         action.pc \in {"ancestor", "merge"} =>
           action.branch \in Branches /\ upstream'[action.branch] \in SUBSET Commits,
         actions' = [actions EXCEPT ![a] = action]
  PROVE  GitTyped'
<1>1. actions' = [b \in GitSlots |-> IF b = a THEN action ELSE actions[b]]
  BY DEF GitTyped
<1>2. ASSUME NEW b \in GitSlots PROVE ActionFits(actions[b])'
  <2>1. CASE b = a
    <3>1. actions'[b] = action
      BY <1>1, <2>1
    <3> QED BY <3>1 DEF ActionFits
  <2>2. CASE b # a
    <3>1. actions'[b] = actions[b] /\ ActionFits(actions[b])
      BY <1>1, <2>2 DEF GitTyped
    <3> QED BY <3>1 DEF ActionFits, UpstreamsStay
  <2> QED BY <2>1, <2>2
<1>3. actions' = [b \in GitSlots |-> actions'[b]]
  BY <1>1
<1> QED BY <1>2, <1>3 DEF GitTyped

LEMMA EndedTyped ==
  ASSUME GitTyped, RepositoryOK', layout # None, layout' = layout, UpstreamsStay,
         NEW a \in GitSlots, NEW outcome \in {"ok", "refused", "failed"},
         EndAction(a, outcome)
  PROVE  GitTyped'
<1> DEFINE action == [NoGitAction EXCEPT !.pc = "ended", !.outcome = outcome]
<1>1. action \in GitAction /\ action.pc = "ended"
  BY DEF NoGitAction, GitAction, Optional
<1>2. actions' = [actions EXCEPT ![a] = action]
  BY DEF EndAction
<1> HIDE DEF action
<1> QED BY <1>1, <1>2, ActionTyped

PlainPlaces == {"idle", "locate", "snapshot", "diff", "add", "commit", "fetch",
                "refresh", "after", "ended"}
LEMMA GoTyped ==
  ASSUME GitTyped, RepositoryOK', layout # None, layout' = layout, UpstreamsStay,
         NEW a \in GitSlots, NEW pc \in PlainPlaces, Go(a, pc)
  PROVE  GitTyped'
<1> DEFINE action == [actions[a] EXCEPT !.pc = pc]
<1>1. actions[a] \in GitAction
  BY DEF GitTyped, ActionFits
<1>2. action \in GitAction /\ action.pc = pc
  BY <1>1 DEF GitAction, PlainPlaces
<1>3. actions' = [actions EXCEPT ![a] = action]
  BY DEF Go
<1> HIDE DEF action
<1> QED BY <1>2, <1>3, ActionTyped DEF PlainPlaces

LEMMA StaysOK ==
  ASSUME GitTyped, UNCHANGED repositoryVars
  PROVE  RepositoryOK' /\ layout' = layout /\ UpstreamsStay
BY DEF GitTyped, RepositoryOK, repositoryVars, UpstreamsStay

LEMMA BusyIsOpen ==
  ASSUME GitTyped, NEW a \in GitSlots, actions[a].pc # "idle"
  PROVE  layout # None
BY DEF GitTyped, ActionFits, NoGitAction

(* git commit in the repository.                                           *)
LEMMA RecordTyped ==
  ASSUME GitIInv, RepositoryOK, NEW files \in SUBSET Files, Record(files),
         UNCHANGED <<layout, head, upstream, remote, remotes, inProgress>>
  PROVE  RepositoryOK'
<1>1. NewCommit \in Commits
  BY NewCommitIsNew, GitAssumption DEF Record, CanCommit, Commits
<1>2. local' \in [Optional(Branches) -> SUBSET Commits]
  BY <1>1 DEF RepositoryOK, Record
<1>3. tree' \in [Files -> Status]
  BY DEF RepositoryOK, Record, Status
<1>4. \A c \in DOMAIN changes' : changes'[c] \subseteq Files
  <2>1. changes' = [c \in 1..NewCommit |-> IF c = NewCommit THEN files ELSE changes[c]]
    BY DEF Record
  <2>2. \A c \in 1..NewCommit : c # NewCommit => c \in DOMAIN changes
    BY NewCommitIsNew
  <2> QED BY <2>1, <2>2 DEF RepositoryOK
<1> QED BY <1>2, <1>3, <1>4 DEF RepositoryOK

LEMMA AfterAddIsStatus ==
  ASSUME NEW xy \in Status
  PROVE  AfterAdd(xy) \in Status
BY DEF AfterAdd, Status

LEMMA TerminalStepTyped == ASSUME GitIInv, GitTyped, TerminalStep PROVE GitTyped'
<1> DEFINE Upheld == RepositoryOK' /\ UpstreamsStay
<1>1. RepositoryOK
  BY DEF GitTyped
<1>2. ASSUME NEW f \in Files, Edit(f) PROVE Upheld
  <2>1. tree[f] \in Status
    BY <1>1 DEF RepositoryOK
  <2>2. tree' \in [Files -> Status]
    BY <1>1, <1>2, <2>1 DEF Edit, RepositoryOK, Status
  <2> QED BY <1>1, <1>2, <2>2 DEF Edit, Terminal, RepositoryOK, UpstreamsStay
<1>3. ASSUME NEW f \in Files, AddFile(f) PROVE Upheld
  <2>1. tree' \in [Files -> Status]
    BY <1>1, <1>3 DEF AddFile, RepositoryOK, Status
  <2> QED BY <1>1, <1>3, <2>1 DEF AddFile, Terminal, RepositoryOK, UpstreamsStay
<1>4. ASSUME NEW f \in Files, StageFile(f) PROVE Upheld
  <2>1. tree' \in [Files -> Status]
    BY <1>1, <1>4, AfterAddIsStatus DEF StageFile, RepositoryOK
  <2> QED BY <1>1, <1>4, <2>1 DEF StageFile, Terminal, RepositoryOK, UpstreamsStay
<1>5. ASSUME CommitInTerminal PROVE Upheld
  BY <1>1, <1>5, RecordTyped DEF CommitInTerminal, Terminal, UpstreamsStay
<1>6. ASSUME NEW b \in Optional(Branches), Checkout(b) PROVE Upheld
  <2>1. local[head] \in SUBSET Commits
    BY <1>1 DEF RepositoryOK
  <2>2. local' \in [Optional(Branches) -> SUBSET Commits]
    BY <1>1, <1>6, <2>1 DEF Checkout, RepositoryOK, Optional
  <2> QED BY <1>1, <1>6, <2>2 DEF Checkout, Terminal, RepositoryOK, UpstreamsStay
<1>7. ASSUME NEW conflicting \in SUBSET Files, BeginMerge(conflicting) PROVE Upheld
  <2>1. tree' \in [Files -> Status]
    BY <1>1, <1>7 DEF BeginMerge, RepositoryOK, Status
  <2> QED BY <1>1, <1>7, <2>1 DEF BeginMerge, Terminal, RepositoryOK, UpstreamsStay
<1>8. ASSUME EndMerge PROVE Upheld
  BY <1>1, <1>8 DEF EndMerge, Terminal, RepositoryOK, UpstreamsStay
<1>9. ASSUME NEW b \in Branches, NEW f \in Files, OtherPush(b, {f}) PROVE Upheld
  <2>1. NewCommit \in Commits
    BY <1>9, NewCommitIsNew, GitAssumption DEF OtherPush, CanCommit, Commits
  <2>2. remote' \in [Branches -> SUBSET Commits]
    BY <1>1, <1>9, <2>1 DEF OtherPush, RepositoryOK
  <2>3. changes' = [c \in 1..NewCommit |-> IF c = NewCommit THEN {f} ELSE changes[c]]
    BY <1>9 DEF OtherPush
  <2>4. \A c \in 1..NewCommit : c # NewCommit => c \in DOMAIN changes
    BY NewCommitIsNew
  <2>5. \A c \in DOMAIN changes' : changes'[c] \subseteq Files
    BY <1>1, <2>3, <2>4 DEF RepositoryOK
  <2> QED BY <1>1, <1>9, <2>2, <2>5 DEF OtherPush, Terminal, RepositoryOK, UpstreamsStay
<1>10. Upheld
  BY <1>2, <1>3, <1>4, <1>5, <1>6, <1>7, <1>8, <1>9 DEF TerminalStep
<1>11. actions' = actions /\ layout' = layout
  BY DEF TerminalStep, Edit, AddFile, StageFile, CommitInTerminal, Checkout, BeginMerge,
     EndMerge, OtherPush, Terminal
<1> QED BY <1>10, <1>11, TerminalTyped

LEMMA OpenRepositoryTyped ==
  ASSUME GitTyped, NEW repository \in Layouts, OpenRepository(repository)
  PROVE  GitTyped'
<1>1. RepositoryOK'
  <2>1. RepositoryOK
    BY DEF GitTyped
  <2>2. layout' \in Optional({r.shape : r \in Layouts})
    BY DEF OpenRepository, Optional
  <2>3. head' \in Optional(Branches) /\ remotes' \in Nat
    BY GitAssumption DEF OpenRepository
  <2>4. upstream' \in [Branches -> (SUBSET Commits) \cup {None}]
    BY DEF OpenRepository
  <2> QED BY <2>1, <2>2, <2>3, <2>4 DEF RepositoryOK, OpenRepository
<1>2. \A a \in GitSlots : actions[a] = NoGitAction
  BY DEF GitTyped, ActionFits, OpenRepository
<1>3. actions' = actions
  BY DEF OpenRepository
<1>4. NoGitAction \in GitAction /\ NoGitAction.pc = "idle"
  BY DEF NoGitAction, GitAction, Optional
<1> QED BY <1>1, <1>2, <1>3, <1>4 DEF GitTyped, ActionFits

-----------------------------------------------------------------------------
LEMMA BeginTyped ==
  ASSUME GitTyped, NEW a \in GitSlots,
         NEW kind \in {"status", "diff", "commit", "fetch", "push", "pull"},
         NEW paths \in SUBSET Files, Begin(a, kind, paths)
  PROVE  GitTyped'
<1> DEFINE action == [NoGitAction EXCEPT !.kind = kind, !.pc = "locate", !.paths = paths]
<1>1. action \in GitAction /\ action.pc = "locate"
  BY DEF NoGitAction, GitAction, Optional
<1>2. actions' = [actions EXCEPT ![a] = action] /\ layout # None
  BY DEF Begin
<1>3. RepositoryOK' /\ layout' = layout /\ UpstreamsStay
  BY StaysOK DEF Begin
<1> HIDE DEF action
<1> QED BY <1>1, <1>2, <1>3, ActionTyped

LEMMA LocateTyped ==
  ASSUME GitTyped, NEW a \in GitSlots, Locate(a)
  PROVE  GitTyped'
<1>1. /\ RepositoryOK' /\ layout' = layout /\ UpstreamsStay /\ layout # None
      /\ actions[a] \in GitAction /\ inProgress \in BOOLEAN
  BY StaysOK, BusyIsOpen DEF Locate, GitCommand, GitTyped, ActionFits, RepositoryOK
<1>2. CASE ~OwnRepository
  BY <1>1, <1>2, EndedTyped DEF Locate
<1>3. CASE OwnRepository
  <2> DEFINE pc == IF actions[a].kind = "diff" THEN "diff" ELSE "snapshot"
             action == [actions[a] EXCEPT !.busyTree = inProgress, !.pc = pc]
  <2>1. actions' = [actions EXCEPT ![a] = action]
    BY <1>1, <1>3 DEF Locate, GitTyped, GitAction
  <2>2. pc \in {"diff", "snapshot"}
    OBVIOUS
  <2> HIDE DEF pc
  <2>3. action \in GitAction /\ action.pc = pc
    BY <1>1, <2>2 DEF GitAction
  <2> HIDE DEF action
  <2> QED BY <1>1, <2>1, <2>2, <2>3, ActionTyped
<1> QED BY <1>2, <1>3

LEMMA TakeSnapshotTyped ==
  ASSUME GitTyped, NEW a \in GitSlots, TakeSnapshot(a)
  PROVE  GitTyped'
<1> DEFINE was == actions[a]
           refused == Refused(was, Snapshot)
<1>1. /\ RepositoryOK' /\ layout' = layout /\ UpstreamsStay /\ layout # None
      /\ was \in GitAction /\ head \in Optional(Branches)
  BY StaysOK, BusyIsOpen DEF TakeSnapshot, GitCommand, GitTyped, ActionFits, RepositoryOK
<1>2. CASE was.kind = "status"
  BY <1>1, <1>2, EndedTyped DEF TakeSnapshot
<1>3. CASE was.kind # "status" /\ refused
  BY <1>1, <1>3, EndedTyped DEF TakeSnapshot
<1>4. CASE was.kind # "status" /\ ~refused
  <2> DEFINE pc == FirstCommand(was.kind)
             action == [was EXCEPT !.branch = head, !.pc = pc]
  <2>1. actions' = [actions EXCEPT ![a] = action]
    BY <1>1, <1>4 DEF TakeSnapshot, GitTyped, GitAction
  <2>2. pc \in {"add", "push", "fetch"} /\ (pc = "push" => was.kind = "push")
    BY DEF FirstCommand
  <2>3. was.kind = "push" => head \in Branches
    BY <1>1, <1>4 DEF Refused, Snapshot, Optional
  <2> HIDE DEF pc, was
  <2>4. action \in GitAction /\ action.pc = pc /\ action.branch = head
    BY <1>1, <2>2 DEF GitAction
  <2> HIDE DEF action
  <2> QED BY <1>1, <2>1, <2>2, <2>3, <2>4, ActionTyped
<1> QED BY <1>2, <1>3, <1>4

LEMMA RefreshTyped ==
  ASSUME GitTyped, NEW a \in GitSlots, Refresh(a)
  PROVE  GitTyped'
<1> DEFINE was == actions[a]
           fresh == Snapshot
           refused == fresh.dirty \/ (fresh.ahead /\ fresh.behind)
           current == ~fresh.behind
<1>1. /\ RepositoryOK' /\ layout' = layout /\ UpstreamsStay /\ layout # None
      /\ was \in GitAction /\ RepositoryOK
  BY StaysOK, BusyIsOpen DEF Refresh, GitCommand, GitTyped, ActionFits
<1>2. CASE refused
  BY <1>1, <1>2, EndedTyped DEF Refresh
<1>3. CASE ~refused /\ current
  BY <1>1, <1>3, EndedTyped DEF Refresh
<1>4. CASE ~refused /\ ~current
  <2> DEFINE action == [was EXCEPT !.branch = head, !.pc = "ancestor"]
  <2>1. fresh.branch = head
    BY DEF Snapshot
  <2>2. head \in Branches /\ upstream[head] \in SUBSET Commits
    <3> DEFINE tracked == IF head = None THEN None ELSE upstream[head]
               behind == IF tracked = None THEN {} ELSE tracked \ local[head]
    <3>1. fresh.behind = (behind # {})
      BY DEF Snapshot
    <3>2. tracked # None
      BY <1>4, <3>1
    <3>3. head # None /\ upstream[head] # None
      BY <3>2
    <3> QED BY <1>1, <3>3 DEF RepositoryOK, Optional
  <2>3. actions' = [actions EXCEPT ![a].branch = fresh.branch, ![a].pc = "ancestor"]
    BY <1>4 DEF Refresh
  <2> HIDE DEF fresh
  <2>4. actions' = [actions EXCEPT ![a] = action]
    BY <1>1, <2>1, <2>3 DEF GitTyped, GitAction
  <2> HIDE DEF was
  <2>5. action \in GitAction /\ action.pc = "ancestor" /\ action.branch = head
    BY <1>1, <2>2 DEF GitAction, Optional
  <2> HIDE DEF action
  <2>6. upstream'[head] \in SUBSET Commits
    BY <1>1, <2>2 DEF UpstreamsStay
  <2> QED BY <1>1, <2>2, <2>4, <2>5, <2>6, ActionTyped
<1> QED BY <1>2, <1>3, <1>4

LEMMA AncestorTyped ==
  ASSUME GitTyped, NEW a \in GitSlots, Ancestor(a)
  PROVE  GitTyped'
<1> DEFINE was == actions[a]
           action == [was EXCEPT !.pc = "merge"]
<1>1. /\ RepositoryOK' /\ layout' = layout /\ UpstreamsStay /\ layout # None
      /\ was \in GitAction /\ was.pc = "ancestor" /\ ActionFits(was)
  BY StaysOK, BusyIsOpen DEF Ancestor, GitCommand, GitTyped, ActionFits
<1>2. CASE EndAction(a, "refused")
  BY <1>1, <1>2, EndedTyped
<1>3. CASE Go(a, "merge")
  <2>1. actions' = [actions EXCEPT ![a] = action]
    BY <1>3 DEF Go
  <2>2. was.branch \in Branches /\ upstream'[was.branch] \in SUBSET Commits
    BY <1>1 DEF ActionFits, UpstreamsStay
  <2> HIDE DEF was
  <2>3. action \in GitAction /\ action.pc = "merge" /\ action.branch = was.branch
    BY <1>1 DEF GitAction
  <2> HIDE DEF action
  <2> QED BY <1>1, <2>1, <2>2, <2>3, ActionTyped
<1> QED BY <1>2, <1>3 DEF Ancestor

LEMMA FetchTyped ==
  ASSUME GitTyped, NEW a \in GitSlots, Fetch(a)
  PROVE  GitTyped'
<1>1. layout' = layout /\ layout # None /\ RepositoryOK
  BY BusyIsOpen DEF Fetch, GitCommand, GitTyped
<1>2. RepositoryOK' /\ UpstreamsStay
  BY <1>1 DEF Fetch, FollowRemote, RepositoryOK, UpstreamsStay
<1>3. ASSUME Go(a, IF actions[a].kind = "pull" THEN "refresh" ELSE "after")
      PROVE  GitTyped'
  BY <1>1, <1>2, <1>3, GoTyped DEF PlainPlaces
<1> QED BY <1>1, <1>2, <1>3, EndedTyped DEF Fetch

LEMMA AddTyped ==
  ASSUME GitTyped, NEW a \in GitSlots, Add(a)
  PROVE  GitTyped'
<1>1. layout' = layout /\ layout # None /\ RepositoryOK
  BY BusyIsOpen DEF Add, GitCommand, GitTyped
<1>2. tree' \in [Files -> Status]
  BY <1>1, AfterAddIsStatus DEF Add, RepositoryOK
<1>3. RepositoryOK' /\ UpstreamsStay
  BY <1>1, <1>2 DEF Add, RepositoryOK, UpstreamsStay
<1> QED BY <1>1, <1>3, GoTyped DEF Add, PlainPlaces

LEMMA CommitPathsTyped ==
  ASSUME GitIInv, GitTyped, NEW a \in GitSlots, CommitPaths(a)
  PROVE  GitTyped'
<1>1. layout' = layout /\ layout # None /\ RepositoryOK /\ UpstreamsStay
  BY BusyIsOpen DEF CommitPaths, GitCommand, GitTyped, UpstreamsStay
<1>2. actions[a].paths \cap Changed \in SUBSET Files
  BY DEF Changed
<1>3. RepositoryOK'
  BY <1>1, <1>2, RecordTyped DEF CommitPaths
<1> QED BY <1>1, <1>3, GoTyped DEF CommitPaths, PlainPlaces

LEMMA MergeTyped ==
  ASSUME GitTyped, NEW a \in GitSlots, Merge(a)
  PROVE  GitTyped'
<1>1. layout' = layout /\ layout # None /\ RepositoryOK /\ UpstreamsStay
  BY BusyIsOpen DEF Merge, GitCommand, GitTyped, UpstreamsStay
<1>2. upstream[actions[a].branch] \in SUBSET Commits
  BY DEF Merge, GitCommand, GitTyped, ActionFits
<1>3. RepositoryOK'
  BY <1>1, <1>2 DEF Merge, RepositoryOK
<1> QED BY <1>1, <1>3, GoTyped DEF Merge, PlainPlaces

LEMMA PushTyped ==
  ASSUME GitTyped, NEW a \in GitSlots, Push(a)
  PROVE  GitTyped'
<1>1. layout' = layout /\ layout # None /\ RepositoryOK
  BY BusyIsOpen DEF Push, GitCommand, GitTyped
<1>2. actions[a].branch \in Branches
  BY DEF Push, GitCommand, GitTyped, ActionFits
<1> DEFINE b == actions[a].branch
           moved == [upstream EXCEPT ![b] = IF @ = None THEN None ELSE local[b]]
<1>3. remote' \in [Branches -> SUBSET Commits] /\ local[b] \in SUBSET Commits
  BY <1>1, <1>2 DEF Push, RepositoryOK, Optional
<1>4. upstream' \in {upstream, moved}
  BY DEF Push
<1> HIDE DEF b
<1>5. upstream' \in [Branches -> (SUBSET Commits) \cup {None}] /\ UpstreamsStay
  BY <1>1, <1>3, <1>4 DEF RepositoryOK, UpstreamsStay
<1>6. RepositoryOK'
  BY <1>1, <1>3, <1>5 DEF Push, RepositoryOK
<1> QED BY <1>1, <1>5, <1>6, GoTyped, EndedTyped DEF Push, PlainPlaces

LEMMA EndsTyped ==
  ASSUME GitTyped, NEW a \in GitSlots, Diff(a) \/ Answered(a) \/ CommandFails(a)
  PROVE  GitTyped'
<1>1. RepositoryOK' /\ layout' = layout /\ UpstreamsStay /\ layout # None
  BY StaysOK, BusyIsOpen DEF Diff, Answered, CommandFails, Fails, GitCommand
<1> QED BY <1>1, EndedTyped DEF Diff, Answered, CommandFails, Fails

LEMMA ReuseTyped ==
  ASSUME GitTyped, NEW a \in GitSlots, ReuseAction(a)
  PROVE  GitTyped'
<1>1. RepositoryOK' /\ layout' = layout /\ UpstreamsStay /\ layout # None
  BY StaysOK, BusyIsOpen DEF ReuseAction
<1>2. NoGitAction \in GitAction /\ NoGitAction.pc = "idle"
  BY DEF NoGitAction, GitAction, Optional
<1> QED BY <1>1, <1>2, ActionTyped DEF ReuseAction

LEMMA GitInitTyped == GitInit => GitTyped
<1> SUFFICES ASSUME GitInit PROVE GitTyped
  OBVIOUS
<1>1. RepositoryOK
  <2>1. layout \in Optional({r.shape : r \in Layouts}) /\ head \in Optional(Branches)
    BY DEF GitInit, Optional
  <2>2. {} \in SUBSET Commits
    OBVIOUS
  <2>3. /\ local \in [Optional(Branches) -> SUBSET Commits]
        /\ upstream \in [Branches -> (SUBSET Commits) \cup {None}]
        /\ remote \in [Branches -> SUBSET Commits]
    BY <2>2 DEF GitInit
  <2>4. tree \in [Files -> Status] /\ remotes \in Nat /\ inProgress \in BOOLEAN
    BY DEF GitInit, Status
  <2>5. DOMAIN changes = {}
    BY DEF GitInit
  <2> QED BY <2>1, <2>3, <2>4, <2>5 DEF RepositoryOK
<1> QED BY <1>1, NoGitActionFits DEF GitInit, GitTyped

LEMMA GitNextTyped ==
  GitIInv /\ GitTyped /\ [GitNext]_gitVars => GitTyped'
<1> SUFFICES ASSUME GitIInv, GitTyped, [GitNext]_gitVars PROVE GitTyped'
  OBVIOUS
<1>1. ASSUME NEW a \in GitSlots, GitStep(a) PROVE GitTyped'
  BY <1>1, BeginTyped, LocateTyped, TakeSnapshotTyped, EndsTyped, AddTyped,
     CommitPathsTyped, FetchTyped, RefreshTyped, AncestorTyped,
     MergeTyped, PushTyped, ReuseTyped
     DEF GitStep
<1>2. CASE UNCHANGED gitVars
  BY <1>2 DEF gitVars, GitTyped, RepositoryOK, ActionFits
<1> QED BY <1>1, <1>2, OpenRepositoryTyped, TerminalStepTyped DEF GitNext

(* The repository and the actions on it are well typed: a push or a merge  *)
(* that was reached has the branch it is about.                            *)
THEOREM GitTypeCorrectness == GitSpec => []GitTypeOK
<1>1. ASSUME GitTyped PROVE GitTypeOK
  <2>1. RepositoryOK
    BY <1>1 DEF GitTyped
  <2>2. actions \in [GitSlots -> GitAction]
    BY <1>1 DEF GitTyped, ActionFits
  <2>3. \A b \in Branches : upstream[b] = None \/ upstream[b] \in SUBSET Commits
    BY <2>1 DEF RepositoryOK
  <2> QED BY <2>1, <2>2, <2>3 DEF RepositoryOK, Commits, GitTypeOK
<1> QED BY <1>1, GitInitIInv, GitNextIInv, GitInitTyped, GitNextTyped, PTL DEF GitSpec

-----------------------------------------------------------------------------
(* Types of the ledgers                                                    *)

PrefixLayers ==
  [core : Optional(Layer), project : Optional(Layer), handoff : Optional(Texts)]
Handoffs == [version : Nat \ {0}, digest : Optional(Texts)]

(* A ledger before its versions are bounded, and what bounds the version   *)
(* of its handoff.                                                         *)
LedgerTyped(ledger) ==
  /\ ledger \in
       [core : Optional(Layer), project : Optional(Layer),
        history : Optional(Nat), live : Optional(Nat),
        handoff : Optional(Handoffs), handoffVersion : Nat,
        pending : Optional([summary : Optional(Texts)]),
        prefix : Optional(PrefixLayers), contextVersion : Nat]
  /\ ledger.handoff # None => ledger.handoff.version <= ledger.handoffVersion

LedgerBounded(ledger) ==
  /\ LedgerTyped(ledger)
  /\ ledger.contextVersion <= MaxVersions /\ ledger.handoffVersion <= MaxVersions

ContextTyped ==
  /\ ledgers = [key \in Optional(Sessions) |-> ledgers[key]]
  /\ \A key \in Optional(Sessions) : LedgerBounded(ledgers[key])
  /\ lastAssembly # None => lastAssembly.assembly \in Assemblies
  /\ \A c \in Observed : observed[c].session \in Optional(Sessions)
  /\ Len(journal) <= JournalLimit

-----------------------------------------------------------------------------
LEMMA TextLayerTyped ==
  ASSUME NEW parts \in Seq(Sections)
  PROVE  TextLayer(parts) \in Layer
<1>1. \A i \in DOMAIN parts : i \in Nat /\ parts[i] \in Sections
  BY LenProperties, ElementOfSeq
<1> QED BY <1>1 DEF TextLayer, Layer

(* Any places of a sequence can be counted.                                *)
LEMMA PlacesCounted ==
  ASSUME NEW S, NEW s \in Seq(S), NEW places \in SUBSET DOMAIN s
  PROVE  Cardinality(places) \in Nat
<1>1. DOMAIN s = 1..Len(s) /\ Len(s) \in Nat
  BY LenProperties
<1>2. IsFiniteSet(1..Len(s))
  BY <1>1, FS_Interval
<1>3. IsFiniteSet(places)
  BY <1>1, <1>2, FS_Subset
<1> QED BY <1>3, FS_CardinalityType

LEMMA SplitTyped ==
  ASSUME NEW messages \in Conversations
  PROVE  /\ SplitMessages(messages).history \in Nat
         /\ SplitMessages(messages).live \in Nat
         /\ SystemLayer(messages, SplitMessages(messages).systems) \in Layer
<1> DEFINE message == [role : {"system", "human", "other"}, text : Optional(Texts)]
           systems == {i \in DOMAIN messages : messages[i].role = "system"}
           rest == DOMAIN messages \ systems
           human == {i \in rest : messages[i].role = "human"}
           history == {i \in rest : human = {} \/ \E j \in human : i < j}
<1>1. messages \in Seq(message)
  BY ContextCacheAssumption
<1>2. SplitMessages(messages) =
        [systems |-> systems, history |-> Cardinality(history),
         live |-> Cardinality(rest \ history)]
  BY DEF SplitMessages
<1>3. Cardinality(history) \in Nat /\ Cardinality(rest \ history) \in Nat
  <2>1. history \in SUBSET DOMAIN messages /\ rest \ history \in SUBSET DOMAIN messages
    OBVIOUS
  <2> HIDE DEF history, rest, message
  <2> QED BY <1>1, <2>1, PlacesCounted
<1>4. SystemLayer(messages, systems) \in Layer
  <2>1. ASSUME NEW i \in systems
        PROVE  Cardinality({j \in systems : j <= i}) \in Nat
    <3>1. {j \in systems : j <= i} \in SUBSET DOMAIN messages
      OBVIOUS
    <3> HIDE DEF systems, message
    <3> QED BY <1>1, <3>1, PlacesCounted
  <2>2. ASSUME NEW i \in systems, messages[i].text # None
        PROVE  messages[i].text \in Texts
    <3>1. messages[i] \in message
      BY <1>1, ElementOfSeq, LenProperties
    <3> QED BY <2>2, <3>1 DEF Optional
  <2> DEFINE place(i) == Cardinality({j \in systems : j <= i})
  <2>3. \A i \in systems : place(i) \in Nat
    BY <2>1
  <2>4. SystemLayer(messages, systems) =
          {<<place(i), messages[i].text>> : i \in {j \in systems : messages[j].text # None}}
    BY DEF SystemLayer
  <2> HIDE DEF place, systems
  <2>5. \A i \in {j \in systems : messages[j].text # None} :
          <<place(i), messages[i].text>> \in Nat \X (Sections \cup Texts)
    BY <2>2, <2>3
  <2> QED BY <2>4, <2>5 DEF Layer
<1> HIDE DEF systems, rest, history
<1> QED BY <1>2, <1>3, <1>4

LEMMA LayersTyped ==
  ASSUME NEW ledger, LedgerTyped(ledger)
  PROVE  Layers(ledger) \in PrefixLayers
<1>1. \A layer \in Optional(Layer) : Digest(layer) \in Optional(Layer)
  BY DEF Digest, Optional
<1>2. /\ ledger.core \in Optional(Layer) /\ ledger.project \in Optional(Layer)
      /\ ledger.handoff \in Optional(Handoffs)
  BY DEF LedgerTyped
<1>3. ledger.handoff # None => ledger.handoff.digest \in Optional(Texts)
  BY <1>2 DEF Optional, Handoffs
<1>4. None \in Optional(Texts)
  BY DEF Optional
<1> QED BY <1>1, <1>2, <1>3, <1>4 DEF Layers, PrefixLayers

LEMMA RecomputeTyped ==
  ASSUME NEW ledger, LedgerTyped(ledger)
  PROVE  LedgerTyped(Recompute(ledger))
<1> DEFINE layers == Layers(ledger)
           moved == [ledger EXCEPT !.prefix = layers, !.contextVersion = @ + 1]
<1>1. layers \in Optional(PrefixLayers)
  BY LayersTyped DEF Optional
<1> HIDE DEF layers
<1>2. ledger.contextVersion + 1 \in Nat
  BY DEF LedgerTyped
<1>3. LedgerTyped(moved)
  BY <1>1, <1>2 DEF LedgerTyped
<1> QED BY <1>3 DEF Recompute, layers

LEMMA AssemblyTyped ==
  ASSUME NEW ledger, LedgerTyped(ledger), NEW assembly \in Assemblies
  PROVE  LedgerTyped(WithAssembly(ledger, assembly))
<1> DEFINE core == TextLayer(assembly.sections)
           project == TextLayer(assembly.contexts)
           given == [ledger EXCEPT !.core = core, !.project = project]
<1>1. core \in Optional(Layer) /\ project \in Optional(Layer)
  BY ContextCacheAssumption, TextLayerTyped DEF Optional
<1>2. WithAssembly(ledger, assembly) = Recompute(given)
  BY DEF WithAssembly
<1> HIDE DEF core, project
<1>3. LedgerTyped(given)
  BY <1>1 DEF LedgerTyped
<1> HIDE DEF given
<1> QED BY <1>2, <1>3, RecomputeTyped

LEMMA RequestTyped ==
  ASSUME NEW ledger, LedgerTyped(ledger), NEW messages \in Conversations
  PROVE  LedgerTyped(WithRequest(ledger, messages))
<1> DEFINE split == SplitMessages(messages)
           systems == SystemLayer(messages, split.systems)
           core == IF ledger.core = None THEN systems ELSE ledger.core
           given == [ledger EXCEPT !.core = core, !.history = split.history,
                                   !.live = split.live]
<1>1. /\ systems \in Optional(Layer)
      /\ split.history \in Optional(Nat) /\ split.live \in Optional(Nat)
  BY SplitTyped DEF Optional
<1>2. WithRequest(ledger, messages) = Recompute(given)
  BY DEF WithRequest
<1> HIDE DEF split, systems
<1>3. core \in Optional(Layer)
  BY <1>1 DEF LedgerTyped
<1> HIDE DEF core
<1>4. LedgerTyped(given)
  BY <1>1, <1>3 DEF LedgerTyped
<1> HIDE DEF given
<1> QED BY <1>2, <1>4, RecomputeTyped

LEMMA PendingTyped ==
  ASSUME NEW ledger, LedgerTyped(ledger),
         NEW pending \in Optional([summary : Optional(Texts)])
  PROVE  LedgerTyped([ledger EXCEPT !.pending = pending])
BY DEF LedgerTyped

LEMMA FinishTyped ==
  ASSUME NEW ledger, LedgerTyped(ledger), NEW failed
  PROVE  LedgerTyped(FinishCompaction(ledger, failed))
<1> DEFINE closed == [ledger EXCEPT !.pending = None]
           next == ledger.handoffVersion + 1
           handoff == [version |-> next, digest |-> ledger.pending.summary]
           given == [closed EXCEPT !.handoffVersion = @ + 1, !.handoff = handoff]
<1>1. LedgerTyped(closed)
  BY PendingTyped DEF Optional
<1>2. CASE ledger.pending = None \/ failed
  BY <1>1, <1>2 DEF FinishCompaction
<1>3. CASE ~(ledger.pending = None \/ failed)
  <2>1. FinishCompaction(ledger, failed) = Recompute(given)
    BY <1>3 DEF FinishCompaction
  <2>2. closed.handoffVersion + 1 = next /\ next \in Nat \ {0}
    BY DEF LedgerTyped
  <2>3. ledger.pending.summary \in Optional(Texts)
    BY <1>3 DEF LedgerTyped, Optional
  <2> HIDE DEF next
  <2>4. handoff \in Handoffs /\ handoff.version = next
    BY <2>2, <2>3 DEF Handoffs
  <2> DEFINE counted == [closed EXCEPT !.handoffVersion = @ + 1]
  <2> HIDE DEF handoff, closed
  <2>5. LedgerTyped(counted) /\ counted.handoffVersion = next
    BY <1>1, <2>2 DEF LedgerTyped, Optional, Handoffs
  <2>6. given = [counted EXCEPT !.handoff = handoff]
    OBVIOUS
  <2> HIDE DEF counted
  <2>7. handoff \in Optional(Handoffs)
    BY <2>4 DEF Optional
  <2>8. LedgerTyped([counted EXCEPT !.handoff = handoff])
    BY <2>2, <2>4, <2>5, <2>7 DEF LedgerTyped
  <2>9. LedgerTyped(given)
    BY <2>6, <2>8
  <2> HIDE DEF given
  <2> QED BY <2>1, <2>9, RecomputeTyped
<1> QED BY <1>2, <1>3

LEMMA AttributedTyped ==
  ASSUME ContextTyped, NEW key \in Optional(Sessions), NEW messages \in Conversations
  PROVE  LedgerTyped(Attributed(key, messages))
<1> DEFINE ledger == ledgers[key]
           prompted == WithAssembly(ledger, lastAssembly.assembly)
<1>1. LedgerTyped(ledger)
  BY DEF ContextTyped, LedgerBounded
<1>2. CASE Attributed(key, messages) = WithRequest(ledger, messages)
  BY <1>1, <1>2, RequestTyped
<1>3. CASE /\ lastAssembly # None
           /\ Attributed(key, messages) = WithRequest(prompted, messages)
  BY <1>1, <1>3, AssemblyTyped, RequestTyped DEF ContextTyped
<1> QED BY <1>2, <1>3 DEF Attributed

-----------------------------------------------------------------------------
LEMMA LedgerStepTyped ==
  ASSUME ContextTyped, NEW key \in Optional(Sessions), NEW ledger, LedgerTyped(ledger),
         Ledger(key, ledger)
  PROVE  /\ ledgers' = [k \in Optional(Sessions) |-> ledgers'[k]]
         /\ \A k \in Optional(Sessions) : LedgerBounded(ledgers'[k])
<1>1. ledgers' = [k \in Optional(Sessions) |-> IF k = key THEN ledger ELSE ledgers[k]]
  BY DEF ContextTyped, Ledger
<1>2. LedgerBounded(ledger)
  BY DEF Ledger, LedgerBounded
<1> QED BY <1>1, <1>2 DEF ContextTyped

LEMMA SessionEventTyped ==
  ASSUME ContextTyped, NEW s \in Sessions, NEW ledger, LedgerTyped(ledger),
         ObserveSessionEvent(s, ledger)
  PROVE  ContextTyped'
<1>1. s \in Optional(Sessions) /\ Ledger(s, ledger)
  BY DEF Optional, ObserveSessionEvent
<1>2. /\ ledgers' = [k \in Optional(Sessions) |-> ledgers'[k]]
      /\ \A k \in Optional(Sessions) : LedgerBounded(ledgers'[k])
  BY <1>1, LedgerStepTyped
<1> QED BY <1>2 DEF ContextTyped, ObserveSessionEvent

LEMMA ContextInitTyped == ContextInit => ContextTyped
<1> SUFFICES ASSUME ContextInit PROVE ContextTyped
  OBVIOUS
<1>1. LedgerBounded(NoLedger)
  BY ContextCacheAssumption DEF NoLedger, LedgerBounded, LedgerTyped, Optional
<1>2. Len(journal) <= JournalLimit
  BY ContextCacheAssumption DEF ContextInit
<1>3. NoStream.session \in Optional(Sessions)
  BY DEF NoStream, Optional
<1> HIDE DEF NoLedger, NoStream
<1> QED BY <1>1, <1>2, <1>3 DEF ContextInit, ContextTyped

LEMMA BeginCallTyped ==
  ASSUME ContextIInv, ContextTyped, NEW c \in Observed, NEW s \in Optional(Sessions),
         NEW messages \in Conversations, BeginCall(c, s, messages)
  PROVE  ContextTyped'
<1> DEFINE ledger == Attributed(s, messages)
           stream == [NoStream EXCEPT !.open = TRUE, !.session = s,
                        !.contextVersion = ledger.contextVersion,
                        !.handoffVersion = ledger.handoffVersion,
                        !.layers = Layers(ledger),
                        !.prompt = IF s = None THEN None ELSE prompts[s]]
<1>1. LedgerTyped(ledger) /\ Ledger(s, ledger)
  BY AttributedTyped DEF BeginCall
<1>2. stream.session = s
  BY DEF NoStream
<1>3. observed' = [observed EXCEPT ![c] = stream]
  BY DEF BeginCall, Observe
<1> HIDE DEF ledger, stream
<1>4. \A d \in Observed : observed'[d].session \in Optional(Sessions)
  BY <1>2, <1>3 DEF ContextIInv, ContextTyped
<1>5. /\ ledgers' = [k \in Optional(Sessions) |-> ledgers'[k]]
      /\ \A k \in Optional(Sessions) : LedgerBounded(ledgers'[k])
  BY <1>1, LedgerStepTyped
<1>6. UNCHANGED <<lastAssembly, journal>>
  BY DEF BeginCall
<1> QED BY <1>4, <1>5, <1>6 DEF ContextTyped

(* A stream that closes leaves no session behind.                          *)
LEMMA ClosedStream ==
  ASSUME ContextIInv, ContextTyped, NEW c \in Observed, Observe(c, NoStream)
  PROVE  \A d \in Observed : observed'[d].session \in Optional(Sessions)
<1>1. NoStream.session \in Optional(Sessions)
  BY DEF NoStream, Optional
<1> HIDE DEF NoStream
<1> QED BY <1>1 DEF Observe, ContextIInv, ContextTyped

(* record(): the journal is never longer than its limit.                   *)
LEMMA EndCallTyped ==
  ASSUME ContextIInv, ContextTyped, NEW c \in Observed, EndCall(c)
  PROVE  ContextTyped'
<1> DEFINE entry == [session |-> observed[c].session,
                     contextVersion |-> observed[c].contextVersion,
                     handoffVersion |-> observed[c].handoffVersion,
                     layers |-> observed[c].layers,
                     prompt |-> observed[c].prompt]
           longer == Append(journal, entry)
<1>1. journal' = IF Len(longer) > JournalLimit THEN Tail(longer) ELSE longer
  BY DEF EndCall
<1>2. PICK S : journal \in Seq(S)
  BY DEF ContextIInv
<1>3. longer \in Seq(S \cup {entry}) /\ Len(longer) = Len(journal) + 1 /\ Len(journal) \in Nat
  <2>1. journal \in Seq(S \cup {entry})
    BY <1>2, SeqMonotonic
  <2> HIDE DEF entry
  <2> QED BY <2>1, AppendProperties, LenProperties
<1> HIDE DEF longer
<1>4. Len(journal') <= JournalLimit
  <2>1. CASE Len(longer) > JournalLimit
    <3>1. longer # <<>>
      BY <1>3, EmptySeq
    <3>2. Len(Tail(longer)) = Len(longer) - 1
      BY <1>3, <3>1, HeadTailProperties
    <3> QED BY <1>1, <1>3, <2>1, <3>2 DEF ContextTyped
  <2>2. CASE ~(Len(longer) > JournalLimit)
    BY <1>1, <1>3, <2>2, ContextCacheAssumption
  <2> QED BY <2>1, <2>2
<1>5. \A d \in Observed : observed'[d].session \in Optional(Sessions)
  BY ClosedStream DEF EndCall
<1> QED BY <1>4, <1>5 DEF ContextTyped, EndCall

LEMMA ContextNextTyped ==
  ContextIInv /\ ContextTyped /\ [ContextNext]_contextVars => ContextTyped'
<1> SUFFICES ASSUME ContextIInv, ContextTyped, [ContextNext]_contextVars
             PROVE  ContextTyped'
  OBVIOUS
<1>1. ASSUME NEW assembly \in Assemblies, NEW s \in Optional(Sessions),
             ObserveAssembly(assembly, s)
      PROVE  ContextTyped'
  <2>1. LedgerTyped(WithAssembly(ledgers[s], assembly))
    BY AssemblyTyped DEF ContextTyped, LedgerBounded
  <2>2. CASE s = None
    BY <1>1, <2>2 DEF ObserveAssembly, ContextTyped
  <2>3. CASE s # None
    <3>1. /\ ledgers' = [k \in Optional(Sessions) |-> ledgers'[k]]
          /\ \A k \in Optional(Sessions) : LedgerBounded(ledgers'[k])
      BY <1>1, <2>1, <2>3, LedgerStepTyped DEF ObserveAssembly
    <3> QED BY <1>1, <3>1 DEF ObserveAssembly, ContextTyped
  <2> QED BY <2>2, <2>3
<1>2. CASE AssemblyExpires
  <2>1. lastAssembly'.assembly = lastAssembly.assembly \/ lastAssembly' = lastAssembly
    BY <1>2 DEF AssemblyExpires
  <2> QED BY <1>2, <2>1 DEF AssemblyExpires, ContextTyped
<1>3. ASSUME NEW s \in Sessions,
             \/ CompactionStart(s)
             \/ \E text \in Texts : CompactionSummary(s, text)
             \/ CompactionPrune(s)
             \/ \E failed \in BOOLEAN : CompactionEnd(s, failed)
      PROVE  ContextTyped'
  <2>1. LedgerTyped(ledgers[s])
    BY DEF ContextTyped, LedgerBounded, Optional
  <2>2. NoCompaction \in [summary : Optional(Texts)]
    BY DEF NoCompaction, Optional
  <2>3. PendingOf(ledgers[s]) \in [summary : Optional(Texts)]
    BY <2>1, <2>2 DEF PendingOf, LedgerTyped, Optional
  <2>4. CASE CompactionStart(s)
    BY <2>1, <2>2, <2>4, PendingTyped, SessionEventTyped DEF CompactionStart, Optional
  <2>5. ASSUME NEW text \in Texts, CompactionSummary(s, text) PROVE ContextTyped'
    <3>1. [PendingOf(ledgers[s]) EXCEPT !.summary = text] \in [summary : Optional(Texts)]
      BY <2>3 DEF Optional
    <3> QED BY <2>1, <2>5, <3>1, PendingTyped, SessionEventTyped
            DEF CompactionSummary, Optional
  <2>6. CASE CompactionPrune(s)
    BY <2>1, <2>3, <2>6, PendingTyped, SessionEventTyped DEF CompactionPrune, Optional
  <2>7. ASSUME NEW failed \in BOOLEAN, CompactionEnd(s, failed) PROVE ContextTyped'
    BY <2>1, <2>7, FinishTyped, SessionEventTyped DEF CompactionEnd
  <2> QED BY <1>3, <2>4, <2>5, <2>6, <2>7
<1>4. ASSUME NEW c \in Observed, LeaveCall(c) PROVE ContextTyped'
  BY <1>4, ClosedStream DEF LeaveCall, ContextTyped
<1>5. CASE UNCHANGED contextVars
  BY <1>5 DEF contextVars, ContextTyped
<1> QED BY <1>1, <1>2, <1>3, <1>4, <1>5, BeginCallTyped, EndCallTyped DEF ContextNext

(* The ledgers, the open calls and the journal are well typed: the version *)
(* of a handoff never runs ahead of its counter, and the journal stays     *)
(* within its limit (index.js, record()).                                  *)
THEOREM ContextTypeCorrectness == ContextSpec => []ContextTypeOK
<1>1. ASSUME ContextIInv, ContextTyped PROVE ContextTypeOK
  <2>1. ASSUME NEW key \in Optional(Sessions) PROVE ledgers[key] \in Ledgers
    <3>1. LedgerBounded(ledgers[key])
      BY <1>1 DEF ContextTyped
    <3>2. ledgers[key].handoff \in
            Optional([version : 1..MaxVersions, digest : Optional(Texts)])
      BY <3>1, ContextCacheAssumption
         DEF LedgerBounded, LedgerTyped, Handoffs, Optional
    <3>3. /\ ledgers[key].handoffVersion \in 0..MaxVersions
          /\ ledgers[key].contextVersion \in 0..MaxVersions
      BY <3>1, ContextCacheAssumption DEF LedgerBounded, LedgerTyped
    <3> QED BY <3>1, <3>2, <3>3 DEF LedgerBounded, LedgerTyped, PrefixLayers, Ledgers
  <2>2. prompts \in [Sessions -> Optional(Assemblies)]
    BY <1>1 DEF ContextIInv, PromptsKnown, PromptInForce, Optional
  <2> QED BY <1>1, <2>1, <2>2 DEF ContextTyped, ContextTypeOK
<1> QED BY <1>1, ContextInitIInv, ContextNextIInv, ContextInitTyped, ContextNextTyped, PTL
        DEF ContextSpec
=============================================================================
