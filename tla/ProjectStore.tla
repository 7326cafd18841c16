---------------------------- MODULE ProjectStore ----------------------------
(***************************************************************************)
(* The project registry's file (plugins/project-model/store.js) under the  *)
(* service that loads it, changes it in memory and commits it              *)
(* (plugins/project-model/index.js), through crashes and restarts.         *)
(*                                                                         *)
(* A registry is the set of changes applied to it: setting, removing and   *)
(* promoting are changes alike, and a document that lacks one lost it.  An *)
(* object of the JavaScript heap is named by the caller whose load made    *)
(* it; `_write' serialises the object, not a copy taken at commit.         *)
(***************************************************************************)
EXTENDS Integers, Sequences

CONSTANTS
  Callers,  \* the calls that can be in flight at once
  Early,    \* those that may arrive before the registry is loaded
  Changes,  \* the changes they make
  MaxRuns,  \* bound: how often the process is started
  None      \* JavaScript's null

VARIABLES
  registry,  \* service.registry: the object it names, or None
  heap,      \* what each registry object holds
  calls,     \* the calls in flight, at the await they reached
  tail,      \* store._tail: the commits waiting for their turn, in order
  disk,      \* projects.json
  temporary, \* projects.json.tmp
  acked,     \* history: the changes whose commit was confirmed
  runs,      \* how often the process was started
  reloaded   \* history: a load replaced a registry that was in use

vars == <<registry, heap, calls, tail, disk, temporary, acked, runs, reloaded>>

-----------------------------------------------------------------------------

(* A file's text: a whole JSON document, or one that does not parse.       *)
Document == [whole : BOOLEAN, changes : SUBSET Changes]
NoFile == [whole |-> TRUE, changes |-> {}]

CallState ==
  [pc     : {"idle", "opening", "reading", "ready", "changed", "queued",
             "writing", "written", "renamed"},
   text   : Document,
   change : Changes \cup {None},
   object : Callers \cup {None}]

IdleCall == [pc |-> "idle", text |-> NoFile, change |-> None, object |-> None]

ASSUME ConstantsAssumption ==
  /\ Early \subseteq Callers
  /\ None \notin Callers \cup Changes
  /\ MaxRuns \in Nat

TypeOK ==
  /\ registry \in Callers \cup {None}
  /\ heap \in [Callers -> SUBSET Changes]
  /\ calls \in [Callers -> CallState]
  /\ tail \in Seq(Callers)
  /\ disk \in Document
  /\ temporary \in Document
  /\ acked \in SUBSET Changes
  /\ runs \in Nat
  /\ reloaded \in BOOLEAN

Init ==
  /\ registry = None
  /\ heap = [c \in Callers |-> {}]
  /\ calls = [c \in Callers |-> IdleCall]
  /\ tail = <<>>
  /\ disk \in {NoFile, [whole |-> FALSE, changes |-> {}]}
  /\ temporary = NoFile
  /\ acked = {}
  /\ runs = 1
  /\ reloaded = FALSE

-----------------------------------------------------------------------------
(* Loading                                                                 *)

(* _ensureRegistry(): a loaded registry is used as it is; otherwise the    *)
(* call reads the file, and nothing records that it has begun to.          *)
EnsureRegistry(c) ==
  /\ calls[c].pc = "idle"
  /\ \/ /\ registry # None
        /\ calls' = [calls EXCEPT ![c].pc = "ready"]
     \/ /\ registry = None
        /\ c \in Early
        /\ calls' = [calls EXCEPT ![c].pc = "opening"]
  /\ UNCHANGED <<registry, heap, tail, disk, temporary, acked, runs, reloaded>>

(* readFile() opens the file that has the name now: a rename to come does  *)
(* not change what it reads.                                               *)
OpenFile(c) ==
  /\ calls[c].pc = "opening"
  /\ calls' = [calls EXCEPT ![c].pc = "reading", ![c].text = disk]
  /\ UNCHANGED <<registry, heap, tail, disk, temporary, acked, runs, reloaded>>

(* A defect: what cannot be parsed is kept as a record.                    *)
ParseKeepsUnusable(text) == IF text.whole THEN text.changes ELSE {None}

(* parseProjectState() of a text: anything unreadable is the empty         *)
(* registry.                                                               *)
Parse(text) == IF text.whole THEN text.changes ELSE {}

(* load() returns and _ensureRegistry() keeps what it returned, whatever   *)
(* the service keeps already.                                              *)
Loaded(c) ==
  /\ calls[c].pc = "reading"
  /\ heap' = [heap EXCEPT ![c] = Parse(calls[c].text)]
  /\ registry' = c
  /\ calls' = [calls EXCEPT ![c] = [IdleCall EXCEPT !.pc = "ready"]]
  /\ acked' = IF calls[c].text.whole THEN acked ELSE {}
  /\ reloaded' = (reloaded \/ registry # None)
  /\ UNCHANGED <<tail, disk, temporary, runs>>

(* The read fails other than with ENOENT: the registry starts empty.       *)
LoadFailed(c) ==
  /\ calls[c].pc \in {"opening", "reading"}
  /\ heap' = [heap EXCEPT ![c] = {}]
  /\ registry' = c
  /\ calls' = [calls EXCEPT ![c] = [IdleCall EXCEPT !.pc = "ready"]]
  /\ acked' = {}
  /\ reloaded' = (reloaded \/ registry # None)
  /\ UNCHANGED <<tail, disk, temporary, runs>>

-----------------------------------------------------------------------------
(* Changing and committing                                                 *)

(* The operation changes the registry the service names now.               *)
Change(c, change) ==
  /\ calls[c].pc = "ready"
  /\ heap' = [heap EXCEPT ![registry] = @ \cup {change}]
  /\ calls' = [calls EXCEPT ![c].pc = "changed", ![c].change = change]
  /\ UNCHANGED <<registry, tail, disk, temporary, acked, runs, reloaded>>

(* The operation finds nothing to change, is refused, or throws between    *)
(* its change and its commit: what it changed stays in memory.             *)
Abandon(c) ==
  /\ calls[c].pc \in {"ready", "changed"}
  /\ calls' = [calls EXCEPT ![c] = IdleCall]
  /\ UNCHANGED <<registry, heap, tail, disk, temporary, acked, runs, reloaded>>

(* _commit() and save(): the write of the registry the service names now   *)
(* is chained after every write before it.                                 *)
Commit(c) ==
  /\ calls[c].pc = "changed"
  /\ tail' = Append(tail, c)
  /\ calls' = [calls EXCEPT ![c].pc = "queued", ![c].object = registry]
  /\ UNCHANGED <<registry, heap, disk, temporary, acked, runs, reloaded>>

(* A defect: commits are not chained.                                      *)
AnyTurn(c) == \E i \in DOMAIN tail : tail[i] = c

(* The chain reached this commit.                                          *)
Turn(c) == tail # <<>> /\ Head(tail) = c

(* A defect: the write serialises what the call changed, not the registry. *)
BeginWriteOfOwnChange(c) ==
  /\ calls[c].pc = "queued"
  /\ Turn(c)
  /\ calls' = [calls EXCEPT ![c].pc = "writing"]
  /\ temporary' = [whole |-> FALSE, changes |-> {calls[c].change}]
  /\ UNCHANGED <<registry, heap, tail, disk, acked, runs, reloaded>>

(* _write() past mkdir(): the registry is serialised as it is now, and     *)
(* writeFile() truncates the temporary file.                               *)
BeginWrite(c) ==
  /\ calls[c].pc = "queued"
  /\ Turn(c)
  /\ calls' = [calls EXCEPT ![c].pc = "writing"]
  /\ temporary' = [whole |-> FALSE, changes |-> heap[calls[c].object]]
  /\ UNCHANGED <<registry, heap, tail, disk, acked, runs, reloaded>>

(* writeFile() is done.                                                    *)
EndWrite(c) ==
  /\ calls[c].pc = "writing"
  /\ calls' = [calls EXCEPT ![c].pc = "written"]
  /\ temporary' = [temporary EXCEPT !.whole = TRUE]
  /\ UNCHANGED <<registry, heap, tail, disk, acked, runs, reloaded>>

(* rename(): the new document replaces the old one at once.                *)
Rename(c) ==
  /\ calls[c].pc = "written"
  /\ disk' = temporary
  /\ temporary' = NoFile
  /\ calls' = [calls EXCEPT ![c].pc = "renamed"]
  /\ UNCHANGED <<registry, heap, tail, acked, runs, reloaded>>

(* The chain without a commit that settled.                                *)
RestOfTail == Tail(tail)

(* A defect: the commit is confirmed once the temporary file is written.   *)
ConfirmWritten(c) ==
  /\ calls[c].pc \in {"written", "renamed"}
  /\ acked' = acked \cup {calls[c].change}
  /\ tail' = RestOfTail
  /\ calls' = [calls EXCEPT ![c] = IdleCall]
  /\ UNCHANGED <<registry, heap, disk, temporary, runs, reloaded>>

(* The commit resolves: its caller answers, and the chain goes on.         *)
Confirm(c) ==
  /\ calls[c].pc = "renamed"
  /\ acked' = acked \cup {calls[c].change}
  /\ tail' = RestOfTail
  /\ calls' = [calls EXCEPT ![c] = IdleCall]
  /\ UNCHANGED <<registry, heap, disk, temporary, runs, reloaded>>

(* A defect: a write that fails never hands the chain on.                  *)
WriteFailedKeepsTurn(c) ==
  /\ \/ calls[c].pc = "queued" /\ Turn(c)
     \/ calls[c].pc \in {"writing", "written"}
  /\ calls' = [calls EXCEPT ![c] = IdleCall]
  /\ UNCHANGED <<registry, heap, tail, disk, temporary, acked, runs, reloaded>>

(* mkdir(), writeFile() or rename() fails: the commit rejects, the change  *)
(* stays in memory, and the chain goes on.                                 *)
WriteFailed(c) ==
  /\ \/ calls[c].pc = "queued" /\ Turn(c)
     \/ calls[c].pc \in {"writing", "written"}
  /\ tail' = RestOfTail
  /\ calls' = [calls EXCEPT ![c] = IdleCall]
  /\ UNCHANGED <<registry, heap, disk, temporary, acked, runs, reloaded>>

-----------------------------------------------------------------------------

(* The process stops, however it stops, and is started again: the files    *)
(* stay as they are.                                                       *)
Restart ==
  /\ runs < MaxRuns
  /\ runs' = runs + 1
  /\ registry' = None
  /\ heap' = [c \in Callers |-> {}]
  /\ calls' = [c \in Callers |-> IdleCall]
  /\ tail' = <<>>
  /\ UNCHANGED <<disk, temporary, acked, reloaded>>

LoadStep(c) ==
  \/ EnsureRegistry(c)
  \/ OpenFile(c)
  \/ Loaded(c)
  \/ LoadFailed(c)

ChangeStep(c) ==
  \/ \E change \in Changes : Change(c, change)
  \/ Abandon(c)
  \/ Commit(c)

WriteStep(c) ==
  \/ BeginWrite(c)
  \/ EndWrite(c)
  \/ Rename(c)
  \/ Confirm(c)
  \/ WriteFailed(c)

Next ==
  \/ \E c \in Callers : LoadStep(c) \/ ChangeStep(c) \/ WriteStep(c)
  \/ Restart

Spec == Init /\ [][Next]_vars

(* The operating system completes every file operation, one way or another. *)
FilesProgress == \A c \in Callers : WF_vars(WriteStep(c))

FairSpec == Spec /\ FilesProgress

-----------------------------------------------------------------------------
(* Properties                                                              *)

(* Whenever the document is replaced, a whole one replaces it: no reader   *)
(* of projects.json meets a half written document, whatever fails or stops *)
(* between the steps of a write and however many commits are waiting.      *)
OnlyWholeDocuments == [][disk' # disk => disk'.whole]_vars

(* A change whose commit was confirmed is in the document on disk: no      *)
(* later write, by another caller or in a later run, writes it away, and   *)
(* none is confirmed before the document that holds it has its name.       *)
ConfirmedIsOnDisk == acked \subseteq disk.changes

(* The store keeps the registry's promise.                                 *)
Durable == INSTANCE DurableRegistry
             WITH stored <- disk.changes, promised <- acked
KeepsPromise == Durable!Spec

(* Every commit settles: a write that fails does not hold up the others.   *)
CommitsSettle ==
  \A c \in Callers : calls[c].pc = "queued" ~> calls[c].pc = "idle"
=============================================================================
