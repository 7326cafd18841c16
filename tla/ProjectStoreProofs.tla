------------------------- MODULE ProjectStoreProofs -------------------------
(***************************************************************************)
(* Proofs about ProjectStore, for every set of callers and changes.  What  *)
(* the store promises of confirmed changes it promises until a load        *)
(* replaces a registry in use, which the service does not prevent; the     *)
(* rest holds whatever is loaded when.                                     *)
(***************************************************************************)
EXTENDS ProjectStore, SequenceTheorems, TLAPS

Loading == {"opening", "reading"}
Writing == {"writing", "written", "renamed"}
Committing == {"queued"} \cup Writing

(* Until a registry is loaded nothing is changed or written, so what a     *)
(* load reads is what the disk holds when the first of them is done.       *)
LoadsFirst ==
  registry = None =>
    \A c \in Callers :
      /\ calls[c].pc \in {"idle"} \cup Loading
      /\ calls[c].pc = "reading" => calls[c].text = disk

(* A change and a commit say what they change and which object they write. *)
CommitsNamed ==
  \A c \in Callers :
    /\ calls[c].pc \in {"changed"} \cup Committing => calls[c].change \in Changes
    /\ calls[c].pc \in Committing => calls[c].object \in Callers

(* One commit at a time is past the start of its write.                    *)
WritesInTurn == \A c \in Callers : calls[c].pc \in Writing => Turn(c)

WholeWrites == \A c \in Callers : calls[c].pc = "written" => temporary.whole

(* The registry in memory holds every confirmed change, and the change of  *)
(* every call that made one; a commit names that registry.                 *)
MemoryHolds ==
  /\ registry # None => acked \subseteq heap[registry]
  /\ \A c \in Callers :
       /\ calls[c].pc \in {"changed"} \cup Committing =>
            calls[c].change \in heap[registry]
       /\ calls[c].pc \in Committing => calls[c].object = registry

(* What is written holds every confirmed change and the writer's own.      *)
WriteHolds ==
  \A c \in Callers :
    /\ calls[c].pc \in {"writing", "written"} =>
         acked \cup {calls[c].change} \subseteq temporary.changes
    /\ calls[c].pc = "renamed" => calls[c].change \in disk.changes

(* What holds whatever is loaded when, and what a second load breaks.      *)
Sound == TypeOK /\ LoadsFirst /\ CommitsNamed /\ WritesInTurn /\ WholeWrites
Held == MemoryHolds /\ WriteHolds /\ ConfirmedIsOnDisk

(* The inductive invariant.                                                *)
IInv == Sound /\ (reloaded \/ Held)

-----------------------------------------------------------------------------
(* Facts about records and functions that the steps below share.           *)

(* A call at another await.                                                *)
At(k, p) == [k EXCEPT !.pc = p]

AtReading(k, text) == [k EXCEPT !.pc = "reading", !.text = text]
AtChanged(k, change) == [k EXCEPT !.pc = "changed", !.change = change]
AtQueued(k, object) == [k EXCEPT !.pc = "queued", !.object = object]

LEMMA CallFacts ==
  ASSUME NEW k \in CallState
  PROVE  /\ k.text \in Document
         /\ k.change \in Changes \cup {None}
         /\ k.object \in Callers \cup {None}
BY DEF CallState

LEMMA AtFacts ==
  ASSUME NEW k \in CallState,
         NEW p \in {"idle", "ready", "changed"} \cup Loading \cup Committing
  PROVE  /\ At(k, p) \in CallState
         /\ At(k, p).pc = p
         /\ At(k, p).text = k.text
         /\ At(k, p).change = k.change
         /\ At(k, p).object = k.object
BY DEF CallState, Loading, Committing, Writing, At

LEMMA AtReadingFacts ==
  ASSUME NEW k \in CallState, NEW text \in Document
  PROVE  /\ AtReading(k, text) \in CallState
         /\ AtReading(k, text).pc = "reading"
         /\ AtReading(k, text).text = text
BY DEF CallState, AtReading

LEMMA AtChangedFacts ==
  ASSUME NEW k \in CallState, NEW change \in Changes
  PROVE  /\ AtChanged(k, change) \in CallState
         /\ AtChanged(k, change).pc = "changed"
         /\ AtChanged(k, change).change = change
BY DEF CallState, AtChanged

LEMMA AtQueuedFacts ==
  ASSUME NEW k \in CallState, NEW object \in Callers
  PROVE  /\ AtQueued(k, object) \in CallState
         /\ AtQueued(k, object).pc = "queued"
         /\ AtQueued(k, object).change = k.change
         /\ AtQueued(k, object).object = object
BY DEF CallState, AtQueued

LEMMA DocumentFacts ==
  /\ NoFile \in Document /\ NoFile.whole = TRUE /\ NoFile.changes = {}
  /\ \A b \in BOOLEAN, s \in SUBSET Changes :
       LET d == [whole |-> b, changes |-> s] IN
       d \in Document /\ d.whole = b /\ d.changes = s
  /\ \A d \in Document : d.whole \in BOOLEAN /\ d.changes \in SUBSET Changes
BY DEF Document, NoFile

LEMMA IdleFacts ==
  /\ IdleCall \in CallState
  /\ IdleCall.pc = "idle"
BY DocumentFacts DEF IdleCall, CallState

(* One call moves, the others stay where they are.                         *)
LEMMA CallMoves ==
  ASSUME TypeOK, NEW c \in Callers, NEW new \in CallState,
         calls' = [calls EXCEPT ![c] = new]
  PROVE  /\ calls' \in [Callers -> CallState]
         /\ calls'[c] = new
         /\ \A d \in Callers : d # c => calls'[d] = calls[d]
BY DEF TypeOK

-----------------------------------------------------------------------------

LEMMA InitIInv == Init => IInv
<1> SUFFICES ASSUME Init PROVE IInv
  OBVIOUS
<1>1. \A c \in Callers : calls[c] = IdleCall /\ calls[c].pc = "idle"
  BY IdleFacts DEF Init
<1>2. disk \in Document
  BY DocumentFacts DEF Init
<1>3. TypeOK
  <2>1. calls \in [Callers -> CallState]
    BY IdleFacts DEF Init
  <2>2. tail \in Seq(Callers) /\ runs \in Nat
    BY DEF Init
  <2>3. reloaded \in BOOLEAN
    BY Zenon DEF Init
  <2>4. acked \in SUBSET Changes /\ heap \in [Callers -> SUBSET Changes]
    BY DEF Init
  <2> QED BY <1>2, <2>1, <2>2, <2>3, <2>4, DocumentFacts DEF Init, TypeOK
<1>4. LoadsFirst /\ CommitsNamed /\ WritesInTurn /\ WholeWrites /\ WriteHolds
  BY <1>1 DEF LoadsFirst, CommitsNamed, WritesInTurn, WholeWrites, WriteHolds,
              Loading, Writing, Committing
<1>5. MemoryHolds
  BY <1>1 DEF Init, MemoryHolds, Committing, Writing
<1>6. ConfirmedIsOnDisk
  BY DEF Init, ConfirmedIsOnDisk
<1>7. QED
  BY <1>3, <1>4, <1>5, <1>6 DEF IInv, Sound, Held

-----------------------------------------------------------------------------
(* Every action preserves the invariant.                                   *)

LEMMA EnsureRegistryStep ==
  ASSUME IInv, NEW c \in Callers, EnsureRegistry(c)
  PROVE  IInv'
<1> USE DEF IInv, Sound
<1>1. UNCHANGED <<registry, heap, tail, disk, temporary, acked, runs, reloaded>>
  BY DEF EnsureRegistry
<1>2. PICK p \in {"ready", "opening"} :
        /\ calls' = [calls EXCEPT ![c] = At(calls[c], p)]
        /\ p = "opening" => c \in Early /\ registry = None
        /\ p = "ready" => registry # None
  BY DEF EnsureRegistry, At
<1> DEFINE new == At(calls[c], p)
<1>3. new \in CallState /\ new.pc = p
  BY AtFacts DEF TypeOK, Loading
<1> HIDE DEF new
<1>4. /\ calls' \in [Callers -> CallState]
      /\ calls'[c] = new
      /\ \A d \in Callers : d # c => calls'[d] = calls[d]
  BY <1>2, <1>3, CallMoves DEF new
<1>5. TypeOK'
  BY <1>1, <1>4 DEF TypeOK
<1>6. LoadsFirst' /\ CommitsNamed'
  BY <1>1, <1>2, <1>3, <1>4 DEF LoadsFirst, CommitsNamed, Loading, Committing, Writing
<1>7. Held => MemoryHolds'
  BY <1>1, <1>3, <1>4 DEF Held, MemoryHolds, Committing, Writing
<1>8. WritesInTurn' /\ WholeWrites' /\ (Held => WriteHolds')
  BY <1>1, <1>3, <1>4 DEF WritesInTurn, WholeWrites, Held, WriteHolds, Writing, Turn
<1>9. QED
  BY <1>1, <1>5, <1>6, <1>7, <1>8 DEF Held, ConfirmedIsOnDisk

LEMMA OpenFileStep ==
  ASSUME IInv, NEW c \in Callers, OpenFile(c)
  PROVE  IInv'
<1> USE DEF IInv, Sound
<1> DEFINE new == AtReading(calls[c], disk)
<1>1. /\ UNCHANGED <<registry, heap, tail, disk, temporary, acked, runs, reloaded>>
      /\ calls' = [calls EXCEPT ![c] = new]
  BY DEF OpenFile, AtReading
<1>2. calls[c].pc = "opening"
  BY DEF OpenFile
<1>3. new \in CallState /\ new.pc = "reading" /\ new.text = disk
  BY AtReadingFacts DEF TypeOK
<1> HIDE DEF new
<1>4. /\ calls' \in [Callers -> CallState]
      /\ calls'[c] = new
      /\ \A d \in Callers : d # c => calls'[d] = calls[d]
  BY <1>1, <1>3, CallMoves DEF new
<1>5. TypeOK'
  BY <1>1, <1>4 DEF TypeOK
<1>6. LoadsFirst' /\ CommitsNamed'
  BY <1>1, <1>2, <1>3, <1>4 DEF LoadsFirst, CommitsNamed, Loading, Committing, Writing
<1>7. Held => MemoryHolds'
  BY <1>1, <1>3, <1>4 DEF Held, MemoryHolds, Committing, Writing
<1>8. WritesInTurn' /\ WholeWrites' /\ (Held => WriteHolds')
  BY <1>1, <1>3, <1>4 DEF WritesInTurn, WholeWrites, Held, WriteHolds, Writing, Turn
<1>9. QED
  BY <1>1, <1>5, <1>6, <1>7, <1>8 DEF Held, ConfirmedIsOnDisk

(* A load ends, well or badly.  The first one finds no other call past its *)
(* load, and the registry it sets holds what was confirmed; after another  *)
(* nothing is said of what was.                                            *)
LEMMA LoadEnds ==
  ASSUME IInv, NEW c \in Callers, NEW loaded \in SUBSET Changes,
         calls[c].pc \in Loading,
         heap' = [heap EXCEPT ![c] = loaded],
         registry' = c,
         calls' = [calls EXCEPT ![c] = At(IdleCall, "ready")],
         acked' \in SUBSET Changes,
         reloaded' = (reloaded \/ registry # None),
         registry = None /\ Held => acked' \subseteq loaded \cap disk.changes,
         UNCHANGED <<tail, disk, temporary, runs>>
  PROVE  IInv'
<1> USE DEF IInv, Sound
<1> DEFINE new == At(IdleCall, "ready")
<1>1. new \in CallState /\ new.pc = "ready"
  BY IdleFacts, AtFacts
<1> HIDE DEF new
<1>2. /\ calls' \in [Callers -> CallState]
      /\ calls'[c] = new
      /\ \A d \in Callers : d # c => calls'[d] = calls[d]
  BY <1>1, CallMoves DEF new
<1>3. c # None
  BY ConstantsAssumption
<1>4. heap' \in [Callers -> SUBSET Changes] /\ heap'[c] = loaded
  BY DEF TypeOK
<1>5. TypeOK'
  BY <1>2, <1>4 DEF TypeOK
<1>6. LoadsFirst' /\ CommitsNamed' /\ WritesInTurn' /\ WholeWrites'
  BY <1>1, <1>2, <1>3
  DEF LoadsFirst, CommitsNamed, WritesInTurn, WholeWrites, Loading, Writing,
      Committing, Turn
<1>7. ASSUME ~reloaded' PROVE Held'
  <2>1. registry = None /\ Held
    BY <1>7
  <2>2. \A d \in Callers : calls'[d].pc \in {"idle", "ready"} \cup Loading
    BY <1>1, <1>2, <2>1 DEF LoadsFirst
  <2>3. MemoryHolds'
    BY <1>4, <2>1, <2>2 DEF MemoryHolds, Loading, Committing, Writing
  <2>4. WriteHolds'
    BY <2>2 DEF WriteHolds, Loading
  <2> QED BY <2>1, <2>3, <2>4 DEF Held, ConfirmedIsOnDisk
<1> QED BY <1>5, <1>6, <1>7

LEMMA LoadedStep ==
  ASSUME IInv, NEW c \in Callers, Loaded(c)
  PROVE  IInv'
<1> DEFINE text == calls[c].text
<1>1. /\ calls[c].pc \in Loading
      /\ registry' = c
      /\ calls' = [calls EXCEPT ![c] = At(IdleCall, "ready")]
      /\ heap' = [heap EXCEPT ![c] = Parse(text)]
      /\ acked' = IF text.whole THEN acked ELSE {}
      /\ reloaded' = (reloaded \/ registry # None)
      /\ UNCHANGED <<tail, disk, temporary, runs>>
  BY DEF Loaded, At, Loading
<1>2. registry = None => text = disk
  BY DEF IInv, Sound, LoadsFirst, Loaded
<1>3. text \in Document /\ acked \in SUBSET Changes
  BY CallFacts DEF IInv, Sound, TypeOK
<1>4. Held => acked \subseteq disk.changes
  BY DEF Held, ConfirmedIsOnDisk
<1> HIDE DEF text
<1>5. Parse(text) \in SUBSET Changes /\ acked' \in SUBSET Changes
  BY <1>1, <1>3, DocumentFacts DEF Parse
<1>6. registry = None /\ Held => acked' \subseteq Parse(text) \cap disk.changes
  BY <1>1, <1>2, <1>4 DEF Parse
<1> QED BY <1>1, <1>5, <1>6, LoadEnds

LEMMA LoadFailedStep ==
  ASSUME IInv, NEW c \in Callers, LoadFailed(c)
  PROVE  IInv'
<1>1. /\ calls[c].pc \in Loading
      /\ registry' = c
      /\ calls' = [calls EXCEPT ![c] = At(IdleCall, "ready")]
      /\ heap' = [heap EXCEPT ![c] = {}]
      /\ acked' = {}
      /\ reloaded' = (reloaded \/ registry # None)
      /\ UNCHANGED <<tail, disk, temporary, runs>>
  BY DEF LoadFailed, At, Loading
<1> QED BY <1>1, LoadEnds

LEMMA ChangeStepHolds ==
  ASSUME IInv, NEW c \in Callers, NEW change \in Changes, Change(c, change)
  PROVE  IInv'
<1> USE DEF IInv, Sound
<1> DEFINE new == AtChanged(calls[c], change)
<1>1. /\ UNCHANGED <<registry, tail, disk, temporary, acked, runs, reloaded>>
      /\ calls' = [calls EXCEPT ![c] = new]
      /\ heap' = [heap EXCEPT ![registry] = @ \cup {change}]
  BY DEF Change, AtChanged
<1>2. registry \in Callers /\ registry # None
  BY DEF Change, LoadsFirst, CommitsNamed, Loading, Committing, Writing, TypeOK
<1>3. new \in CallState /\ new.pc = "changed" /\ new.change = change
  BY AtChangedFacts DEF TypeOK
<1> HIDE DEF new
<1>4. /\ calls' \in [Callers -> CallState]
      /\ calls'[c] = new
      /\ \A d \in Callers : d # c => calls'[d] = calls[d]
  BY <1>1, <1>3, CallMoves DEF new
<1>5. /\ heap' \in [Callers -> SUBSET Changes]
      /\ heap'[registry] = heap[registry] \cup {change}
  BY <1>1, <1>2 DEF TypeOK
<1>6. TypeOK'
  BY <1>1, <1>4, <1>5 DEF TypeOK
<1>7. LoadsFirst' /\ CommitsNamed'
  BY <1>1, <1>2, <1>3, <1>4 DEF LoadsFirst, CommitsNamed, Loading, Committing, Writing
<1>8. Held => MemoryHolds'
  BY <1>1, <1>3, <1>4, <1>5 DEF Held, MemoryHolds, Committing, Writing
<1>9. WritesInTurn' /\ WholeWrites' /\ (Held => WriteHolds')
  BY <1>1, <1>3, <1>4 DEF WritesInTurn, WholeWrites, Held, WriteHolds, Writing, Turn
<1>10. QED
  BY <1>1, <1>6, <1>7, <1>8, <1>9 DEF Held, ConfirmedIsOnDisk

LEMMA AbandonStep ==
  ASSUME IInv, NEW c \in Callers, Abandon(c)
  PROVE  IInv'
<1> USE DEF IInv, Sound
<1> DEFINE new == IdleCall
<1>1. /\ UNCHANGED <<registry, heap, tail, disk, temporary, acked, runs, reloaded>>
      /\ calls' = [calls EXCEPT ![c] = new]
  BY DEF Abandon
<1>2. new \in CallState /\ new.pc = "idle"
  BY IdleFacts
<1> HIDE DEF new
<1>3. /\ calls' \in [Callers -> CallState]
      /\ calls'[c] = new
      /\ \A d \in Callers : d # c => calls'[d] = calls[d]
  BY <1>1, <1>2, CallMoves DEF new
<1>4. TypeOK'
  BY <1>1, <1>3 DEF TypeOK
<1>5. LoadsFirst' /\ CommitsNamed'
  BY <1>1, <1>2, <1>3 DEF LoadsFirst, CommitsNamed, Loading, Committing, Writing
<1>6. Held => MemoryHolds'
  BY <1>1, <1>2, <1>3 DEF Held, MemoryHolds, Committing, Writing
<1>7. WritesInTurn' /\ WholeWrites' /\ (Held => WriteHolds')
  BY <1>1, <1>2, <1>3 DEF WritesInTurn, WholeWrites, Held, WriteHolds, Writing, Turn
<1>8. QED
  BY <1>1, <1>4, <1>5, <1>6, <1>7 DEF Held, ConfirmedIsOnDisk

LEMMA CommitStep ==
  ASSUME IInv, NEW c \in Callers, Commit(c)
  PROVE  IInv'
<1> USE DEF IInv, Sound
<1> DEFINE new == AtQueued(calls[c], registry)
<1>1. /\ UNCHANGED <<registry, heap, disk, temporary, acked, runs, reloaded>>
      /\ calls' = [calls EXCEPT ![c] = new]
      /\ tail' = Append(tail, c)
      /\ calls[c].pc = "changed"
  BY DEF Commit, AtQueued
<1>2. registry \in Callers /\ registry # None
  BY <1>1 DEF LoadsFirst, CommitsNamed, Loading, Committing, Writing, TypeOK
<1>3. /\ new \in CallState
      /\ new.pc = "queued"
      /\ new.change = calls[c].change
      /\ new.object = registry
  BY <1>2, AtQueuedFacts DEF TypeOK
<1> HIDE DEF new
<1>4. /\ calls' \in [Callers -> CallState]
      /\ calls'[c] = new
      /\ \A d \in Callers : d # c => calls'[d] = calls[d]
  BY <1>1, <1>3, CallMoves DEF new
<1>5. tail' \in Seq(Callers)
  BY <1>1, AppendProperties DEF TypeOK
<1>6. TypeOK'
  BY <1>1, <1>4, <1>5 DEF TypeOK
<1>7. LoadsFirst' /\ CommitsNamed'
  BY <1>1, <1>2, <1>3, <1>4 DEF LoadsFirst, CommitsNamed, Loading, Committing, Writing
<1>8. Held => MemoryHolds'
  BY <1>1, <1>2, <1>3, <1>4 DEF Held, MemoryHolds, Committing, Writing
<1>9. tail # <<>> => tail' # <<>> /\ Head(tail') = Head(tail)
  BY <1>1 DEF TypeOK
<1>10. WritesInTurn' /\ WholeWrites'
  BY <1>1, <1>3, <1>4, <1>9 DEF WritesInTurn, WholeWrites, Writing, Turn
<1>11. Held => WriteHolds'
  BY <1>1, <1>3, <1>4 DEF Held, WriteHolds
<1>12. QED
  BY <1>1, <1>6, <1>7, <1>8, <1>10, <1>11 DEF Held, ConfirmedIsOnDisk

(* Whoever has the turn has it alone.                                      *)
LEMMA OneTurn ==
  ASSUME NEW c \in Callers, Turn(c), WritesInTurn
  PROVE  \A d \in Callers : d # c => calls[d].pc \notin Writing
BY DEF Turn, WritesInTurn

LEMMA BeginWriteStep ==
  ASSUME IInv, NEW c \in Callers, BeginWrite(c)
  PROVE  IInv'
<1> USE DEF IInv, Sound
<1> DEFINE new == At(calls[c], "writing")
           text == heap[calls[c].object]
<1>1. /\ UNCHANGED <<registry, heap, tail, disk, acked, runs, reloaded>>
      /\ calls' = [calls EXCEPT ![c] = new]
      /\ temporary' = [whole |-> FALSE, changes |-> text]
      /\ Turn(c)
      /\ calls[c].pc = "queued"
  BY DEF BeginWrite, At
<1>2. /\ new \in CallState
      /\ new.pc = "writing"
      /\ new.change = calls[c].change
      /\ new.object = calls[c].object
  BY AtFacts DEF TypeOK, Committing, Writing
<1> HIDE DEF new
<1>3. /\ calls' \in [Callers -> CallState]
      /\ calls'[c] = new
      /\ \A d \in Callers : d # c => calls'[d] = calls[d]
  BY <1>1, <1>2, CallMoves DEF new
<1>4. /\ registry # None
      /\ calls[c].object \in Callers
      /\ calls[c].change \in Changes
      /\ text \in SUBSET Changes
  BY <1>1 DEF LoadsFirst, CommitsNamed, Loading, Committing, Writing, TypeOK
<1>a. Held => acked \cup {calls[c].change} \subseteq text
  BY <1>1, <1>4 DEF Held, MemoryHolds, Committing
<1> HIDE DEF text
<1>5. temporary' \in Document /\ temporary'.changes = text
  BY <1>1, <1>4, DocumentFacts
<1>6. TypeOK'
  BY <1>1, <1>3, <1>5 DEF TypeOK
<1>7. LoadsFirst' /\ CommitsNamed'
  BY <1>1, <1>2, <1>3, <1>4 DEF LoadsFirst, CommitsNamed, Loading, Committing, Writing
<1>8. Held => MemoryHolds'
  BY <1>1, <1>2, <1>3, <1>4 DEF Held, MemoryHolds, Committing, Writing
<1>9. WritesInTurn' /\ WholeWrites'
  BY <1>1, <1>2, <1>3 DEF WritesInTurn, WholeWrites, Writing, Turn
<1>10. \A d \in Callers : d # c => calls'[d].pc \notin Writing
  BY <1>1, <1>3, OneTurn
<1>11. Held => WriteHolds'
  BY <1>1, <1>2, <1>3, <1>a, <1>5, <1>10 DEF Held, WriteHolds, Writing
<1>12. QED
  BY <1>1, <1>6, <1>7, <1>8, <1>9, <1>11 DEF Held, ConfirmedIsOnDisk

LEMMA EndWriteStep ==
  ASSUME IInv, NEW c \in Callers, EndWrite(c)
  PROVE  IInv'
<1> USE DEF IInv, Sound
<1> DEFINE new == At(calls[c], "written")
<1>1. /\ UNCHANGED <<registry, heap, tail, disk, acked, runs, reloaded>>
      /\ calls' = [calls EXCEPT ![c] = new]
      /\ temporary' = [temporary EXCEPT !.whole = TRUE]
      /\ calls[c].pc = "writing"
  BY DEF EndWrite, At
<1>2. /\ new \in CallState
      /\ new.pc = "written"
      /\ new.change = calls[c].change
      /\ new.object = calls[c].object
  BY AtFacts DEF TypeOK, Committing, Writing
<1> HIDE DEF new
<1>3. /\ calls' \in [Callers -> CallState]
      /\ calls'[c] = new
      /\ \A d \in Callers : d # c => calls'[d] = calls[d]
  BY <1>1, <1>2, CallMoves DEF new
<1>4. /\ temporary' \in Document
      /\ temporary'.whole
      /\ temporary'.changes = temporary.changes
  BY <1>1 DEF TypeOK, Document
<1>5. TypeOK'
  BY <1>1, <1>3, <1>4 DEF TypeOK
<1>6. LoadsFirst' /\ CommitsNamed'
  BY <1>1, <1>2, <1>3 DEF LoadsFirst, CommitsNamed, Loading, Committing, Writing
<1>7. Held => MemoryHolds'
  BY <1>1, <1>2, <1>3 DEF Held, MemoryHolds, Committing, Writing
<1>8. WritesInTurn' /\ WholeWrites'
  BY <1>1, <1>2, <1>3 DEF WritesInTurn, WholeWrites, Writing, Turn
<1>9. \A d \in Callers : d # c => calls'[d].pc \notin Writing
  BY <1>1, <1>3, OneTurn DEF WritesInTurn, Writing
<1>10. Held => WriteHolds'
  BY <1>1, <1>2, <1>3, <1>4, <1>9 DEF Held, WriteHolds, Writing
<1>11. QED
  BY <1>1, <1>5, <1>6, <1>7, <1>8, <1>10 DEF Held, ConfirmedIsOnDisk

LEMMA RenameStep ==
  ASSUME IInv, NEW c \in Callers, Rename(c)
  PROVE  IInv'
<1> USE DEF IInv, Sound
<1> DEFINE new == At(calls[c], "renamed")
<1>1. /\ UNCHANGED <<registry, heap, tail, acked, runs, reloaded>>
      /\ calls' = [calls EXCEPT ![c] = new]
      /\ disk' = temporary
      /\ temporary' = NoFile
      /\ calls[c].pc = "written"
  BY DEF Rename, At
<1>2. /\ new \in CallState
      /\ new.pc = "renamed"
      /\ new.change = calls[c].change
      /\ new.object = calls[c].object
  BY AtFacts DEF TypeOK, Committing, Writing
<1> HIDE DEF new
<1>3. /\ calls' \in [Callers -> CallState]
      /\ calls'[c] = new
      /\ \A d \in Callers : d # c => calls'[d] = calls[d]
  BY <1>1, <1>2, CallMoves DEF new
<1>4. TypeOK'
  BY <1>1, <1>3, DocumentFacts DEF TypeOK
<1>5. registry # None
  BY <1>1 DEF LoadsFirst, CommitsNamed, Loading, Committing, Writing
<1>6. LoadsFirst' /\ CommitsNamed'
  BY <1>1, <1>2, <1>3, <1>5 DEF LoadsFirst, CommitsNamed, Loading, Committing, Writing
<1>7. Held => MemoryHolds'
  BY <1>1, <1>2, <1>3 DEF Held, MemoryHolds, Committing, Writing
<1>8. WritesInTurn' /\ WholeWrites'
  BY <1>1, <1>2, <1>3 DEF WritesInTurn, WholeWrites, Writing, Turn
<1>9. \A d \in Callers : d # c => calls'[d].pc \notin Writing
  BY <1>1, <1>3, OneTurn DEF WritesInTurn, Writing
<1>10. Held => WriteHolds'
  BY <1>1, <1>2, <1>3, <1>9 DEF Held, WriteHolds, Writing
<1>11. Held => ConfirmedIsOnDisk'
  BY <1>1 DEF Held, WriteHolds, ConfirmedIsOnDisk
<1>12. QED
  BY <1>1, <1>4, <1>6, <1>7, <1>8, <1>10, <1>11 DEF Held

LEMMA ConfirmStep ==
  ASSUME IInv, NEW c \in Callers, Confirm(c)
  PROVE  IInv'
<1> USE DEF IInv, Sound
<1> DEFINE new == IdleCall
           change == calls[c].change
<1>1. /\ UNCHANGED <<registry, heap, disk, temporary, runs, reloaded>>
      /\ calls' = [calls EXCEPT ![c] = new]
      /\ acked' = acked \cup {change}
      /\ tail' = Tail(tail)
      /\ calls[c].pc = "renamed"
  BY DEF Confirm, RestOfTail
<1>2. new \in CallState /\ new.pc = "idle"
  BY IdleFacts
<1> HIDE DEF new
<1>3. /\ calls' \in [Callers -> CallState]
      /\ calls'[c] = new
      /\ \A d \in Callers : d # c => calls'[d] = calls[d]
  BY <1>1, <1>2, CallMoves DEF new
<1>4. change \in Changes /\ Turn(c)
  BY <1>1 DEF CommitsNamed, WritesInTurn, Committing, Writing
<1>a. Held => change \in disk.changes /\ change \in heap[registry]
  BY <1>1 DEF Held, WriteHolds, MemoryHolds, Committing, Writing
<1> HIDE DEF change
<1>5. acked' \in SUBSET Changes
  BY <1>1, <1>4 DEF TypeOK
<1>6. tail' \in Seq(Callers)
  BY <1>1, <1>4 DEF TypeOK, Turn
<1>7. TypeOK'
  BY <1>1, <1>3, <1>5, <1>6 DEF TypeOK
<1>8. LoadsFirst' /\ CommitsNamed'
  BY <1>1, <1>2, <1>3 DEF LoadsFirst, CommitsNamed, Loading, Committing, Writing
<1>9. Held => MemoryHolds'
  BY <1>1, <1>2, <1>3, <1>a DEF Held, MemoryHolds, Committing, Writing
<1>10. \A d \in Callers : calls'[d].pc \notin Writing
  BY <1>2, <1>3, <1>4, OneTurn DEF Writing
<1>11. WritesInTurn' /\ WholeWrites' /\ (Held => WriteHolds')
  BY <1>10 DEF WritesInTurn, WholeWrites, Held, WriteHolds, Writing
<1>12. Held => ConfirmedIsOnDisk'
  BY <1>1, <1>a DEF Held, ConfirmedIsOnDisk
<1>13. QED
  BY <1>1, <1>7, <1>8, <1>9, <1>11, <1>12 DEF Held

LEMMA WriteFailedStep ==
  ASSUME IInv, NEW c \in Callers, WriteFailed(c)
  PROVE  IInv'
<1> USE DEF IInv, Sound
<1> DEFINE new == IdleCall
<1>1. /\ UNCHANGED <<registry, heap, disk, temporary, acked, runs, reloaded>>
      /\ calls' = [calls EXCEPT ![c] = new]
      /\ tail' = Tail(tail)
      /\ Turn(c)
  BY DEF WriteFailed, RestOfTail, WritesInTurn, Writing
<1>2. new \in CallState /\ new.pc = "idle"
  BY IdleFacts
<1> HIDE DEF new
<1>3. /\ calls' \in [Callers -> CallState]
      /\ calls'[c] = new
      /\ \A d \in Callers : d # c => calls'[d] = calls[d]
  BY <1>1, <1>2, CallMoves DEF new
<1>4. tail' \in Seq(Callers)
  BY <1>1 DEF TypeOK, Turn
<1>5. TypeOK'
  BY <1>1, <1>3, <1>4 DEF TypeOK
<1>6. LoadsFirst' /\ CommitsNamed'
  BY <1>1, <1>2, <1>3 DEF LoadsFirst, CommitsNamed, Loading, Committing, Writing
<1>7. Held => MemoryHolds'
  BY <1>1, <1>2, <1>3 DEF Held, MemoryHolds, Committing, Writing
<1>8. \A d \in Callers : calls'[d].pc \notin Writing
  BY <1>1, <1>2, <1>3, OneTurn DEF Writing
<1>9. WritesInTurn' /\ WholeWrites' /\ (Held => WriteHolds')
  BY <1>8 DEF WritesInTurn, WholeWrites, Held, WriteHolds, Writing
<1>10. QED
  BY <1>1, <1>5, <1>6, <1>7, <1>9 DEF Held, ConfirmedIsOnDisk

LEMMA RestartStep ==
  ASSUME IInv, Restart
  PROVE  IInv'
<1> USE DEF IInv, Sound
<1>1. /\ \A c \in Callers : calls'[c].pc = "idle"
      /\ calls' \in [Callers -> CallState]
  BY IdleFacts DEF Restart
<1>2. registry' = None /\ UNCHANGED <<disk, acked, reloaded>>
  BY DEF Restart
<1>3. TypeOK'
  BY <1>1, <1>2 DEF Restart, TypeOK
<1>4. /\ LoadsFirst' /\ CommitsNamed' /\ WritesInTurn' /\ WholeWrites'
      /\ WriteHolds' /\ MemoryHolds'
  BY <1>1, <1>2
  DEF LoadsFirst, CommitsNamed, WritesInTurn, WholeWrites, WriteHolds,
      MemoryHolds, Loading, Writing, Committing
<1>5. QED
  BY <1>2, <1>3, <1>4 DEF Held, ConfirmedIsOnDisk

LEMMA NextIInv ==
  ASSUME IInv, [Next]_vars
  PROVE  IInv'
<1>1. CASE UNCHANGED vars
  BY <1>1 DEF vars, IInv, Sound, Held, TypeOK, LoadsFirst, CommitsNamed, MemoryHolds,
              WritesInTurn, WholeWrites, Turn, WriteHolds, ConfirmedIsOnDisk
<1>2. ASSUME NEW c \in Callers, LoadStep(c)
      PROVE  IInv'
  BY <1>2, EnsureRegistryStep, OpenFileStep, LoadedStep, LoadFailedStep
  DEF LoadStep
<1>3. ASSUME NEW c \in Callers, ChangeStep(c)
      PROVE  IInv'
  BY <1>3, ChangeStepHolds, AbandonStep, CommitStep DEF ChangeStep
<1>4. ASSUME NEW c \in Callers, WriteStep(c)
      PROVE  IInv'
  BY <1>4, BeginWriteStep, EndWriteStep, RenameStep, ConfirmStep,
     WriteFailedStep
  DEF WriteStep
<1>5. CASE Restart
  BY <1>5, RestartStep
<1>6. QED
  BY <1>1, <1>2, <1>3, <1>4, <1>5 DEF Next

-----------------------------------------------------------------------------

(* The store keeps IInv, however many calls load its registry, whatever   *)
(* fails and wherever the process stops.                                   *)
THEOREM Invariance == Spec => []IInv
BY InitIInv, NextIInv, PTL DEF Spec

(* What a load, a change and a write leave behind is well typed, and the   *)
(* chain of commits names callers only, whatever is loaded when.           *)
THEOREM TypeCorrectness == Spec => []TypeOK
<1>1. IInv => TypeOK
  BY DEF IInv, Sound
<1> QED BY <1>1, Invariance, PTL

(* No confirmed change is ever missing from the document on disk, until a  *)
(* second load replaces a registry in use (_ensureRegistry()): it is what  *)
(* two calls that reach the service before it is loaded bring about.       *)
THEOREM ConfirmedIsKept == Spec => [](reloaded \/ ConfirmedIsOnDisk)
<1>1. IInv => reloaded \/ ConfirmedIsOnDisk
  BY DEF IInv, Held
<1> QED BY <1>1, Invariance, PTL

(* Only a whole document replaces the one on disk, whatever is loaded when.*)
THEOREM WholeDocuments == Spec => OnlyWholeDocuments
<1>1. IInv /\ [Next]_vars => [disk' # disk => disk'.whole]_vars
  <2> SUFFICES ASSUME IInv, Next, disk' # disk PROVE disk'.whole
    BY DEF vars
  <2>1. PICK c \in Callers : Rename(c)
    BY DEF Next, LoadStep, EnsureRegistry, OpenFile, Loaded, LoadFailed,
           ChangeStep, Change, Abandon, Commit, WriteStep, BeginWrite,
           EndWrite, Confirm, WriteFailed, Restart
  <2>2. QED
    BY <2>1 DEF Rename, IInv, Sound, WholeWrites
<1>2. QED
  BY <1>1, Invariance, PTL DEF Spec, OnlyWholeDocuments

(* The store implements DurableRegistry: a rename replaces the stored      *)
(* document by one that holds every promised change, a commit that         *)
(* resolves confirms a stored change, and a load that finds nothing it can *)
(* read starts empty; every other step changes neither.  It is said of the *)
(* behaviours where no load replaces a registry in use.                    *)
THEOREM Refinement == Spec /\ [](~reloaded) => KeepsPromise
<1> DEFINE Unchanged == UNCHANGED <<disk.changes, acked>>
<1>1. Init => Durable!Init
  BY DocumentFacts DEF Init, Durable!Init
<1>2. IInv /\ ~reloaded /\ [Next]_vars => [Durable!Next]_<<disk.changes, acked>>
  <2> SUFFICES ASSUME IInv, ~reloaded, [Next]_vars PROVE Durable!Next \/ Unchanged
    OBVIOUS
  <2>1. ASSUME NEW c \in Callers, LoadStep(c)
        PROVE  Durable!Next \/ Unchanged
    <3>1. disk' = disk /\ acked' \in {acked, {}}
      BY <2>1
      DEF LoadStep, EnsureRegistry, OpenFile, Loaded, LoadFailed
    <3>2. QED
      BY <3>1 DEF Durable!Next, Durable!StartEmpty
  <2>2. ASSUME NEW c \in Callers, ChangeStep(c)
        PROVE  Durable!Next \/ Unchanged
    BY <2>2 DEF ChangeStep, Change, Abandon, Commit
  <2>3. ASSUME NEW c \in Callers, Rename(c)
        PROVE  Durable!Next \/ Unchanged
    <3>1. /\ disk'.changes \in SUBSET Changes
          /\ acked \subseteq disk'.changes
          /\ UNCHANGED acked
      BY <2>3, DocumentFacts DEF Rename, IInv, Sound, Held, WriteHolds, TypeOK
    <3>2. QED
      BY <3>1 DEF Durable!Next, Durable!Replace
  <2>4. ASSUME NEW c \in Callers, Confirm(c)
        PROVE  Durable!Next \/ Unchanged
    <3>1. /\ calls[c].change \in disk.changes
          /\ acked' = acked \cup {calls[c].change}
          /\ UNCHANGED disk
      BY <2>4 DEF Confirm, IInv, Held, WriteHolds, Writing
    <3>2. QED
      BY <3>1 DEF Durable!Next, Durable!Confirm
  <2>5. ASSUME NEW c \in Callers,
               BeginWrite(c) \/ EndWrite(c) \/ WriteFailed(c)
        PROVE  Durable!Next \/ Unchanged
    BY <2>5 DEF BeginWrite, EndWrite, WriteFailed
  <2>6. CASE Restart
    BY <2>6 DEF Restart
  <2>7. CASE UNCHANGED vars
    BY <2>7 DEF vars
  <2>8. QED
    BY <2>1, <2>2, <2>3, <2>4, <2>5, <2>6, <2>7 DEF Next, WriteStep
<1>3. QED
  BY <1>1, <1>2, Invariance, PTL DEF Spec, KeepsPromise, Durable!Spec
=============================================================================
