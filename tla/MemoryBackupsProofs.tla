------------------------ MODULE MemoryBackupsProofs -------------------------
(***************************************************************************)
(* Proofs about MemoryBackups, for every set of requests, writes, memories *)
(* and files, and every archive a user may upload.                         *)
(***************************************************************************)
EXTENDS MemoryBackups, FiniteSetTheorems, TLAPS

Making == {"snapshot", "count", "zip"}
Late == {"extract", "swapping", "health", "verify"}

(* What a request carries across its awaits.                               *)
OperationOK(o) ==
  LET op == ops[o] IN
  /\ op.pc = "inspect" => op.job = "restore" /\ op.path \in Files
  /\ op.pc = "asking" => op.job \in {"create", "restore"}
  /\ op.pc \in Making => /\ op.job \in {"create", "restore"}
                         /\ op.target \in Paths
                         /\ op.job = "restore" => files[op.target] = None
  /\ op.pc \in {"asking"} \cup Making /\ op.job = "restore" => op.archive \in Archive
  /\ op.pc \in Late => /\ op.job \in {"restore", "rollback"}
                       /\ op.archive \in Archive /\ op.safety \in Archive

(* Two archives in the making have files of their own.                     *)
TargetsDiffer ==
  \A o, p \in Operations :
    o # p /\ ops[o].pc \in Making /\ ops[p].pc \in Making
      => ops[o].target # ops[p].target

(* PocketBase holds an accepted archive only while a restore waits for it. *)
PendingIsAwaited ==
  pending # None => \E o \in Operations : ops[o].pc = "swapping"

(* A memory being stored is nobody else's, and is not confirmed yet.       *)
WriterOK(w) ==
  writers[w].pc # "idle" =>
    /\ writers[w].memory \in Memories
    /\ writers[w].pc = "found" => writers[w].forgets
    /\ ~writers[w].forgets =>
         /\ writers[w].memory \notin confirmed
         /\ \A v \in Writers \ {w} : writers[v].memory # writers[w].memory

(* No write is in flight beside a restore but those that raced it.         *)
RacedAreKnown == barrier # None => InFlight \subseteq raced

StoredIsThere ==
  \A w \in Writers :
    writers[w].pc = "stored" /\ ~writers[w].forgets
      => writers[w].memory \in rows \cup raced

(* The rows of the archives that no upload removes.                        *)
Saved == UNION {files[p].rows : p \in {q \in Paths : files[q] # None}}

(* Once a restore took its snapshot, nothing confirmed depends on the      *)
(* database it will replace.                                               *)
KeptBy(o) ==
  /\ ops[o].job = "restore" /\ ops[o].pc \in {"count", "zip"}
       => confirmed \subseteq ops[o].snap \cup Saved \cup raced \cup overwritten
  /\ ops[o].pc \in Late => confirmed \subseteq Saved \cup raced \cup overwritten

IInv ==
  /\ TypeOK
  /\ BarrierCoversRestore
  /\ \A o \in Operations : OperationOK(o)
  /\ TargetsDiffer
  /\ PendingIsAwaited
  /\ \A w \in Writers : WriterOK(w)
  /\ RacedAreKnown
  /\ StoredIsThere
  /\ confirmed \subseteq rows \cup Saved \cup raced \cup overwritten
  /\ \A o \in Operations : KeptBy(o)

-----------------------------------------------------------------------------

LEMMA CountsAreNumbers ==
  ASSUME NEW S \in SUBSET Memories
  PROVE  Cardinality(S) \in Counts
<1>1. IsFiniteSet(Memories)
  BY ConstantsAssumption
<1>2. /\ IsFiniteSet(S) /\ Cardinality(S) <= Cardinality(Memories)
  BY <1>1, FS_Subset
<1> QED BY <1>1, <1>2, FS_CardinalityType DEF Counts

LEMMA IdleIsOperation == IdleOperation \in Operation
<1>1. 0 \in Counts
  BY CountsAreNumbers, ConstantsAssumption, FS_CardinalityType DEF Counts
<1> QED BY <1>1 DEF IdleOperation, Operation, Optional

-----------------------------------------------------------------------------
(* A step of one request                                                   *)

(* What the step of one request must show.  It changes neither the         *)
(* database nor the writes nor what is confirmed, and the other requests   *)
(* find what they carry as they left it.                                   *)
LEMMA RequestKeeps ==
  ASSUME IInv, NEW o \in Operations, NEW new \in Operation,
         ops' = [ops EXCEPT ![o] = new],
         UNCHANGED <<rows, up, writers, confirmed>>,
         busy' \in BOOLEAN, lost' \in BOOLEAN, barrier' \in Optional(Operations),
         pending' \in Optional(SUBSET Memories),
         files' \in [Files -> Optional(Archive)],
         Saved \subseteq Saved' \cup overwritten',
         overwritten' \in SUBSET Memories, overwritten \subseteq overwritten',
         \A p \in Operations \ {o} :
           ops[p].pc \in Making => /\ ops[p].job = "restore" => files'[ops[p].target] = None
                                   /\ new.pc \in Making => new.target # ops[p].target,
         raced' \in SUBSET Memories, raced \subseteq raced',
         BarrierCoversRestore', PendingIsAwaited', RacedAreKnown',
         OperationOK(o)', KeptBy(o)'
  PROVE  IInv'
<1>1. /\ ops \in [Operations -> Operation]
      /\ ops' \in [Operations -> Operation]
      /\ ops'[o] = new
      /\ \A p \in Operations \ {o} : ops'[p] = ops[p]
  BY DEF IInv, TypeOK
<1>2. Saved \subseteq Saved' \cup overwritten'
  OBVIOUS
<1>3. TypeOK'
  BY <1>1 DEF IInv, TypeOK
<1>4. ASSUME NEW p \in Operations
      PROVE  OperationOK(p)'
  <2>1. CASE p = o
    BY <2>1
  <2>2. CASE p # o
    BY <1>1, <2>2 DEF IInv, OperationOK
  <2> QED BY <2>1, <2>2
<1>5. TargetsDiffer'
  BY <1>1 DEF IInv, TargetsDiffer
<1>6. ASSUME NEW w \in Writers
      PROVE  WriterOK(w)'
  BY DEF IInv, WriterOK
<1>7. StoredIsThere'
  BY DEF IInv, StoredIsThere
<1>8. (confirmed \subseteq rows \cup Saved \cup raced \cup overwritten)'
  BY <1>2 DEF IInv
<1>9. ASSUME NEW p \in Operations
      PROVE  KeptBy(p)'
  <2>1. CASE p = o
    BY <2>1
  <2>2. CASE p # o
    BY <1>1, <1>2, <2>2 DEF IInv, KeptBy
  <2> QED BY <2>1, <2>2
<1> QED BY <1>3, <1>4, <1>5, <1>6, <1>7, <1>8, <1>9 DEF IInv

(* A step that only moves its request on, and may lift its own barrier.    *)
LEMMA MoveKeeps ==
  ASSUME IInv, NEW o \in Operations, NEW new \in Operation,
         ops' = [ops EXCEPT ![o] = new], busy' \in BOOLEAN,
         UNCHANGED <<serverVars, writers, files, historyVars>>,
         barrier' = barrier \/ (barrier = o /\ barrier' = None),
         ops[o].pc = "swapping" => pending = None,
         (new.job \in {"restore", "rollback"} /\ new.pc \notin {"idle", "inspect"})
           <=> barrier' = o,
         new.pc \in Making => \A p \in Operations \ {o} :
           ops[p].pc \in Making => new.target # ops[p].target,
         OperationOK(o)', KeptBy(o)'
  PROVE  IInv'
<1>1. /\ ops'[o] = new
      /\ \A p \in Operations \ {o} : ops'[p] = ops[p]
      /\ ops \in [Operations -> Operation]
  BY DEF IInv, TypeOK
<1>2. /\ rows' = rows /\ up' = up /\ writers' = writers /\ confirmed' = confirmed
      /\ files' = files /\ raced' = raced /\ pending' = pending /\ lost' = lost
      /\ overwritten' = overwritten /\ Saved' = Saved
  BY DEF serverVars, historyVars, Saved
<1>3. BarrierCoversRestore'
  <2> SUFFICES ASSUME NEW p \in Operations
               PROVE  (Replacing(p) <=> barrier = p)'
    BY DEF BarrierCoversRestore
  <2>1. CASE p = o
    BY <1>1, <2>1 DEF Replacing
  <2>2. CASE p # o
    <3>1. barrier' = p <=> barrier = p
      BY <2>2, ConstantsAssumption
    <3>2. Replacing(p)' <=> Replacing(p)
      BY <1>1, <2>2 DEF Replacing
    <3> QED BY <3>1, <3>2 DEF IInv, BarrierCoversRestore
  <2> QED BY <2>1, <2>2
<1>4. PendingIsAwaited'
  BY <1>1, <1>2 DEF IInv, PendingIsAwaited
<1>5. RacedAreKnown'
  BY <1>2 DEF IInv, RacedAreKnown, InFlight
<1>6. ASSUME NEW p \in Operations \ {o}, ops[p].pc \in Making, ops[p].job = "restore"
      PROVE  files'[ops[p].target] = None
  BY <1>2, <1>6 DEF IInv, OperationOK
<1>7. /\ barrier' \in Optional(Operations)
      /\ pending' \in Optional(SUBSET Memories)
      /\ files' \in [Files -> Optional(Archive)]
      /\ raced' \in SUBSET Memories /\ raced \subseteq raced'
      /\ overwritten' \in SUBSET Memories /\ overwritten \subseteq overwritten'
      /\ lost' \in BOOLEAN
  BY <1>2 DEF IInv, TypeOK, Optional
<1>8. Saved \subseteq Saved' \cup overwritten'
  BY <1>2
<1> QED BY <1>2, <1>3, <1>4, <1>5, <1>6, <1>7, <1>8, RequestKeeps

(* The request is over.                                                    *)
LEMMA SettleKeeps ==
  ASSUME IInv, NEW o \in Operations, Settle(o), ops[o].pc # "swapping",
         UNCHANGED <<serverVars, writers, files, historyVars>>
  PROVE  IInv'
<1>1. /\ ops' = [ops EXCEPT ![o] = IdleOperation] /\ busy' = FALSE
      /\ barrier' = IF Replacing(o) THEN None ELSE barrier
  BY DEF Settle
<1>2. ops'[o] = IdleOperation /\ IdleOperation.pc = "idle"
  BY <1>1 DEF IInv, TypeOK, IdleOperation
<1>3. Replacing(o) <=> barrier = o
  BY DEF IInv, BarrierCoversRestore
<1>4. barrier' = barrier \/ (barrier = o /\ barrier' = None)
  BY <1>1, <1>3
<1>5. barrier' # o
  BY <1>1, <1>3, ConstantsAssumption
<1>6. OperationOK(o)' /\ KeptBy(o)'
  BY <1>2 DEF OperationOK, KeptBy, Making, Late
<1> QED BY <1>1, <1>2, <1>4, <1>5, <1>6, IdleIsOperation, MoveKeeps DEF Making

(* A step of the replacement failed.                                       *)
LEMMA RefusedKeeps ==
  ASSUME IInv, NEW o \in Operations, Refused(o),
         ops[o].pc \in Late, ops[o].pc # "swapping",
         UNCHANGED <<serverVars, writers, files, historyVars>>
  PROVE  IInv'
<1> DEFINE new == [ops[o] EXCEPT !.pc = "extract", !.job = "rollback"]
<1>1. CASE ops' = [ops EXCEPT ![o].pc = "extract", ![o].job = "rollback"]
           /\ UNCHANGED <<barrier, busy>> /\ ops[o].job = "restore"
  <2>1. ops \in [Operations -> Operation] /\ busy \in BOOLEAN
    BY DEF IInv, TypeOK
  <2>2. new \in Operation /\ ops' = [ops EXCEPT ![o] = new]
    BY <1>1, <2>1 DEF Operation, Optional, Job
  <2>3. /\ new.pc = "extract" /\ new.job = "rollback"
        /\ new.archive = ops[o].archive /\ new.safety = ops[o].safety
        /\ ops'[o] = new
    BY <2>1, <2>2 DEF Operation
  <2>4. barrier' = o
    BY <1>1 DEF IInv, BarrierCoversRestore, Replacing, Late
  <2>5. OperationOK(o)'
    <3>1. ops[o].archive \in Archive /\ ops[o].safety \in Archive
      BY DEF IInv, OperationOK
    <3> QED BY <2>3, <3>1 DEF OperationOK, Making, Late
  <2>6. KeptBy(o)'
    <3>1. confirmed \subseteq Saved \cup raced \cup overwritten
      BY DEF IInv, KeptBy
    <3>2. confirmed' = confirmed /\ Saved' = Saved /\ UNCHANGED <<raced, overwritten>>
      BY DEF historyVars, Saved
    <3> QED BY <2>3, <3>1, <3>2 DEF KeptBy, Late
  <2> HIDE DEF new
  <2> QED BY <1>1, <2>1, <2>2, <2>3, <2>4, <2>5, <2>6, MoveKeeps DEF Making
<1>2. CASE Settle(o)
  BY <1>2, SettleKeeps
<1> QED BY <1>1, <1>2 DEF Refused

(* A request that goes on, with the same job.                              *)
LEMMA AdvanceKeeps ==
  ASSUME IInv, NEW o \in Operations, NEW new \in Operation,
         ops' = [ops EXCEPT ![o] = new],
         UNCHANGED <<serverVars, barrier, busy, writers, files, historyVars>>,
         ops[o].pc \notin {"idle", "inspect"}, new.pc \notin {"idle", "inspect"},
         new.job = ops[o].job,
         ops[o].pc = "swapping" => pending = None,
         new.pc \in Making => \A p \in Operations \ {o} :
           ops[p].pc \in Making => new.target # ops[p].target,
         OperationOK(o)', KeptBy(o)'
  PROVE  IInv'
<1>1. Replacing(o) <=> barrier = o
  BY DEF IInv, BarrierCoversRestore
<1>2. (new.job \in {"restore", "rollback"} /\ new.pc \notin {"idle", "inspect"})
        <=> barrier' = o
  BY <1>1 DEF Replacing
<1>3. busy' \in BOOLEAN
  BY DEF IInv, TypeOK
<1>4. UNCHANGED <<serverVars, writers, files, historyVars>> /\ barrier' = barrier
  OBVIOUS
<1> HIDE DEF Replacing
<1> QED BY <1>2, <1>3, <1>4, MoveKeeps

(* What a request carries once it reached a step after its snapshot, and   *)
(* before it.                                                              *)
LEMMA Carried ==
  ASSUME IInv, NEW o \in Operations
  PROVE  /\ ops[o] \in Operation /\ ops \in [Operations -> Operation]
         /\ OperationOK(o) /\ KeptBy(o)
BY DEF IInv, TypeOK

-----------------------------------------------------------------------------
(* Making an archive                                                       *)

LEMMA CreateKeeps ==
  ASSUME IInv, NEW o \in Operations, Create(o)
  PROVE  IInv'
<1> DEFINE new == [IdleOperation EXCEPT !.pc = "asking", !.job = "create"]
<1>1. /\ ops[o].pc = "idle" /\ busy' = TRUE
      /\ ops' = [ops EXCEPT ![o] = new]
      /\ UNCHANGED <<serverVars, barrier, writers, files, historyVars>>
  BY DEF Create
<1>2. new \in Operation /\ new.pc = "asking" /\ new.job = "create"
  BY IdleIsOperation DEF Operation, Optional, Job, IdleOperation
<1>3. barrier # o /\ barrier' = barrier
  BY <1>1 DEF IInv, BarrierCoversRestore, Replacing
<1> HIDE DEF new
<1>4. OperationOK(o)' /\ KeptBy(o)'
  BY <1>1, <1>2, Carried DEF OperationOK, KeptBy, Making, Late
<1> QED BY <1>1, <1>2, <1>3, <1>4, MoveKeeps DEF Making

LEMMA ChooseKeeps ==
  ASSUME IInv, NEW o \in Operations, Choose(o)
  PROVE  IInv'
<1>1. PICK path \in Named(o) :
        /\ ops[o].pc = "asking"
        /\ ops' = [ops EXCEPT ![o].pc = "snapshot", ![o].target = path]
        /\ UNCHANGED <<serverVars, barrier, busy, writers, files, historyVars>>
  BY DEF Choose
<1>2. /\ path \in Free
      /\ ops[o].job # "create" => path \in Unused
  <2>1. Unused # {} => (CHOOSE p \in Unused : TRUE) \in Unused
    OBVIOUS
  <2> QED BY <2>1 DEF Named, Unused
<1> DEFINE new == [ops[o] EXCEPT !.pc = "snapshot", !.target = path]
<1>3. /\ path \in Paths /\ \A p \in Operations : ops[p].target # path
      /\ ops[o].job # "create" => files[path] = None
  BY <1>2 DEF Unused, Free
<1>4. ops' = [ops EXCEPT ![o] = new] /\ new \in Operation
  BY <1>1, <1>3, Carried DEF Operation, Optional
<1>5. /\ new.pc = "snapshot" /\ new.target = path /\ new.job = ops[o].job
      /\ new.archive = ops[o].archive
  BY Carried DEF Operation
<1> HIDE DEF new
<1>6. OperationOK(o)'
  <2>1. /\ ops[o].job \in {"create", "restore"}
        /\ ops[o].job = "restore" => ops[o].archive \in Archive
    BY <1>1, Carried DEF OperationOK
  <2>2. ops'[o] = new /\ files' = files
    BY <1>1, <1>4, Carried
  <2> QED BY <1>3, <1>5, <2>1, <2>2 DEF OperationOK, Making, Late
<1>7. KeptBy(o)'
  BY <1>4, <1>5, Carried DEF KeptBy, Late
<1>8. \A p \in Operations \ {o} : new.target # ops[p].target
  BY <1>3, <1>5
<1> QED BY <1>1, <1>4, <1>5, <1>6, <1>7, <1>8, AdvanceKeeps

LEMMA SnapshotKeeps ==
  ASSUME IInv, NEW o \in Operations, Snapshot(o)
  PROVE  IInv'
<1> DEFINE new == [ops[o] EXCEPT !.pc = "count", !.snap = rows]
<1>1. /\ ops[o].pc = "snapshot"
      /\ ops' = [ops EXCEPT ![o].pc = "count", ![o].snap = rows]
      /\ UNCHANGED <<serverVars, barrier, busy, writers, files, historyVars>>
      /\ rows \in SUBSET Memories
  BY DEF Snapshot, IInv, TypeOK
<1>2. ops' = [ops EXCEPT ![o] = new] /\ new \in Operation
  BY <1>1, Carried DEF Operation
<1>3. /\ new.pc = "count" /\ new.snap = rows /\ new.job = ops[o].job
      /\ new.target = ops[o].target /\ new.archive = ops[o].archive
  BY Carried DEF Operation
<1> HIDE DEF new
<1>4. ops'[o] = new /\ files' = files
  BY <1>1, <1>2, Carried
<1>5. OperationOK(o)'
  BY <1>1, <1>3, <1>4, Carried DEF OperationOK, Making, Late
<1>6. KeptBy(o)'
  <2>1. confirmed \subseteq rows \cup Saved \cup raced \cup overwritten
    BY DEF IInv
  <2>2. confirmed' = confirmed /\ Saved' = Saved /\ UNCHANGED <<raced, overwritten>>
    BY <1>1 DEF historyVars, Saved
  <2> QED BY <1>3, <1>4, <2>1, <2>2 DEF KeptBy, Late
<1>7. \A p \in Operations \ {o} : ops[p].pc \in Making => new.target # ops[p].target
  BY <1>1, <1>3 DEF IInv, TargetsDiffer, Making
<1> QED BY <1>1, <1>2, <1>3, <1>5, <1>6, <1>7, AdvanceKeeps

LEMMA CountKeeps ==
  ASSUME IInv, NEW o \in Operations, Count(o)
  PROVE  IInv'
<1> DEFINE new == [ops[o] EXCEPT !.pc = "zip", !.total = Cardinality(rows)]
<1>1. /\ ops[o].pc = "count"
      /\ ops' = [ops EXCEPT ![o].pc = "zip", ![o].total = Cardinality(rows)]
      /\ UNCHANGED <<serverVars, barrier, busy, writers, files, historyVars>>
      /\ rows \in SUBSET Memories
  BY DEF Count, IInv, TypeOK
<1>2. Cardinality(rows) \in Counts
  BY <1>1, CountsAreNumbers
<1>3. ops' = [ops EXCEPT ![o] = new] /\ new \in Operation
  BY <1>1, <1>2, Carried DEF Operation
<1>4. /\ new.pc = "zip" /\ new.snap = ops[o].snap /\ new.job = ops[o].job
      /\ new.target = ops[o].target /\ new.archive = ops[o].archive
  BY Carried DEF Operation
<1> HIDE DEF new
<1>5. ops'[o] = new /\ files' = files
  BY <1>1, <1>3, Carried
<1>6. OperationOK(o)'
  BY <1>1, <1>4, <1>5, Carried DEF OperationOK, Making, Late
<1>7. KeptBy(o)'
  <2>1. confirmed' = confirmed /\ Saved' = Saved /\ UNCHANGED <<raced, overwritten>>
    BY <1>1 DEF historyVars, Saved
  <2> QED BY <1>1, <1>4, <1>5, <2>1, Carried DEF KeptBy, Late
<1>8. \A p \in Operations \ {o} : ops[p].pc \in Making => new.target # ops[p].target
  BY <1>1, <1>4 DEF IInv, TargetsDiffer, Making
<1> QED BY <1>1, <1>3, <1>4, <1>6, <1>7, <1>8, AdvanceKeeps

(* The archive is on disk for good, and holds what it is a snapshot of.    *)
LEMMA ZipKeeps ==
  ASSUME IInv, NEW o \in Operations, Zip(o)
  PROVE  IInv'
<1> DEFINE archive == [rows |-> ops[o].snap, total |-> ops[o].total]
           target == ops[o].target
           further == [ops[o] EXCEPT !.pc = "extract", !.safety = archive,
                                     !.snap = {}, !.total = 0]
<1>1. /\ ops[o].pc = "zip"
      /\ files' = [files EXCEPT ![target] = archive]
      /\ UNCHANGED <<serverVars, writers, confirmed, raced>>
      /\ overwritten' = overwritten \cup
           IF files[target] = None \/ ops[o].job = "restore" THEN {}
                                                             ELSE files[target].rows
      /\ \/ ops[o].job = "create" /\ Settle(o)
         \/ /\ ops[o].job = "restore"
            /\ ops' = [ops EXCEPT ![o].pc = "extract", ![o].safety = archive,
                                  ![o].snap = {}, ![o].total = 0]
            /\ UNCHANGED <<barrier, busy>>
  BY DEF Zip
<1>2. archive \in Archive /\ archive # None /\ archive.rows = ops[o].snap
  BY Carried, ConstantsAssumption DEF Archive, Operation, Optional
<1>3. /\ target \in Paths /\ target \in Files
      /\ ops[o].job = "restore" => files[target] = None
      /\ files \in [Files -> Optional(Archive)]
      /\ ops[o].job = "restore" => ops[o].archive \in Archive
  BY <1>1, Carried DEF OperationOK, Making, Files, IInv, TypeOK
<1> HIDE DEF archive, target
<1>4. /\ files' \in [Files -> Optional(Archive)]
      /\ files'[target] = archive
      /\ \A p \in Paths \ {target} : files'[p] = files[p]
  BY <1>1, <1>2, <1>3 DEF Optional, Files
<1>9. /\ Saved \subseteq Saved' \cup overwritten' /\ overwritten \subseteq overwritten'
      /\ overwritten' \in SUBSET Memories
  <2>1. files[target] # None => files[target] \in Archive
    BY <1>3 DEF Optional
  <2>2. overwritten' \in SUBSET Memories /\ overwritten \subseteq overwritten'
    BY <1>1, <2>1 DEF Archive, IInv, TypeOK
  <2>3. ASSUME NEW p \in Paths, files[p] # None
        PROVE  files[p].rows \subseteq Saved' \cup overwritten'
    <3>1. CASE p = target
      BY <1>1, <1>3, <2>3, <3>1
    <3>2. CASE p # target
      BY <1>4, <2>3, <3>2 DEF Saved
    <3> QED BY <3>1, <3>2
  <2> QED BY <2>2, <2>3 DEF Saved
<1>5. ASSUME NEW p \in Operations \ {o}, ops[p].pc \in Making, ops[p].job = "restore"
      PROVE  files'[ops[p].target] = None
  <2>1. ops[p].target \in Paths /\ files[ops[p].target] = None
    BY <1>5 DEF IInv, OperationOK
  <2>2. ops[p].target # target
    BY <1>1, <1>5 DEF IInv, TargetsDiffer, Making, target
  <2> QED BY <1>1, <1>3, <2>1, <2>2 DEF Files
<1>6. /\ UNCHANGED <<rows, up, writers, confirmed, pending, lost, raced>>
      /\ pending' \in Optional(SUBSET Memories) /\ lost' \in BOOLEAN
      /\ raced' \in SUBSET Memories /\ raced \subseteq raced'
      /\ RacedAreKnown' \/ barrier' # barrier
  BY <1>1 DEF serverVars, historyVars, IInv, TypeOK, RacedAreKnown, InFlight
<1>7. CASE ops[o].job = "create" /\ Settle(o)
  <2>1. /\ ops' = [ops EXCEPT ![o] = IdleOperation] /\ busy' \in BOOLEAN
        /\ barrier' = barrier /\ ~Replacing(o)
    BY <1>7 DEF Settle, Replacing
  <2>2. /\ ops'[o] = IdleOperation /\ IdleOperation.pc = "idle"
        /\ \A p \in Operations \ {o} : ops'[p] = ops[p]
    BY <2>1, Carried DEF IdleOperation
  <2>3. BarrierCoversRestore'
    BY <2>1, <2>2 DEF IInv, BarrierCoversRestore, Replacing
  <2>4. PendingIsAwaited'
    BY <1>1, <1>6, <2>2 DEF IInv, PendingIsAwaited
  <2>5. OperationOK(o)' /\ KeptBy(o)'
    BY <2>2 DEF OperationOK, KeptBy, Making, Late
  <2>6. barrier' \in Optional(Operations) /\ RacedAreKnown'
    BY <1>6, <2>1 DEF IInv, TypeOK
  <2> QED BY <1>4, <1>5, <1>6, <1>9, <2>1, <2>2, <2>3, <2>4, <2>5, <2>6,
             IdleIsOperation, RequestKeeps DEF Making
<1>8. CASE /\ ops[o].job = "restore"
           /\ ops' = [ops EXCEPT ![o].pc = "extract", ![o].safety = archive,
                                 ![o].snap = {}, ![o].total = 0]
           /\ UNCHANGED <<barrier, busy>>
  <2>1. 0 \in Counts
    BY CountsAreNumbers, ConstantsAssumption, FS_CardinalityType DEF Counts
  <2>2. ops' = [ops EXCEPT ![o] = further] /\ further \in Operation
    BY <1>2, <1>8, <2>1, Carried DEF Operation, Optional
  <2>3. /\ further.pc = "extract" /\ further.safety = archive
        /\ further.job = ops[o].job /\ further.archive = ops[o].archive
    BY Carried DEF Operation
  <2> HIDE DEF further
  <2>4. /\ ops'[o] = further /\ \A p \in Operations \ {o} : ops'[p] = ops[p]
    BY <2>2, Carried
  <2>5. BarrierCoversRestore'
    BY <1>1, <1>8, <2>3, <2>4 DEF IInv, BarrierCoversRestore, Replacing
  <2>6. PendingIsAwaited'
    BY <1>1, <1>6, <2>4 DEF IInv, PendingIsAwaited
  <2>7. OperationOK(o)'
    BY <1>2, <1>3, <1>8, <2>3, <2>4 DEF OperationOK, Making, Late
  <2>8. KeptBy(o)'
    <3>1. confirmed \subseteq ops[o].snap \cup Saved \cup raced \cup overwritten
      BY <1>1, <1>8, Carried DEF KeptBy
    <3>2. ops[o].snap \subseteq Saved'
      BY <1>2, <1>3, <1>4 DEF Saved
    <3>3. Saved \subseteq Saved' \cup overwritten' /\ overwritten \subseteq overwritten'
      BY <1>9
    <3> QED BY <1>6, <2>3, <2>4, <3>1, <3>2, <3>3 DEF KeptBy, Late
  <2>9. barrier' \in Optional(Operations) /\ busy' \in BOOLEAN /\ RacedAreKnown'
    BY <1>6, <1>8 DEF IInv, TypeOK
  <2> QED BY <1>4, <1>5, <1>6, <1>9, <2>2, <2>3, <2>5, <2>6, <2>7, <2>8, <2>9,
             RequestKeeps DEF Making
<1> QED BY <1>1, <1>7, <1>8

-----------------------------------------------------------------------------
(* Restoring one                                                           *)

LEMMA RestoreKeeps ==
  ASSUME IInv, NEW o \in Operations, NEW path \in Files, Restore(o, path)
  PROVE  IInv'
<1> DEFINE new == [IdleOperation EXCEPT !.pc = "inspect", !.job = "restore",
                                        !.path = path]
<1>1. /\ ops[o].pc = "idle" /\ ops' = [ops EXCEPT ![o] = new]
      /\ UNCHANGED <<serverVars, barrier, busy, writers, files, historyVars>>
  BY DEF Restore
<1>2. /\ new \in Operation /\ new.pc = "inspect" /\ new.job = "restore"
      /\ new.path = path
  BY IdleIsOperation DEF Operation, Optional, Job, IdleOperation
<1>3. barrier # o /\ barrier' = barrier /\ busy' \in BOOLEAN
  BY <1>1 DEF IInv, TypeOK, BarrierCoversRestore, Replacing
<1> HIDE DEF new
<1>4. OperationOK(o)' /\ KeptBy(o)'
  BY <1>1, <1>2, Carried DEF OperationOK, KeptBy, Making, Late
<1> QED BY <1>1, <1>2, <1>3, <1>4, MoveKeeps DEF Making

(* The writes in flight when the barrier rises are those that race it.     *)
LEMMA InspectedKeeps ==
  ASSUME IInv, NEW o \in Operations, Inspected(o)
  PROVE  IInv'
<1> DEFINE new == [ops[o] EXCEPT !.pc = "asking", !.archive = files[ops[o].path]]
<1>1. /\ ops[o].pc = "inspect" /\ files[ops[o].path] # None
      /\ ops[o].job = "restore" /\ ops[o].path \in Files
  BY Carried DEF Inspected, OperationOK
<1>2. CASE /\ barrier = None /\ busy' = TRUE /\ barrier' = o
           /\ raced' = raced \cup InFlight
           /\ ops' = [ops EXCEPT ![o].pc = "asking",
                                 ![o].archive = files[ops[o].path]]
           /\ UNCHANGED <<serverVars, writers, files, confirmed, overwritten>>
  <2>1. files[ops[o].path] \in Archive
    BY <1>1 DEF IInv, TypeOK, Optional
  <2>2. ops' = [ops EXCEPT ![o] = new] /\ new \in Operation
    BY <1>2, <2>1, Carried DEF Operation, Optional
  <2>3. new.pc = "asking" /\ new.job = "restore" /\ new.archive = files[ops[o].path]
    BY <1>1, Carried DEF Operation
  <2> HIDE DEF new
  <2>4. ops'[o] = new /\ \A p \in Operations \ {o} : ops'[p] = ops[p]
    BY <2>2, Carried
  <2>5. BarrierCoversRestore'
    <3>1. Replacing(o)'
      BY <2>3, <2>4 DEF Replacing
    <3>2. ASSUME NEW p \in Operations \ {o}
          PROVE  ~Replacing(p)' /\ barrier' # p
      <4>1. ~Replacing(p)
        BY <1>2, ConstantsAssumption DEF IInv, BarrierCoversRestore
      <4> QED BY <1>2, <2>4, <4>1 DEF Replacing
    <3> QED BY <1>2, <3>1, <3>2 DEF BarrierCoversRestore
  <2>6. PendingIsAwaited'
    BY <1>1, <1>2, <2>4 DEF IInv, PendingIsAwaited, serverVars
  <2>7. OperationOK(o)' /\ KeptBy(o)'
    BY <2>1, <2>3, <2>4 DEF OperationOK, KeptBy, Making, Late
  <2>8. InFlight \in SUBSET Memories
    <3>1. \A w \in Writers : writers[w].pc \in {"sent", "found", "stored"}
                               => writers[w].memory \in Memories
      BY DEF IInv, WriterOK
    <3> QED BY <3>1 DEF InFlight
  <2>9. RacedAreKnown' /\ raced' \in SUBSET Memories /\ raced \subseteq raced'
    BY <1>2, <2>8 DEF RacedAreKnown, InFlight, IInv, TypeOK
  <2>10. /\ UNCHANGED <<rows, up, writers, confirmed, pending, lost, files, overwritten>>
         /\ overwritten \in SUBSET Memories /\ Saved' = Saved
         /\ pending' \in Optional(SUBSET Memories) /\ lost' \in BOOLEAN
         /\ files' \in [Files -> Optional(Archive)] /\ busy' \in BOOLEAN
         /\ barrier' \in Optional(Operations)
    BY <1>2 DEF serverVars, IInv, TypeOK, Optional, Saved
  <2>11. \A p \in Operations : ops[p].pc \in Making /\ ops[p].job = "restore"
           => files'[ops[p].target] = None
    BY <2>10 DEF IInv, OperationOK
  <2> QED BY <2>2, <2>3, <2>5, <2>6, <2>7, <2>9, <2>10, <2>11, RequestKeeps DEF Making
<1>3. CASE Settle(o) /\ UNCHANGED <<serverVars, writers, files, historyVars>>
  BY <1>1, <1>3, SettleKeeps
<1> QED BY <1>2, <1>3 DEF Inspected, historyVars

LEMMA NotRestorableKeeps ==
  ASSUME IInv, NEW o \in Operations, NotRestorable(o)
  PROVE  IInv'
<1>1. /\ ops[o].pc = "inspect" /\ ops' = [ops EXCEPT ![o] = IdleOperation]
      /\ UNCHANGED <<serverVars, barrier, busy, writers, files, historyVars>>
  BY DEF NotRestorable
<1>2. ops'[o] = IdleOperation /\ IdleOperation.pc = "idle"
  BY <1>1, Carried DEF IdleOperation
<1>3. barrier # o /\ barrier' = barrier /\ busy' \in BOOLEAN
  BY <1>1 DEF IInv, TypeOK, BarrierCoversRestore, Replacing
<1>4. OperationOK(o)' /\ KeptBy(o)'
  BY <1>2 DEF OperationOK, KeptBy, Making, Late
<1> QED BY <1>1, <1>2, <1>3, <1>4, IdleIsOperation, MoveKeeps DEF Making

(* A request of the replacement that only moves on.                        *)
LEMMA LateMoveKeeps ==
  ASSUME IInv, NEW o \in Operations, NEW pc \in Late,
         ops[o].pc \in Late, ops' = [ops EXCEPT ![o].pc = pc],
         ops[o].pc = "swapping" => pending = None,
         UNCHANGED <<serverVars, barrier, busy, writers, files, historyVars>>
  PROVE  IInv'
<1> DEFINE new == [ops[o] EXCEPT !.pc = pc]
<1>1. ops' = [ops EXCEPT ![o] = new] /\ new \in Operation
  BY Carried DEF Operation, Late
<1>2. /\ new.pc = pc /\ new.job = ops[o].job
      /\ new.archive = ops[o].archive /\ new.safety = ops[o].safety
  BY Carried DEF Operation
<1> HIDE DEF new
<1>3. ops'[o] = new
  BY <1>1, Carried
<1>4. OperationOK(o)'
  BY <1>2, <1>3, Carried DEF OperationOK, Making, Late
<1>5. KeptBy(o)'
  <2>1. confirmed' = confirmed /\ Saved' = Saved /\ UNCHANGED <<raced, overwritten>>
    BY DEF historyVars, Saved
  <2> QED BY <1>2, <1>3, <2>1, Carried DEF KeptBy, Late
<1>6. /\ ops[o].pc \notin {"idle", "inspect"} /\ new.pc \notin {"idle", "inspect"}
      /\ new.pc \notin Making
  BY <1>2 DEF Late, Making
<1> QED BY <1>1, <1>2, <1>4, <1>5, <1>6, AdvanceKeeps

LEMMA ApplyKeeps ==
  ASSUME IInv, NEW o \in Operations, Apply(o)
  PROVE  IInv'
<1> DEFINE new == [ops[o] EXCEPT !.pc = "swapping"]
<1>1. /\ ops[o].pc = "extract" /\ pending' = Applied(o).rows /\ lost' = FALSE
      /\ ops' = [ops EXCEPT ![o].pc = "swapping"]
      /\ UNCHANGED <<rows, up, barrier, busy, writers, files, historyVars>>
  BY DEF Apply
<1>2. ops' = [ops EXCEPT ![o] = new] /\ new \in Operation
  BY <1>1, Carried DEF Operation
<1>3. /\ new.pc = "swapping" /\ new.job = ops[o].job
      /\ new.archive = ops[o].archive /\ new.safety = ops[o].safety
  BY Carried DEF Operation
<1> HIDE DEF new
<1>4. ops'[o] = new /\ \A p \in Operations \ {o} : ops'[p] = ops[p]
  BY <1>2, Carried
<1>5. /\ ops[o].job \in {"restore", "rollback"}
      /\ ops[o].archive \in Archive /\ ops[o].safety \in Archive
  BY <1>1, Carried DEF OperationOK, Late
<1>6. pending' \in Optional(SUBSET Memories)
  BY <1>1, <1>5 DEF Applied, Archive, Optional
<1>7. BarrierCoversRestore'
  BY <1>1, <1>3, <1>4 DEF IInv, BarrierCoversRestore, Replacing
<1>8. PendingIsAwaited'
  BY <1>3, <1>4 DEF PendingIsAwaited
<1>9. OperationOK(o)'
  BY <1>3, <1>4, <1>5 DEF OperationOK, Making, Late
<1>10. KeptBy(o)'
  <2>1. confirmed' = confirmed /\ Saved' = Saved /\ UNCHANGED <<raced, overwritten>>
    BY <1>1 DEF historyVars, Saved
  <2> QED BY <1>1, <1>3, <1>4, <2>1, Carried DEF KeptBy, Late
<1>11. /\ UNCHANGED <<rows, up, writers, confirmed, raced, files, barrier, overwritten>>
       /\ overwritten \in SUBSET Memories /\ Saved' = Saved
       /\ raced' \in SUBSET Memories /\ lost' \in BOOLEAN /\ RacedAreKnown'
       /\ files' \in [Files -> Optional(Archive)] /\ busy' \in BOOLEAN
       /\ barrier' \in Optional(Operations)
  BY <1>1 DEF historyVars, IInv, TypeOK, RacedAreKnown, InFlight, Saved
<1>12. \A p \in Operations : ops[p].pc \in Making /\ ops[p].job = "restore"
         => files'[ops[p].target] = None
  BY <1>11 DEF IInv, OperationOK
<1> QED BY <1>2, <1>3, <1>6, <1>7, <1>8, <1>9, <1>10, <1>11, <1>12, RequestKeeps DEF Making

LEMMA OperationStepKeeps ==
  ASSUME IInv, NEW o \in Operations, OperationStep(o)
  PROVE  IInv'
<1>1. CASE GiveUp(o)
  BY <1>1, SettleKeeps DEF GiveUp
<1>2. CASE ApplyRefused(o)
  BY <1>2, RefusedKeeps DEF ApplyRefused, Late
<1>3. CASE Replaced(o)
  BY <1>3, LateMoveKeeps DEF Replaced, Late
<1>4. CASE Healthy(o)
  BY <1>4, LateMoveKeeps DEF Healthy, Late
<1>5. CASE Unhealthy(o)
  BY <1>5, RefusedKeeps DEF Unhealthy, Late
<1>6. CASE Verified(o)
  BY <1>6, SettleKeeps DEF Verified
<1>7. CASE NotVerified(o)
  BY <1>7, RefusedKeeps DEF NotVerified, Late
<1> QED BY <1>1, <1>2, <1>3, <1>4, <1>5, <1>6, <1>7, ChooseKeeps, SnapshotKeeps,
           CountKeeps, ZipKeeps, InspectedKeeps, NotRestorableKeeps, ApplyKeeps
           DEF OperationStep

-----------------------------------------------------------------------------
(* PocketBase and uploads                                                  *)

(* What replaces the database while a restore waits is all that is saved   *)
(* already, and every write in flight raced it.                            *)
LEMMA SwapKeeps ==
  ASSUME IInv, Swap
  PROVE  IInv'
<1>1. /\ pending # None /\ rows' = pending /\ pending' = None /\ up' = FALSE
      /\ UNCHANGED <<lost, barrier, busy, ops, writers, files, historyVars>>
  BY DEF Swap
<1>2. PICK o \in Operations : ops[o].pc = "swapping"
  BY <1>1 DEF IInv, PendingIsAwaited
<1>3. confirmed \subseteq Saved \cup raced \cup overwritten /\ barrier = o
  <2>1. ops[o].job \in {"restore", "rollback"}
    BY <1>2, Carried DEF OperationOK, Late
  <2>2. Replacing(o)
    BY <1>2, <2>1 DEF Replacing
  <2> QED BY <1>2, <2>2, Carried DEF KeptBy, Late, IInv, BarrierCoversRestore
<1>4. InFlight \subseteq raced
  BY <1>3, ConstantsAssumption DEF IInv, RacedAreKnown
<1>5. TypeOK'
  BY <1>1 DEF IInv, TypeOK, Optional, historyVars
<1>6. BarrierCoversRestore' /\ TargetsDiffer' /\ RacedAreKnown'
  BY <1>1 DEF IInv, BarrierCoversRestore, Replacing, TargetsDiffer, RacedAreKnown,
              InFlight, historyVars
<1>7. PendingIsAwaited'
  BY <1>1 DEF PendingIsAwaited
<1>8. \A p \in Operations : OperationOK(p)' /\ KeptBy(p)'
  BY <1>1 DEF IInv, OperationOK, KeptBy, Saved, historyVars
<1>9. \A w \in Writers : WriterOK(w)'
  BY <1>1 DEF IInv, WriterOK, historyVars
<1>10. StoredIsThere'
  BY <1>1, <1>4 DEF StoredIsThere, InFlight, historyVars
<1>11. (confirmed \subseteq rows \cup Saved \cup raced \cup overwritten)'
  BY <1>1, <1>3 DEF Saved, historyVars
<1> QED BY <1>5, <1>6, <1>7, <1>8, <1>9, <1>10, <1>11 DEF IInv

(* A step that touches neither the requests nor the writes nor the         *)
(* database, nor a file that is kept.                                      *)
LEMMA RestUnchanged ==
  ASSUME IInv, UNCHANGED <<rows, barrier, busy, ops, writers, historyVars>>,
         pending' = pending \/ pending' = None,
         up' \in BOOLEAN, lost' \in BOOLEAN,
         files' \in [Files -> Optional(Archive)],
         \A p \in Paths : files'[p] = files[p]
  PROVE  IInv'
<1>1. Saved' = Saved
  BY DEF Saved
<1>2. TypeOK'
  BY DEF IInv, TypeOK, Optional, historyVars
<1>3. BarrierCoversRestore' /\ TargetsDiffer' /\ RacedAreKnown' /\ PendingIsAwaited'
  BY DEF IInv, BarrierCoversRestore, Replacing, TargetsDiffer, RacedAreKnown,
         InFlight, PendingIsAwaited, historyVars
<1>4. \A p \in Operations : OperationOK(p)' /\ KeptBy(p)'
  BY <1>1 DEF IInv, OperationOK, KeptBy, historyVars
<1>5. (\A w \in Writers : WriterOK(w)') /\ StoredIsThere'
  BY DEF IInv, WriterOK, StoredIsThere, historyVars
<1>6. (confirmed \subseteq rows \cup Saved \cup raced \cup overwritten)'
  BY <1>1 DEF IInv, historyVars
<1> QED BY <1>2, <1>3, <1>4, <1>5, <1>6 DEF IInv

LEMMA ServerStepKeeps ==
  ASSUME IInv, ServerStep
  PROVE  IInv'
<1>1. files \in [Files -> Optional(Archive)] /\ up \in BOOLEAN /\ lost \in BOOLEAN
  BY DEF IInv, TypeOK
<1>2. CASE SwapFails
  BY <1>1, <1>2, RestUnchanged DEF SwapFails
<1>3. CASE ServerUp
  BY <1>1, <1>3, RestUnchanged DEF ServerUp
<1> QED BY <1>2, <1>3, SwapKeeps DEF ServerStep

LEMMA UploadKeeps ==
  ASSUME IInv, Upload
  PROVE  IInv'
<1>1. /\ files \in [Files -> Optional(Archive)] /\ up \in BOOLEAN /\ lost \in BOOLEAN
  BY DEF IInv, TypeOK
<1>2. PICK content \in Optional(Archive) :
        /\ files' = [files EXCEPT ![Incoming] = content]
        /\ UNCHANGED <<serverVars, barrier, busy, ops, writers, historyVars>>
  BY ConstantsAssumption DEF Upload, Receive, Received, Optional
<1>3. files' \in [Files -> Optional(Archive)] /\ \A p \in Paths : files'[p] = files[p]
  BY <1>1, <1>2, ConstantsAssumption DEF Files
<1> QED BY <1>1, <1>2, <1>3, RestUnchanged DEF serverVars

-----------------------------------------------------------------------------
(* A step of one write                                                     *)

Remembers(w) == writers[w].pc # "idle" /\ ~writers[w].forgets

LEMMA WriterKeeps ==
  ASSUME IInv, NEW w \in Writers, NEW new \in Writer,
         writers' = [writers EXCEPT ![w] = new],
         UNCHANGED <<pending, up, lost, barrier, busy, ops, files, raced, overwritten>>,
         rows' \in SUBSET Memories, confirmed' \in SUBSET Memories,
         new.pc # "idle" => new.memory \in Memories,
         new.pc = "found" => new.forgets,
         new.pc # "idle" /\ ~new.forgets =>
           /\ new.memory \notin confirmed'
           /\ \A v \in Writers \ {w} : writers[v].memory # new.memory,
         \A v \in Writers \ {w} : Remembers(v) =>
           writers[v].memory \notin confirmed' /\ writers[v].memory # new.memory,
         barrier # None /\ new.pc \in {"sent", "found", "stored"} => new.memory \in raced,
         StoredIsThere',
         confirmed' \subseteq rows' \cup Saved \cup raced \cup overwritten,
         barrier # None => confirmed' \subseteq confirmed \cup raced
  PROVE  IInv'
<1>1. /\ writers \in [Writers -> Writer] /\ writers' \in [Writers -> Writer]
      /\ writers'[w] = new /\ \A v \in Writers \ {w} : writers'[v] = writers[v]
  BY DEF IInv, TypeOK
<1>2. Saved' = Saved
  BY DEF Saved
<1>3. TypeOK'
  BY <1>1 DEF IInv, TypeOK
<1>4. BarrierCoversRestore' /\ TargetsDiffer' /\ PendingIsAwaited'
  BY DEF IInv, BarrierCoversRestore, Replacing, TargetsDiffer, PendingIsAwaited
<1>5. ASSUME NEW o \in Operations
      PROVE  OperationOK(o)' /\ KeptBy(o)'
  <2>1. OperationOK(o)'
    BY DEF IInv, OperationOK
  <2>2. ASSUME ops[o].pc \in Late \/ (ops[o].job = "restore" /\ ops[o].pc \in {"count", "zip"})
        PROVE  confirmed' \subseteq confirmed \cup raced
    <3>1. Replacing(o)
      BY <2>2 DEF IInv, OperationOK, Late, Replacing
    <3>2. barrier = o
      BY <3>1 DEF IInv, BarrierCoversRestore
    <3> QED BY <3>2, ConstantsAssumption
  <2>3. KeptBy(o)
    BY DEF IInv
  <2> QED BY <1>2, <2>1, <2>2, <2>3 DEF KeptBy
<1>6. ASSUME NEW v \in Writers
      PROVE  WriterOK(v)'
  <2>1. CASE v = w
    BY <1>1, <2>1 DEF WriterOK
  <2>2. CASE v # w
    BY <1>1, <2>2 DEF IInv, WriterOK, Remembers
  <2> QED BY <2>1, <2>2
<1>7. RacedAreKnown'
  <2> SUFFICES ASSUME barrier # None, NEW v \in Writers,
                      writers'[v].pc \in {"sent", "found", "stored"}
               PROVE  writers'[v].memory \in raced
    BY DEF RacedAreKnown, InFlight
  <2>1. CASE v = w
    BY <1>1, <2>1
  <2>2. CASE v # w
    BY <1>1, <2>2 DEF IInv, RacedAreKnown, InFlight
  <2> QED BY <2>1, <2>2
<1>8. (confirmed \subseteq rows \cup Saved \cup raced \cup overwritten)'
  BY <1>2
<1> QED BY <1>3, <1>4, <1>5, <1>6, <1>7, <1>8 DEF IInv

(* A write that moves on, or is over, with what is stored and confirmed as *)
(* it was.                                                                 *)
LEMMA WriterMoves ==
  ASSUME IInv, NEW w \in Writers, NEW new \in Writer,
         writers' = [writers EXCEPT ![w] = new],
         UNCHANGED <<serverVars, barrier, busy, ops, files, historyVars>>,
         \/ new = IdleWriter
         \/ /\ writers[w].pc # "idle" /\ new.pc \in {"sent", "found"}
            /\ new.memory = writers[w].memory /\ new.forgets = writers[w].forgets
            /\ new.pc = "found" => new.forgets
            /\ barrier = None \/ writers[w].pc \in {"sent", "found"}
  PROVE  IInv'
<1>1. /\ writers' \in [Writers -> Writer] /\ rows' = rows /\ confirmed' = confirmed
      /\ writers'[w] = new /\ \A v \in Writers \ {w} : writers'[v] = writers[v]
      /\ rows' \in SUBSET Memories /\ confirmed' \in SUBSET Memories /\ raced' = raced
  BY DEF IInv, TypeOK, serverVars, historyVars
<1>2. IdleWriter.pc = "idle" /\ IdleWriter.memory = None /\ None \notin Memories
  BY ConstantsAssumption DEF IdleWriter
<1>3. new.pc # "idle" => new.memory \in Memories
  BY <1>2 DEF IInv, WriterOK
<1>4. new.pc # "idle" /\ ~new.forgets =>
        /\ new.memory \notin confirmed'
        /\ \A v \in Writers \ {w} : writers[v].memory # new.memory
  BY <1>1, <1>2 DEF IInv, WriterOK
<1>5. ASSUME NEW v \in Writers \ {w}, Remembers(v)
      PROVE  writers[v].memory \notin confirmed' /\ writers[v].memory # new.memory
  <2>1. /\ writers[v].memory \in Memories /\ writers[v].memory \notin confirmed
        /\ writers[w].memory # writers[v].memory
    BY <1>5 DEF IInv, WriterOK, Remembers
  <2> QED BY <1>1, <1>2, <2>1
<1>6. barrier # None /\ new.pc \in {"sent", "found", "stored"} => new.memory \in raced
  BY <1>2 DEF IInv, RacedAreKnown, InFlight
<1>7. StoredIsThere'
  <2> SUFFICES ASSUME NEW v \in Writers, writers'[v].pc = "stored", ~writers'[v].forgets
               PROVE  writers'[v].memory \in rows' \cup raced'
    BY DEF StoredIsThere
  <2>1. v # w
    BY <1>1, <1>2
  <2> QED BY <1>1, <2>1 DEF IInv, StoredIsThere
<1>8. confirmed' \subseteq rows' \cup Saved \cup raced \cup overwritten
  BY <1>1 DEF IInv
<1>9. /\ UNCHANGED <<pending, up, lost, barrier, busy, ops, files, raced, overwritten>>
      /\ new.pc = "found" => new.forgets
  BY <1>2 DEF serverVars, historyVars
<1>10. /\ \A v \in Writers \ {w} : Remembers(v) =>
            writers[v].memory \notin confirmed' /\ writers[v].memory # new.memory
       /\ confirmed' \subseteq confirmed \cup raced
       /\ rows' \in SUBSET Memories /\ confirmed' \in SUBSET Memories
  BY <1>1, <1>5
<1> QED BY <1>3, <1>4, <1>6, <1>7, <1>8, <1>9, <1>10, WriterKeeps

LEMMA WriterType ==
  ASSUME IInv, NEW w \in Writers
  PROVE  /\ writers[w] \in Writer /\ writers \in [Writers -> Writer] /\ WriterOK(w)
         /\ IdleWriter \in Writer
BY DEF IInv, TypeOK, IdleWriter, Writer, Optional

LEMMA WriteKeeps ==
  ASSUME IInv, NEW w \in Writers, NEW forgets \in BOOLEAN, NEW m \in Memories,
         Write(w, forgets, m)
  PROVE  IInv'
<1> DEFINE new == [pc |-> IF HeldOff THEN "parked" ELSE "sent",
                   forgets |-> forgets, memory |-> m]
<1>1. /\ writers[w].pc = "idle" /\ writers' = [writers EXCEPT ![w] = new]
      /\ IF forgets THEN m \in confirmed ELSE FreshMemory(m)
      /\ UNCHANGED <<serverVars, barrier, busy, ops, files, historyVars>>
  BY DEF Write
<1>2. /\ new \in Writer /\ new.memory = m /\ new.forgets = forgets
      /\ new.pc \in {"parked", "sent"}
      /\ barrier # None => new.pc = "parked"
  BY DEF Writer, Optional, HeldOff
<1> HIDE DEF new
<1>3. /\ rows' = rows /\ confirmed' = confirmed /\ raced' = raced
      /\ rows' \in SUBSET Memories /\ confirmed' \in SUBSET Memories
      /\ UNCHANGED <<pending, up, lost, barrier, busy, ops, files, raced, overwritten>>
  BY <1>1 DEF IInv, TypeOK, serverVars, historyVars
<1>4. ~forgets => m \notin confirmed /\ \A v \in Writers : writers[v].memory # m
  BY <1>1 DEF FreshMemory
<1>5. ASSUME NEW v \in Writers \ {w}, Remembers(v)
      PROVE  writers[v].memory \notin confirmed' /\ writers[v].memory # new.memory
  BY <1>1, <1>2, <1>3, <1>4, <1>5 DEF IInv, WriterOK, Remembers
<1>6. StoredIsThere'
  <2> SUFFICES ASSUME NEW v \in Writers, writers'[v].pc = "stored", ~writers'[v].forgets
               PROVE  writers'[v].memory \in rows' \cup raced'
    BY DEF StoredIsThere
  <2>1. v # w /\ writers'[v] = writers[v]
    BY <1>1, <1>2, WriterType
  <2> QED BY <1>3, <2>1 DEF IInv, StoredIsThere
<1>7. confirmed' \subseteq rows' \cup Saved \cup raced \cup overwritten
  BY <1>3 DEF IInv
<1>8. barrier # None /\ new.pc \in {"sent", "found", "stored"} => new.memory \in raced
  BY <1>2
<1> QED BY <1>1, <1>2, <1>3, <1>4, <1>5, <1>6, <1>7, <1>8, WriterKeeps

LEMMA StoreKeeps ==
  ASSUME IInv, NEW w \in Writers, Store(w)
  PROVE  IInv'
<1> DEFINE new == [writers[w] EXCEPT !.pc = "stored"]
<1>1. /\ writers[w].pc = "sent" /\ ~writers[w].forgets
      /\ rows' = rows \cup {writers[w].memory}
      /\ writers' = [writers EXCEPT ![w] = new]
      /\ UNCHANGED <<pending, up, lost, barrier, busy, ops, files, historyVars>>
  BY WriterType DEF Store
<1>2. /\ new \in Writer /\ new.pc = "stored" /\ ~new.forgets
      /\ new.memory = writers[w].memory
  BY <1>1, WriterType DEF Writer
<1> HIDE DEF new
<1>3. /\ new.memory \in Memories /\ new.memory \notin confirmed
      /\ \A v \in Writers \ {w} : writers[v].memory # new.memory
  BY <1>1, <1>2, WriterType DEF WriterOK
<1>4. /\ confirmed' = confirmed /\ raced' = raced
      /\ rows' \in SUBSET Memories /\ confirmed' \in SUBSET Memories
      /\ UNCHANGED <<pending, up, lost, barrier, busy, ops, files, raced, overwritten>>
  BY <1>1, <1>2, <1>3 DEF IInv, TypeOK, historyVars
<1>5. ASSUME NEW v \in Writers \ {w}, Remembers(v)
      PROVE  writers[v].memory \notin confirmed' /\ writers[v].memory # new.memory
  BY <1>3, <1>4, <1>5 DEF IInv, WriterOK, Remembers
<1>6. StoredIsThere'
  <2> SUFFICES ASSUME NEW v \in Writers, writers'[v].pc = "stored", ~writers'[v].forgets
               PROVE  writers'[v].memory \in rows' \cup raced'
    BY DEF StoredIsThere
  <2>1. CASE v = w
    BY <1>1, <1>2, <2>1, WriterType
  <2>2. CASE v # w
    BY <1>1, <1>4, <2>2 DEF IInv, StoredIsThere
  <2> QED BY <2>1, <2>2
<1>7. confirmed' \subseteq rows' \cup Saved \cup raced \cup overwritten
  BY <1>1, <1>4 DEF IInv
<1>8. barrier # None => new.memory \in raced
  BY <1>1, <1>2 DEF IInv, RacedAreKnown, InFlight
<1> QED BY <1>1, <1>2, <1>3, <1>4, <1>5, <1>6, <1>7, <1>8, WriterKeeps

(* A row that is forgotten is no longer confirmed, and is nobody else's to *)
(* store.                                                                  *)
LEMMA DeleteKeeps ==
  ASSUME IInv, NEW w \in Writers, Delete(w)
  PROVE  IInv'
<1> DEFINE m == writers[w].memory
           new == [writers[w] EXCEPT !.pc = "stored"]
<1>1. /\ writers[w].pc = "found" /\ rows' = rows \ {m} /\ confirmed' = confirmed \ {m}
      /\ writers' = [writers EXCEPT ![w] = new]
      /\ UNCHANGED <<pending, up, lost, barrier, busy, ops, files, raced, overwritten>>
  BY WriterType DEF Delete
<1>2. /\ new \in Writer /\ new.pc = "stored" /\ new.memory = m
      /\ new.forgets = writers[w].forgets
  BY WriterType DEF Writer
<1> HIDE DEF new
<1>3. /\ m \in Memories
      /\ ~new.forgets => m \notin confirmed /\ \A v \in Writers \ {w} : writers[v].memory # m
  BY <1>1, <1>2, WriterType DEF WriterOK
<1>4. rows' \in SUBSET Memories /\ confirmed' \in SUBSET Memories
  BY <1>1 DEF IInv, TypeOK
<1>5. ASSUME NEW v \in Writers \ {w}, Remembers(v)
      PROVE  writers[v].memory \notin confirmed' /\ writers[v].memory # m
  BY <1>1, <1>5 DEF IInv, WriterOK, Remembers
<1>6. barrier # None => m \in raced
  BY <1>1 DEF IInv, RacedAreKnown, InFlight
<1>7. StoredIsThere'
  <2> SUFFICES ASSUME NEW v \in Writers, writers'[v].pc = "stored", ~writers'[v].forgets
               PROVE  writers'[v].memory \in rows' \cup raced'
    BY DEF StoredIsThere
  <2>1. CASE v = w
    BY <1>1, <1>2, <2>1, WriterType DEF WriterOK
  <2>2. CASE v # w
    <3>1. Remembers(v) /\ writers'[v] = writers[v] /\ writers[v].memory \in rows \cup raced
      BY <1>1, <2>2 DEF IInv, StoredIsThere, Remembers
    <3> QED BY <1>1, <1>5, <2>2, <3>1
  <2> QED BY <2>1, <2>2
<1>8. /\ confirmed' \subseteq rows' \cup Saved \cup raced \cup overwritten
      /\ confirmed' \subseteq confirmed
  BY <1>1 DEF IInv
<1>9. /\ new.pc # "idle" => new.memory \in Memories
      /\ new.pc = "found" => new.forgets
      /\ new.pc # "idle" /\ ~new.forgets =>
           /\ new.memory \notin confirmed'
           /\ \A v \in Writers \ {w} : writers[v].memory # new.memory
      /\ \A v \in Writers \ {w} : Remembers(v) =>
           writers[v].memory \notin confirmed' /\ writers[v].memory # new.memory
      /\ barrier # None => new.memory \in raced
  BY <1>1, <1>2, <1>3, <1>5, <1>6
<1> HIDE DEF m
<1> QED BY <1>1, <1>2, <1>4, <1>7, <1>8, <1>9, WriterKeeps

(* The caller learns that its memory is stored: it is there, or it raced.  *)
LEMMA AnswerKeeps ==
  ASSUME IInv, NEW w \in Writers, Answer(w)
  PROVE  IInv'
<1> DEFINE m == writers[w].memory
<1>1. /\ writers[w].pc = "stored" /\ writers' = [writers EXCEPT ![w] = IdleWriter]
      /\ confirmed' = IF writers[w].forgets THEN confirmed ELSE confirmed \cup {m}
      /\ UNCHANGED <<serverVars, barrier, busy, ops, files, raced, overwritten>>
  BY DEF Answer
<1>2. /\ IdleWriter.pc = "idle" /\ IdleWriter.memory = None /\ None \notin Memories
  BY ConstantsAssumption DEF IdleWriter
<1>3. /\ m \in Memories
      /\ ~writers[w].forgets => m \in rows \cup raced
      /\ ~writers[w].forgets => \A v \in Writers \ {w} : writers[v].memory # m
      /\ barrier # None => m \in raced
  BY <1>1, WriterType DEF WriterOK, IInv, StoredIsThere, RacedAreKnown, InFlight
<1>4. /\ UNCHANGED <<rows, pending, up, lost, barrier, busy, ops, files, raced,
                    overwritten>>
      /\ rows' \in SUBSET Memories /\ confirmed' \in SUBSET Memories
  BY <1>1, <1>3 DEF IInv, TypeOK, serverVars
<1>5. ASSUME NEW v \in Writers \ {w}, Remembers(v)
      PROVE  writers[v].memory \notin confirmed' /\ writers[v].memory # None
  BY <1>1, <1>2, <1>3, <1>5 DEF IInv, WriterOK, Remembers
<1>6. StoredIsThere'
  <2> SUFFICES ASSUME NEW v \in Writers, writers'[v].pc = "stored", ~writers'[v].forgets
               PROVE  writers'[v].memory \in rows' \cup raced'
    BY DEF StoredIsThere
  <2>1. v # w /\ writers'[v] = writers[v]
    BY <1>1, <1>2, WriterType
  <2> QED BY <1>4, <2>1 DEF IInv, StoredIsThere
<1>7. /\ confirmed' \subseteq rows' \cup Saved \cup raced \cup overwritten
      /\ barrier # None => confirmed' \subseteq confirmed \cup raced
  BY <1>1, <1>3, <1>4 DEF IInv
<1> HIDE DEF m
<1> QED BY <1>1, <1>2, <1>4, <1>5, <1>6, <1>7, WriterType, WriterKeeps

LEMMA WriterStepKeeps ==
  ASSUME IInv, NEW w \in Writers, WriterStep(w)
  PROVE  IInv'
<1>1. CASE Resume(w)
  <2> DEFINE new == [writers[w] EXCEPT !.pc = "sent"]
  <2>1. /\ writers[w].pc = "parked" /\ barrier = None
        /\ writers' = [writers EXCEPT ![w] = new]
        /\ UNCHANGED <<serverVars, barrier, busy, ops, files, historyVars>>
    BY <1>1, WriterType DEF Resume, HeldOff
  <2>2. /\ new \in Writer /\ new.pc = "sent" /\ new.memory = writers[w].memory
        /\ new.forgets = writers[w].forgets
    BY WriterType DEF Writer
  <2> HIDE DEF new
  <2> QED BY <2>1, <2>2, WriterMoves
<1>2. CASE Find(w)
  <2> DEFINE new == [writers[w] EXCEPT !.pc = "found"]
  <2>1. /\ writers[w].pc = "sent" /\ writers[w].forgets
        /\ \/ writers' = [writers EXCEPT ![w] = new]
           \/ writers' = [writers EXCEPT ![w] = IdleWriter]
        /\ UNCHANGED <<serverVars, barrier, busy, ops, files, historyVars>>
    BY <1>2, WriterType DEF Find, serverVars
  <2>2. /\ new \in Writer /\ new.pc = "found" /\ new.memory = writers[w].memory
        /\ new.forgets = writers[w].forgets
    BY WriterType DEF Writer
  <2> HIDE DEF new
  <2> QED BY <2>1, <2>2, WriterType, WriterMoves
<1>3. CASE WriteFails(w)
  BY <1>3, WriterType, WriterMoves DEF WriteFails
<1> QED BY <1>1, <1>2, <1>3, StoreKeeps, DeleteKeeps, AnswerKeeps DEF WriterStep

-----------------------------------------------------------------------------

LEMMA InitIInv == Init => IInv
<1> SUFFICES ASSUME Init
             PROVE  IInv
  OBVIOUS
<1>1. TypeOK
  BY IdleIsOperation DEF Init, TypeOK, Optional, IdleWriter, Writer
<1>2. /\ \A o \in Operations : ops[o].pc = "idle"
      /\ \A w \in Writers : writers[w].pc = "idle"
  BY DEF Init, IdleOperation, IdleWriter
<1>3. BarrierCoversRestore
  BY <1>2, ConstantsAssumption DEF Init, BarrierCoversRestore, Replacing
<1>4. \A o \in Operations : OperationOK(o) /\ KeptBy(o)
  BY <1>2 DEF OperationOK, KeptBy, Making, Late
<1>5. TargetsDiffer /\ PendingIsAwaited /\ RacedAreKnown
  BY <1>2 DEF Init, TargetsDiffer, PendingIsAwaited, RacedAreKnown, Making
<1>6. (\A w \in Writers : WriterOK(w)) /\ StoredIsThere
  BY <1>2 DEF WriterOK, StoredIsThere
<1>7. confirmed \subseteq rows \cup Saved \cup raced \cup overwritten
  BY DEF Init
<1> QED BY <1>1, <1>3, <1>4, <1>5, <1>6, <1>7 DEF IInv

LEMMA NextIInv == IInv /\ [Next]_vars => IInv'
<1> SUFFICES ASSUME IInv, [Next]_vars
             PROVE  IInv'
  OBVIOUS
<1>1. ASSUME NEW w \in Writers, WriterRequest(w) \/ WriterStep(w)
      PROVE  IInv'
  BY <1>1, WriteKeeps, WriterStepKeeps DEF WriterRequest
<1>2. CASE ServerStep
  BY <1>2, ServerStepKeeps
<1>3. CASE Upload
  BY <1>3, UploadKeeps
<1>4. ASSUME NEW o \in Operations, Request(o) \/ OperationStep(o)
      PROVE  IInv'
  BY <1>4, CreateKeeps, RestoreKeeps, OperationStepKeeps DEF Request
<1>5. CASE UNCHANGED vars
  <2>1. files \in [Files -> Optional(Archive)] /\ up \in BOOLEAN /\ lost \in BOOLEAN
    BY DEF IInv, TypeOK
  <2> QED BY <1>5, <2>1, RestUnchanged DEF vars, serverVars
<1> QED BY <1>1, <1>2, <1>3, <1>4, <1>5 DEF Next

(* The backup engine and the memory service keep their inductive invariant *)
(* (backup.js and the barrier of pocketbase-memory/index.js).              *)
THEOREM Invariance == Spec => []IInv
BY InitIInv, NextIInv, PTL DEF Spec

(* Every reachable state is well typed: nothing is put in place that is    *)
(* not an archive, whichever step of apply() failed before.                *)
THEOREM TypeCorrectness == Spec => []TypeOK
<1>1. IInv => TypeOK
  BY DEF IInv
<1> QED BY <1>1, Invariance, PTL

(* The barrier is up exactly while one restore replaces the database, and  *)
(* one alone, however many requests passed the `busy' flag (exclusive()).  *)
THEOREM OneRestoreAtATime == Spec => []BarrierCoversRestore
<1>1. IInv => BarrierCoversRestore
  BY DEF IInv
<1> QED BY <1>1, Invariance, PTL

(* A confirmed memory that nobody forgot is in the database or in an       *)
(* archive on disk, for any number of requests and writes, but for writes  *)
(* in flight when a restore began and the rows of archives users chose to  *)
(* replace (restore(), rollback(), remember(), the save panel).            *)
THEOREM ConfirmedIsKept == Spec => []NothingConfirmedIsLost
<1>1. IInv => NothingConfirmedIsLost
  <2>1. Saved \subseteq Archived
    BY DEF Saved, Archived, Archives, Files
  <2> QED BY <2>1 DEF IInv, NothingConfirmedIsLost
<1> QED BY <1>1, Invariance, PTL

-----------------------------------------------------------------------------
(* The safety archive                                                      *)

(* Until the database is replaced, a restore's snapshot, then its safety   *)
(* archive, differs from it by writes that raced the restore alone.        *)
Exact(o) ==
  ops[o].job = "restore" =>
    /\ ops[o].pc \in {"count", "zip"} => Differ(ops[o].snap, rows) \subseteq raced
    /\ ops[o].pc = "extract" \/ (ops[o].pc = "swapping" /\ pending # None)
         => Differ(ops[o].safety.rows, rows) \subseteq raced

(* The barrier tells the restores apart.                                   *)
LEMMA OneReplaces ==
  ASSUME IInv, NEW o \in Operations,
         \/ ops[o].job = "restore" /\ ops[o].pc \in {"count", "zip"}
         \/ ops[o].pc \in Late
  PROVE  barrier = o /\ InFlight \subseteq raced
<1>1. Replacing(o)
  BY DEF IInv, OperationOK, Late, Replacing
<1>2. barrier = o
  BY <1>1 DEF IInv, BarrierCoversRestore
<1> QED BY <1>2, ConstantsAssumption DEF IInv, RacedAreKnown

LEMMA WritesStayExact ==
  ASSUME IInv, NEW o \in Operations, Exact(o),
         NEW w \in Writers, WriterRequest(w) \/ WriterStep(w)
  PROVE  Exact(o)'
<1>1. UNCHANGED <<ops, pending, raced>>
  BY DEF WriterRequest, WriterStep, Write, Resume, Store, Find, Delete, Answer,
         WriteFails, serverVars, historyVars
<1>2. \/ rows' = rows
      \/ /\ writers[w].memory \in InFlight
         /\ rows' \in {rows \cup {writers[w].memory}, rows \ {writers[w].memory}}
  BY DEF WriterRequest, WriterStep, Write, Resume, Store, Find, Delete, Answer,
         WriteFails, serverVars, InFlight
<1>3. CASE \/ ops[o].job = "restore" /\ ops[o].pc \in {"count", "zip"}
           \/ ops[o].pc \in Late
  <2>1. rows' \ raced = rows \ raced
    BY <1>2, <1>3, OneReplaces
  <2>2. \A S : Differ(S, rows) \subseteq raced => Differ(S, rows') \subseteq raced
    BY <2>1 DEF Differ
  <2> QED BY <1>1, <2>2 DEF Exact
<1>4. CASE /\ ~(ops[o].job = "restore" /\ ops[o].pc \in {"count", "zip"})
           /\ ops[o].pc \notin Late
  BY <1>1, <1>4 DEF Exact, Late
<1> QED BY <1>3, <1>4

LEMMA ServerStaysExact ==
  ASSUME IInv, NEW o \in Operations, Exact(o), ServerStep
  PROVE  Exact(o)'
<1>1. UNCHANGED <<ops, raced>>
  BY DEF ServerStep, Swap, SwapFails, ServerUp, historyVars
<1>2. CASE Swap
  <2>1. pending # None /\ pending' = None
    BY <1>2 DEF Swap
  <2>2. PICK q \in Operations : ops[q].pc = "swapping"
    BY <2>1 DEF IInv, PendingIsAwaited
  <2>3. barrier = q
    BY <2>2, OneReplaces DEF Late
  <2>4. \/ ops[o].job = "restore" /\ ops[o].pc \in {"count", "zip"}
        \/ ops[o].pc = "extract"
        => o = q
    BY <2>3, OneReplaces DEF Late
  <2> QED BY <1>1, <2>1, <2>2, <2>4 DEF Exact
<1>3. CASE SwapFails \/ ServerUp
  <2>1. rows' = rows /\ (pending' # None => pending' = pending)
    BY <1>3 DEF SwapFails, ServerUp
  <2> QED BY <1>1, <2>1 DEF Exact
<1> QED BY <1>2, <1>3 DEF ServerStep

LEMMA RequestsStayExact ==
  ASSUME IInv, NEW o \in Operations, Exact(o),
         NEW q \in Operations, Request(q) \/ OperationStep(q)
  PROVE  Exact(o)'
<1>1. /\ rows' = rows /\ raced \subseteq raced'
      /\ pending' = pending \/ Apply(q)
  BY DEF Request, OperationStep, Create, Restore, GiveUp, Choose, Snapshot, Count,
         Zip, Inspected, NotRestorable, Apply, ApplyRefused, Replaced, Healthy,
         Unhealthy, Verified, NotVerified, serverVars, historyVars
<1>2. CASE o # q
  <2>1. ops'[o] = ops[o]
    BY <1>2, Carried DEF Request, OperationStep, Create, Restore, GiveUp, Choose,
       Snapshot, Count, Zip, Inspected, NotRestorable, Apply, ApplyRefused, Replaced,
       Healthy, Unhealthy, Verified, NotVerified, Settle, Refused
  <2>2. CASE pending' = pending
    BY <1>1, <2>1, <2>2 DEF Exact
  <2>3. CASE Apply(q)
    <3>1. barrier = q
      BY <2>3, OneReplaces DEF Apply, Late
    <3>2. ops[o].pc # "swapping"
      BY <1>2, <3>1, OneReplaces DEF Late
    <3> QED BY <1>1, <2>1, <3>2 DEF Exact
  <2> QED BY <1>1, <2>2, <2>3
<1>3. CASE o = q
  <2>1. CASE Snapshot(o)
    <3>1. ops'[o].pc = "count" /\ ops'[o].snap = rows
      BY <2>1, Carried DEF Snapshot, Operation
    <3> QED BY <1>1, <3>1 DEF Exact, Differ
  <2>2. CASE Count(o)
    <3>1. /\ ops[o].pc = "count" /\ ops'[o].pc = "zip"
          /\ ops'[o].snap = ops[o].snap /\ ops'[o].job = ops[o].job
      BY <2>2, Carried DEF Count, Operation
    <3> QED BY <1>1, <3>1 DEF Exact
  <2>3. CASE Zip(o)
    <3>1. /\ ops[o].pc = "zip"
          /\ ops'[o].pc = "idle"
             \/ /\ ops[o].job = "restore" /\ ops'[o].pc = "extract"
                /\ ops'[o].safety.rows = ops[o].snap
      BY <2>3, Carried DEF Zip, Settle, IdleOperation, Operation
    <3> QED BY <1>1, <3>1 DEF Exact
  <2>4. CASE Apply(o)
    <3>1. /\ ops[o].pc = "extract" /\ ops'[o].pc = "swapping"
          /\ ops'[o].safety = ops[o].safety /\ ops'[o].job = ops[o].job
      BY <2>4, Carried DEF Apply, Operation
    <3> QED BY <1>1, <3>1 DEF Exact
  <2>5. CASE ~(Snapshot(o) \/ Count(o) \/ Zip(o) \/ Apply(o))
    <3> DEFINE Elsewhere ==
                 \/ ops'[o].pc \in {"idle", "asking", "inspect", "snapshot",
                                    "health", "verify"}
                 \/ ops'[o].job = "rollback"
    <3>1. Create(o) \/ (\E path \in Files : Restore(o, path)) => Elsewhere
      BY Carried DEF Create, Restore, IdleOperation
    <3>2. Settle(o) => Elsewhere
      BY Carried DEF Settle, IdleOperation
    <3>3. Refused(o) => Elsewhere
      BY <3>2, Carried DEF Refused, Operation
    <3>4. GiveUp(o) \/ Verified(o) \/ ApplyRefused(o) \/ Unhealthy(o) \/ NotVerified(o)
            => Elsewhere
      BY <3>2, <3>3 DEF GiveUp, Verified, ApplyRefused, Unhealthy, NotVerified
    <3>5. Inspected(o) \/ NotRestorable(o) => Elsewhere
      BY <3>2, Carried DEF Inspected, NotRestorable, IdleOperation, Operation
    <3>6. Choose(o) \/ Replaced(o) \/ Healthy(o) => Elsewhere
      BY Carried DEF Choose, Replaced, Healthy, Operation
    <3>7. Elsewhere
      BY <1>3, <2>5, <3>1, <3>4, <3>5, <3>6 DEF Request, OperationStep
    <3> QED BY <3>7 DEF Exact
  <2> QED BY <2>1, <2>2, <2>3, <2>4, <2>5
<1> QED BY <1>2, <1>3

(* When PocketBase swaps in the archive of a restore, the safety archive   *)
(* holds what it replaces, but for writes that raced the restore, for any  *)
(* number of requests and writes (restore(), createInto(), apply()).       *)
THEOREM SafetyHoldsTheReplaced == Spec => SafetyIsExact
<1> DEFINE AllExact == \A o \in Operations : Exact(o)
<1>1. Init => AllExact
  BY DEF Init, Exact, IdleOperation
<1>2. IInv /\ AllExact /\ [Next]_vars => AllExact'
  <2> SUFFICES ASSUME IInv, AllExact, [Next]_vars, NEW o \in Operations
               PROVE  Exact(o)'
    OBVIOUS
  <2>1. CASE Upload \/ UNCHANGED vars
    BY <2>1 DEF Upload, Receive, Received, vars, serverVars, historyVars, Exact
  <2>2. CASE Next /\ ~Upload
    BY <2>2, WritesStayExact, ServerStaysExact, RequestsStayExact DEF Next
  <2> QED BY <2>1, <2>2
<1>3. AllExact /\ [Next]_vars =>
        [\A o \in Operations :
           Swap /\ ops[o].pc = "swapping" /\ ops[o].job = "restore" =>
             Differ(ops[o].safety.rows, rows) \subseteq raced]_vars
  BY DEF Swap, Exact
<1> QED BY <1>1, <1>2, <1>3, Invariance, PTL DEF Spec, SafetyIsExact

-----------------------------------------------------------------------------
(* What is served                                                          *)

(* What PocketBase accepted last is what the restore, or its rollback,     *)
(* wanted; once it is in place, it differs from what is served by writes   *)
(* that raced the restore alone.                                           *)
Served(o) ==
  ops[o].pc \in {"swapping", "health", "verify"} /\ ~lost =>
    IF pending # None THEN pending = Applied(o).rows
                      ELSE Differ(rows, Applied(o).rows) \subseteq raced

LEMMA WritesStayServed ==
  ASSUME IInv, NEW o \in Operations, Served(o),
         NEW w \in Writers, WriterRequest(w) \/ WriterStep(w)
  PROVE  Served(o)'
<1>1. UNCHANGED <<ops, pending, lost, raced>>
  BY DEF WriterRequest, WriterStep, Write, Resume, Store, Find, Delete, Answer,
         WriteFails, serverVars, historyVars
<1>2. \/ rows' = rows
      \/ /\ writers[w].memory \in InFlight
         /\ rows' \in {rows \cup {writers[w].memory}, rows \ {writers[w].memory}}
  BY DEF WriterRequest, WriterStep, Write, Resume, Store, Find, Delete, Answer,
         WriteFails, serverVars, InFlight
<1>3. CASE ops[o].pc \in Late
  <2>1. rows' \ raced = rows \ raced
    BY <1>2, <1>3, OneReplaces
  <2>2. \A S : Differ(rows, S) \subseteq raced => Differ(rows', S) \subseteq raced
    BY <2>1 DEF Differ
  <2> QED BY <1>1, <2>2 DEF Served, Applied
<1>4. CASE ops[o].pc \notin Late
  BY <1>1, <1>4 DEF Served, Late
<1> QED BY <1>3, <1>4

LEMMA ServerStaysServed ==
  ASSUME IInv, NEW o \in Operations, Served(o), ServerStep
  PROVE  Served(o)'
<1>1. UNCHANGED <<ops, raced>>
  BY DEF ServerStep, Swap, SwapFails, ServerUp, historyVars
<1>2. CASE Swap
  <2>1. pending # None /\ pending' = None /\ rows' = pending /\ lost' = lost
    BY <1>2 DEF Swap
  <2> QED BY <1>1, <2>1 DEF Served, Applied, Differ
<1>3. CASE SwapFails
  BY <1>3 DEF SwapFails, Served
<1>4. CASE ServerUp
  BY <1>4 DEF ServerUp, Served, Applied, historyVars
<1> QED BY <1>2, <1>3, <1>4 DEF ServerStep

LEMMA RequestsStayServed ==
  ASSUME IInv, NEW o \in Operations, Served(o),
         NEW q \in Operations, Request(q) \/ OperationStep(q)
  PROVE  Served(o)'
<1>1. /\ rows' = rows /\ raced \subseteq raced'
      /\ UNCHANGED <<pending, lost>> \/ Apply(q)
  BY DEF Request, OperationStep, Create, Restore, GiveUp, Choose, Snapshot, Count,
         Zip, Inspected, NotRestorable, Apply, ApplyRefused, Replaced, Healthy,
         Unhealthy, Verified, NotVerified, serverVars, historyVars
<1>2. CASE o # q
  <2>1. ops'[o] = ops[o]
    BY <1>2, Carried DEF Request, OperationStep, Create, Restore, GiveUp, Choose,
       Snapshot, Count, Zip, Inspected, NotRestorable, Apply, ApplyRefused, Replaced,
       Healthy, Unhealthy, Verified, NotVerified, Settle, Refused
  <2>2. CASE UNCHANGED <<pending, lost>>
    BY <1>1, <2>1, <2>2 DEF Served, Applied
  <2>3. CASE Apply(q)
    <3>1. barrier = q
      BY <2>3, OneReplaces DEF Apply, Late
    <3>2. ops[o].pc \notin Late
      BY <1>2, <3>1, OneReplaces
    <3> QED BY <2>1, <3>2 DEF Served, Late
  <2> QED BY <1>1, <2>2, <2>3
<1>3. CASE o = q
  <2>1. CASE Apply(o)
    <3>1. /\ ops'[o].safety = ops[o].safety /\ ops'[o].job = ops[o].job
          /\ ops'[o].archive = ops[o].archive /\ pending' = Applied(o).rows
      BY <2>1, Carried DEF Apply, Operation
    <3>2. Applied(o)' = Applied(o) /\ Applied(o) \in Archive
      BY <2>1, <3>1, Carried DEF Applied, OperationOK, Apply, Late
    <3>3. pending' # None
      BY <3>1, <3>2, ConstantsAssumption DEF Archive
    <3> QED BY <3>1, <3>2, <3>3 DEF Served
  <2>2. CASE Replaced(o) \/ Healthy(o)
    <3>1. /\ ops[o].pc \in {"swapping", "health"}
          /\ ops'[o].safety = ops[o].safety /\ ops'[o].job = ops[o].job
          /\ ops'[o].archive = ops[o].archive
          /\ UNCHANGED <<pending, lost, raced>>
      BY <2>2, Carried DEF Replaced, Healthy, Operation, serverVars, historyVars
    <3> QED BY <1>1, <3>1 DEF Served, Applied
  <2>3. CASE ~(Apply(o) \/ Replaced(o) \/ Healthy(o))
    <3> DEFINE Elsewhere == ops'[o].pc \notin {"swapping", "health", "verify"}
    <3>1. Create(o) \/ (\E path \in Files : Restore(o, path)) => Elsewhere
      BY Carried DEF Create, Restore, IdleOperation
    <3>2. Settle(o) => Elsewhere
      BY Carried DEF Settle, IdleOperation
    <3>3. Refused(o) => Elsewhere
      BY <3>2, Carried DEF Refused, Operation
    <3>4. GiveUp(o) \/ Verified(o) \/ ApplyRefused(o) \/ Unhealthy(o) \/ NotVerified(o)
            => Elsewhere
      BY <3>2, <3>3 DEF GiveUp, Verified, ApplyRefused, Unhealthy, NotVerified
    <3>5. Inspected(o) \/ NotRestorable(o) => Elsewhere
      BY <3>2, Carried DEF Inspected, NotRestorable, IdleOperation, Operation
    <3>6. Choose(o) \/ Snapshot(o) \/ Count(o) => Elsewhere
      BY Carried DEF Choose, Snapshot, Count, Operation
    <3>7. Zip(o) => Elsewhere
      BY <3>2, Carried DEF Zip, Operation
    <3>8. Elsewhere
      BY <1>3, <2>3, <3>1, <3>4, <3>5, <3>6, <3>7 DEF Request, OperationStep
    <3> QED BY <3>8 DEF Served
  <2> QED BY <2>1, <2>2, <2>3
<1> QED BY <1>2, <1>3

AllServed == \A o \in Operations : Served(o)

LEMMA ServedAlways == Spec => [](IInv /\ AllServed)
<1>1. Init => AllServed
  BY DEF Init, AllServed, Served, IdleOperation
<1>2. IInv /\ AllServed /\ [Next]_vars => AllServed'
  <2> SUFFICES ASSUME IInv, AllServed, [Next]_vars, NEW o \in Operations
               PROVE  Served(o)'
    BY DEF AllServed
  <2>1. CASE Upload \/ UNCHANGED vars
    BY <2>1 DEF Upload, Receive, Received, vars, serverVars, historyVars, AllServed,
       Served, Applied
  <2>2. CASE Next /\ ~Upload
    BY <2>2, WritesStayServed, ServerStaysServed, RequestsStayServed
       DEF Next, AllServed
  <2> QED BY <2>1, <2>2
<1> QED BY <1>1, <1>2, Invariance, PTL DEF Spec

(* Nothing that PocketBase accepted is still to come when a request that   *)
(* is past its wait is verified.                                           *)
LEMMA NothingIsPending ==
  ASSUME IInv, NEW o \in Operations, ops[o].pc = "verify"
  PROVE  pending = None
<1> SUFFICES ASSUME NEW q \in Operations, ops[q].pc = "swapping"
             PROVE  FALSE
  BY DEF IInv, PendingIsAwaited
<1>1. barrier = o /\ barrier = q
  BY OneReplaces DEF Late
<1> QED BY <1>1

(* A restore reported as successful serves the archive it was asked for,   *)
(* but for writes that raced it, if PocketBase put it in place (verify()   *)
(* counts rows only).                                                      *)
THEOREM SuccessServesTheArchive == Spec => RestoredMeansServed
<1>1. IInv /\ AllServed /\ [Next]_vars =>
        [\A o \in Operations :
           Verified(o) /\ ops[o].job = "restore" /\ ~lost =>
             Differ(rows, ops[o].archive.rows) \subseteq raced]_vars
  <2> SUFFICES ASSUME IInv, AllServed, NEW o \in Operations, Verified(o),
                      ops[o].job = "restore", ~lost
               PROVE  Differ(rows, ops[o].archive.rows) \subseteq raced
    OBVIOUS
  <2> QED BY NothingIsPending DEF Verified, AllServed, Served, Applied
<1> QED BY <1>1, ServedAlways, PTL DEF Spec, RestoredMeansServed

(* A rollback reported as successful serves what the safety archive holds, *)
(* under the same conditions.                                              *)
THEOREM SuccessUndoes == Spec => RolledBackMeansUndone
<1>1. IInv /\ AllServed /\ [Next]_vars =>
        [\A o \in Operations :
           Verified(o) /\ ops[o].job = "rollback" /\ ~lost =>
             Differ(rows, ops[o].safety.rows) \subseteq raced]_vars
  <2> SUFFICES ASSUME IInv, AllServed, NEW o \in Operations, Verified(o),
                      ops[o].job = "rollback", ~lost
               PROVE  Differ(rows, ops[o].safety.rows) \subseteq raced
    OBVIOUS
  <2> QED BY NothingIsPending DEF Verified, AllServed, Served, Applied
<1> QED BY <1>1, ServedAlways, PTL DEF Spec, RolledBackMeansUndone
=============================================================================
