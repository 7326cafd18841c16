--------------------------- MODULE MemoryBackups ---------------------------
(***************************************************************************)
(* Backup and restore of the memory database: the engine of the console    *)
(* (plugins/memory-console/backup.js), the memory service's writes and its *)
(* barrier (plugins/pocketbase-memory/index.js), and PocketBase as they    *)
(* use it: it snapshots, counts, and, once it accepted an archive, answers *)
(* the old database for a while and then restarts around the new one.      *)
(*                                                                         *)
(* A database is the set of its rows.  An archive is the rows it holds and *)
(* the total its manifest claims; its digests are abstracted to equality.  *)
(***************************************************************************)
EXTENDS Integers, FiniteSets

CONSTANTS
  Operations, \* requests of the console in flight, one slot each
  Writers,    \* calls of remember() and forget() in flight
  Memories,   \* rows the database can hold
  Paths,      \* bound: the files of the backups directory
  Incoming,   \* the file an upload is received at
  Foreign,    \* the archives a user may upload
  None        \* JavaScript's null

VARIABLES
  rows,     \* the database PocketBase answers from
  pending,  \* the rows of the archive PocketBase accepted, until it swaps
  up,       \* whether PocketBase answers
  lost,     \* history: the archive accepted last never came into place
  barrier,  \* memory._barrier: the restore that holds writes off
  busy,     \* backups.busy
  ops,      \* the console's requests, at the await they reached
  writers,  \* the memory writes, at the await they reached
  files,    \* the archives on disk
  confirmed, \* history: the memories users were told are stored
  raced,    \* history: those whose write was in flight as a restore began
  overwritten \* history: those of the archives users chose to replace

serverVars == <<rows, pending, up, lost>>
historyVars == <<confirmed, raced, overwritten>>
vars == <<serverVars, barrier, busy, ops, writers, files, historyVars>>

-----------------------------------------------------------------------------

Files == Paths \cup {Incoming}
Optional(S) == S \cup {None}

Counts == 0..Cardinality(Memories)

(* A manifest may claim no total that is a number.                         *)
Archive == [rows : SUBSET Memories, total : Optional(Counts)]

Job == {"create", "restore", "rollback"}

Operation ==
  [pc      : {"idle", "asking", "snapshot", "count", "zip", "inspect",
              "extract", "swapping", "health", "verify"},
   job     : Optional(Job),
   path    : Optional(Files),    \* what is restored
   target  : Optional(Paths),    \* what createInto() writes
   archive : Optional(Archive),  \* the archive as inspected
   safety  : Optional(Archive),
   snap    : SUBSET Memories,
   total   : Counts]

IdleOperation ==
  [pc |-> "idle", job |-> None, path |-> None, target |-> None,
   archive |-> None, safety |-> None, snap |-> {}, total |-> 0]

Writer ==
  [pc : {"idle", "parked", "sent", "found", "stored"},
   forgets : BOOLEAN, memory : Optional(Memories)]

IdleWriter == [pc |-> "idle", forgets |-> FALSE, memory |-> None]

ASSUME ConstantsAssumption ==
  /\ IsFiniteSet(Memories)
  /\ Foreign \subseteq Archive
  /\ Incoming \notin Paths
  /\ None \notin Operations \cup Files \cup Memories \cup Archive
  /\ None \notin Counts
  /\ \A database \in SUBSET Memories : database # None

TypeOK ==
  /\ rows \in SUBSET Memories
  /\ pending \in Optional(SUBSET Memories)
  /\ up \in BOOLEAN
  /\ lost \in BOOLEAN
  /\ barrier \in Optional(Operations)
  /\ busy \in BOOLEAN
  /\ ops \in [Operations -> Operation]
  /\ writers \in [Writers -> Writer]
  /\ files \in [Files -> Optional(Archive)]
  /\ confirmed \in SUBSET Memories
  /\ raced \in SUBSET Memories
  /\ overwritten \in SUBSET Memories

Init ==
  /\ rows \in SUBSET Memories
  /\ pending = None
  /\ up = TRUE
  /\ lost = FALSE
  /\ barrier = None
  /\ busy = FALSE
  /\ ops = [o \in Operations |-> IdleOperation]
  /\ writers = [w \in Writers |-> IdleWriter]
  /\ files = [f \in Files |-> None]
  /\ confirmed = rows
  /\ raced = {}
  /\ overwritten = {}

-----------------------------------------------------------------------------
(* Memory writes                                                           *)

Archives == {files[f] : f \in {g \in Files : files[g] # None}}
Archived == UNION {a.rows : a \in Archives}

(* PocketBase gives every record an id of its own.                         *)
FreshMemory(m) ==
  /\ m \notin rows \cup confirmed \cup raced \cup overwritten \cup Archived
  /\ pending # None => m \notin pending
  /\ \A o \in Operations : m \notin ops[o].snap
  /\ \A w \in Writers : writers[w].memory # m

(* A defect: a write does not look at the barrier.                         *)
HeldOffNever == FALSE

HeldOff == barrier # None

(* _writable(): the request leaves at once, or waits for the barrier.      *)
Write(w, forgets, m) ==
  /\ writers[w].pc = "idle"
  /\ IF forgets THEN m \in confirmed ELSE FreshMemory(m)
  /\ writers' = [writers EXCEPT ![w] =
                   [pc |-> IF HeldOff THEN "parked" ELSE "sent",
                    forgets |-> forgets, memory |-> m]]
  /\ UNCHANGED <<serverVars, barrier, busy, ops, files, historyVars>>

(* The barrier was lifted; the loop looks at it again.                     *)
Resume(w) ==
  /\ writers[w].pc = "parked"
  /\ ~HeldOff
  /\ writers' = [writers EXCEPT ![w].pc = "sent"]
  /\ UNCHANGED <<serverVars, barrier, busy, ops, files, historyVars>>

(* PocketBase stores the record of a remember().                           *)
Store(w) ==
  /\ up
  /\ writers[w].pc = "sent"
  /\ ~writers[w].forgets
  /\ rows' = rows \cup {writers[w].memory}
  /\ writers' = [writers EXCEPT ![w].pc = "stored"]
  /\ UNCHANGED <<pending, up, lost, barrier, busy, ops, files, historyVars>>

(* forget() first looks the row up in its project.                         *)
Find(w) ==
  /\ up
  /\ writers[w].pc = "sent"
  /\ writers[w].forgets
  /\ writers' = [writers EXCEPT ![w] =
                   IF @.memory \in rows THEN [@ EXCEPT !.pc = "found"]
                                        ELSE IdleWriter]
  /\ UNCHANGED <<serverVars, barrier, busy, ops, files, historyVars>>

(* PocketBase deletes the row.                                             *)
Delete(w) ==
  /\ up
  /\ writers[w].pc = "found"
  /\ writers[w].memory \in rows
  /\ rows' = rows \ {writers[w].memory}
  /\ confirmed' = confirmed \ {writers[w].memory}
  /\ writers' = [writers EXCEPT ![w].pc = "stored"]
  /\ UNCHANGED <<pending, up, lost, barrier, busy, ops, files, raced,
                 overwritten>>

(* The answer arrives.                                                     *)
Answer(w) ==
  /\ writers[w].pc = "stored"
  /\ confirmed' = IF writers[w].forgets THEN confirmed
                                        ELSE confirmed \cup {writers[w].memory}
  /\ writers' = [writers EXCEPT ![w] = IdleWriter]
  /\ UNCHANGED <<serverVars, barrier, busy, ops, files, raced, overwritten>>

(* The request fails, or its answer is lost.                               *)
WriteFails(w) ==
  /\ writers[w].pc \in {"sent", "found", "stored"}
  /\ writers' = [writers EXCEPT ![w] = IdleWriter]
  /\ UNCHANGED <<serverVars, barrier, busy, ops, files, historyVars>>

-----------------------------------------------------------------------------
(* PocketBase's restart                                                    *)

(* The accepted archive becomes the database, and the server restarts.     *)
Swap ==
  /\ pending # None
  /\ rows' = pending
  /\ pending' = None
  /\ up' = FALSE
  /\ UNCHANGED <<lost, barrier, busy, ops, writers, files, historyVars>>

(* It cannot be put in place: the old database stays.                      *)
SwapFails ==
  /\ pending # None
  /\ pending' = None
  /\ lost' = TRUE
  /\ UNCHANGED <<rows, up, barrier, busy, ops, writers, files, historyVars>>

ServerUp ==
  /\ ~up
  /\ up' = TRUE
  /\ UNCHANGED <<rows, pending, lost, barrier, busy, ops, writers, files,
                 historyVars>>

-----------------------------------------------------------------------------
(* Leaving an operation                                                    *)

Replacing(o) ==
  /\ ops[o].job \in {"restore", "rollback"}
  /\ ops[o].pc \notin {"idle", "inspect"}

(* The request settles: create() and restore() clear `busy', whoever set   *)
(* it, and a restore that raised the barrier lifts it.                     *)
Settle(o) ==
  /\ ops' = [ops EXCEPT ![o] = IdleOperation]
  /\ busy' = FALSE
  /\ barrier' = IF Replacing(o) THEN None ELSE barrier

(* A defect: the barrier stays up when the safety archive cannot be made.  *)
GiveUpHolding(o) ==
  /\ ops[o].pc \in {"asking", "snapshot", "count", "zip"}
  /\ ops' = [ops EXCEPT ![o] = IdleOperation]
  /\ busy' = FALSE
  /\ UNCHANGED <<barrier, serverVars, writers, files, historyVars>>

(* A step refused before anything was handed to PocketBase ends a create,  *)
(* and a restore that has no safety archive yet.                           *)
GiveUp(o) ==
  /\ ops[o].pc \in {"asking", "snapshot", "count", "zip"}
  /\ Settle(o)
  /\ UNCHANGED <<serverVars, writers, files, historyVars>>

(* A defect: the writes are let in while the rollback runs.                *)
RefusedLiftsBarrier(o) ==
  /\ ops[o].job = "restore"
  /\ ops' = [ops EXCEPT ![o].pc = "extract", ![o].job = "rollback"]
  /\ barrier' = None
  /\ UNCHANGED busy

(* A step of the replacement fails: a restore turns to its safety archive, *)
(* a rollback reports that it failed.                                      *)
Refused(o) ==
  \/ /\ ops[o].job = "restore"
     /\ ops' = [ops EXCEPT ![o].pc = "extract", ![o].job = "rollback"]
     /\ UNCHANGED <<barrier, busy>>
  \/ /\ ops[o].job = "rollback"
     /\ Settle(o)

-----------------------------------------------------------------------------
(* Making an archive                                                       *)

(* create(): one at a time, says the flag.                                 *)
Create(o) ==
  /\ ops[o].pc = "idle"
  /\ ~busy
  /\ busy' = TRUE
  /\ ops' = [ops EXCEPT ![o] =
               [IdleOperation EXCEPT !.pc = "asking", !.job = "create"]]
  /\ UNCHANGED <<serverVars, barrier, writers, files, historyVars>>

(* The files no request is writing: a name carries its second and what it  *)
(* is for, so two requests that write at once have names of their own.     *)
Free == {p \in Paths : \A o \in Operations : ops[o].target # p}
Unused == {p \in Free : files[p] = None}

(* What a request may write to.  unusedPath() names a file nothing         *)
(* occupies; the save panel lets the user name an archive to replace too.  *)
Named(o) ==
  (IF Unused = {} THEN {} ELSE {CHOOSE p \in Unused : TRUE}) \cup
  (IF ops[o].job = "create" THEN Free \ Unused ELSE {})

(* The file is named.  A user who closes the panel is GiveUp.              *)
Choose(o) ==
  /\ ops[o].pc = "asking"
  /\ \E p \in Named(o) :
       ops' = [ops EXCEPT ![o].pc = "snapshot", ![o].target = p]
  /\ UNCHANGED <<serverVars, barrier, busy, writers, files, historyVars>>

(* createInto(): PocketBase snapshots its database.                        *)
Snapshot(o) ==
  /\ ops[o].pc = "snapshot"
  /\ up
  /\ ops' = [ops EXCEPT ![o].pc = "count", ![o].snap = rows]
  /\ UNCHANGED <<serverVars, barrier, busy, writers, files, historyVars>>

(* A defect: a count PocketBase did not answer goes into the manifest.     *)
CountUnanswered(o) ==
  /\ ops[o].pc = "count"
  /\ ops' = [ops EXCEPT ![o].pc = "zip", ![o].total = None]
  /\ UNCHANGED <<serverVars, barrier, busy, writers, files, historyVars>>

(* The manifest's total is counted once the snapshot is unpacked.          *)
Count(o) ==
  /\ ops[o].pc = "count"
  /\ up
  /\ ops' = [ops EXCEPT ![o].pc = "zip", ![o].total = Cardinality(rows)]
  /\ UNCHANGED <<serverVars, barrier, busy, writers, files, historyVars>>

(* The archive is written: a create is done, a restore has its safety.     *)
Zip(o) ==
  LET archive == [rows |-> ops[o].snap, total |-> ops[o].total] IN
  /\ ops[o].pc = "zip"
  /\ files' = [files EXCEPT ![ops[o].target] = archive]
  /\ \/ /\ ops[o].job = "create"
        /\ Settle(o)
     \/ /\ ops[o].job = "restore"
        /\ ops' = [ops EXCEPT ![o].pc = "extract", ![o].safety = archive,
                              ![o].snap = {}, ![o].total = 0]
        /\ UNCHANGED <<barrier, busy>>
  /\ overwritten' = overwritten \cup
       IF files[ops[o].target] = None \/ ops[o].job = "restore"
         THEN {} ELSE files[ops[o].target].rows
  /\ UNCHANGED <<serverVars, writers, confirmed, raced>>

(* receive(): the holding directory is removed, whatever reads from it,    *)
(* then the file is written.                                               *)
Receive ==
  /\ files[Incoming] # None
  /\ files' = [files EXCEPT ![Incoming] = None]
  /\ UNCHANGED <<serverVars, barrier, busy, ops, writers, historyVars>>

Received(archive) ==
  /\ files[Incoming] = None
  /\ files' = [files EXCEPT ![Incoming] = archive]
  /\ UNCHANGED <<serverVars, barrier, busy, ops, writers, historyVars>>

-----------------------------------------------------------------------------
(* Restoring one                                                           *)

(* restore(): confirmed, and nothing else runs, says the flag; then the    *)
(* archive is inspected, and the flag is still down.                       *)
Restore(o, path) ==
  /\ ops[o].pc = "idle"
  /\ ~busy
  /\ ops' = [ops EXCEPT ![o] = [IdleOperation EXCEPT !.pc = "inspect",
                                   !.job = "restore", !.path = path]]
  /\ UNCHANGED <<serverVars, barrier, busy, writers, files, historyVars>>

InFlight ==
  {writers[w].memory : w \in {v \in Writers :
                                writers[v].pc \in {"sent", "found", "stored"}}}

(* A defect: exclusive() takes a barrier another restore holds.            *)
InspectedAnyway(o) ==
  /\ ops[o].pc = "inspect"
  /\ files[ops[o].path] # None
  /\ busy' = TRUE
  /\ barrier' = o
  /\ raced' = raced \cup InFlight
  /\ ops' = [ops EXCEPT ![o].pc = "asking",
                        ![o].archive = files[ops[o].path]]
  /\ UNCHANGED <<serverVars, writers, files, confirmed, overwritten>>

(* A readable archive raises the flag, then the barrier; exclusive()       *)
(* refuses a barrier that is up, and the flag comes down again.            *)
Inspected(o) ==
  /\ ops[o].pc = "inspect"
  /\ files[ops[o].path] # None
  /\ \/ /\ barrier = None
        /\ busy' = TRUE
        /\ barrier' = o
        /\ raced' = raced \cup InFlight
        /\ ops' = [ops EXCEPT ![o].pc = "asking",
                              ![o].archive = files[ops[o].path]]
     \/ /\ barrier # None
        /\ Settle(o)
        /\ UNCHANGED raced
  /\ UNCHANGED <<serverVars, writers, files, confirmed, overwritten>>

(* The archive is gone, or the inspection refuses it.                      *)
NotRestorable(o) ==
  /\ ops[o].pc = "inspect"
  /\ ops' = [ops EXCEPT ![o] = IdleOperation]
  /\ UNCHANGED <<serverVars, barrier, busy, writers, files, historyVars>>

(* What apply() puts in place now, and the file it reads it from.          *)
Source(o) == IF ops[o].job = "rollback" THEN ops[o].target ELSE ops[o].path
Applied(o) ==
  IF ops[o].job = "rollback" THEN ops[o].safety ELSE ops[o].archive

(* A defect: a rollback puts the refused archive in place once more.       *)
ApplySameArchive(o) ==
  /\ ops[o].pc = "extract"
  /\ files[ops[o].path] = ops[o].archive
  /\ up
  /\ pending' = ops[o].archive.rows
  /\ lost' = FALSE
  /\ ops' = [ops EXCEPT ![o].pc = "swapping"]
  /\ UNCHANGED <<rows, up, barrier, busy, writers, files, historyVars>>

(* apply(): the archive still agrees with its digests, and PocketBase      *)
(* accepts it.                                                             *)
Apply(o) ==
  /\ ops[o].pc = "extract"
  /\ files[Source(o)] = Applied(o)
  /\ up
  /\ pending' = Applied(o).rows
  /\ lost' = FALSE
  /\ ops' = [ops EXCEPT ![o].pc = "swapping"]
  /\ UNCHANGED <<rows, up, barrier, busy, writers, files, historyVars>>

(* A digest differs, the archive is gone, or PocketBase refuses.           *)
ApplyRefused(o) ==
  /\ ops[o].pc = "extract"
  /\ Refused(o)
  /\ UNCHANGED <<serverVars, writers, files, historyVars>>

(* A defect: the restore does not wait for the swap.                       *)
ReplacedAtOnce(o) ==
  /\ ops[o].pc = "swapping"
  /\ ops' = [ops EXCEPT ![o].pc = "health"]
  /\ UNCHANGED <<serverVars, barrier, busy, writers, files, historyVars>>

(* waitForReplacement(): data.db changed, or 30 seconds went by without    *)
(* it; PocketBase is done with the archive by then.                        *)
Replaced(o) ==
  /\ ops[o].pc = "swapping"
  /\ pending = None
  /\ ops' = [ops EXCEPT ![o].pc = "health"]
  /\ UNCHANGED <<serverVars, barrier, busy, writers, files, historyVars>>

(* waitForHealth(): the server answers.                                    *)
Healthy(o) ==
  /\ ops[o].pc = "health"
  /\ up
  /\ ops' = [ops EXCEPT ![o].pc = "verify"]
  /\ UNCHANGED <<serverVars, barrier, busy, writers, files, historyVars>>

(* It did not in 30 seconds.                                               *)
Unhealthy(o) ==
  /\ ops[o].pc = "health"
  /\ ~up
  /\ Refused(o)
  /\ UNCHANGED <<serverVars, writers, files, historyVars>>

(* verify() compares the rows counted with the total of the archive that   *)
(* was to be restored, after a rollback too; a manifest without a number   *)
(* matches any.                                                            *)
Matches(o) ==
  \/ ops[o].archive.total = None
  \/ Cardinality(rows) = ops[o].archive.total

Verified(o) ==
  /\ ops[o].pc = "verify"
  /\ up
  /\ Matches(o)
  /\ Settle(o)
  /\ UNCHANGED <<serverVars, writers, files, historyVars>>

(* The deadline passed on another total, or on a server that is down.      *)
NotVerified(o) ==
  /\ ops[o].pc = "verify"
  /\ ~(up /\ Matches(o))
  /\ Refused(o)
  /\ UNCHANGED <<serverVars, writers, files, historyVars>>

-----------------------------------------------------------------------------

WriterRequest(w) ==
  \E forgets \in BOOLEAN, m \in Memories : Write(w, forgets, m)

WriterStep(w) ==
  \/ Resume(w)
  \/ Store(w)
  \/ Find(w)
  \/ Delete(w)
  \/ Answer(w)
  \/ WriteFails(w)

Upload == Receive \/ \E archive \in Foreign : Received(archive)

ServerStep == Swap \/ SwapFails \/ ServerUp

Request(o) ==
  \/ Create(o)
  \/ \E path \in Files : Restore(o, path)

OperationStep(o) ==
  \/ GiveUp(o)
  \/ Choose(o)
  \/ Snapshot(o)
  \/ Count(o)
  \/ Zip(o)
  \/ Inspected(o)
  \/ NotRestorable(o)
  \/ Apply(o)
  \/ ApplyRefused(o)
  \/ Replaced(o)
  \/ Healthy(o)
  \/ Unhealthy(o)
  \/ Verified(o)
  \/ NotVerified(o)

Next ==
  \/ \E w \in Writers : WriterRequest(w) \/ WriterStep(w)
  \/ ServerStep
  \/ Upload
  \/ \E o \in Operations : Request(o) \/ OperationStep(o)

Spec == Init /\ [][Next]_vars

(* Requests to PocketBase, file operations and timers end; PocketBase ends *)
(* its restart; nothing makes a user ask for anything.                     *)
Progress ==
  /\ \A w \in Writers : WF_vars(WriterStep(w))
  /\ WF_vars(ServerStep)
  /\ \A o \in Operations : WF_vars(OperationStep(o))

FairSpec == Spec /\ Progress

-----------------------------------------------------------------------------
(* Properties                                                              *)

(* Writes are held off exactly while one restore, and no more than one, is *)
(* between its safety archive and its last verification, rollback          *)
(* included, however many requests passed the `busy' flag.                 *)
BarrierCoversRestore ==
  \A o \in Operations : Replacing(o) <=> barrier = o

Differ(a, b) == (a \ b) \cup (b \ a)

(* When PocketBase swaps in the archive of a restore, the safety archive   *)
(* holds the database it replaces, but for writes already in flight when   *)
(* the restore began.                                                      *)
SafetyIsExact ==
  [][\A o \in Operations :
       Swap /\ ops[o].pc = "swapping" /\ ops[o].job = "restore" =>
         Differ(ops[o].safety.rows, rows) \subseteq raced]_vars

(* A memory whose storing was confirmed and that nobody forgot is in the   *)
(* database or in an archive on disk, through every restore and rollback,  *)
(* but for writes already in flight when a restore began, and for those of *)
(* an archive the user chose to replace in the save panel.                 *)
NothingConfirmedIsLost ==
  confirmed \subseteq rows \cup Archived \cup raced \cup overwritten

(* A restore that reports success serves the archive it was asked for, not *)
(* the old database with as many rows, if PocketBase put it in place.      *)
RestoredMeansServed ==
  [][\A o \in Operations :
       Verified(o) /\ ops[o].job = "restore" /\ ~lost =>
         Differ(rows, ops[o].archive.rows) \subseteq raced]_vars

(* A rollback that reports success serves what was served before the       *)
(* restore, if PocketBase put what it accepted last in place.              *)
RolledBackMeansUndone ==
  [][\A o \in Operations :
       Verified(o) /\ ops[o].job = "rollback" /\ ~lost =>
         Differ(rows, ops[o].safety.rows) \subseteq raced]_vars

(* A rollback whose safety archive is served again reports it, instead of  *)
(* sending the user to restore it by hand.                                 *)
RollbackReported ==
  [][\A o \in Operations :
       NotVerified(o) /\ ops[o].job = "rollback" /\ up /\ ~lost =>
         rows # ops[o].safety.rows]_vars

(* A write that waits for the barrier goes on: whatever fails in a         *)
(* restore, the barrier is lifted.                                         *)
BarrierIsLifted == barrier # None ~> barrier = None
=============================================================================
