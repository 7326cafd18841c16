------------------------------ MODULE TreeScan ------------------------------
(***************************************************************************)
(* measureTree() of the storage console (plugins/storage-console/scan.js): *)
(* one walk of a directory tree, whose directories are read concurrently   *)
(* under a counting semaphore.  A file is its inode; two names of one      *)
(* inode are a hard link, and every inode is worth one unit.               *)
(***************************************************************************)
EXTENDS Naturals, Sequences, FiniteSets, SequencesExt

CONSTANTS
  Directories,  \* the directories of the tree
  Top,          \* the one the walk starts from
  Parent,       \* the directory each other directory is in
  Names,        \* the names of files, in all the directories
  Within,       \* the directory each name is in
  Inode,        \* the inode each name is a link to
  Concurrency,  \* DEFAULT_LIMITS.concurrency
  MaxEntries    \* DEFAULT_LIMITS.maxEntries

ASSUME TreeScanAssumption ==
  /\ Top \in Directories
  /\ IsFiniteSet(Directories) /\ Names \cap Directories = {}
  /\ Parent \in [Directories \ {Top} -> Directories]
  /\ \A d \in Directories \ {Top} : Parent[d] # d
  /\ Within \in [Names -> Directories]
  /\ Concurrency \in Nat \ {0} /\ MaxEntries \in Nat
  \* the directories are one tree: each is reached from the top
  /\ \A S \in SUBSET Directories :
       /\ Top \in S
       /\ \A d \in Directories \ {Top} : Parent[d] \in S => d \in S
       => S = Directories

VARIABLES
  walks,     \* where the walk of each directory is
  seen,      \* the entries each directory's read has returned
  looking,   \* the file each directory's read is asking the inode of
  slots,     \* active, the semaphore's count
  waiters,   \* the walks waiting for a slot, in order
  counted,   \* the inodes counted once already
  entries,   \* the entries visited
  stopped,   \* the walk ran out of budget
  unreadable,\* report.unreadable is not zero
  allocated  \* report.allocated

treeScanVars == <<walks, seen, looking, slots, waiters, counted, entries,
                  stopped, unreadable, allocated>>

SubdirectoriesOf(d) == {c \in Directories \ {Top} : Parent[c] = d}
FilesOf(d) == {n \in Names : Within[n] = d}

Readers == {d \in Directories : walks[d] = "reading"}

-----------------------------------------------------------------------------

(* exhausted(): no more entries are visited.  The clock may run out at any *)
(* time as well.                                                           *)
Exhausted == stopped \/ entries >= MaxEntries

(* release() that gives the slot back and wakes nobody.                    *)
ReleaseQuietly(d, found) ==
  LET free == IF slots - 1 < Concurrency THEN Concurrency - (slots - 1) ELSE 0
      now == IF free < Len(found) THEN free ELSE Len(found)
      first == ToSet(SubSeq(found, 1, now))
      others == SubSeq(found, now + 1, Len(found))
  IN /\ slots' = slots - 1 + now
     /\ waiters' = waiters \o others
     /\ walks' = [w \in Directories |->
                    CASE w = d -> "over"
                      [] w \in first -> "reading"
                      [] w \in ToSet(others) -> "waiting"
                      [] OTHER -> walks[w]]

(* release() by the walk of `d', which goes on with the subdirectories     *)
(* found: the longest waiter is woken, and before it runs again `acquire'  *)
(* gives the free slots to the first subdirectories.  The others queue.    *)
Release(d, found) ==
  LET left == slots - 1
      free == IF left < Concurrency THEN Concurrency - left ELSE 0
      now == IF free < Len(found) THEN free ELSE Len(found)
      first == ToSet(SubSeq(found, 1, now))
      others == SubSeq(found, now + 1, Len(found))
      longest == IF waiters = <<>> THEN {} ELSE {Head(waiters)}
  IN /\ slots' = left + now
     /\ waiters' = (IF waiters = <<>> THEN <<>> ELSE Tail(waiters)) \o others
     /\ walks' = [w \in Directories |->
                    CASE w = d -> "over"
                      [] w \in first -> "reading"
                      [] w \in ToSet(others) -> "waiting"
                      [] w \in longest -> "woken"
                      [] OTHER -> walks[w]]

-----------------------------------------------------------------------------
(* One read                                                                *)

(* The next entry of a directory: a subdirectory is kept for later, and a  *)
(* file is asked for its inode.                                            *)
Visit(d, e) ==
  /\ walks[d] = "reading"
  /\ looking[d] = {}
  /\ ~Exhausted
  /\ e \in (SubdirectoriesOf(d) \cup FilesOf(d)) \ seen[d]
  /\ entries' = entries + 1
  /\ seen' = [seen EXCEPT ![d] = @ \cup {e}]
  /\ looking' = [looking EXCEPT ![d] = {e} \cap Names]
  /\ UNCHANGED <<walks, slots, waiters, counted, stopped, unreadable, allocated>>

(* Every name of an inode charged.                                         *)
StatEveryName(d, readable) ==
  /\ looking[d] # {}
  /\ counted' = counted \cup {Inode[n] : n \in looking[d]}
  /\ allocated' = IF readable THEN allocated + 1 ELSE allocated
  /\ unreadable' = (unreadable \/ ~readable)
  /\ looking' = [looking EXCEPT ![d] = {}]
  /\ UNCHANGED <<walks, seen, slots, waiters, entries, stopped>>

(* lstat() answered: the first name of an inode is charged, and the others *)
(* are not.  A file that vanished is only counted as unreadable.           *)
Stat(d, readable) ==
  /\ looking[d] # {}
  /\ LET inodes == {Inode[n] : n \in looking[d]} \ counted
     IN IF readable
        THEN /\ counted' = counted \cup inodes
             /\ allocated' = allocated + Cardinality(inodes)
             /\ UNCHANGED unreadable
        ELSE /\ unreadable' = TRUE
             /\ UNCHANGED <<counted, allocated>>
  /\ looking' = [looking EXCEPT ![d] = {}]
  /\ UNCHANGED <<walks, seen, slots, waiters, entries, stopped>>

(* The read is over: every entry was visited, the budget is spent, or the  *)
(* directory cannot be read further.  The slot is released and the longest *)
(* waiter woken; this walk goes on with the subdirectories it found before *)
(* that waiter runs again.                                                 *)
EndRead(d, failed, timeUp) ==
  LET all == seen[d] = SubdirectoriesOf(d) \cup FilesOf(d)
      found == SetToSeq(seen[d] \cap Directories)
      over == (Exhausted \/ timeUp) /\ (found # <<>> \/ ~(failed \/ all))
  IN /\ walks[d] = "reading"
     /\ looking[d] = {}
     /\ failed \/ all \/ over
     /\ unreadable' = (unreadable \/ failed)
     /\ stopped' = (stopped \/ over)
     /\ Release(d, IF stopped' THEN <<>> ELSE found)
     /\ UNCHANGED <<seen, looking, counted, entries, allocated>>

(* The woken waiter takes its slot, whoever took one in the meantime.      *)
Resume(d) ==
  /\ walks[d] = "woken"
  /\ walks' = [walks EXCEPT ![d] = "reading"]
  /\ slots' = slots + 1
  /\ UNCHANGED <<seen, looking, waiters, counted, entries, stopped, unreadable,
                 allocated>>

-----------------------------------------------------------------------------

TreeScanInit ==
  /\ walks = [d \in Directories |-> IF d = Top THEN "reading" ELSE "unknown"]
  /\ seen = [d \in Directories |-> {}]
  /\ looking = [d \in Directories |-> {}]
  /\ slots = 1
  /\ waiters = <<>>
  /\ counted = {}
  /\ entries = 0
  /\ stopped = FALSE
  /\ unreadable = FALSE
  /\ allocated = 0

ReadStep(d) ==
  \/ \E e \in Directories \cup Names : Visit(d, e)
  \/ \E readable \in BOOLEAN : Stat(d, readable)
  \/ \E failed, timeUp \in BOOLEAN : EndRead(d, failed, timeUp)

(* The walk is over, and measureTree() is called again.                    *)
MeasureAgain ==
  /\ \A d \in Directories : walks[d] \in {"over", "unknown"}
  /\ walks' = [d \in Directories |-> IF d = Top THEN "reading" ELSE "unknown"]
  /\ seen' = [d \in Directories |-> {}]
  /\ slots' = 1
  /\ counted' = {}
  /\ entries' = 0
  /\ stopped' = FALSE
  /\ unreadable' = FALSE
  /\ allocated' = 0
  /\ UNCHANGED <<looking, waiters>>

TreeScanNext ==
  \/ \E d \in Directories : ReadStep(d) \/ Resume(d)
  \/ MeasureAgain

TreeScanSpec == TreeScanInit /\ [][TreeScanNext]_treeScanVars

-----------------------------------------------------------------------------
(* Properties                                                              *)

TreeScanTypeOK ==
  /\ walks \in [Directories ->
                  {"unknown", "waiting", "woken", "reading", "over"}]
  /\ seen \in [Directories -> SUBSET (Directories \cup Names)]
  /\ looking \in [Directories -> SUBSET Names]
  /\ slots \in Nat
  /\ waiters \in Seq(Directories)
  /\ counted \subseteq {Inode[n] : n \in Names}
  /\ entries \in 0..MaxEntries
  /\ stopped \in BOOLEAN
  /\ unreadable \in BOOLEAN
  /\ allocated \in Nat

(* No directory waits for a slot that nobody will release: while one is    *)
(* queued another is being read or was just woken, and the queue holds     *)
(* each waiting directory once.  A walk that kept its slot while its       *)
(* children wait would be a deadlock.                                      *)
WaitersAreServed ==
  /\ ToSet(waiters) = {d \in Directories : walks[d] = "waiting"}
  /\ Len(waiters) = Cardinality(ToSet(waiters))
  /\ waiters # <<>> => \E d \in Directories : walks[d] \in {"reading", "woken"}

(* A walk that met neither its budget nor an unreadable place reports what *)
(* the files occupy, each inode once, in whatever order the directories    *)
(* were read.                                                              *)
FigureIsExact ==
  /\ \A d \in Directories : walks[d] \in {"over", "unknown"}
  /\ ~stopped /\ ~unreadable
  => allocated = Cardinality({Inode[n] : n \in Names})
=============================================================================
