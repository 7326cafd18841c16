-------------------------- MODULE SupervisorProofs ---------------------------
(***************************************************************************)
(* Proofs about Supervisor, for every set of process groups, every number  *)
(* of ports and of restarts.                                               *)
(***************************************************************************)
EXTENDS Supervisor, TLAPS

HoldsNothing == {"idle", "loop", "watch", "prepare", "sidecar", "failed", "stop"}
HoldsSidecar == {"health", "publish", "waitPort", "dropSidecar", "waitDropped"}
HoldsRuntime == {"publishRuntime", "adopt", "stopSidecar", "waitSidecar",
                 "stopRuntime", "waitRuntime"}

(* Which children a thread holds at each point of its work.                *)
ThreadOK(t) ==
  LET th == thread[t] IN
  /\ th.pc \in HoldsNothing => th.runtime = None /\ th.sidecar = None
  /\ th.pc \in HoldsSidecar => th.runtime = None /\ th.sidecar # None
  /\ th.pc \in {"patch", "runtime"} => th.runtime = None
  /\ th.pc \in HoldsRuntime => th.runtime # None
  /\ th.pc = "waitSidecar" => th.sidecar # None
  /\ th.pc \in {"stopRuntime", "waitRuntime", "stopped"} => th.sidecar = None
  /\ th.pc = "waitRuntime" => group[th.runtime].told
  /\ th.pc = "stopped" /\ th.runtime # None
       => group[th.runtime].told /\ ~Up(th.runtime)

(* A thread keeps the mutex from taking the supervisor out to its drop.    *)
Unlocking(t) ==
  \/ thread[t].pc \in {"stopSidecar", "waitSidecar", "stopRuntime", "waitRuntime"}
  \/ thread[t].pc = "stopped" /\ thread[t].runtime # None

(* The threads take turns: the watcher begins when the first launch is     *)
(* adopted, and of two threads that stop or start children one is through. *)
TurnsOK ==
  /\ thread[Main].pc \notin {"idle", "watch"}
  /\ thread[Watcher].pc # "loop"
  /\ thread[Main].pc \in Starting => thread[Watcher].pc = "idle"
  /\ thread[Watcher].pc = "idle" => owned = Nobody /\ lock = None
  /\ \A t \in Threads : lock = t <=> Unlocking(t)
  /\ lock = Main => thread[Watcher].pc \in {"watch", "stop"}
  /\ lock # None => owned = Nobody
  /\ owned # Nobody => /\ owned.runtime # None
                       /\ thread[Watcher].pc \in {"watch", "stop"}
  /\ app = "exited" => thread[Main].pc = "loop"

(* What is held as a runtime is one, and so for the sidecar.               *)
KindsOK ==
  /\ owned.runtime # None => group[owned.runtime].kind = "runtime"
  /\ owned.sidecar # None => group[owned.sidecar].kind = "sidecar"
  /\ \A t \in Threads :
       /\ thread[t].runtime # None => group[thread[t].runtime].kind = "runtime"
       /\ thread[t].sidecar # None => group[thread[t].sidecar].kind = "sidecar"

Held == OwnedChildren \cup UNION {Children(t) : t \in Threads}

(* A group nobody holds has no leader any more, and a runtime's was told.  *)
HeldOK ==
  \A g \in Groups :
    /\ Up(g) => g \in Held
    /\ group[g].kind = "runtime" /\ ~group[g].told => g \in Held
    /\ group[g].kind = "unused" => ~Up(g)

(* The slots name what was published and not stopped since.                *)
SlotsOK ==
  /\ owned # Nobody => /\ slots.runtime = owned.runtime
                       /\ owned.sidecar # None => slots.sidecar = owned.sidecar
  /\ \A t \in Threads :
       /\ /\ thread[t].pc \in {"patch", "runtime", "publishRuntime", "adopt"}
          /\ thread[t].sidecar # None
          => slots.sidecar = thread[t].sidecar
       /\ thread[t].pc = "adopt" => slots.runtime = thread[t].runtime

IInv ==
  /\ TypeOK
  /\ \A t \in Threads : ThreadOK(t)
  /\ TurnsOK
  /\ KindsOK
  /\ HeldOK
  /\ SlotsOK
  /\ SignalReachesChildren

-----------------------------------------------------------------------------
(* A process group that was handed out keeps its kind, stays told, and its *)
(* leader does not come back.                                              *)

Thread == [pc      : {"loop", "idle", "watch"} \cup Starting \cup Stopping,
           runtime : OptionalGroup,
           sidecar : OptionalGroup,
           ports   : 0..Ports]

GroupsAge ==
  \A g \in Groups : group[g].kind # "unused" =>
    /\ group'[g].kind = group[g].kind
    /\ group[g].told => group'[g].told
    /\ Up(g)' => Up(g)

GroupType == [kind   : {"unused", "sidecar", "runtime"},
              leader : {"none", "up", "down"},
              told   : BOOLEAN]

LEMMA ThreadType ==
  TypeOK => /\ thread \in [Threads -> Thread]
            /\ group \in [Groups -> GroupType]
            /\ owned \in [runtime : OptionalGroup, sidecar : OptionalGroup]
            /\ slots \in [runtime : OptionalGroup, sidecar : OptionalGroup]
BY DEF TypeOK, Thread, GroupType

LEMMA TerminateAges ==
  ASSUME TypeOK, NEW g \in Groups,
         group' \in {group, Terminate(g), Kill(g)}
  PROVE  /\ GroupsAge
         /\ group' \in [Groups -> GroupType]
         /\ \A h \in Groups : group'[h].kind = group[h].kind
         /\ \A h \in Groups : Up(h)' => Up(h)
<1>1. group \in [Groups -> GroupType]
  BY ThreadType
<1>2. CASE group' = group
  BY <1>1, <1>2 DEF GroupsAge, Up
<1>3. CASE group' = Terminate(g)
  <2>1. /\ group'[g] = [group[g] EXCEPT !.told = TRUE]
        /\ \A h \in Groups \ {g} : group'[h] = group[h]
        /\ group' \in [Groups -> GroupType]
    BY <1>1, <1>3 DEF GroupType, Terminate
  <2>2. /\ group'[g].kind = group[g].kind /\ group'[g].told
        /\ group'[g].leader = group[g].leader
    BY <1>1, <2>1 DEF GroupType
  <2> QED BY <2>1, <2>2 DEF GroupsAge, Up
<1>4. CASE group' = Kill(g)
  <2>1. /\ group'[g] = [group[g] EXCEPT !.told = TRUE, !.leader = "down"]
        /\ \A h \in Groups \ {g} : group'[h] = group[h]
        /\ group' \in [Groups -> GroupType]
    BY <1>1, <1>4 DEF GroupType, Kill
  <2>2. /\ group'[g].kind = group[g].kind /\ group'[g].told
        /\ group'[g].leader = "down"
    BY <1>1, <2>1 DEF GroupType
  <2> QED BY <2>1, <2>2 DEF GroupsAge, Up
<1> QED BY <1>2, <1>3, <1>4

LEMMA SpawnAges ==
  ASSUME TypeOK, NEW g \in Groups, NEW kind \in {"sidecar", "runtime"},
         Spawn(g, kind)
  PROVE  /\ GroupsAge
         /\ group' \in [Groups -> GroupType]
         /\ group'[g] = [kind |-> kind, leader |-> "up", told |-> FALSE]
         /\ group[g].kind = "unused"
         /\ \A h \in Groups \ {g} : group'[h] = group[h]
<1>1. group \in [Groups -> GroupType]
  BY ThreadType
<1>2. /\ group[g].kind = "unused"
      /\ group' = [group EXCEPT ![g] = [kind |-> kind, leader |-> "up",
                                        told |-> FALSE]]
  BY DEF Spawn
<1> QED BY <1>1, <1>2 DEF GroupType, GroupsAge, Up

-----------------------------------------------------------------------------
(* Steps of one thread                                                     *)

(* What a step of one thread must show when it leaves the supervisor of    *)
(* the mutex alone.                                                        *)
LEMMA StepKeeps ==
  ASSUME IInv, NEW t \in Threads, NEW new \in Thread,
         thread' = [thread EXCEPT ![t] = new],
         UNCHANGED <<owned, announced, ended, expired, events, window>>,
         lock' \in Threads \cup {None}, app' \in {"running", "exited"},
         restarts' \in 0..MaxRestarts,
         status' \in {"starting", "ready", "failed"},
         group' \in [Groups -> GroupType], GroupsAge,
         slots' \in [runtime : OptionalGroup, sidecar : OptionalGroup],
         new.runtime # None => group'[new.runtime].kind = "runtime",
         new.sidecar # None => group'[new.sidecar].kind = "sidecar",
         ThreadOK(t)', TurnsOK', HeldOK', SlotsOK'
  PROVE  IInv'
<1>1. /\ thread \in [Threads -> Thread]
      /\ thread' \in [Threads -> Thread]
      /\ thread'[t] = new
      /\ \A u \in Threads \ {t} : thread'[u] = thread[u]
  BY ThreadType DEF IInv
<1>2. TypeOK'
  BY <1>1 DEF IInv, TypeOK, Thread, GroupType
<1>3. ASSUME NEW u \in Threads
      PROVE  ThreadOK(u)'
  <2>1. CASE u = t
    BY <2>1
  <2>2. CASE u # t
    <3>1. ThreadOK(u) /\ thread'[u] = thread[u]
      BY <1>1, <2>2 DEF IInv
    <3>2. /\ thread[u].runtime \in OptionalGroup
          /\ thread[u].runtime # None => group[thread[u].runtime].kind = "runtime"
      BY <1>1 DEF Thread, IInv, KindsOK
    <3> QED BY <3>1, <3>2 DEF ThreadOK, GroupsAge, OptionalGroup, HoldsRuntime, Up
  <2> QED BY <2>1, <2>2
<1>4. KindsOK'
  <2>1. /\ owned.runtime \in OptionalGroup
        /\ owned.sidecar \in OptionalGroup
        /\ \A u \in Threads : /\ thread[u].runtime \in OptionalGroup
                              /\ thread[u].sidecar \in OptionalGroup
    BY <1>1, ThreadType DEF Thread, IInv
  <2> QED BY <1>1, <2>1 DEF IInv, KindsOK, GroupsAge, OptionalGroup
<1>5. SignalReachesChildren'
  BY DEF SignalReachesChildren
<1> QED BY <1>2, <1>3, <1>4, <1>5 DEF IInv

(* The same for a step that leaves the mutex alone too.                    *)
LEMMA ThreadKeeps ==
  ASSUME IInv, app = "running", NEW t \in Threads, NEW new \in Thread,
         thread' = [thread EXCEPT ![t] = new],
         UNCHANGED <<owned, lock, app, announced, ended, expired, events, window>>,
         restarts' \in 0..MaxRestarts,
         status' \in {"starting", "ready", "failed"},
         group' \in [Groups -> GroupType], GroupsAge,
         slots' \in [runtime : OptionalGroup, sidecar : OptionalGroup],
         new.runtime # None => group'[new.runtime].kind = "runtime",
         new.sidecar # None => group'[new.sidecar].kind = "sidecar",
         ThreadOK(t)', TurnsOK', HeldOK', SlotsOK'
  PROVE  IInv'
<1>1. lock' \in Threads \cup {None} /\ app' \in {"running", "exited"}
  BY DEF IInv, TypeOK
<1> QED BY <1>1, StepKeeps

(* Children a thread lets go of are gone, and a runtime was told.          *)
LEMMA HeldKept ==
  ASSUME IInv, NEW t \in Threads, NEW new \in Thread,
         thread' = [thread EXCEPT ![t] = new],
         UNCHANGED owned, GroupsAge,
         \A h \in Groups : group'[h].kind = group[h].kind,
         \A h \in Groups : Up(h)' => Up(h),
         \A h \in Children(t) \ {new.runtime, new.sidecar} :
           /\ ~Up(h)'
           /\ group'[h].kind = "runtime" => group'[h].told
  PROVE  HeldOK'
<1>1. /\ thread \in [Threads -> Thread]
      /\ thread'[t] = new
      /\ \A u \in Threads \ {t} : thread'[u] = thread[u]
  BY ThreadType DEF IInv
<1>2. OwnedChildren' = OwnedChildren
  BY DEF OwnedChildren
<1>3. \A u \in Threads \ {t} : Children(u)' = Children(u)
  BY <1>1 DEF Children
<1>4. Children(t)' = {new.runtime, new.sidecar} \ {None}
  BY <1>1 DEF Children
<1>5. ASSUME NEW h \in Groups, h \in Held, h \notin Held'
      PROVE  h \in Children(t) \ {new.runtime, new.sidecar}
  BY <1>2, <1>3, <1>4, <1>5, ConstantsAssumption DEF Held
<1> QED BY <1>5 DEF IInv, HeldOK, GroupsAge

(* A new child is in the hands of the thread that spawned it.              *)
LEMMA HeldSpawned ==
  ASSUME IInv, NEW t \in Threads, NEW new \in Thread,
         thread' = [thread EXCEPT ![t] = new],
         UNCHANGED owned,
         NEW g \in Groups, NEW kind \in {"sidecar", "runtime"}, Spawn(g, kind),
         g \in {new.runtime, new.sidecar},
         Children(t) \subseteq {new.runtime, new.sidecar}
  PROVE  HeldOK'
<1>1. /\ thread \in [Threads -> Thread]
      /\ thread'[t] = new
      /\ \A u \in Threads \ {t} : thread'[u] = thread[u]
  BY ThreadType DEF IInv
<1>2. OwnedChildren' = OwnedChildren
  BY DEF OwnedChildren
<1>3. \A u \in Threads \ {t} : Children(u)' = Children(u)
  BY <1>1 DEF Children
<1>4. Children(t)' = {new.runtime, new.sidecar} \ {None}
  BY <1>1 DEF Children
<1>5. \A h \in Groups : h \in Held \/ h = g => h \in Held'
  BY <1>2, <1>3, <1>4, ConstantsAssumption DEF Held, Children
<1>6. /\ group'[g] = [kind |-> kind, leader |-> "up", told |-> FALSE]
      /\ \A h \in Groups \ {g} : group'[h] = group[h]
  BY SpawnAges DEF IInv
<1> QED BY <1>5, <1>6 DEF IInv, HeldOK, Up

(* While a thread starts children, or stops them under the mutex, nobody   *)
(* else holds any.                                                         *)
AloneIn(t) ==
  /\ owned = Nobody
  /\ \A u \in Threads \ {t} : /\ thread[u].pc \in {"idle", "loop", "watch", "stop", "stopped"}
                              /\ thread[u].runtime = None
                              /\ thread[u].sidecar = None

LEMMA StartsAlone ==
  ASSUME IInv, NEW t \in Threads, thread[t].pc \in Starting
  PROVE  AloneIn(t) /\ lock = None
<1>1. /\ thread[Main].pc \in {"loop", "idle", "watch"} \cup Starting \cup Stopping
      /\ thread[Watcher].pc \in {"loop", "idle", "watch"} \cup Starting \cup Stopping
      /\ lock \in {Main, Watcher, None}
  BY ThreadType DEF Thread, IInv, TypeOK, Threads
<1>2. ThreadOK(Main) /\ ThreadOK(Watcher) /\ TurnsOK /\ ~Unlocking(t)
  BY DEF IInv, Threads, Unlocking, Starting
<1>3. CASE t = Main
  BY <1>1, <1>2, <1>3 DEF TurnsOK, Threads, ThreadOK, AloneIn, HoldsNothing
<1>4. CASE t = Watcher
  <2>1. /\ thread[Watcher].pc \notin {"idle", "watch", "stop"}
        /\ thread[Main].pc \notin Starting
    BY <1>1, <1>2, <1>4 DEF TurnsOK, Starting
  <2>2. lock = None /\ owned = Nobody
    BY <1>1, <1>2, <1>4, <2>1 DEF TurnsOK, Threads
  <2>3. thread[Main].pc \in {"loop", "stop", "stopped"} /\ ~Unlocking(Main)
    BY <1>1, <1>2, <2>1, <2>2, ConstantsAssumption
       DEF TurnsOK, Threads, Unlocking, Stopping
  <2>4. thread[Main].runtime = None /\ thread[Main].sidecar = None
    BY <1>2, <2>3 DEF ThreadOK, HoldsNothing, Unlocking
  <2> QED BY <1>4, <2>2, <2>3, <2>4 DEF AloneIn, Threads
<1> QED BY <1>3, <1>4 DEF Threads

LEMMA StopsAlone ==
  ASSUME IInv, NEW t \in Threads, Unlocking(t)
  PROVE  AloneIn(t) /\ lock = t
<1>1. /\ thread[Main].pc \in {"loop", "idle", "watch"} \cup Starting \cup Stopping
      /\ thread[Watcher].pc \in {"loop", "idle", "watch"} \cup Starting \cup Stopping
  BY ThreadType DEF Thread, IInv, TypeOK, Threads
<1>2. ThreadOK(Main) /\ ThreadOK(Watcher) /\ TurnsOK
  BY DEF IInv, Threads
<1>3. lock = t /\ owned = Nobody
  BY <1>2, ConstantsAssumption DEF TurnsOK, Threads
<1>4. CASE t = Main
  BY <1>2, <1>3, <1>4 DEF TurnsOK, Threads, ThreadOK, AloneIn, HoldsNothing
<1>5. CASE t = Watcher
  <2>1. thread[Watcher].pc # "idle" /\ thread[Main].pc \notin Starting
    BY <1>2, <1>5 DEF TurnsOK, Unlocking
  <2>2. thread[Main].pc \in {"loop", "stop", "stopped"} /\ ~Unlocking(Main)
    BY <1>1, <1>2, <1>3, <1>5, <2>1, ConstantsAssumption
       DEF TurnsOK, Threads, Unlocking, Stopping
  <2>3. thread[Main].runtime = None /\ thread[Main].sidecar = None
    BY <1>2, <2>2 DEF ThreadOK, HoldsNothing, Unlocking
  <2> QED BY <1>3, <1>5, <2>2, <2>3 DEF AloneIn, Threads
<1> QED BY <1>4, <1>5 DEF Threads

(* A step of a launch.                                                     *)
LEMMA StartingKeeps ==
  ASSUME IInv, app = "running", NEW t \in Threads, NEW new \in Thread,
         thread' = [thread EXCEPT ![t] = new],
         thread[t].pc \in Starting, new.pc \in Starting,
         UNCHANGED <<owned, lock, app, restarts, uiVars>>,
         group' \in [Groups -> GroupType], GroupsAge,
         slots' \in [runtime : OptionalGroup, sidecar : OptionalGroup],
         new.runtime # None => group'[new.runtime].kind = "runtime",
         new.sidecar # None => group'[new.sidecar].kind = "sidecar",
         new.pc \in {"patch", "runtime", "publishRuntime", "adopt"}
           /\ new.sidecar # None => slots'.sidecar = new.sidecar,
         new.pc = "adopt" => slots'.runtime = new.runtime,
         ThreadOK(t)', HeldOK'
  PROVE  IInv'
<1>1. /\ thread \in [Threads -> Thread]
      /\ thread'[t] = new
      /\ \A u \in Threads \ {t} : thread'[u] = thread[u]
  BY ThreadType DEF IInv
<1>2. AloneIn(t) /\ lock = None /\ TurnsOK
  BY StartsAlone DEF IInv
<1>3. TurnsOK'
  <2>1. \A u \in Threads : ~Unlocking(u)'
    <3>1. ~Unlocking(t)'
      BY <1>1 DEF Unlocking, Starting
    <3>2. \A u \in Threads \ {t} : Unlocking(u)' <=> Unlocking(u)
      BY <1>1 DEF Unlocking
    <3> QED BY <1>2, <3>1, <3>2, ConstantsAssumption DEF TurnsOK, AloneIn, Unlocking
  <2>2. owned' = Nobody /\ lock' = None /\ app' = "running"
    BY <1>2 DEF AloneIn
  <2>3. /\ thread'[Main].pc \notin {"idle", "watch"}
        /\ thread'[Watcher].pc # "loop"
        /\ thread'[Main].pc \in Starting => thread'[Watcher].pc = "idle"
    BY <1>1, <1>2, ConstantsAssumption DEF TurnsOK, Threads, Starting
  <2>4. \A u \in Threads : lock' # u
    BY <2>2, <1>2, <2>1 DEF TurnsOK, AloneIn, Unlocking, Starting
  <2> QED BY <2>1, <2>2, <2>3, <2>4 DEF TurnsOK, Threads
<1>4. SlotsOK'
  BY <1>1, <1>2 DEF SlotsOK, AloneIn
<1> QED BY <1>3, <1>4, ThreadKeeps DEF uiVars, IInv, TypeOK

(* A step of a stop, under the mutex.                                      *)
LEMMA StoppingKeeps ==
  ASSUME IInv, app = "running", NEW t \in Threads, NEW new \in Thread,
         thread' = [thread EXCEPT ![t] = new],
         Unlocking(t), Unlocking(t)',
         UNCHANGED <<slots, owned, lock, app, restarts, uiVars>>,
         group' \in [Groups -> GroupType], GroupsAge,
         new.runtime # None => group'[new.runtime].kind = "runtime",
         new.sidecar # None => group'[new.sidecar].kind = "sidecar",
         ThreadOK(t)', HeldOK'
  PROVE  IInv'
<1>1. /\ thread \in [Threads -> Thread]
      /\ thread'[t] = new
      /\ \A u \in Threads \ {t} : thread'[u] = thread[u]
  BY ThreadType DEF IInv
<1>2. AloneIn(t) /\ lock = t /\ TurnsOK
  BY StopsAlone DEF IInv
<1>3. new.pc \in {"stopSidecar", "waitSidecar", "stopRuntime", "waitRuntime", "stopped"}
  BY <1>1 DEF Unlocking
<1>4. TurnsOK'
  <2>1. \A u \in Threads \ {t} : Unlocking(u)' <=> Unlocking(u)
    BY <1>1 DEF Unlocking
  <2>2. \A u \in Threads : lock' = u <=> Unlocking(u)'
    BY <1>1, <1>2, <2>1 DEF TurnsOK
  <2>3. owned' = Nobody /\ lock' = t /\ app' = "running"
    BY <1>2 DEF AloneIn
  <2>4. /\ thread'[Main].pc \notin {"idle", "watch"}
        /\ thread'[Watcher].pc # "loop"
        /\ thread'[Main].pc \in Starting => thread'[Watcher].pc = "idle"
        /\ thread'[Watcher].pc = "idle" => FALSE
        /\ t = Main => thread'[Watcher].pc \in {"watch", "stop"}
    <3>1. t = Main \/ t = Watcher
      BY DEF Threads
    <3>2. thread[t].pc \notin Starting \cup {"idle"}
      BY DEF Unlocking, Starting
    <3>3. CASE t = Main
      BY <1>1, <1>2, <1>3, <3>2, <3>3, ConstantsAssumption DEF TurnsOK, Threads, Starting
    <3>4. CASE t = Watcher
      BY <1>1, <1>2, <1>3, <3>2, <3>4, ConstantsAssumption DEF TurnsOK, Threads, Starting
    <3> QED BY <3>1, <3>3, <3>4
  <2> QED BY <2>2, <2>3, <2>4 DEF TurnsOK
<1>5. SlotsOK'
  BY <1>1, <1>2, <1>3 DEF SlotsOK, AloneIn
<1> QED BY <1>4, <1>5, ThreadKeeps, ThreadType DEF uiVars, IInv, TypeOK


-----------------------------------------------------------------------------
(* Each action keeps the invariant                                         *)

LEMMA ThreadFacts ==
  ASSUME IInv, NEW t \in Threads
  PROVE  /\ thread \in [Threads -> Thread]
         /\ thread[t] \in Thread
         /\ group \in [Groups -> GroupType]
         /\ slots \in [runtime : OptionalGroup, sidecar : OptionalGroup]
         /\ ThreadOK(t)
         /\ thread[t].runtime \in OptionalGroup
         /\ thread[t].sidecar \in OptionalGroup
         /\ thread[t].runtime # None => group[thread[t].runtime].kind = "runtime"
         /\ thread[t].sidecar # None => group[thread[t].sidecar].kind = "sidecar"
BY ThreadType DEF IInv, Thread, KindsOK

LEMMA SameGroups ==
  ASSUME IInv, UNCHANGED group
  PROVE  /\ GroupsAge
         /\ group' \in [Groups -> GroupType]
         /\ \A h \in Groups : group'[h].kind = group[h].kind
         /\ \A h \in Groups : Up(h)' => Up(h)
BY ThreadType DEF IInv, GroupsAge, Up

(* What Goto(t, pc) leaves of a thread, and what it leaves when the        *)
(* sidecar is let go of as well.                                           *)
Moved(t, pc) == [thread[t] EXCEPT !.pc = pc]
LetGo(t, pc) == [thread[t] EXCEPT !.pc = pc, !.sidecar = None]

LEMMA MovedIs ==
  ASSUME IInv, NEW t \in Threads,
         NEW pc \in {"loop", "idle", "watch"} \cup Starting \cup Stopping
  PROVE  /\ Moved(t, pc) \in Thread
         /\ Moved(t, pc).pc = pc
         /\ Moved(t, pc).runtime = thread[t].runtime
         /\ Moved(t, pc).sidecar = thread[t].sidecar
         /\ Goto(t, pc) => /\ thread' = [thread EXCEPT ![t] = Moved(t, pc)]
                           /\ thread'[t] = Moved(t, pc)
BY ThreadFacts DEF Moved, Goto, Thread

LEMMA LetGoIs ==
  ASSUME IInv, NEW t \in Threads,
         NEW pc \in {"loop", "idle", "watch"} \cup Starting \cup Stopping
  PROVE  /\ LetGo(t, pc) \in Thread
         /\ LetGo(t, pc).pc = pc
         /\ LetGo(t, pc).runtime = thread[t].runtime
         /\ LetGo(t, pc).sidecar = None
         /\ thread' = [thread EXCEPT ![t].pc = pc, ![t].sidecar = None]
              => /\ thread' = [thread EXCEPT ![t] = LetGo(t, pc)]
                 /\ thread'[t] = LetGo(t, pc)
<1>1. thread \in [Threads -> Thread] /\ thread[t] \in Thread /\ None \in OptionalGroup
  BY ThreadFacts DEF OptionalGroup
<1>2. /\ LetGo(t, pc) \in Thread
      /\ LetGo(t, pc).pc = pc
      /\ LetGo(t, pc).runtime = thread[t].runtime
      /\ LetGo(t, pc).sidecar = None
  BY <1>1 DEF LetGo, Thread
<1>3. thread' = [thread EXCEPT ![t].pc = pc, ![t].sidecar = None]
        => thread' = [thread EXCEPT ![t] = LetGo(t, pc)]
  BY <1>1 DEF LetGo
<1> QED BY <1>1, <1>2, <1>3

LEMMA PrepareKeeps ==
  ASSUME IInv, NEW t \in Threads, Prepare(t)
  PROVE  IInv'
<1>1. /\ thread[t] \in Thread /\ thread \in [Threads -> Thread]
      /\ thread[t].pc = "prepare" /\ app = "running"
      /\ UNCHANGED <<group, slots, owned, lock, app, restarts, uiVars>>
      /\ thread[t].runtime = None /\ thread[t].sidecar = None
  BY ThreadFacts DEF Prepare, At, childVars, ThreadOK, HoldsNothing
<1>2. PICK pc \in {"failed", "patch", "sidecar"} :
        thread' = [thread EXCEPT ![t].pc = pc, ![t].ports = Ports]
  BY DEF Prepare
<1> DEFINE new == [thread[t] EXCEPT !.pc = pc, !.ports = Ports]
<1>3. /\ new \in Thread /\ thread' = [thread EXCEPT ![t] = new] /\ thread'[t] = new
      /\ new.pc = pc /\ new.runtime = None /\ new.sidecar = None
  <2>1. thread' = [thread EXCEPT ![t] = new]
    BY <1>1, <1>2
  <2>2. pc \in {"loop", "idle", "watch"} \cup Starting \cup Stopping /\ Ports \in 0..Ports
    BY ConstantsAssumption DEF Starting
  <2>3. new \in Thread
    BY <1>1, <2>2 DEF Thread
  <2>4. new.pc = pc /\ new.runtime = None /\ new.sidecar = None
    BY <1>1 DEF Thread
  <2> QED BY <1>1, <2>1, <2>3, <2>4
<1>4. /\ group' \in [Groups -> GroupType] /\ GroupsAge
      /\ slots' \in [runtime : OptionalGroup, sidecar : OptionalGroup]
      /\ \A h \in Groups : group'[h].kind = group[h].kind
      /\ \A h \in Groups : Up(h)' => Up(h)
  BY <1>1, ThreadFacts, SameGroups
<1> HIDE DEF new
<1>5. HeldOK'
  BY <1>1, <1>3, <1>4, HeldKept DEF Children
<1>6. ThreadOK(t)'
  BY <1>3 DEF ThreadOK, HoldsRuntime, HoldsSidecar
<1> QED BY <1>1, <1>3, <1>4, <1>5, <1>6, StartingKeeps DEF Starting

LEMMA StartSidecarKeeps ==
  ASSUME IInv, NEW t \in Threads, StartSidecar(t)
  PROVE  IInv'
<1>1. /\ thread[t] \in Thread /\ thread \in [Threads -> Thread]
      /\ thread[t].pc = "sidecar" /\ app = "running"
      /\ UNCHANGED <<slots, owned, lock, app, restarts, uiVars>>
      /\ slots' \in [runtime : OptionalGroup, sidecar : OptionalGroup]
      /\ thread[t].runtime = None /\ thread[t].sidecar = None
  BY ThreadFacts DEF StartSidecar, At, ThreadOK, HoldsNothing
<1>2. ASSUME thread[t].ports > 0, NEW g \in Groups, Spawn(g, "sidecar"),
             thread' = [thread EXCEPT ![t].pc = "health", ![t].sidecar = g,
                                      ![t].ports = @ - 1]
      PROVE  IInv'
  <2> DEFINE new == [thread[t] EXCEPT !.pc = "health", !.sidecar = g,
                                      !.ports = @ - 1]
  <2>1. thread' = [thread EXCEPT ![t] = new] /\ thread'[t] = new
    BY <1>1, <1>2
  <2>2. thread[t].ports - 1 \in 0..Ports /\ g \in OptionalGroup /\ g # None
    BY <1>1, <1>2, ConstantsAssumption DEF Thread, OptionalGroup
  <2>3. /\ new \in Thread
        /\ new.pc = "health" /\ new.runtime = None /\ new.sidecar = g
    BY <1>1, <2>2 DEF Thread, Starting
  <2> HIDE DEF new
  <2>4. /\ GroupsAge /\ group' \in [Groups -> GroupType]
        /\ group'[g].kind = "sidecar"
    BY <1>2, SpawnAges DEF IInv
  <2>5. HeldOK'
    <3>1. Children(t) = {} /\ g \in {new.runtime, new.sidecar}
      BY <1>1, <2>3 DEF Children
    <3> QED BY <1>1, <1>2, <2>1, <2>3, <3>1, HeldSpawned
  <2>6. ThreadOK(t)'
    BY <2>1, <2>2, <2>3 DEF ThreadOK, HoldsNothing, HoldsRuntime
  <2> QED BY <1>1, <2>1, <2>3, <2>4, <2>5, <2>6, StartingKeeps DEF Starting
<1>3. ASSUME Goto(t, "patch"), UNCHANGED group
      PROVE  IInv'
  <2> DEFINE new == Moved(t, "patch")
  <2>1. /\ new \in Thread /\ thread' = [thread EXCEPT ![t] = new] /\ thread'[t] = new
        /\ new.pc = "patch" /\ new.runtime = None /\ new.sidecar = None
    BY <1>1, <1>3, MovedIs DEF Starting
  <2> HIDE DEF new
  <2>2. HeldOK'
    BY <1>1, <1>3, <2>1, SameGroups, HeldKept DEF Children
  <2>3. ThreadOK(t)'
    BY <2>1 DEF ThreadOK, HoldsNothing, HoldsRuntime, HoldsSidecar
  <2> QED BY <1>1, <1>3, <2>1, <2>2, <2>3, SameGroups, StartingKeeps DEF Starting
<1> QED BY <1>2, <1>3 DEF StartSidecar

LEMMA SidecarHealthKeeps ==
  ASSUME IInv, NEW t \in Threads, SidecarHealth(t)
  PROVE  IInv'
<1> DEFINE g == thread[t].sidecar
<1>1. /\ thread[t] \in Thread /\ thread \in [Threads -> Thread]
      /\ thread[t].pc = "health" /\ app = "running"
      /\ UNCHANGED <<slots, owned, lock, app, restarts, uiVars>>
      /\ slots' \in [runtime : OptionalGroup, sidecar : OptionalGroup]
      /\ thread[t].runtime = None /\ g \in Groups /\ g # None
      /\ group[g].kind = "sidecar"
  BY ThreadFacts DEF SidecarHealth, At, ThreadOK, HoldsSidecar, OptionalGroup
<1>2. PICK pc \in {"publish", "waitPort"} :
        Goto(t, pc) /\ group' \in {group, Terminate(g)}
  BY DEF SidecarHealth
<1> DEFINE new == Moved(t, pc)
<1>3. /\ new \in Thread /\ thread' = [thread EXCEPT ![t] = new] /\ thread'[t] = new
      /\ new.pc = pc /\ new.runtime = None /\ new.sidecar = g
  BY <1>1, <1>2, MovedIs DEF Starting
<1>4. /\ GroupsAge /\ group' \in [Groups -> GroupType]
      /\ \A h \in Groups : group'[h].kind = group[h].kind
      /\ \A h \in Groups : Up(h)' => Up(h)
  BY <1>1, <1>2, TerminateAges DEF IInv
<1> HIDE DEF new, g
<1>5. HeldOK'
  BY <1>1, <1>3, <1>4, HeldKept DEF Children, g
<1>6. ThreadOK(t)'
  BY <1>1, <1>3 DEF ThreadOK, HoldsNothing, HoldsRuntime
<1> QED BY <1>1, <1>3, <1>4, <1>5, <1>6, StartingKeeps DEF Starting

LEMMA PublishSidecarKeeps ==
  ASSUME IInv, NEW t \in Threads, PublishSidecar(t)
  PROVE  IInv'
<1> DEFINE g == thread[t].sidecar
           new == Moved(t, "patch")
<1>1. /\ thread[t] \in Thread /\ thread \in [Threads -> Thread]
      /\ thread[t].pc = "publish" /\ app = "running"
      /\ UNCHANGED <<group, owned, lock, app, restarts, uiVars>>
      /\ thread[t].runtime = None /\ g \in Groups /\ g # None
      /\ group[g].kind = "sidecar"
  BY ThreadFacts DEF PublishSidecar, At, ThreadOK, HoldsSidecar, OptionalGroup
<1>2. /\ slots' \in [runtime : OptionalGroup, sidecar : OptionalGroup]
      /\ slots'.sidecar = g
  BY <1>1, ThreadFacts DEF PublishSidecar, OptionalGroup
<1>3. /\ new \in Thread /\ thread' = [thread EXCEPT ![t] = new] /\ thread'[t] = new
      /\ new.pc = "patch" /\ new.runtime = None /\ new.sidecar = g
  BY <1>1, MovedIs DEF Starting, PublishSidecar
<1> HIDE DEF new, g
<1>4. HeldOK'
  BY <1>1, <1>3, SameGroups, HeldKept DEF Children, g
<1>5. ThreadOK(t)'
  BY <1>1, <1>3 DEF ThreadOK, HoldsNothing, HoldsRuntime, HoldsSidecar
<1> QED BY <1>1, <1>2, <1>3, <1>4, <1>5, SameGroups, StartingKeeps DEF Starting

LEMMA WritePatchKeeps ==
  ASSUME IInv, NEW t \in Threads, WritePatch(t)
  PROVE  IInv'
<1>1. /\ thread[t] \in Thread /\ thread \in [Threads -> Thread]
      /\ thread[t].pc = "patch" /\ app = "running"
      /\ UNCHANGED <<group, slots, owned, lock, app, restarts, uiVars>>
      /\ slots \in [runtime : OptionalGroup, sidecar : OptionalGroup]
      /\ thread[t].runtime = None
      /\ thread[t].sidecar # None => group[thread[t].sidecar].kind = "sidecar"
      /\ thread[t].sidecar # None => slots.sidecar = thread[t].sidecar
  BY ThreadFacts DEF WritePatch, At, ThreadOK, childVars, IInv, SlotsOK
<1>2. PICK pc \in {"runtime", "failed", "dropSidecar"} :
        /\ Goto(t, pc)
        /\ pc = "failed" => thread[t].sidecar = None
        /\ pc = "dropSidecar" => thread[t].sidecar # None
  BY DEF WritePatch
<1> DEFINE new == Moved(t, pc)
<1>3. /\ new \in Thread /\ thread' = [thread EXCEPT ![t] = new] /\ thread'[t] = new
      /\ new.pc = pc /\ new.runtime = None /\ new.sidecar = thread[t].sidecar
  BY <1>1, <1>2, MovedIs DEF Starting
<1> HIDE DEF new
<1>4. HeldOK'
  BY <1>1, <1>3, SameGroups, HeldKept DEF Children
<1>5. ThreadOK(t)'
  BY <1>1, <1>2, <1>3 DEF ThreadOK, HoldsNothing, HoldsRuntime, HoldsSidecar
<1> QED BY <1>1, <1>3, <1>4, <1>5, SameGroups, StartingKeeps DEF Starting

LEMMA SpawnRuntimeKeeps ==
  ASSUME IInv, NEW t \in Threads, SpawnRuntime(t)
  PROVE  IInv'
<1>1. /\ thread[t] \in Thread /\ thread \in [Threads -> Thread]
      /\ thread[t].pc = "runtime" /\ app = "running"
      /\ UNCHANGED <<slots, owned, lock, app, restarts, uiVars>>
      /\ slots' \in [runtime : OptionalGroup, sidecar : OptionalGroup]
      /\ thread[t].runtime = None /\ thread[t].sidecar \in OptionalGroup
      /\ thread[t].sidecar # None => group[thread[t].sidecar].kind = "sidecar"
      /\ thread[t].sidecar # None => slots'.sidecar = thread[t].sidecar
  BY ThreadFacts DEF SpawnRuntime, At, ThreadOK, IInv, SlotsOK
<1>2. ASSUME NEW g \in Groups, Spawn(g, "runtime"),
             thread' = [thread EXCEPT ![t].pc = "publishRuntime", ![t].runtime = g]
      PROVE  IInv'
  <2> DEFINE new == [thread[t] EXCEPT !.pc = "publishRuntime", !.runtime = g]
  <2>1. thread' = [thread EXCEPT ![t] = new] /\ thread'[t] = new
    BY <1>1, <1>2
  <2>2. g \in OptionalGroup /\ g # None
    BY ConstantsAssumption DEF OptionalGroup
  <2>3. /\ new \in Thread /\ new.pc = "publishRuntime" /\ new.runtime = g
        /\ new.sidecar = thread[t].sidecar
    BY <1>1, <2>2 DEF Thread, Starting
  <2> HIDE DEF new
  <2>4. /\ GroupsAge /\ group' \in [Groups -> GroupType]
        /\ group'[g].kind = "runtime"
        /\ new.sidecar # None => group'[new.sidecar].kind = "sidecar"
    BY <1>1, <1>2, <2>3, SpawnAges DEF IInv, OptionalGroup
  <2>5. HeldOK'
    BY <1>1, <1>2, <2>1, <2>3, HeldSpawned DEF Children
  <2>6. ThreadOK(t)'
    BY <2>1, <2>2, <2>3 DEF ThreadOK, HoldsNothing, HoldsSidecar
  <2> QED BY <1>1, <2>1, <2>3, <2>4, <2>5, <2>6, StartingKeeps DEF Starting
<1>3. ASSUME NEW pc \in {"failed", "dropSidecar"}, Goto(t, pc), UNCHANGED group,
             pc = "failed" <=> thread[t].sidecar = None
      PROVE  IInv'
  <2> DEFINE new == Moved(t, pc)
  <2>1. /\ new \in Thread /\ thread' = [thread EXCEPT ![t] = new] /\ thread'[t] = new
        /\ new.pc = pc /\ new.runtime = None /\ new.sidecar = thread[t].sidecar
    BY <1>1, <1>3, MovedIs DEF Starting
  <2> HIDE DEF new
  <2>2. HeldOK'
    BY <1>1, <1>3, <2>1, SameGroups, HeldKept DEF Children
  <2>3. ThreadOK(t)'
    BY <1>3, <2>1 DEF ThreadOK, HoldsNothing, HoldsRuntime, HoldsSidecar
  <2> QED BY <1>1, <1>3, <2>1, <2>2, <2>3, SameGroups, StartingKeeps DEF Starting
<1> QED BY <1>2, <1>3 DEF SpawnRuntime

LEMMA PublishRuntimeKeeps ==
  ASSUME IInv, NEW t \in Threads, PublishRuntime(t)
  PROVE  IInv'
<1> DEFINE new == Moved(t, "adopt")
<1>1. /\ thread[t] \in Thread /\ thread \in [Threads -> Thread]
      /\ thread[t].pc = "publishRuntime" /\ app = "running"
      /\ UNCHANGED <<group, owned, lock, app, restarts, uiVars>>
      /\ thread[t].runtime # None
      /\ group[thread[t].runtime].kind = "runtime"
      /\ thread[t].sidecar # None => group[thread[t].sidecar].kind = "sidecar"
      /\ thread[t].sidecar # None => slots.sidecar = thread[t].sidecar
  BY ThreadFacts DEF PublishRuntime, At, ThreadOK, IInv, SlotsOK, HoldsRuntime
<1>2. /\ slots' \in [runtime : OptionalGroup, sidecar : OptionalGroup]
      /\ slots'.sidecar = slots.sidecar
      /\ slots'.runtime = thread[t].runtime
  BY ThreadFacts DEF PublishRuntime
<1>3. /\ new \in Thread /\ thread' = [thread EXCEPT ![t] = new] /\ thread'[t] = new
      /\ new.pc = "adopt" /\ new.runtime = thread[t].runtime
      /\ new.sidecar = thread[t].sidecar
  BY <1>1, MovedIs DEF Starting, PublishRuntime
<1> HIDE DEF new
<1>4. HeldOK'
  BY <1>1, <1>3, SameGroups, HeldKept DEF Children
<1>5. ThreadOK(t)'
  BY <1>1, <1>3 DEF ThreadOK, HoldsNothing, HoldsSidecar
<1> QED BY <1>1, <1>2, <1>3, <1>4, <1>5, SameGroups, StartingKeeps DEF Starting

LEMMA DropSidecarKeeps ==
  ASSUME IInv, NEW t \in Threads, DropSidecar(t)
  PROVE  IInv'
<1> DEFINE g == thread[t].sidecar
           new == Moved(t, "waitDropped")
<1>1. /\ thread[t] \in Thread /\ thread \in [Threads -> Thread]
      /\ thread[t].pc = "dropSidecar" /\ app = "running"
      /\ UNCHANGED <<slots, owned, lock, app, restarts, uiVars>>
      /\ slots' \in [runtime : OptionalGroup, sidecar : OptionalGroup]
      /\ thread[t].runtime = None /\ g \in Groups /\ g # None
      /\ group[g].kind = "sidecar"
  BY ThreadFacts DEF DropSidecar, At, ThreadOK, HoldsSidecar, OptionalGroup
<1>2. /\ new \in Thread /\ thread' = [thread EXCEPT ![t] = new] /\ thread'[t] = new
      /\ new.pc = "waitDropped" /\ new.runtime = None /\ new.sidecar = g
  BY <1>1, MovedIs DEF DropSidecar, Starting
<1>3. group' \in {group, Terminate(g)}
  BY DEF DropSidecar
<1>4. /\ GroupsAge /\ group' \in [Groups -> GroupType]
      /\ \A h \in Groups : group'[h].kind = group[h].kind
      /\ \A h \in Groups : Up(h)' => Up(h)
  BY <1>1, <1>3, TerminateAges DEF IInv
<1> HIDE DEF new, g
<1>5. HeldOK'
  BY <1>1, <1>2, <1>4, HeldKept DEF Children, g
<1>6. ThreadOK(t)'
  BY <1>1, <1>2 DEF ThreadOK, HoldsNothing, HoldsRuntime
<1> QED BY <1>1, <1>2, <1>4, <1>5, <1>6, StartingKeeps DEF Starting

LEMMA KillEnds ==
  ASSUME IInv, NEW g \in Groups, group' = IF Up(g) THEN Kill(g) ELSE group
  PROVE  /\ GroupsAge /\ group' \in [Groups -> GroupType]
         /\ \A h \in Groups : group'[h].kind = group[h].kind
         /\ \A h \in Groups : Up(h)' => Up(h)
         /\ ~Up(g)'
<1>1. ~Up(g)'
  BY ThreadType DEF IInv, Kill, Up, GroupType
<1>2. group' \in {group, Kill(g)} /\ TypeOK
  BY DEF IInv
<1> QED BY <1>1, <1>2, TerminateAges

LEMMA WaitDroppedKeeps ==
  ASSUME IInv, NEW t \in Threads, WaitDropped(t)
  PROVE  IInv'
<1>0. PICK g \in Groups : g = thread[t].sidecar /\ g # None
  BY ThreadFacts DEF WaitDropped, At, ThreadOK, HoldsSidecar, OptionalGroup
<1>1. /\ thread[t] \in Thread /\ thread \in [Threads -> Thread]
      /\ thread[t].pc \in {"waitDropped", "waitPort"} /\ app = "running"
      /\ UNCHANGED <<slots, owned, lock, app, restarts, uiVars>>
      /\ slots' \in [runtime : OptionalGroup, sidecar : OptionalGroup]
      /\ thread[t].runtime = None
      /\ group[g].kind = "sidecar"
      /\ group' = IF Up(g) THEN Kill(g) ELSE group
  BY <1>0, ThreadFacts DEF WaitDropped, At, ThreadOK, HoldsSidecar
<1>2. PICK pc \in {"sidecar", "failed"} :
        thread' = [thread EXCEPT ![t].pc = pc, ![t].sidecar = None]
  BY DEF WaitDropped
<1> DEFINE new == LetGo(t, pc)
<1>3. /\ new \in Thread /\ thread' = [thread EXCEPT ![t] = new] /\ thread'[t] = new
      /\ new.pc = pc /\ new.runtime = None /\ new.sidecar = None
  BY <1>1, <1>2, LetGoIs DEF Starting
<1>4. /\ GroupsAge /\ group' \in [Groups -> GroupType]
      /\ \A h \in Groups : group'[h].kind = group[h].kind
      /\ \A h \in Groups : Up(h)' => Up(h)
      /\ ~Up(g)'
  BY <1>1, KillEnds
<1> HIDE DEF new
<1>5. HeldOK'
  <2>1. \A h \in Children(t) : h = g
    BY <1>0, <1>1 DEF Children
  <2>2. \A h \in Children(t) \ {new.runtime, new.sidecar} :
          /\ ~Up(h)'
          /\ group'[h].kind = "runtime" => group'[h].told
    BY <1>1, <1>4, <2>1
  <2> QED BY <1>1, <1>3, <1>4, <2>2, HeldKept
<1>6. ThreadOK(t)'
  BY <1>3 DEF ThreadOK, HoldsSidecar, HoldsRuntime
<1> QED BY <1>1, <1>3, <1>4, <1>5, <1>6, StartingKeeps DEF Starting

-----------------------------------------------------------------------------
(* A stop, under the mutex                                                 *)

LEMMA StopSidecarKeeps ==
  ASSUME IInv, NEW t \in Threads, StopSidecar(t)
  PROVE  IInv'
<1> DEFINE g == thread[t].sidecar
<1>1. /\ thread[t] \in Thread /\ thread \in [Threads -> Thread]
      /\ thread[t].pc = "stopSidecar" /\ app = "running"
      /\ UNCHANGED <<slots, owned, lock, app, restarts, uiVars>>
      /\ thread[t].runtime # None /\ g \in OptionalGroup
      /\ group[thread[t].runtime].kind = "runtime"
      /\ g # None => g \in Groups /\ group[g].kind = "sidecar"
      /\ thread[t].runtime \in Groups
      /\ Unlocking(t)
  BY ThreadFacts DEF StopSidecar, At, ThreadOK, HoldsRuntime, OptionalGroup, Unlocking
<1>2. ASSUME g # None, group' = Terminate(g), Goto(t, "waitSidecar")
      PROVE  IInv'
  <2> DEFINE new == Moved(t, "waitSidecar")
  <2>1. /\ new \in Thread /\ thread' = [thread EXCEPT ![t] = new] /\ thread'[t] = new
        /\ new.pc = "waitSidecar" /\ new.runtime = thread[t].runtime /\ new.sidecar = g
    BY <1>1, <1>2, MovedIs DEF Stopping
  <2>2. /\ GroupsAge /\ group' \in [Groups -> GroupType]
        /\ \A h \in Groups : group'[h].kind = group[h].kind
        /\ \A h \in Groups : Up(h)' => Up(h)
    BY <1>1, <1>2, TerminateAges DEF IInv
  <2> HIDE DEF new, g
  <2>3. HeldOK'
    BY <1>1, <2>1, <2>2, HeldKept DEF Children, g
  <2>4. ThreadOK(t)' /\ Unlocking(t)'
    BY <1>1, <1>2, <2>1 DEF ThreadOK, HoldsNothing, HoldsSidecar, Unlocking
  <2> QED BY <1>1, <2>1, <2>2, <2>3, <2>4, StoppingKeeps
<1>3. ASSUME g # None => ~Up(g), UNCHANGED group,
             thread' = [thread EXCEPT ![t].pc = "stopRuntime", ![t].sidecar = None]
      PROVE  IInv'
  <2> DEFINE new == LetGo(t, "stopRuntime")
  <2>1. /\ new \in Thread /\ thread' = [thread EXCEPT ![t] = new] /\ thread'[t] = new
        /\ new.pc = "stopRuntime" /\ new.runtime = thread[t].runtime /\ new.sidecar = None
    BY <1>1, <1>3, LetGoIs DEF Stopping
  <2> HIDE DEF new
  <2>2. HeldOK'
    <3>1. \A h \in Children(t) \ {new.runtime, new.sidecar} : h = g
      BY <2>1 DEF Children
    <3>2. \A h \in Children(t) \ {new.runtime, new.sidecar} :
            /\ ~Up(h)'
            /\ group'[h].kind = "runtime" => group'[h].told
      BY <1>1, <1>3, <3>1 DEF Children, Up
    <3>3. /\ GroupsAge
          /\ \A h \in Groups : group'[h].kind = group[h].kind
          /\ \A h \in Groups : Up(h)' => Up(h)
      BY <1>3, SameGroups
    <3> HIDE DEF g
    <3> QED BY <1>1, <2>1, <3>2, <3>3, HeldKept
  <2>3. ThreadOK(t)' /\ Unlocking(t)'
    BY <1>1, <2>1 DEF ThreadOK, HoldsNothing, HoldsSidecar, Unlocking
  <2>4. /\ new.runtime # None => group'[new.runtime].kind = "runtime"
        /\ new.sidecar # None => group'[new.sidecar].kind = "sidecar"
    BY <1>1, <1>3, <2>1
  <2>5. GroupsAge /\ group' \in [Groups -> GroupType]
    BY <1>3, SameGroups
  <2> HIDE DEF g
  <2> QED BY <1>1, <2>1, <2>2, <2>3, <2>4, <2>5, StoppingKeeps
<1> QED BY <1>2, <1>3 DEF StopSidecar

LEMMA WaitSidecarKeeps ==
  ASSUME IInv, NEW t \in Threads, WaitSidecar(t)
  PROVE  IInv'
<1>0. PICK g \in Groups : g = thread[t].sidecar /\ g # None
  BY ThreadFacts DEF WaitSidecar, At, ThreadOK, OptionalGroup
<1> DEFINE new == LetGo(t, "stopRuntime")
<1>1. /\ thread[t] \in Thread /\ thread \in [Threads -> Thread]
      /\ thread[t].pc = "waitSidecar" /\ app = "running"
      /\ UNCHANGED <<slots, owned, lock, app, restarts, uiVars>>
      /\ thread[t].runtime # None /\ thread[t].runtime \in Groups
      /\ group[thread[t].runtime].kind = "runtime"
      /\ group[g].kind = "sidecar"
      /\ Unlocking(t)
      /\ group' = IF Up(g) THEN Kill(g) ELSE group
  BY <1>0, ThreadFacts DEF WaitSidecar, At, ThreadOK, HoldsRuntime, OptionalGroup, Unlocking
<1>2. /\ new \in Thread /\ thread' = [thread EXCEPT ![t] = new] /\ thread'[t] = new
      /\ new.pc = "stopRuntime" /\ new.runtime = thread[t].runtime /\ new.sidecar = None
  BY <1>1, LetGoIs DEF WaitSidecar, Stopping
<1>3. /\ GroupsAge /\ group' \in [Groups -> GroupType]
      /\ \A h \in Groups : group'[h].kind = group[h].kind
      /\ \A h \in Groups : Up(h)' => Up(h)
      /\ ~Up(g)'
  BY <1>1, KillEnds
<1> HIDE DEF new
<1>4. HeldOK'
  <2>1. \A h \in Children(t) \ {new.runtime, new.sidecar} : h = g
    BY <1>0, <1>2 DEF Children
  <2>2. \A h \in Children(t) \ {new.runtime, new.sidecar} :
          /\ ~Up(h)'
          /\ group'[h].kind = "runtime" => group'[h].told
    BY <1>1, <1>3, <2>1
  <2> QED BY <1>1, <1>2, <1>3, <2>2, HeldKept
<1>5. ThreadOK(t)' /\ Unlocking(t)'
  BY <1>1, <1>2 DEF ThreadOK, HoldsNothing, HoldsSidecar, Unlocking
<1>6. new.runtime # None => group'[new.runtime].kind = "runtime"
  BY <1>1, <1>2, <1>3
<1> QED BY <1>1, <1>2, <1>3, <1>4, <1>5, <1>6, StoppingKeeps

LEMMA StopRuntimeKeeps ==
  ASSUME IInv, NEW t \in Threads, StopRuntime(t)
  PROVE  IInv'
<1> DEFINE g == thread[t].runtime
           new == Moved(t, "waitRuntime")
<1>1. /\ thread[t] \in Thread /\ thread \in [Threads -> Thread]
      /\ thread[t].pc = "stopRuntime" /\ app = "running"
      /\ UNCHANGED <<slots, owned, lock, app, restarts, uiVars>>
      /\ g # None /\ g \in Groups /\ group[g].kind = "runtime"
      /\ thread[t].sidecar = None
      /\ Unlocking(t)
      /\ group' = Terminate(g)
      /\ group \in [Groups -> GroupType]
  BY ThreadFacts DEF StopRuntime, At, ThreadOK, HoldsRuntime, OptionalGroup, Unlocking
<1>2. /\ new \in Thread /\ thread' = [thread EXCEPT ![t] = new] /\ thread'[t] = new
      /\ new.pc = "waitRuntime" /\ new.runtime = g /\ new.sidecar = None
  BY <1>1, MovedIs DEF StopRuntime, Stopping
<1>3. /\ GroupsAge /\ group' \in [Groups -> GroupType]
      /\ \A h \in Groups : group'[h].kind = group[h].kind
      /\ \A h \in Groups : Up(h)' => Up(h)
      /\ group'[g].told
  <2>1. group'[g].told
    BY <1>1 DEF Terminate, GroupType
  <2> QED BY <1>1, <2>1, TerminateAges DEF IInv
<1> HIDE DEF new, g
<1>4. HeldOK'
  BY <1>1, <1>2, <1>3, HeldKept DEF Children, g
<1>5. ThreadOK(t)' /\ Unlocking(t)'
  BY <1>1, <1>2, <1>3 DEF ThreadOK, HoldsNothing, HoldsSidecar, Unlocking
<1> QED BY <1>1, <1>2, <1>3, <1>4, <1>5, StoppingKeeps

LEMMA WaitRuntimeKeeps ==
  ASSUME IInv, NEW t \in Threads, WaitRuntime(t)
  PROVE  IInv'
<1>0. PICK g \in Groups : g = thread[t].runtime /\ g # None
  BY ThreadFacts DEF WaitRuntime, At, ThreadOK, HoldsRuntime, OptionalGroup
<1> DEFINE new == Moved(t, "stopped")
<1>1. /\ thread[t] \in Thread /\ thread \in [Threads -> Thread]
      /\ thread[t].pc = "waitRuntime" /\ app = "running"
      /\ UNCHANGED <<slots, owned, lock, app, restarts, uiVars>>
      /\ group[g].kind = "runtime" /\ group[g].told
      /\ thread[t].sidecar = None
      /\ Unlocking(t)
      /\ group' = IF Up(g) THEN Kill(g) ELSE group
  BY <1>0, ThreadFacts DEF WaitRuntime, At, ThreadOK, HoldsRuntime, Unlocking
<1>2. /\ new \in Thread /\ thread' = [thread EXCEPT ![t] = new] /\ thread'[t] = new
      /\ new.pc = "stopped" /\ new.runtime = g /\ new.sidecar = None
  BY <1>0, <1>1, MovedIs DEF WaitRuntime, Stopping
<1>3. /\ GroupsAge /\ group' \in [Groups -> GroupType]
      /\ \A h \in Groups : group'[h].kind = group[h].kind
      /\ \A h \in Groups : Up(h)' => Up(h)
      /\ ~Up(g)'
  BY <1>1, KillEnds
<1>4. group'[g].told
  BY <1>1, <1>3 DEF GroupsAge
<1> HIDE DEF new
<1>5. HeldOK'
  <2>1. Children(t) \ {new.runtime, new.sidecar} = {}
    BY <1>0, <1>1, <1>2 DEF Children
  <2> QED BY <1>1, <1>2, <1>3, <2>1, HeldKept
<1>6. ThreadOK(t)' /\ Unlocking(t)'
  <2>1. /\ thread'[t].pc = "stopped" /\ thread'[t].runtime = g
        /\ thread'[t].sidecar = None
    BY <1>2
  <2>2. group'[thread'[t].runtime].told /\ ~Up(thread[t].runtime)'
    BY <1>3, <1>4, <2>1 DEF Up
  <2> QED BY <1>0, <1>1, <2>1, <2>2
          DEF ThreadOK, HoldsNothing, HoldsSidecar, HoldsRuntime, Unlocking
<1> QED BY <1>1, <1>2, <1>3, <1>5, <1>6, StoppingKeeps

-----------------------------------------------------------------------------
(* Where a thread changes its turn                                         *)

LEMMA ReportFailureKeeps ==
  ASSUME IInv, NEW t \in Threads, ReportFailure(t)
  PROVE  IInv'
<1> DEFINE pc == IF t = Main THEN "loop" ELSE "watch"
           new == Moved(t, pc)
<1>1. /\ thread[t] \in Thread /\ thread \in [Threads -> Thread]
      /\ thread[t].pc = "failed" /\ app = "running"
      /\ UNCHANGED <<group, slots, owned, lock, app, restarts, announced, ended, expired,
                     events, window>>
      /\ status' = "failed"
      /\ thread[t].runtime = None /\ thread[t].sidecar = None
      /\ slots' \in [runtime : OptionalGroup, sidecar : OptionalGroup]
      /\ restarts' \in 0..MaxRestarts
  BY ThreadFacts DEF ReportFailure, At, ThreadOK, HoldsNothing, childVars, IInv, TypeOK
<1>2. /\ new \in Thread /\ thread' = [thread EXCEPT ![t] = new] /\ thread'[t] = new
      /\ new.pc = pc /\ new.runtime = None /\ new.sidecar = None
      /\ \A u \in Threads \ {t} : thread'[u] = thread[u]
  BY <1>1, MovedIs DEF ReportFailure
<1>3. AloneIn(t) /\ lock = None /\ TurnsOK
  BY <1>1, StartsAlone DEF IInv, Starting
<1> HIDE DEF new
<1>4. TurnsOK'
  <2>1. \A u \in Threads : ~Unlocking(u)'
    BY <1>2, <1>3 DEF Unlocking, AloneIn
  <2>2. owned' = Nobody /\ lock' = None /\ app' = "running"
    BY <1>1, <1>3 DEF AloneIn
  <2>3. \A u \in Threads : lock' # u
    BY <2>2, ConstantsAssumption
  <2>4. /\ thread'[Main].pc \notin {"idle", "watch"}
        /\ thread'[Watcher].pc # "loop"
        /\ thread'[Main].pc \in Starting => thread'[Watcher].pc = "idle"
    BY <1>1, <1>2, <1>3, ConstantsAssumption DEF TurnsOK, Threads, Starting
  <2> QED BY <2>1, <2>2, <2>3, <2>4 DEF TurnsOK, Threads
<1>5. SlotsOK'
  BY <1>2, <1>3, <1>1 DEF SlotsOK, AloneIn
<1>6. HeldOK'
  <2>1. Children(t) = {}
    BY <1>1 DEF Children
  <2> QED BY <1>1, <1>2, <2>1, SameGroups, HeldKept
<1>7. ThreadOK(t)'
  BY <1>2 DEF ThreadOK, HoldsRuntime, HoldsSidecar
<1> QED BY <1>1, <1>2, <1>4, <1>5, <1>6, <1>7, SameGroups, ThreadKeeps

(* A quit, or a change the watcher noticed, begins with the mutex.         *)
LEMMA TurnKeeps ==
  ASSUME IInv, app = "running", NEW t \in Threads, Goto(t, "stop"),
         thread[t].pc = IF t = Main THEN "loop" ELSE "watch",
         UNCHANGED <<childVars, owned, lock, app, uiVars>>,
         restarts' \in 0..MaxRestarts
  PROVE  IInv'
<1> DEFINE new == Moved(t, "stop")
<1>1. /\ thread[t] \in Thread /\ thread \in [Threads -> Thread]
      /\ UNCHANGED <<group, slots, owned, lock, app, announced, ended, expired, events,
                     status, window>>
      /\ thread[t].runtime = None /\ thread[t].sidecar = None
      /\ slots' \in [runtime : OptionalGroup, sidecar : OptionalGroup]
      /\ status' \in {"starting", "ready", "failed"}
  BY ThreadFacts DEF ThreadOK, HoldsNothing, childVars, uiVars, IInv, TypeOK
<1>2. /\ new \in Thread /\ thread' = [thread EXCEPT ![t] = new] /\ thread'[t] = new
      /\ new.pc = "stop" /\ new.runtime = None /\ new.sidecar = None
      /\ \A u \in Threads \ {t} : thread'[u] = thread[u]
  BY <1>1, MovedIs DEF Stopping
<1> HIDE DEF new
<1>3. TurnsOK'
  <2>1. \A u \in Threads : Unlocking(u)' <=> Unlocking(u)
    BY <1>2 DEF Unlocking
  <2>2. TurnsOK
    BY DEF IInv
  <2>3. CASE t = Main
    BY <1>1, <1>2, <2>1, <2>2, <2>3, ConstantsAssumption DEF TurnsOK, Threads, Starting
  <2>4. CASE t = Watcher
    BY <1>1, <1>2, <2>1, <2>2, <2>4, ConstantsAssumption DEF TurnsOK, Threads, Starting
  <2> QED BY <2>3, <2>4 DEF Threads
<1>4. SlotsOK'
  BY <1>1, <1>2 DEF SlotsOK, IInv
<1>5. HeldOK'
  <2>1. Children(t) = {}
    BY <1>1 DEF Children
  <2> QED BY <1>1, <1>2, <2>1, SameGroups, HeldKept
<1>6. ThreadOK(t)'
  BY <1>2 DEF ThreadOK, HoldsRuntime, HoldsSidecar
<1> QED BY <1>1, <1>2, <1>3, <1>4, <1>5, <1>6, SameGroups, ThreadKeeps

LEMMA QuitKeeps == IInv /\ Quit => IInv'
<1> SUFFICES ASSUME IInv, Quit PROVE IInv'
  OBVIOUS
<1>1. Main \in Threads /\ restarts' \in 0..MaxRestarts
  BY DEF Threads, IInv, TypeOK, Quit
<1> QED BY <1>1, TurnKeeps DEF Quit, At

LEMMA NoticeChangeKeeps == IInv /\ NoticeChange => IInv'
<1> SUFFICES ASSUME IInv, NoticeChange PROVE IInv'
  OBVIOUS
<1>1. Watcher \in Threads /\ Watcher # Main
  BY ConstantsAssumption DEF Threads
<1>2. restarts' \in 0..MaxRestarts
  BY ConstantsAssumption DEF NoticeChange, IInv, TypeOK
<1> QED BY <1>1, <1>2, TurnKeeps DEF NoticeChange, At

LEMMA TakeSupervisorKeeps ==
  ASSUME IInv, NEW t \in Threads, TakeSupervisor(t)
  PROVE  IInv'
<1>1. /\ thread[t] \in Thread /\ thread \in [Threads -> Thread]
      /\ thread[t].pc = "stop" /\ app = "running" /\ lock = None
      /\ UNCHANGED <<group, app, restarts, uiVars>>
      /\ UNCHANGED <<announced, ended, expired, events, status, window>>
      /\ thread[t].runtime = None /\ thread[t].sidecar = None
      /\ slots \in [runtime : OptionalGroup, sidecar : OptionalGroup]
      /\ owned \in [runtime : OptionalGroup, sidecar : OptionalGroup]
      /\ status' \in {"starting", "ready", "failed"}
      /\ restarts' \in 0..MaxRestarts
  BY ThreadFacts, ThreadType DEF TakeSupervisor, At, ThreadOK, HoldsNothing, uiVars, IInv, TypeOK
<1>2. TurnsOK /\ SlotsOK /\ KindsOK /\ HeldOK
  BY DEF IInv
<1>3. ASSUME owned = Nobody, Goto(t, "stopped"), UNCHANGED <<slots, owned, lock>>
      PROVE  IInv'
  <2> DEFINE new == Moved(t, "stopped")
  <2>1. /\ new \in Thread /\ thread' = [thread EXCEPT ![t] = new] /\ thread'[t] = new
        /\ new.pc = "stopped" /\ new.runtime = None /\ new.sidecar = None
        /\ \A u \in Threads \ {t} : thread'[u] = thread[u]
    BY <1>1, <1>3, MovedIs DEF Stopping
  <2> HIDE DEF new
  <2>2. TurnsOK'
    <3>1. \A u \in Threads : Unlocking(u)' <=> Unlocking(u)
      BY <1>1, <2>1 DEF Unlocking
    <3>2. CASE t = Main
      BY <1>1, <1>2, <1>3, <2>1, <3>1, <3>2, ConstantsAssumption DEF TurnsOK, Threads, Starting
    <3>3. CASE t = Watcher
      BY <1>1, <1>2, <1>3, <2>1, <3>1, <3>3, ConstantsAssumption DEF TurnsOK, Threads, Starting
    <3> QED BY <3>2, <3>3 DEF Threads
  <2>3. SlotsOK'
    BY <1>1, <1>2, <1>3, <2>1 DEF SlotsOK
  <2>4. HeldOK'
    <3>1. Children(t) = {}
      BY <1>1 DEF Children
    <3> QED BY <1>1, <1>3, <2>1, <3>1, SameGroups, HeldKept
  <2>5. ThreadOK(t)'
    BY <2>1 DEF ThreadOK, HoldsRuntime, HoldsSidecar, HoldsNothing
  <2> QED BY <1>1, <1>3, <2>1, <2>2, <2>3, <2>4, <2>5, SameGroups, ThreadKeeps
<1>4. ASSUME owned # Nobody, lock' = t, owned' = Nobody, slots' = Nobody,
             thread' = [thread EXCEPT ![t].pc = "stopSidecar",
                                      ![t].runtime = owned.runtime,
                                      ![t].sidecar = owned.sidecar]
      PROVE  IInv'
  <2> DEFINE new == [thread[t] EXCEPT !.pc = "stopSidecar",
                                      !.runtime = owned.runtime,
                                      !.sidecar = owned.sidecar]
  <2>1. thread' = [thread EXCEPT ![t] = new]
    BY <1>1, <1>4
  <2>2. /\ new \in Thread /\ new.pc = "stopSidecar"
        /\ new.runtime = owned.runtime /\ new.sidecar = owned.sidecar
    BY <1>1 DEF Thread, Stopping
  <2> HIDE DEF new
  <2>3. /\ thread'[t] = new /\ thread' \in [Threads -> Thread]
        /\ \A u \in Threads \ {t} : thread'[u] = thread[u]
    BY <1>1, <2>1, <2>2
  <2>4. /\ owned.runtime # None
        /\ thread[Watcher].pc \in {"watch", "stop"}
        /\ \A u \in Threads \ {t} : ~Unlocking(u)
        /\ thread[Main].pc \notin Starting
    BY <1>1, <1>2, <1>4, ConstantsAssumption DEF TurnsOK, Threads
  <2>5. TypeOK'
    BY <1>1, <1>4, <2>3 DEF IInv, TypeOK, Thread, Nobody, OptionalGroup, uiVars
  <2>6. ASSUME NEW u \in Threads
        PROVE  ThreadOK(u)'
    <3>1. CASE u = t
      BY <2>2, <2>3, <2>4, <3>1 DEF ThreadOK, HoldsNothing, HoldsSidecar
    <3>2. CASE u # t
      BY <1>1, <2>3, <3>2 DEF ThreadOK, IInv, Up
    <3> QED BY <3>1, <3>2
  <2>7. TurnsOK'
    <3>1. Unlocking(t)'
      BY <2>2, <2>3 DEF Unlocking
    <3>2. \A u \in Threads \ {t} : ~Unlocking(u)'
      BY <2>3, <2>4 DEF Unlocking
    <3>3. \A u \in Threads : lock' = u <=> Unlocking(u)'
      BY <1>4, <3>1, <3>2
    <3>4. CASE t = Main
      BY <1>1, <1>2, <1>4, <2>2, <2>3, <2>4, <3>3, <3>4, ConstantsAssumption
         DEF TurnsOK, Threads, Starting
    <3>5. CASE t = Watcher
      BY <1>1, <1>2, <1>4, <2>2, <2>3, <2>4, <3>3, <3>5, ConstantsAssumption
         DEF TurnsOK, Threads, Starting
    <3> QED BY <3>4, <3>5 DEF Threads
  <2>8. KindsOK'
    BY <1>1, <1>2, <1>4, <2>2, <2>3 DEF KindsOK, Nobody
  <2>9. HeldOK'
    <3>1. Children(t) = {} /\ Children(t)' = OwnedChildren
      BY <1>1, <2>2, <2>3 DEF Children, OwnedChildren
    <3>2. \A u \in Threads \ {t} : Children(u)' = Children(u)
      BY <2>3 DEF Children
    <3>3. Held \subseteq Held'
      BY <3>1, <3>2 DEF Held
    <3> QED BY <1>1, <1>2, <3>3 DEF HeldOK, Up
  <2>10. SlotsOK'
    <3>1. \A u \in Threads \ {t} : thread[u].pc \notin Starting
      <4>1. thread[Watcher].pc \notin Starting
        BY <2>4 DEF Starting
      <4> QED BY <2>4, <4>1 DEF Threads
    <3> QED BY <1>4, <2>2, <2>3, <3>1 DEF SlotsOK, Starting
  <2>11. SignalReachesChildren'
    BY <1>1 DEF SignalReachesChildren
  <2> QED BY <2>5, <2>6, <2>7, <2>8, <2>9, <2>10, <2>11 DEF IInv
<1> QED BY <1>1, <1>3, <1>4 DEF TakeSupervisor

LEMMA AdoptKeeps ==
  ASSUME IInv, NEW t \in Threads, Adopt(t)
  PROVE  IInv'
<1> DEFINE rest == IF t = Main THEN "loop" ELSE "watch"
           new == [thread[t] EXCEPT !.pc = rest, !.runtime = None, !.sidecar = None]
<1>1. /\ thread[t] \in Thread /\ thread \in [Threads -> Thread]
      /\ thread[t].pc = "adopt" /\ app = "running" /\ lock = None
      /\ UNCHANGED <<group, slots, lock, app, restarts, uiVars>>
      /\ thread[t].runtime # None
      /\ thread[t].runtime \in OptionalGroup /\ thread[t].sidecar \in OptionalGroup
      /\ group[thread[t].runtime].kind = "runtime"
      /\ thread[t].sidecar # None => group[thread[t].sidecar].kind = "sidecar"
      /\ owned' = [runtime |-> thread[t].runtime, sidecar |-> thread[t].sidecar]
  BY ThreadFacts DEF Adopt, At, ThreadOK, HoldsRuntime, childVars
<1>2. AloneIn(t) /\ TurnsOK /\ SlotsOK /\ HeldOK
  BY <1>1, StartsAlone DEF IInv, Starting
<1>3. /\ new \in Thread /\ new.pc = rest /\ new.runtime = None /\ new.sidecar = None
  <2>1. None \in OptionalGroup
    BY DEF OptionalGroup
  <2> QED BY <1>1, <2>1 DEF Thread
<1>4. /\ thread' = [u \in Threads |->
                      IF u = t THEN new
                      ELSE IF t = Main THEN [thread[u] EXCEPT !.pc = "watch"]
                                       ELSE thread[u]]
  BY DEF Adopt
<1> HIDE DEF new
<1>5. /\ thread' \in [Threads -> Thread]
      /\ thread'[t] = new
      /\ \A u \in Threads \ {t} :
           /\ thread'[u].pc = IF t = Main THEN "watch" ELSE thread[u].pc
           /\ thread'[u].runtime = None /\ thread'[u].sidecar = None
           /\ thread'[u] \in Thread
  <2>1. ASSUME NEW u \in Threads \ {t}
        PROVE  /\ thread'[u] \in Thread
               /\ thread'[u].pc = IF t = Main THEN "watch" ELSE thread[u].pc
               /\ thread'[u].runtime = None /\ thread'[u].sidecar = None
    <3>1. thread[u] \in Thread /\ thread[u].runtime = None /\ thread[u].sidecar = None
      BY <1>1, <1>2 DEF AloneIn
    <3>2. CASE t = Main
      <4>1. thread'[u] = [thread[u] EXCEPT !.pc = "watch"]
        BY <1>4, <3>2
      <4> QED BY <3>1, <3>2, <4>1 DEF Thread
    <3>3. CASE t # Main
      BY <1>4, <3>1, <3>3
    <3> QED BY <3>2, <3>3
  <2>2. thread'[t] = new
    BY <1>4
  <2>3. thread' \in [Threads -> Thread]
    BY <1>3, <1>4, <2>1, <2>2
  <2> QED BY <2>1, <2>2, <2>3
<1>6. TypeOK'
  BY <1>1, <1>5 DEF IInv, TypeOK, Thread, uiVars
<1>7. ASSUME NEW u \in Threads
      PROVE  ThreadOK(u)' /\ ~Unlocking(u)'
  <2>1. CASE u = t
    BY <1>3, <1>5, <2>1 DEF ThreadOK, HoldsSidecar, HoldsRuntime, Unlocking
  <2>2. CASE u # t
    <3>1. thread'[u].pc \in {"idle", "loop", "watch", "stop", "stopped"}
      BY <1>2, <1>5, <2>2 DEF AloneIn
    <3> QED BY <1>5, <2>2, <3>1 DEF ThreadOK, HoldsSidecar, HoldsRuntime, Unlocking
  <2> QED BY <2>1, <2>2
<1>8. TurnsOK'
  <2>1. \A u \in Threads : lock' = u <=> Unlocking(u)'
    BY <1>1, <1>7, ConstantsAssumption
  <2>2. owned'.runtime # None /\ lock' = None /\ app' = "running"
    BY <1>1
  <2>3. thread'[Watcher].pc = "watch" /\ thread'[Main].pc \in {"loop", "stop", "stopped"}
    <3>1. CASE t = Main
      BY <1>3, <1>5, <3>1, ConstantsAssumption DEF Threads
    <3>2. CASE t = Watcher
      BY <1>2, <1>3, <1>5, <3>2, ConstantsAssumption DEF Threads, AloneIn, TurnsOK
    <3> QED BY <3>1, <3>2 DEF Threads
  <2> QED BY <2>1, <2>2, <2>3, ConstantsAssumption DEF TurnsOK, Starting, Threads
<1>9. KindsOK'
  BY <1>1, <1>3, <1>5 DEF KindsOK
<1>10. HeldOK'
  <2>1. OwnedChildren' = Children(t) /\ OwnedChildren = {}
    BY <1>1, <1>2 DEF Children, OwnedChildren, AloneIn, Nobody
  <2>2. \A u \in Threads \ {t} : Children(u) = {}
    BY <1>2 DEF AloneIn, Children
  <2>3. Held \subseteq Held'
    BY <2>1, <2>2 DEF Held
  <2> QED BY <1>1, <1>2, <2>3 DEF HeldOK, Up
<1>11. SlotsOK'
  <2>1. /\ slots.runtime = thread[t].runtime
        /\ thread[t].sidecar # None => slots.sidecar = thread[t].sidecar
    BY <1>1, <1>2 DEF SlotsOK
  <2>2. \A u \in Threads : thread'[u].sidecar = None /\ thread'[u].pc # "adopt"
    BY <1>2, <1>3, <1>5 DEF AloneIn
  <2> QED BY <1>1, <2>1, <2>2 DEF SlotsOK
<1>12. SignalReachesChildren'
  BY <1>1 DEF SignalReachesChildren
<1> QED BY <1>6, <1>7, <1>8, <1>9, <1>10, <1>11, <1>12 DEF IInv

LEMMA StoppedKeeps ==
  ASSUME IInv, NEW t \in Threads, Stopped(t)
  PROVE  IInv'
<1> DEFINE pc == IF t = Main THEN "loop" ELSE "prepare"
           new == [thread[t] EXCEPT !.pc = pc, !.runtime = None, !.sidecar = None]
<1>1. /\ thread[t] \in Thread /\ thread \in [Threads -> Thread]
      /\ thread[t].pc = "stopped" /\ app = "running"
      /\ UNCHANGED <<group, owned, restarts, uiVars>>
      /\ UNCHANGED <<announced, ended, expired, events, status, window>>
      /\ slots \in [runtime : OptionalGroup, sidecar : OptionalGroup]
      /\ lock \in Threads \cup {None}
      /\ app' = IF t = Main THEN "exited" ELSE "running"
      /\ thread[t].sidecar = None
      /\ thread[t].runtime # None => /\ group[thread[t].runtime].told
                                     /\ ~Up(thread[t].runtime)
      /\ restarts' \in 0..MaxRestarts
      /\ status' \in {"starting", "ready", "failed"}
  BY ThreadFacts DEF Stopped, At, ThreadOK, uiVars, IInv, TypeOK
<1>2. thread' = [thread EXCEPT ![t] = new] /\ thread'[t] = new
  BY <1>1 DEF Stopped
<1>3. /\ new \in Thread /\ new.pc = pc /\ new.runtime = None /\ new.sidecar = None
  <2>1. None \in OptionalGroup /\ pc \in {"loop"} \cup Starting
    BY DEF OptionalGroup, Starting
  <2> QED BY <1>1, <2>1 DEF Thread
<1> HIDE DEF new
<1>4. \A u \in Threads \ {t} : thread'[u] = thread[u]
  BY <1>1, <1>2
<1>5. TurnsOK /\ SlotsOK
  BY DEF IInv
<1>6. ThreadOK(t)'
  BY <1>2, <1>3 DEF ThreadOK, HoldsRuntime, HoldsSidecar
<1>7. HeldOK'
  <2>1. \A h \in Children(t) \ {new.runtime, new.sidecar} :
          /\ ~Up(h)'
          /\ group'[h].kind = "runtime" => group'[h].told
    BY <1>1 DEF Children, Up
  <2>2. /\ GroupsAge
        /\ \A h \in Groups : group'[h].kind = group[h].kind
        /\ \A h \in Groups : Up(h)' => Up(h)
    BY <1>1, SameGroups
  <2> QED BY <1>1, <1>2, <1>3, <2>1, <2>2, HeldKept
<1>8. ~Unlocking(t)' /\ \A u \in Threads \ {t} : Unlocking(u)' <=> Unlocking(u)
  BY <1>2, <1>3, <1>4 DEF Unlocking
<1>9. thread[Watcher].pc # "idle" /\ t = Watcher => thread[Main].pc \notin Starting
  BY <1>5 DEF TurnsOK
<1>10. CASE lock = t
  <2>1. AloneIn(t)
    BY <1>5, <1>10, StopsAlone DEF TurnsOK
  <2>2. lock' = None /\ slots' = Nobody
    BY <1>10 DEF Stopped
  <2>3. \A u \in Threads : lock' # u /\ ~Unlocking(u)'
    BY <1>8, <2>1, <2>2, ConstantsAssumption DEF AloneIn, Unlocking
  <2>4. TurnsOK'
    <3>1. CASE t = Main
      BY <1>1, <1>2, <1>3, <1>4, <1>5, <2>1, <2>2, <2>3, <3>1, ConstantsAssumption
         DEF TurnsOK, Threads, Starting, AloneIn
    <3>2. CASE t = Watcher
      BY <1>1, <1>2, <1>3, <1>4, <1>5, <1>9, <2>1, <2>2, <2>3, <3>2, ConstantsAssumption
         DEF TurnsOK, Threads, AloneIn
    <3> QED BY <3>1, <3>2 DEF Threads
  <2>5. SlotsOK'
    BY <1>1, <1>2, <1>3, <1>4, <2>1 DEF SlotsOK, AloneIn
  <2>6. slots' \in [runtime : OptionalGroup, sidecar : OptionalGroup]
    BY <2>2 DEF Nobody, OptionalGroup
  <2>7. lock' \in Threads \cup {None} /\ app' \in {"running", "exited"}
    BY <1>1, <2>2
  <2> QED BY <1>1, <1>2, <1>3, <1>6, <1>7, <2>4, <2>5, <2>6, <2>7, SameGroups, StepKeeps
<1>11. CASE lock # t
  <2>1. UNCHANGED <<lock, slots>>
    BY <1>11 DEF Stopped
  <2>2. \A u \in Threads : lock' = u <=> Unlocking(u)'
    BY <1>5, <1>8, <1>11, <2>1 DEF TurnsOK
  <2>3. TurnsOK'
    <3>1. CASE t = Main
      BY <1>1, <1>2, <1>3, <1>4, <1>5, <1>11, <2>1, <2>2, <3>1, ConstantsAssumption
         DEF TurnsOK, Threads, Starting
    <3>2. CASE t = Watcher
      <4>1. thread[Watcher].pc \notin {"idle", "watch", "stop"}
        BY <1>1, <3>2
      <4>2. owned = Nobody /\ lock = None
        BY <1>1, <1>5, <1>11, <3>2, <4>1 DEF TurnsOK, Threads
      <4> QED BY <1>1, <1>2, <1>3, <1>4, <1>5, <1>9, <2>1, <2>2, <3>2, <4>1, <4>2,
                 ConstantsAssumption
              DEF TurnsOK, Threads
    <3> QED BY <3>1, <3>2 DEF Threads
  <2>4. SlotsOK'
    BY <1>1, <1>2, <1>3, <1>4, <1>5, <2>1 DEF SlotsOK
  <2>5. lock' \in Threads \cup {None} /\ app' \in {"running", "exited"}
    BY <1>1, <2>1
  <2> QED BY <1>1, <1>2, <1>3, <1>6, <1>7, <2>1, <2>3, <2>4, <2>5, SameGroups, StepKeeps
<1> QED BY <1>10, <1>11

-----------------------------------------------------------------------------
(* Children, signals and events                                            *)

LEMMA ChildKeeps ==
  ASSUME IInv,
         UNCHANGED <<slots, owned, lock, thread, restarts>>,
         group' \in [Groups -> GroupType], GroupsAge,
         \A h \in Groups : group'[h].kind = group[h].kind,
         \A h \in Groups : Up(h)' => Up(h),
         app' \in {app, "killed"},
         announced' \in SUBSET Groups,
         ended' \in SUBSET Groups,
         expired' \in SUBSET Groups,
         events' \in SUBSET [kind : {"ready", "failed"}, runtime : Groups],
         status' \in {"starting", "ready", "failed"},
         window' \in OptionalGroup,
         SignalReachesChildren'
  PROVE  IInv'
<1>1. thread \in [Threads -> Thread]
  BY ThreadType DEF IInv
<1>2. TypeOK'
  BY DEF IInv, TypeOK, GroupType
<1>3. ASSUME NEW t \in Threads
      PROVE  ThreadOK(t)'
  <2>1. ThreadOK(t) /\ thread'[t] = thread[t]
    BY DEF IInv
  <2>2. /\ thread[t].runtime \in OptionalGroup
        /\ thread[t].runtime # None => group[thread[t].runtime].kind = "runtime"
    BY ThreadFacts
  <2> QED BY <2>1, <2>2 DEF ThreadOK, GroupsAge, OptionalGroup, HoldsRuntime, Up
<1>4. TurnsOK'
  BY DEF IInv, TurnsOK, Unlocking
<1>5. KindsOK'
  <2>1. /\ owned.runtime \in OptionalGroup
        /\ owned.sidecar \in OptionalGroup
        /\ \A t \in Threads : /\ thread[t].runtime \in OptionalGroup
                              /\ thread[t].sidecar \in OptionalGroup
    BY <1>1, ThreadType DEF Thread, IInv
  <2> QED BY <2>1 DEF IInv, KindsOK, OptionalGroup
<1>6. HeldOK'
  <2>1. Held' = Held
    BY DEF Held, Children, OwnedChildren
  <2> QED BY <2>1 DEF IInv, HeldOK, GroupsAge
<1>7. SlotsOK'
  BY DEF IInv, SlotsOK
<1> QED BY <1>2, <1>3, <1>4, <1>5, <1>6, <1>7 DEF IInv

LEMMA SignalKeeps == IInv /\ Signal => IInv'
<1> SUFFICES ASSUME IInv, Signal PROVE IInv'
  OBVIOUS
<1>1. /\ group \in [Groups -> GroupType]
      /\ thread \in [Threads -> Thread]
      /\ owned \in [runtime : OptionalGroup, sidecar : OptionalGroup]
  BY ThreadType DEF IInv
<1>2. ASSUME NEW h \in Groups
      PROVE  /\ group'[h] \in GroupType
             /\ group'[h].kind = group[h].kind /\ group'[h].leader = group[h].leader
             /\ group[h].told => group'[h].told
             /\ h \in {slots.runtime, slots.sidecar} => group'[h].told
  <2>1. group[h] \in GroupType
    BY <1>1
  <2>2. group'[h] = IF h \in {slots.runtime, slots.sidecar}
                      THEN [group[h] EXCEPT !.told = TRUE] ELSE group[h]
    BY DEF Signal
  <2>3. CASE h \in {slots.runtime, slots.sidecar}
    <3>1. group'[h] = [group[h] EXCEPT !.told = TRUE]
      BY <2>2, <2>3
    <3> QED BY <2>1, <3>1 DEF GroupType
  <2>4. CASE h \notin {slots.runtime, slots.sidecar}
    BY <2>1, <2>2, <2>4
  <2> QED BY <2>3, <2>4
<1>3. group' \in [Groups -> GroupType]
  BY <1>2 DEF Signal
<1>4. /\ GroupsAge
      /\ \A h \in Groups : group'[h].kind = group[h].kind
      /\ \A h \in Groups : Up(h)' => Up(h)
  BY <1>2 DEF GroupsAge, Up
<1>5. SignalReachesChildren'
  <2> SUFFICES ASSUME \A t \in Threads : thread[t].pc \notin Starting \cup Stopping,
                      NEW g \in Groups, Up(g)
               PROVE  group'[g].told
    BY <1>4 DEF SignalReachesChildren, Signal
  <2>1. \A t \in Threads : Children(t) = {}
    <3> SUFFICES ASSUME NEW t \in Threads PROVE Children(t) = {}
      OBVIOUS
    <3>1. thread[t].pc \in {"loop", "idle", "watch"}
      BY <1>1 DEF Thread
    <3>2. thread[t].runtime = None /\ thread[t].sidecar = None
      BY <3>1, ThreadFacts DEF ThreadOK, HoldsNothing
    <3> QED BY <3>2 DEF Children
  <2>2. g \in OwnedChildren
    BY <2>1 DEF IInv, HeldOK, Held
  <2>3. owned # Nobody /\ (g = owned.runtime \/ (g = owned.sidecar /\ g # None))
    BY <2>2 DEF OwnedChildren, Nobody
  <2>4. g \in {slots.runtime, slots.sidecar}
    BY <2>3 DEF IInv, SlotsOK
  <2> QED BY <1>2, <2>4
<1> QED BY <1>3, <1>4, <1>5, ChildKeeps DEF Signal, uiVars, IInv, TypeOK

LEMMA LeaderExitsKeeps == ASSUME IInv, NEW g \in Groups, LeaderExits(g) PROVE IInv'
<1>1. group \in [Groups -> GroupType]
  BY ThreadType DEF IInv
<1>2. group' = [group EXCEPT ![g] = [group[g] EXCEPT !.leader = "down"]]
  BY <1>1 DEF LeaderExits
<1>3. /\ group' \in [Groups -> GroupType]
      /\ group'[g].kind = group[g].kind /\ group'[g].leader = "down"
      /\ group'[g].told = group[g].told
      /\ \A h \in Groups \ {g} : group'[h] = group[h]
  BY <1>1, <1>2 DEF GroupType
<1>4. /\ GroupsAge
      /\ \A h \in Groups : /\ group'[h].kind = group[h].kind
                           /\ group'[h].told = group[h].told
      /\ \A h \in Groups : Up(h)' => Up(h)
  BY <1>3 DEF GroupsAge, Up
<1>5. SignalReachesChildren'
  BY <1>4 DEF SignalReachesChildren, LeaderExits, IInv
<1> QED BY <1>3, <1>4, <1>5, ChildKeeps DEF LeaderExits, uiVars, IInv, TypeOK

(* What is shown changes nothing else.                                     *)
LEMMA ShownKeeps ==
  ASSUME IInv, UNCHANGED <<childVars, owned, lock, thread, app, restarts>>,
         app = "running",
         announced' \in SUBSET Groups,
         ended' \in SUBSET Groups,
         expired' \in SUBSET Groups,
         events' \in SUBSET [kind : {"ready", "failed"}, runtime : Groups],
         status' \in {"starting", "ready", "failed"},
         window' \in OptionalGroup
  PROVE  IInv'
<1>1. /\ GroupsAge
      /\ group' \in [Groups -> GroupType]
      /\ \A h \in Groups : group'[h].kind = group[h].kind
      /\ \A h \in Groups : Up(h)' => Up(h)
  BY SameGroups DEF childVars
<1>2. SignalReachesChildren'
  BY DEF SignalReachesChildren
<1> QED BY <1>1, <1>2, ChildKeeps DEF childVars

LEMMA EventsKeep ==
  ASSUME IInv,
         \/ \E g \in Groups : ReadStdout(g) \/ ReadyTimeout(g)
         \/ \E e \in events : HandleEvent(e)
  PROVE  IInv'
<1> USE DEF IInv, TypeOK
<1>1. ASSUME NEW g \in Groups, ReadStdout(g)
      PROVE  IInv'
  <2>1. /\ announced' \in SUBSET Groups
        /\ ended' \in SUBSET Groups
        /\ expired' \in SUBSET Groups
        /\ events' \in SUBSET [kind : {"ready", "failed"}, runtime : Groups]
    BY <1>1 DEF ReadStdout, Watched
  <2> QED BY <1>1, <2>1, ShownKeeps DEF ReadStdout, Watched
<1>2. ASSUME NEW g \in Groups, ReadyTimeout(g)
      PROVE  IInv'
  <2>1. /\ expired' \in SUBSET Groups
        /\ events' \in SUBSET [kind : {"ready", "failed"}, runtime : Groups]
    BY <1>2 DEF ReadyTimeout
  <2> QED BY <1>2, <2>1, ShownKeeps DEF ReadyTimeout, Watched
<1>3. ASSUME NEW e \in events, HandleEvent(e)
      PROVE  IInv'
  <2>1. /\ window' \in OptionalGroup
        /\ events' \in SUBSET [kind : {"ready", "failed"}, runtime : Groups]
        /\ status' \in {"starting", "ready", "failed"}
    BY <1>3 DEF HandleEvent, OptionalGroup
  <2> QED BY <1>3, <2>1, ShownKeeps DEF HandleEvent
<1> QED BY <1>1, <1>2, <1>3

-----------------------------------------------------------------------------

LEMMA InitHolds == Init => IInv
<1> SUFFICES ASSUME Init PROVE IInv
  OBVIOUS
<1> USE DEF Init
<1>1. /\ thread[Main] = [pc |-> "prepare", runtime |-> None, sidecar |-> None, ports |-> 0]
      /\ thread[Watcher] = [pc |-> "idle", runtime |-> None, sidecar |-> None, ports |-> 0]
  BY ConstantsAssumption DEF Threads
<1>2. TypeOK
  <2>1. 0 \in 0..Ports /\ 0 \in 0..MaxRestarts
    BY ConstantsAssumption
  <2> QED BY <2>1 DEF TypeOK, OptionalGroup, Nobody, Starting
<1>3. \A t \in Threads : ThreadOK(t) /\ ~Unlocking(t)
  BY <1>1 DEF Threads, ThreadOK, Unlocking, HoldsSidecar, HoldsRuntime
<1>4. TurnsOK
  BY <1>1, <1>3, ConstantsAssumption DEF TurnsOK, Threads
<1>5. KindsOK
  BY <1>1 DEF KindsOK, Threads, Nobody
<1>6. HeldOK
  BY DEF HeldOK, Up
<1>7. SlotsOK
  BY <1>1 DEF SlotsOK, Threads
<1>8. SignalReachesChildren
  BY DEF SignalReachesChildren
<1> QED BY <1>2, <1>3, <1>4, <1>5, <1>6, <1>7, <1>8 DEF IInv

LEMMA StutterKeeps == IInv /\ UNCHANGED vars => IInv'
<1> SUFFICES ASSUME IInv, UNCHANGED vars PROVE IInv'
  OBVIOUS
<1>1. SignalReachesChildren'
  BY DEF SignalReachesChildren, IInv, vars, childVars, Up
<1> QED BY <1>1, SameGroups, ChildKeeps DEF vars, childVars, uiVars, IInv, TypeOK

LEMMA NextKeeps == IInv /\ [Next]_vars => IInv'
<1> SUFFICES ASSUME IInv, [Next]_vars PROVE IInv'
  OBVIOUS
<1>1. ASSUME NEW t \in Threads, ThreadStep(t)
      PROVE  IInv'
  BY <1>1, PrepareKeeps, StartSidecarKeeps, SidecarHealthKeeps,
     PublishSidecarKeeps, WritePatchKeeps, SpawnRuntimeKeeps,
     PublishRuntimeKeeps, AdoptKeeps, DropSidecarKeeps, WaitDroppedKeeps,
     ReportFailureKeeps, TakeSupervisorKeeps, StopSidecarKeeps,
     WaitSidecarKeeps, StopRuntimeKeeps, WaitRuntimeKeeps, StoppedKeeps
     DEF ThreadStep
<1>2. CASE Quit
  BY <1>2, QuitKeeps
<1>3. CASE NoticeChange
  BY <1>3, NoticeChangeKeeps
<1>4. CASE Signal
  BY <1>4, SignalKeeps
<1>5. ASSUME NEW g \in Groups, LeaderExits(g)
      PROVE  IInv'
  BY <1>5, LeaderExitsKeeps
<1>6. CASE \/ \E g \in Groups : ReadStdout(g) \/ ReadyTimeout(g)
           \/ \E e \in events : HandleEvent(e)
  BY <1>6, EventsKeep
<1>7. CASE UNCHANGED vars
  BY <1>7, StutterKeeps
<1> QED BY <1>1, <1>2, <1>3, <1>4, <1>5, <1>6, <1>7 DEF Next

(* The supervision keeps its inductive invariant, whatever the children,   *)
(* the user, the watcher and a signal do.                                  *)
THEOREM Invariance == Spec => []IInv
BY InitHolds, NextKeeps, PTL DEF Spec

(* Every reachable state is well typed: no port beyond the candidates is   *)
(* ever tried.                                                             *)
THEOREM TypeCorrectness == Spec => []TypeOK
<1>1. IInv => TypeOK
  BY DEF IInv
<1> QED BY <1>1, Invariance, PTL

(* forward_termination tells every running child, when no thread is        *)
(* starting or stopping one as the signal arrives.                         *)
THEOREM SignalIsForwarded == Spec => []SignalReachesChildren
<1>1. IInv => SignalReachesChildren
  BY DEF IInv
<1> QED BY <1>1, Invariance, PTL

(* Every running child is in the hands of the mutex or of a thread.        *)
THEOREM EveryChildIsHeld == Spec => []NoChildIsLost
<1>1. IInv => NoChildIsLost
  BY DEF IInv, HeldOK, Held, NoChildIsLost
<1> QED BY <1>1, Invariance, PTL

(* After RunEvent::Exit, what still runs or was never told to stop is in   *)
(* the watcher's hands: what it was starting, or adopted, while the user   *)
(* quit.  A quit with no restart in hand leaves nothing.                   *)
THEOREM ExitIsClean == Spec => []NothingLeftAfterExit
<1>1. IInv => NothingLeftAfterExit
  <2> SUFFICES ASSUME IInv, app = "exited"
               PROVE  Held \subseteq Children(Watcher) \cup OwnedChildren
    BY DEF NothingLeftAfterExit, IInv, HeldOK
  <2>1. thread[Main].pc = "loop"
    BY DEF IInv, TurnsOK
  <2>2. Children(Main) = {}
    BY <2>1, ThreadFacts DEF ThreadOK, HoldsNothing, Children, Threads
  <2> QED BY <2>2 DEF Held, Threads
<1> QED BY <1>1, Invariance, PTL

(* One runtime, and one sidecar on the one database, at a time.            *)
THEOREM OneAtATime == Spec => []OneOfEachKind
<1>1. IInv => OneOfEachKind
  <2> SUFFICES ASSUME IInv, NEW g \in Groups, NEW h \in Groups, Up(g), Up(h),
                      group[g].kind = group[h].kind
               PROVE  g = h
    BY DEF OneOfEachKind
  <2>1. g \in Held /\ h \in Held /\ KindsOK /\ TurnsOK
    BY DEF IInv, HeldOK
  <2>2. CASE owned # Nobody
    <3>1. lock = None /\ thread[Watcher].pc \in {"watch", "stop"}
      BY <2>1, <2>2 DEF TurnsOK
    <3>2. thread[Main].pc \notin Starting /\ ~Unlocking(Main) /\ ~Unlocking(Watcher)
      BY <2>1, <3>1, ConstantsAssumption DEF TurnsOK, Threads
    <3>3. \A t \in Threads : Children(t) = {}
      <4>1. thread[Main].pc \in {"loop", "stop", "stopped", "idle", "watch"}
        BY <3>2, ThreadFacts DEF Thread, Unlocking, Stopping, Threads
      <4>2. \A t \in Threads : thread[t].runtime = None /\ thread[t].sidecar = None
        BY <3>1, <3>2, <4>1, ThreadFacts DEF ThreadOK, HoldsNothing, Unlocking, Threads
      <4> QED BY <4>2 DEF Children
    <3>4. g \in OwnedChildren /\ h \in OwnedChildren
      BY <2>1, <3>3 DEF Held
    <3> QED BY <2>1, <3>4 DEF KindsOK, OwnedChildren
  <2>3. CASE owned = Nobody
    <3>1. OwnedChildren = {}
      BY <2>3 DEF OwnedChildren, Nobody
    <3>2. PICK t \in Threads : g \in Children(t)
      BY <2>1, <3>1 DEF Held
    <3>3. PICK u \in Threads : h \in Children(u)
      BY <2>1, <3>1 DEF Held
    <3>4. AloneIn(t)
      <4>1. thread[t].pc \notin HoldsNothing
        BY <3>2, ThreadFacts DEF Children, ThreadOK
      <4>2. thread[t].pc \in Starting \/ Unlocking(t)
        BY <3>2, <4>1, ThreadFacts
           DEF Children, ThreadOK, Thread, HoldsNothing, Stopping, Unlocking
      <4> QED BY <4>2, StartsAlone, StopsAlone
    <3>5. t = u
      BY <3>3, <3>4 DEF AloneIn, Children
    <3> QED BY <2>1, <3>2, <3>3, <3>5 DEF KindsOK, Children
  <2> QED BY <2>2, <2>3
<1> QED BY <1>1, Invariance, PTL
====
