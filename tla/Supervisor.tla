----------------------------- MODULE Supervisor -----------------------------
(***************************************************************************)
(* The process supervision of the Rust shell (src-tauri/src/runtime.rs,    *)
(* process.rs, pocketbase.rs, main.rs, dev.rs): two children, the harness  *)
(* runtime and the PocketBase sidecar, each the leader of a process group, *)
(* started by the main thread or by the development watcher's restart, and *)
(* stopped by a quit, by a restart or from the signal handler.             *)
(*                                                                         *)
(* An action is what one thread does between two points where another      *)
(* thread, a child or a signal may act: a spawn, a store to one of the two *)
(* slots the signal handler reads, a wait, a lock.  The grace period and   *)
(* the timeouts are choices: a wait may end either way.                    *)
(***************************************************************************)
EXTENDS Naturals, FiniteSets

CONSTANTS
  Groups,       \* process groups the operating system can hand out
  Main,         \* the thread of setup() and of the event loop
  Watcher,      \* the development watcher's thread
  Ports,        \* how many candidate ports the sidecar is offered
  MaxRestarts,  \* bound: restarts the watcher asks for
  None

Threads == {Main, Watcher}
OptionalGroup == Groups \cup {None}

ASSUME ConstantsAssumption ==
  /\ IsFiniteSet(Groups)
  /\ Main # Watcher
  /\ None \notin Groups \cup Threads
  /\ Ports \in Nat
  /\ MaxRestarts \in Nat

VARIABLES
  group,      \* each process group: what leads it, and whether it was told to stop
  slots,      \* RUNTIME_GROUP and SIDECAR_GROUP
  owned,      \* NewPi.supervisor, what the mutex protects
  lock,       \* the thread that holds that mutex
  thread,     \* where each thread is, and the children it holds itself
  app,        \* how NewPi's own process is doing
  restarts,   \* restarts asked for so far
  announced,  \* runtimes whose readiness line was read
  ended,      \* those whose output ended without one
  expired,    \* those whose deadline passed without one
  events,     \* RuntimeEvents the forwarding threads have not handled
  status,     \* what the splash shows
  window      \* the runtime whose address the main window was built with

childVars == <<group, slots>>
uiVars == <<announced, ended, expired, events, status, window>>
vars == <<childVars, owned, lock, thread, app, restarts, uiVars>>

-----------------------------------------------------------------------------

Nobody == [runtime |-> None, sidecar |-> None]

Starting == {"prepare", "sidecar", "health", "publish", "patch", "runtime",
             "publishRuntime", "adopt", "waitPort", "dropSidecar",
             "waitDropped", "failed"}

Stopping == {"stop", "stopSidecar", "waitSidecar", "stopRuntime",
             "waitRuntime", "stopped"}

TypeOK ==
  /\ group \in [Groups -> [kind   : {"unused", "sidecar", "runtime"},
                           leader : {"none", "up", "down"},
                           told   : BOOLEAN]]
  /\ slots \in [runtime : OptionalGroup, sidecar : OptionalGroup]
  /\ owned \in [runtime : OptionalGroup, sidecar : OptionalGroup]
  /\ lock \in Threads \cup {None}
  /\ thread \in [Threads -> [pc      : {"loop", "idle", "watch"} \cup Starting
                                         \cup Stopping,
                             runtime : OptionalGroup,
                             sidecar : OptionalGroup,
                             ports   : 0..Ports]]
  /\ app \in {"running", "exited", "killed"}
  /\ restarts \in 0..MaxRestarts
  /\ announced \in SUBSET Groups
  /\ ended \in SUBSET Groups
  /\ expired \in SUBSET Groups
  /\ events \in SUBSET [kind : {"ready", "failed"}, runtime : Groups]
  /\ status \in {"starting", "ready", "failed"}
  /\ window \in OptionalGroup

Up(g) == group[g].leader = "up"

(* Command::spawn with process_group(0): the child leads a new group.      *)
Spawn(g, kind) ==
  /\ g = CHOOSE h \in Groups : group[h].kind = "unused"
  /\ group[g].kind = "unused"
  /\ group' = [group EXCEPT ![g] = [kind |-> kind, leader |-> "up",
                                    told |-> FALSE]]

(* SIGTERM, and SIGKILL followed by wait().                                *)
Terminate(g) == [group EXCEPT ![g].told = TRUE]
Kill(g) == [group EXCEPT ![g].told = TRUE, ![g].leader = "down"]

At(t, pc) == app = "running" /\ thread[t].pc = pc
Goto(t, pc) == thread' = [thread EXCEPT ![t].pc = pc]

Init ==
  /\ group = [g \in Groups |-> [kind |-> "unused", leader |-> "none",
                                told |-> FALSE]]
  /\ slots = Nobody
  /\ owned = Nobody
  /\ lock = None
  /\ thread = [t \in Threads |->
                 [pc |-> IF t = Main THEN "prepare" ELSE "idle",
                  runtime |-> None, sidecar |-> None, ports |-> 0]]
  /\ app = "running"
  /\ restarts = 0
  /\ announced = {}
  /\ ended = {}
  /\ expired = {}
  /\ events = {}
  /\ status = "starting"
  /\ window = None

-----------------------------------------------------------------------------
(* Defects a change to this code could introduce; none is part of Spec.    *)

(* One candidate port more than the list holds.                            *)
PrepareOnePortMore(t) ==
  /\ At(t, "prepare")
  /\ \E pc \in {"failed", "patch", "sidecar"} :
       thread' = [thread EXCEPT ![t].pc = pc, ![t].ports = Ports + 1]
  /\ UNCHANGED <<childVars, owned, lock, app, restarts, uiVars>>

(* provision_superuser() failing without MemorySetup being dropped.        *)
PatchFailsWithoutDrop(t) ==
  /\ At(t, "patch")
  /\ \/ Goto(t, "runtime")
     \/ thread' = [thread EXCEPT ![t].pc = "failed", ![t].sidecar = None]
  /\ UNCHANGED <<childVars, owned, lock, app, restarts, uiVars>>

(* The handler walking one slot only.                                      *)
SignalOneSlot ==
  /\ app = "running"
  /\ group' = [g \in Groups |->
                 IF g = slots.runtime THEN [group[g] EXCEPT !.told = TRUE]
                                      ELSE group[g]]
  /\ app' = "killed"
  /\ UNCHANGED <<slots, owned, lock, thread, restarts, uiVars>>

(* shutdown() returning when the grace period is over.                     *)
WaitRuntimeWithoutKill(t) ==
  LET g == thread[t].runtime IN
  /\ At(t, "waitRuntime")
  /\ Goto(t, "stopped")
  /\ UNCHANGED <<childVars, owned, lock, app, restarts, uiVars>>

(* restart_runtime() starting the new runtime and stopping the old after.  *)
NoticeChangeStartsFirst ==
  /\ At(Watcher, "watch")
  /\ restarts < MaxRestarts
  /\ restarts' = restarts + 1
  /\ Goto(Watcher, "prepare")
  /\ UNCHANGED <<childVars, owned, lock, app, uiVars>>

(* shutdown() polling the child with no deadline.                          *)
WaitSidecarForever(t) ==
  LET g == thread[t].sidecar IN
  /\ At(t, "waitSidecar")
  /\ ~Up(g)
  /\ thread' = [thread EXCEPT ![t].pc = "stopRuntime", ![t].sidecar = None]
  /\ UNCHANGED <<childVars, owned, lock, app, restarts, uiVars>>

(* No readiness deadline.                                                  *)
ReadyTimeoutNever(g) == FALSE /\ UNCHANGED vars

-----------------------------------------------------------------------------
(* Supervisor::start, on either thread                                     *)

(* Everything before the first child: resolving the runtime and the        *)
(* project, the port, deploying the plugins, the verified executable, the  *)
(* credential.  Any of it may fail the launch; NEWPI_MEMORY=0 skips the    *)
(* sidecar.                                                                *)
Prepare(t) ==
  /\ At(t, "prepare")
  /\ \E pc \in {"failed", "patch", "sidecar"} :
       thread' = [thread EXCEPT ![t].pc = pc, ![t].ports = Ports]
  /\ UNCHANGED <<childVars, owned, lock, app, restarts, uiVars>>

(* pocketbase::start on the next candidate port; with none left, or when   *)
(* the spawn fails, the launch goes on without a sidecar.                  *)
StartSidecar(t) ==
  /\ At(t, "sidecar")
  /\ \/ /\ thread[t].ports > 0
        /\ \E g \in Groups :
             /\ Spawn(g, "sidecar")
             /\ thread' = [thread EXCEPT ![t].pc = "health",
                                         ![t].sidecar = g,
                                         ![t].ports = @ - 1]
     \/ /\ Goto(t, "patch")
        /\ UNCHANGED group
  /\ UNCHANGED <<slots, owned, lock, app, restarts, uiVars>>

(* The health loop: it answers; or it exited or the deadline passed, and   *)
(* it is shut down before the next port is tried.                          *)
SidecarHealth(t) ==
  LET g == thread[t].sidecar IN
  /\ At(t, "health")
  /\ \/ /\ Up(g)
        /\ Goto(t, "publish")
        /\ UNCHANGED group
     \/ /\ group' = IF Up(g) THEN Terminate(g) ELSE group
        /\ Goto(t, "waitPort")
  /\ UNCHANGED <<slots, owned, lock, app, restarts, uiVars>>

(* SIDECAR_GROUP.store, in prepare_memory(), once start() has returned.    *)
PublishSidecar(t) ==
  /\ At(t, "publish")
  /\ slots' = [slots EXCEPT !.sidecar = thread[t].sidecar]
  /\ Goto(t, "patch")
  /\ UNCHANGED <<group, owned, lock, app, restarts, uiVars>>

(* patch::write and provision_superuser().  A failure drops the            *)
(* MemorySetup, which stops the sidecar; the slot keeps naming its group.  *)
WritePatch(t) ==
  /\ At(t, "patch")
  /\ \/ Goto(t, "runtime")
     \/ /\ thread[t].sidecar = None
        /\ Goto(t, "failed")
     \/ /\ thread[t].sidecar # None
        /\ Goto(t, "dropSidecar")
  /\ UNCHANGED <<childVars, owned, lock, app, restarts, uiVars>>

(* Supervisor::spawn; a spawn that fails drops the MemorySetup too.        *)
SpawnRuntime(t) ==
  /\ At(t, "runtime")
  /\ \/ \E g \in Groups :
          /\ Spawn(g, "runtime")
          /\ thread' = [thread EXCEPT ![t].pc = "publishRuntime",
                                      ![t].runtime = g]
     \/ /\ Goto(t, IF thread[t].sidecar = None THEN "failed"
                                               ELSE "dropSidecar")
        /\ UNCHANGED group
  /\ UNCHANGED <<slots, owned, lock, app, restarts, uiVars>>

PublishRuntime(t) ==
  /\ At(t, "publishRuntime")
  /\ slots' = [slots EXCEPT !.runtime = thread[t].runtime]
  /\ Goto(t, "adopt")
  /\ UNCHANGED <<group, owned, lock, app, restarts, uiVars>>

(* NewPi::adopt; the main thread then starts the watcher and the event     *)
(* loop, the watcher goes back to watching.                                *)
Adopt(t) ==
  LET rest == IF t = Main THEN "loop" ELSE "watch" IN
  /\ At(t, "adopt")
  /\ lock = None
  /\ owned' = [runtime |-> thread[t].runtime, sidecar |-> thread[t].sidecar]
  /\ thread' = [u \in Threads |->
                  CASE u = t -> [thread[t] EXCEPT !.pc = rest,
                                                  !.runtime = None,
                                                  !.sidecar = None]
                    [] u # t /\ t = Main -> [thread[u] EXCEPT !.pc = "watch"]
                    [] OTHER -> thread[u]]
  /\ UNCHANGED <<childVars, lock, app, restarts, uiVars>>

(* GroupChild::drop on the failure path: SIGTERM, the grace period,        *)
(* SIGKILL; a sidecar that already exited is only reaped.                  *)
DropSidecar(t) ==
  LET g == thread[t].sidecar IN
  /\ At(t, "dropSidecar")
  /\ Goto(t, "waitDropped")
  /\ group' = IF Up(g) THEN Terminate(g) ELSE group
  /\ UNCHANGED <<slots, owned, lock, app, restarts, uiVars>>

(* Its end, or that of a port that did not answer.                         *)
WaitDropped(t) ==
  LET g == thread[t].sidecar IN
  /\ At(t, "waitDropped") \/ At(t, "waitPort")
  /\ group' = IF Up(g) THEN Kill(g) ELSE group
  /\ thread' = [thread EXCEPT ![t].pc = IF @ = "waitPort" THEN "sidecar"
                                                         ELSE "failed",
                              ![t].sidecar = None]
  /\ UNCHANGED <<slots, owned, lock, app, restarts, uiVars>>

(* report_failure: the splash keeps the reason; a failed first launch      *)
(* starts no watcher.                                                      *)
ReportFailure(t) ==
  /\ At(t, "failed")
  /\ status' = "failed"
  /\ Goto(t, IF t = Main THEN "loop" ELSE "watch")
  /\ UNCHANGED <<childVars, owned, lock, app, restarts, announced, ended,
                 expired, events, window>>

-----------------------------------------------------------------------------
(* NewPi::stop_runtime, by a quit or by a restart, under the mutex         *)

(* RunEvent::Exit, once the event loop runs.                               *)
Quit ==
  /\ At(Main, "loop")
  /\ Goto(Main, "stop")
  /\ UNCHANGED <<childVars, owned, lock, app, restarts, uiVars>>

(* The watcher saw the plugin tree change: restart_runtime().              *)
NoticeChange ==
  /\ At(Watcher, "watch")
  /\ restarts < MaxRestarts
  /\ restarts' = restarts + 1
  /\ Goto(Watcher, "stop")
  /\ UNCHANGED <<childVars, owned, lock, app, uiVars>>

(* Take the supervisor out of the mutex and clear both slots, keeping the  *)
(* mutex; with none there, only the mutex is passed through.               *)
TakeSupervisor(t) ==
  /\ At(t, "stop")
  /\ lock = None
  /\ \/ /\ owned = Nobody
        /\ Goto(t, "stopped")
        /\ UNCHANGED <<slots, owned, lock>>
     \/ /\ owned # Nobody
        /\ lock' = t
        /\ owned' = Nobody
        /\ slots' = Nobody
        /\ thread' = [thread EXCEPT ![t].pc = "stopSidecar",
                                    ![t].runtime = owned.runtime,
                                    ![t].sidecar = owned.sidecar]
  /\ UNCHANGED <<group, app, restarts, uiVars>>

(* GroupChild::shutdown first, when there is a sidecar that still runs.    *)
StopSidecar(t) ==
  LET g == thread[t].sidecar IN
  /\ At(t, "stopSidecar")
  /\ \/ /\ g # None /\ Up(g)
        /\ group' = Terminate(g)
        /\ Goto(t, "waitSidecar")
     \/ /\ g # None => ~Up(g)
        /\ thread' = [thread EXCEPT ![t].pc = "stopRuntime",
                                    ![t].sidecar = None]
        /\ UNCHANGED group
  /\ UNCHANGED <<slots, owned, lock, app, restarts, uiVars>>

(* It exited within the grace period, or it is killed.                     *)
WaitSidecar(t) ==
  LET g == thread[t].sidecar IN
  /\ At(t, "waitSidecar")
  /\ group' = IF Up(g) THEN Kill(g) ELSE group
  /\ thread' = [thread EXCEPT ![t].pc = "stopRuntime", ![t].sidecar = None]
  /\ UNCHANGED <<slots, owned, lock, app, restarts, uiVars>>

(* The runtime's whole group is always told, even when its leader is gone. *)
StopRuntime(t) ==
  /\ At(t, "stopRuntime")
  /\ group' = Terminate(thread[t].runtime)
  /\ Goto(t, "waitRuntime")
  /\ UNCHANGED <<slots, owned, lock, app, restarts, uiVars>>

WaitRuntime(t) ==
  LET g == thread[t].runtime IN
  /\ At(t, "waitRuntime")
  /\ group' = IF Up(g) THEN Kill(g) ELSE group
  /\ Goto(t, "stopped")
  /\ UNCHANGED <<slots, owned, lock, app, restarts, uiVars>>

(* Supervisor::drop clears the slots and the mutex is released: the main   *)
(* thread leaves the process, the watcher starts the next runtime.         *)
Stopped(t) ==
  /\ At(t, "stopped")
  /\ \/ /\ lock = t
        /\ lock' = None
        /\ slots' = Nobody
     \/ /\ lock # t
        /\ UNCHANGED <<lock, slots>>
  /\ thread' = [thread EXCEPT ![t].pc = IF t = Main THEN "loop" ELSE "prepare",
                              ![t].runtime = None, ![t].sidecar = None]
  /\ app' = IF t = Main THEN "exited" ELSE app
  /\ UNCHANGED <<group, owned, restarts, uiVars>>

-----------------------------------------------------------------------------
(* The environment: children, signals, and the supervisor's own threads    *)

(* forward_termination: SIGTERM to the groups in the two slots, _exit.     *)
Signal ==
  /\ app = "running"
  /\ group' = [g \in Groups |->
                 IF g \in {slots.runtime, slots.sidecar}
                   THEN [group[g] EXCEPT !.told = TRUE]
                   ELSE group[g]]
  /\ app' = "killed"
  /\ UNCHANGED <<slots, owned, lock, thread, restarts, uiVars>>

(* A leader exits, because it was told to or on its own.                   *)
LeaderExits(g) ==
  /\ Up(g)
  /\ group' = [group EXCEPT ![g].leader = "down"]
  /\ UNCHANGED <<slots, owned, lock, thread, app, restarts, uiVars>>

(* The threads that watch a runtime's output are started once its group is *)
(* published.                                                              *)
Watched(g) ==
  /\ app = "running"
  /\ group[g].kind = "runtime"
  /\ \A t \in Threads : thread[t].runtime = g => thread[t].pc # "publishRuntime"

(* The stdout thread reads the readiness line, or the end of the output    *)
(* without one.                                                            *)
ReadStdout(g) ==
  /\ Watched(g)
  /\ g \notin announced \cup ended
  /\ \/ /\ Up(g)
        /\ announced' = announced \cup {g}
        /\ events' = events \cup {[kind |-> "ready", runtime |-> g]}
        /\ UNCHANGED ended
     \/ /\ ~Up(g)
        /\ ended' = ended \cup {g}
        /\ events' = events \cup {[kind |-> "failed", runtime |-> g]}
        /\ UNCHANGED announced
  /\ UNCHANGED <<childVars, owned, lock, thread, app, restarts, expired, status,
                 window>>

(* The deadline thread: READY_TIMEOUT passed without a readiness line,     *)
(* whether or not the runtime still runs.                                  *)
ReadyTimeout(g) ==
  /\ Watched(g)
  /\ g \notin announced \cup expired
  /\ expired' = expired \cup {g}
  /\ events' = events \cup {[kind |-> "failed", runtime |-> g]}
  /\ UNCHANGED <<childVars, owned, lock, thread, app, restarts, announced, ended,
                 status, window>>

(* The forwarding thread.  open_interface() builds the window `main'; when *)
(* one with that label is already there the build fails.                   *)
HandleEvent(e) ==
  /\ app = "running"
  /\ e \in events
  /\ events' = events \ {e}
  /\ \/ /\ e.kind = "ready" /\ window = None
        /\ window' = e.runtime
        /\ status' = "ready"
     \/ /\ e.kind = "failed" \/ window # None
        /\ status' = "failed"
        /\ UNCHANGED window
  /\ UNCHANGED <<childVars, owned, lock, thread, app, restarts, announced,
                 ended, expired>>

-----------------------------------------------------------------------------

ThreadStep(t) ==
  \/ Prepare(t) \/ StartSidecar(t) \/ SidecarHealth(t) \/ PublishSidecar(t)
  \/ WritePatch(t) \/ SpawnRuntime(t) \/ PublishRuntime(t) \/ Adopt(t)
  \/ DropSidecar(t) \/ WaitDropped(t) \/ ReportFailure(t)
  \/ TakeSupervisor(t) \/ StopSidecar(t) \/ WaitSidecar(t)
  \/ StopRuntime(t) \/ WaitRuntime(t) \/ Stopped(t)

Next ==
  \/ \E t \in Threads : ThreadStep(t)
  \/ Quit
  \/ NoticeChange
  \/ Signal
  \/ \E g \in Groups : LeaderExits(g) \/ ReadStdout(g) \/ ReadyTimeout(g)
  \/ \E e \in events : HandleEvent(e)

Spec == Init /\ [][Next]_vars

(* Threads run: their waits are loops with a deadline, or on a mutex whose *)
(* holder runs.  Nothing is assumed of the children, of the user or of     *)
(* signals.                                                                *)
Fairness ==
  /\ \A t \in Threads : WF_vars(ThreadStep(t))
  /\ WF_vars(\E g \in Groups : ReadyTimeout(g))
  /\ WF_vars(\E e \in events : HandleEvent(e))

FairSpec == Spec /\ Fairness

-----------------------------------------------------------------------------
(* Properties                                                              *)

Children(t) == {thread[t].runtime, thread[t].sidecar} \ {None}
OwnedChildren == {owned.runtime, owned.sidecar} \ {None}

(* Once NewPi has quit, however the quit met a restart, what still runs, or *)
(* was never asked to stop, is what the watcher was starting or had        *)
(* adopted while the user quit: a quit on its own leaves nothing, and no   *)
(* earlier launch leaves anything.                                         *)
NothingLeftAfterExit ==
  app = "exited" =>
    \A g \in Groups :
      Up(g) \/ (group[g].kind = "runtime" /\ ~group[g].told)
        => g \in Children(Watcher) \cup OwnedChildren

(* A termination signal that arrives while no thread is starting or        *)
(* stopping children reaches every child that runs.                        *)
SignalReachesChildren ==
  app = "killed" /\ (\A t \in Threads : thread[t].pc \notin Starting \cup Stopping) =>
    \A g \in Groups : Up(g) => group[g].told

(* There is one runtime, and one sidecar on the one database: a restart or *)
(* a second port starts the next only when the last one is gone.           *)
OneOfEachKind ==
  \A g, h \in Groups :
    Up(g) /\ Up(h) /\ group[g].kind = group[h].kind => g = h

(* While NewPi runs, every running child is in somebody's hands: the       *)
(* mutex's supervisor, or a thread that will adopt it or stop it.          *)
NoChildIsLost ==
  app = "running" =>
    \A g \in Groups : Up(g) => g \in OwnedChildren \cup
                                     UNION {Children(t) : t \in Threads}

(* A quit always ends NewPi, even when a child ignores SIGTERM or a        *)
(* restart holds the mutex.                                                *)
QuitCompletes == thread[Main].pc = "stop" ~> app # "running"

(* The splash never stays silent: a launch that does not serve the         *)
(* interface ends with a failure on it, unless NewPi itself ends.          *)
SplashSettles == <>(status # "starting" \/ app # "running")

(* A logout, a `kill' or an interrupt never leaves an orphan harness       *)
(* behind: when the handler leaves, every runtime that announced itself    *)
(* and still runs was told to stop.                                        *)
NoOrphanHarness ==
  app = "killed" =>
    \A g \in announced : Up(g) => group[g].told
=============================================================================
