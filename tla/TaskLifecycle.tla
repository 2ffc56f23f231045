---------------------------- MODULE TaskLifecycle ----------------------------
(****************************************************************************)
(* Tasks competing for devices: the scheduler that claims a queued task with*)
(* all its devices and registers its run, the worker of the run, the stop   *)
(* requests and their terminate threads, rejections and failures, the user's*)
(* release of a scene, recovery tasks that take over the devices of a task  *)
(* that ended badly, and restarts of the platform.                          *)
(*                                                                          *)
(* What a running task does to its devices is OperationGate's subject; here *)
(* it only runs, waits, asks, succeeds or fails.                            *)
(****************************************************************************)
EXTENDS Naturals, FiniteSets

CONSTANTS
  Task,        \* identities of tasks, recovery tasks included
  Device,
  Bindings,    \* device sets an environment offers a new task
  Recovery,    \* identities of recovery proposals
  Backend,     \* backends a task may be created with: "real", "simulation"
  MaxAsking,   \* bound on the ask calls between their check and their write
  MaxStopping, \* bound on the stop requests under way at once
  None         \* no task

ASSUME BindingsAssumption == Bindings \subseteq SUBSET Device
ASSUME BackendAssumption  == Backend \subseteq {"real", "simulation"}
ASSUME MaxAssumption      == MaxAsking \in Nat /\ MaxStopping \in Nat
ASSUME NoneAssumption     == None \notin Task

VARIABLES
  status,      \* tasks.status
  scene,       \* tasks.scene
  uses,        \* devices bound in tasks.snapshot.roles
  backend,     \* tasks.snapshot.backend
  owner,       \* reservations: the task that holds each device
  dispatching, \* the task claimed by the pass that holds dispatch_lock
  worker,      \* "running" and "closing", "reported" are the tasks in Runtime.runs
  cancelled,   \* runs whose cancel event is set
  asking,      \* runs whose agent is inside the ask tool, before its first write
  stopper,     \* the stop request of each task
  signal,      \* tasks whose cancel event a request is about to set
  recovery     \* recovery rows

taskVars == <<status, scene, uses, backend>>
runVars  == <<dispatching, worker, cancelled, asking>>
userVars == <<stopper, signal>>
vars     == <<taskVars, owner, runVars, userVars, recovery>>

Status == {"absent", "queued", "running", "waiting_user", "stopping", "stopped",
           "failed", "succeeded"}
Active == {"queued", "running", "waiting_user", "stopping"}
Ended  == {"stopped", "failed", "succeeded"}
Scene  == {"clean", "unknown", "needs_recovery", "recovering", "restored",
           "recovery_failed", "user_released"}
RecoveryRow == [status : {"absent", "planning", "proposed", "running", "succeeded",
                          "failed", "rejected"},
                task : Task \cup {None}, child : Task \cup {None}]

TypeOK ==
  /\ status \in [Task -> Status] /\ scene \in [Task -> Scene]
  /\ uses \in [Task -> SUBSET Device] /\ backend \in [Task -> {"real", "simulation"}]
  /\ owner \in [Device -> Task \cup {None}]
  /\ dispatching \in Task \cup {None}
  /\ worker \in [Task -> {"none", "running", "closing", "reported", "gone"}]
  /\ cancelled \subseteq Task /\ asking \subseteq Task /\ signal \subseteq Task
  /\ stopper \in [Task -> {"none", "checked", "marked", "terminating"}]
  /\ recovery \in [Recovery -> RecoveryRow]

-----------------------------------------------------------------------------
\* Mutant: a cancelled run counts as gone.
InRunsUncancelled(t) == t \notin cancelled /\ worker[t] \in {"running", "closing", "reported"}

InRuns(t)   == worker[t] \in {"running", "closing", "reported"}
\* A request is about to cancel the run, if there is one or will be one by then.
Signalled(t) == IF InRuns(t) \/ dispatching = t THEN signal \cup {t} ELSE signal
Holds(t)    == \A d \in uses[t] : owner[d] = t
\* Mutant: the reservations are not looked at.
FreeForAll(t, devices) == TRUE

\* No other task has a device of the set: Core.claim, Runtime.approve_recovery.
FreeFor(t, devices) == \A d \in devices : owner[d] \in {t, None}
Given(t, devices)   == [d \in Device |-> IF d \in devices THEN t ELSE owner[d]]
Released(t) == [d \in Device |-> IF owner[d] = t THEN None ELSE owner[d]]

\* Core.fail; the caller leaves the rest alone.
Fail(t) ==
  IF status[t] \in Ended THEN UNCHANGED <<status, scene>>
  ELSE /\ status' = [status EXCEPT ![t] = "failed"]
       /\ scene' = [scene EXCEPT ![t] = "unknown"]

Init ==
  /\ status = [t \in Task |-> "absent"] /\ scene = [t \in Task |-> "clean"]
  /\ uses = [t \in Task |-> {}] /\ backend = [t \in Task |-> "real"]
  /\ owner = [d \in Device |-> None]
  /\ dispatching = None
  /\ worker = [t \in Task |-> "none"]
  /\ cancelled = {} /\ asking = {} /\ signal = {}
  /\ stopper = [t \in Task |-> "none"]
  /\ recovery = [r \in Recovery |-> [status |-> "absent", task |-> None, child |-> None]]

-----------------------------------------------------------------------------
(* Creation and scheduling. Whoever takes dispatch_lock waits for the pass    *)
(* that is dispatching; a pass is one task here, since it lets no more happen *)
(* between two of its claims than between two passes.                        *)

Create(t, devices, b) ==
  /\ dispatching = None
  /\ status[t] = "absent"
  /\ status' = [status EXCEPT ![t] = "queued"]
  /\ uses' = [uses EXCEPT ![t] = devices]
  /\ backend' = [backend EXCEPT ![t] = b]
  /\ UNCHANGED <<scene, owner, runVars, userVars, recovery>>

Claim(t) ==
  /\ dispatching = None
  /\ status[t] = "queued" /\ ~InRuns(t)
  /\ FreeFor(t, uses[t])
  /\ owner' = Given(t, uses[t])
  /\ status' = [status EXCEPT ![t] = "running"]
  /\ dispatching' = t
  /\ UNCHANGED <<scene, uses, backend, worker, cancelled, asking, userVars, recovery>>

\* Mutant: a task that was stopped or rejected meanwhile is not registered.
RegisterRunning(t) ==
  /\ dispatching = t /\ status[t] = "running"
  /\ dispatching' = None
  /\ worker' = [worker EXCEPT ![t] = "running"]
  /\ UNCHANGED <<taskVars, owner, cancelled, asking, userVars, recovery>>

\* The run is entered into Runtime.runs and its worker starts.
Register(t) ==
  /\ dispatching = t
  /\ dispatching' = None
  /\ worker' = [worker EXCEPT ![t] = "running"]
  /\ UNCHANGED <<taskVars, owner, cancelled, asking, userVars, recovery>>

-----------------------------------------------------------------------------
(* A run.                                                                    *)

\* A preview or an operation waits for the user.
Wait(t) ==
  /\ worker[t] = "running" /\ status[t] = "running"
  /\ status' = [status EXCEPT ![t] = "waiting_user"]
  /\ UNCHANGED <<scene, uses, backend, owner, runVars, userVars, recovery>>

\* The user approves, sends a message or answers.
Resume(t) ==
  /\ status[t] = "waiting_user"
  /\ status' = [status EXCEPT ![t] = "running"]
  /\ UNCHANGED <<scene, uses, backend, owner, runVars, userVars, recovery>>

\* The ask tool checks the status, and writes it later without looking again.
BeginAsk(t) ==
  /\ worker[t] = "running" /\ backend[t] = "real" /\ t \notin cancelled \cup asking
  /\ status[t] \in {"running", "waiting_user"}
  /\ Cardinality(asking) < MaxAsking
  /\ asking' = asking \cup {t}
  /\ UNCHANGED <<taskVars, owner, dispatching, worker, cancelled, userVars, recovery>>

WriteAsk(t) ==
  /\ t \in asking
  /\ asking' = asking \ {t}
  /\ status' = [status EXCEPT ![t] = "waiting_user"]
  /\ UNCHANGED <<scene, uses, backend, owner, dispatching, worker, cancelled,
                 userVars, recovery>>

\* Core.finish, after the agent's last tool call has returned.
WorkerFinishes(t) ==
  /\ worker[t] = "running" /\ t \notin asking
  /\ status[t] = "running"
  /\ status' = [status EXCEPT ![t] = "succeeded"]
  /\ scene' = [scene EXCEPT ![t] = "clean"]
  /\ owner' = Released(t)
  /\ worker' = [worker EXCEPT ![t] = "closing"]
  /\ UNCHANGED <<uses, backend, dispatching, cancelled, asking, userVars, recovery>>

\* An exception in the worker, or a tool error that has failed the task.
WorkerFails(t) ==
  /\ worker[t] = "running"
  /\ IF t \in cancelled THEN UNCHANGED <<status, scene>> ELSE Fail(t)
  /\ worker' = [worker EXCEPT ![t] = "closing"]
  /\ UNCHANGED <<uses, backend, owner, dispatching, cancelled, asking, userVars,
                 recovery>>

\* Mutant: only the cancellation of a stop is noticed.
WorkerStopped(t) ==
  /\ worker[t] = "running" /\ t \in cancelled /\ status[t] \in {"stopping", "stopped"}
  /\ worker' = [worker EXCEPT ![t] = "closing"]
  /\ UNCHANGED <<taskVars, owner, dispatching, cancelled, asking, userVars, recovery>>

WorkerCancelled(t) ==
  /\ worker[t] = "running" /\ t \in cancelled
  /\ worker' = [worker EXCEPT ![t] = "closing"]
  /\ UNCHANGED <<taskVars, owner, dispatching, cancelled, asking, userVars, recovery>>

\* A tool error: the call fails the task and cancels the run.
ToolFails(t) ==
  /\ worker[t] = "running" /\ backend[t] = "real"
  /\ Fail(t)
  /\ signal' = Signalled(t)
  /\ UNCHANGED <<uses, backend, owner, runVars, stopper, recovery>>

\* Mutant: the parent's scene is told the recovery task's status.
ReportedStatus(t) == status[t]

ReportedScene(t) == IF status[t] = "succeeded" THEN "restored" ELSE "recovery_failed"

\* The clean-up of a recovery task reports to its row and to its parent's scene.
WorkerReports(t) ==
  /\ worker[t] = "closing"
  /\ worker' = [worker EXCEPT ![t] = "reported"]
  /\ IF \E r \in Recovery : recovery[r].child = t
     THEN \E r \in Recovery :
            /\ recovery[r].child = t
            /\ recovery' = [recovery EXCEPT ![r].status =
                              IF status[t] = "succeeded" THEN "succeeded" ELSE "failed"]
            /\ scene' = [scene EXCEPT ![recovery[r].task] = ReportedScene(t)]
     ELSE UNCHANGED <<recovery, scene>>
  /\ UNCHANGED <<status, uses, backend, owner, dispatching, cancelled, asking,
                 userVars>>

WorkerEnds(t) ==
  /\ worker[t] = "reported"
  /\ worker' = [worker EXCEPT ![t] = "gone"]
  /\ cancelled' = cancelled \ {t}
  /\ UNCHANGED <<taskVars, owner, dispatching, asking, userVars, recovery>>

-----------------------------------------------------------------------------
(* Requests of the user.                                                     *)

\* /api/reject; like ToolFails it cancels the run after the transaction.
Reject(t) ==
  /\ status[t] # "absent"
  /\ Fail(t)
  /\ signal' = Signalled(t)
  /\ UNCHANGED <<uses, backend, owner, runVars, stopper, recovery>>

SignalCancel(t) ==
  /\ t \in signal
  /\ signal' = signal \ {t}
  /\ cancelled' = IF InRuns(t) THEN cancelled \cup {t} ELSE cancelled
  /\ UNCHANGED <<taskVars, owner, dispatching, worker, asking, stopper, recovery>>

\* Runtime.stop looks at the status outside the transactions that follow.
StopCheck(t) ==
  /\ stopper[t] = "none"
  /\ status[t] \in {"queued", "running", "waiting_user"}
  /\ Cardinality({u \in Task : stopper[u] # "none"}) < MaxStopping
  /\ stopper' = [stopper EXCEPT ![t] = "checked"]
  /\ UNCHANGED <<taskVars, owner, runVars, signal, recovery>>

\* Core.stop_simulation looks again: nothing runs remotely, the devices are freed.
StopSimulation(t) ==
  /\ stopper[t] = "checked" /\ backend[t] = "simulation"
  /\ stopper' = [stopper EXCEPT ![t] = "none"]
  /\ IF status[t] \in Ended
     THEN UNCHANGED <<status, scene, owner, signal>>
     ELSE /\ status' = [status EXCEPT ![t] = "stopped"]
          /\ scene' = [scene EXCEPT ![t] = "clean"]
          /\ owner' = Released(t)
          /\ signal' = Signalled(t)
  /\ UNCHANGED <<uses, backend, runVars, recovery>>

StopMark(t) ==
  /\ stopper[t] = "checked" /\ backend[t] = "real"
  /\ stopper' = [stopper EXCEPT ![t] = "marked"]
  /\ status' = [status EXCEPT ![t] = "stopping"]
  /\ UNCHANGED <<scene, uses, backend, owner, runVars, signal, recovery>>

\* Mutant: the devices' executors are terminated only while there is a run.
StopSignalRun(t) ==
  /\ stopper[t] = "marked" /\ InRuns(t)
  /\ stopper' = [stopper EXCEPT ![t] = "terminating"]
  /\ cancelled' = cancelled \cup {t}
  /\ UNCHANGED <<taskVars, owner, dispatching, worker, asking, signal, recovery>>

StopSignal(t) ==
  /\ stopper[t] = "marked"
  /\ stopper' = [stopper EXCEPT ![t] = "terminating"]
  /\ cancelled' = IF InRuns(t) THEN cancelled \cup {t} ELSE cancelled
  /\ UNCHANGED <<taskVars, owner, dispatching, worker, asking, signal, recovery>>

\* The terminate thread: the executor and the loads decide what is confirmed.
Terminate(t) ==
  /\ stopper[t] = "terminating"
  /\ stopper' = [stopper EXCEPT ![t] = "none"]
  /\ status' = [status EXCEPT ![t] = "stopped"]
  /\ \E s \in {"needs_recovery", "unknown"} : scene' = [scene EXCEPT ![t] = s]
  /\ UNCHANGED <<uses, backend, owner, runVars, signal, recovery>>

\* The user has checked the scene and gives the devices back.
ReleaseScene(t) ==
  /\ dispatching = None
  /\ ~InRuns(t) /\ status[t] \in Ended
  /\ owner' = Released(t)
  /\ scene' = [scene EXCEPT ![t] = "user_released"]
  /\ UNCHANGED <<status, uses, backend, runVars, userVars, recovery>>

-----------------------------------------------------------------------------
(* Recovery. A proposal is planned in the background and approved by the     *)
(* user; everything the first check looked at is looked at again then.       *)

ProposeRecovery(r, t) ==
  /\ recovery[r].status = "absent"
  /\ status[t] \in {"failed", "stopped"} /\ ~InRuns(t)
  /\ \A q \in Recovery :
       recovery[q].task = t => recovery[q].status \notin {"planning", "running", "proposed"}
  /\ recovery' = [recovery EXCEPT ![r] = [status |-> "planning", task |-> t, child |-> None]]
  /\ UNCHANGED <<taskVars, owner, runVars, userVars>>

PlanRecovery(r) ==
  /\ recovery[r].status = "planning"
  /\ \E s \in {"proposed", "failed"} : recovery' = [recovery EXCEPT ![r].status = s]
  /\ UNCHANGED <<taskVars, owner, runVars, userVars>>

RejectRecovery(r) ==
  /\ recovery[r].status = "proposed"
  /\ recovery' = [recovery EXCEPT ![r].status = "rejected"]
  /\ UNCHANGED <<taskVars, owner, runVars, userVars>>

\* Mutant: the parent's devices are given back for the new task to claim.
GivenBack(t, c) == Released(t)

\* The devices of t pass to c.
HandedOver(t, c) == [d \in Device |-> IF d \in uses[t] THEN c ELSE Released(t)[d]]

\* The parent's devices pass to a new task in one transaction under dispatch_lock.
\* A simulated one has nothing to do and is over at once.
ApproveRecovery(r, c) ==
  LET t == recovery[r].task IN
  /\ dispatching = None
  /\ recovery[r].status = "proposed" /\ status[c] = "absent"
  /\ ~InRuns(t) /\ status[t] \in {"failed", "stopped"}
  /\ FreeFor(t, uses[t])
  /\ uses' = [uses EXCEPT ![c] = uses[t]]
  /\ backend' = [backend EXCEPT ![c] = backend[t]]
  /\ IF backend[t] = "real"
     THEN /\ status' = [status EXCEPT ![c] = "queued"]
          /\ scene' = [scene EXCEPT ![c] = "unknown", ![t] = "recovering"]
          /\ owner' = HandedOver(t, c)
          /\ recovery' = [recovery EXCEPT ![r].status = "running", ![r].child = c]
     ELSE /\ status' = [status EXCEPT ![c] = "succeeded"]
          /\ scene' = [scene EXCEPT ![t] = "restored"]
          /\ owner' = Released(t)
          /\ recovery' = [recovery EXCEPT ![r].status = "succeeded", ![r].child = c]
  /\ UNCHANGED <<runVars, userVars>>

-----------------------------------------------------------------------------
(* The platform stops or crashes and comes back: every thread is gone and    *)
(* Core.recover_startup looks at what it left.                               *)

Interrupted == {r \in Recovery : recovery[r].status \in {"planning", "running"}}

Restart ==
  /\ dispatching' = None
  /\ worker' = [t \in Task |-> IF worker[t] = "none" THEN "none" ELSE "gone"]
  /\ cancelled' = {} /\ asking' = {} /\ signal' = {}
  /\ stopper' = [t \in Task |-> "none"]
  /\ status' = [t \in Task |-> IF status[t] \in Active THEN "failed" ELSE status[t]]
  /\ scene' = [t \in Task |->
       IF \E r \in Interrupted : recovery[r].task = t THEN "recovery_failed"
       ELSE IF status[t] \in Active THEN "unknown"
       ELSE scene[t]]
  /\ recovery' = [r \in Recovery |->
       IF r \in Interrupted THEN [recovery[r] EXCEPT !.status = "failed"] ELSE recovery[r]]
  /\ UNCHANGED <<uses, backend, owner>>

-----------------------------------------------------------------------------
Dispatch(t) == Claim(t) \/ Register(t)

RunStep(t) ==
  \/ Wait(t) \/ BeginAsk(t) \/ WriteAsk(t) \/ ToolFails(t)
  \/ WorkerFinishes(t) \/ WorkerFails(t) \/ WorkerCancelled(t)
  \/ WorkerReports(t) \/ WorkerEnds(t)

RequestStep(t) ==
  \/ SignalCancel(t) \/ StopSimulation(t) \/ StopMark(t) \/ StopSignal(t) \/ Terminate(t)

UserStep(t) ==
  \/ \E devices \in Bindings, b \in Backend : Create(t, devices, b)
  \/ Resume(t) \/ Reject(t) \/ StopCheck(t) \/ ReleaseScene(t)

RecoveryStep(r) ==
  \/ PlanRecovery(r) \/ RejectRecovery(r)
  \/ \E t \in Task : ProposeRecovery(r, t) \/ ApproveRecovery(r, t)

Next ==
  \/ \E t \in Task : Dispatch(t) \/ RunStep(t) \/ RequestStep(t) \/ UserStep(t)
  \/ \E r \in Recovery : RecoveryStep(r)
  \/ Restart

Spec == Init /\ [][Next]_vars

(* The scheduler looks at every queued task five times a second, and threads *)
(* that only have to clean up or terminate get there; agents and users       *)
(* promise nothing.                                                          *)
Fairness ==
  \A t \in Task :
    /\ WF_vars(Dispatch(t)) /\ WF_vars(RequestStep(t)) /\ WF_vars(WriteAsk(t))
    /\ WF_vars(WorkerCancelled(t)) /\ WF_vars(WorkerReports(t)) /\ WF_vars(WorkerEnds(t))

FairSpec == Spec /\ Fairness

-----------------------------------------------------------------------------
(* Properties.                                                               *)

\* The tasks that are at work on real devices: from the claim until the worker is
\* done.
Operating == {t \in Task : backend[t] = "real" /\ (worker[t] = "running" \/ dispatching = t)}

\* The devices a run is at work on.
Using == [t \in Task |-> IF t \in Operating THEN uses[t] ELSE {}]

\* Claims, runs, stops, recoveries and restarts move the reservations the way
\* DeviceLease promises.
Lease == INSTANCE DeviceLease WITH using <- Using

KeepsLease == Lease!Spec

\* A recovery task that waits in the queue has its parent's devices already:
\* nobody gets in between (approve_recovery).
HandoverIsAtomic ==
  \A r \in Recovery :
    recovery[r].status = "running" /\ status[recovery[r].child] = "queued"
      => Holds(recovery[r].child)

\* A task is not at work while it is being recovered (approve_recovery).
ParentIdleDuringRecovery ==
  \A r \in Recovery :
    recovery[r].status = "running" => recovery[r].task \notin Operating

\* From its approval on, a recovery is alone with the devices: its parent is not at
\* work any more and no third task gets in before the child (approve_recovery).
RecoveryIsExclusive == HandoverIsAtomic /\ ParentIdleDuringRecovery

\* A device changes hands only through its owner's completion, the user's release
\* of the scene, a simulated stop, or the approval of the owner's recovery.
DevicesChangeHandsOnPurpose ==
  [][\A d \in Device : owner[d] # None /\ owner'[d] # owner[d] =>
       LET t == owner[d] IN
       IF owner'[d] = None
       THEN \/ status'[t] = "succeeded" \/ scene'[t] = "user_released"
            \/ backend[t] = "simulation"
       ELSE \E r \in Recovery : recovery'[r].task = t /\ recovery'[r].child = owner'[d]]_vars

\* A queued task whose devices stay free is claimed.
FreeTaskIsClaimed ==
  \A t \in Task : ~<>[](status[t] = "queued" /\ FreeFor(t, uses[t]))

\* A cancelled run is cleaned up and forgotten, and stopping is not a state to
\* stay in (Runtime.worker, Runtime.stop).
CancelledRunEnds ==
  \A t \in Task :
    /\ t \in cancelled ~> ~InRuns(t)
    /\ status[t] = "stopping" ~> status[t] # "stopping"

-----------------------------------------------------------------------------
(* Claims of the documentation and the interface that the code does not keep.*)

\* README:48 and app.js:115: while the scene of a task that was at work is not
\* settled, its devices stay reserved.
UnsettledSceneKeepsDevices ==
  \A t \in {u \in Task : worker[u] # "none"} :
    status[t] \in {"failed", "stopped"} /\ scene[t] \in {"unknown", "needs_recovery"}
      => Holds(t)

\* A recovery shown as running has a recovery task that is, or is being cleaned up.
RunningRecoveryHasTask ==
  \A r \in Recovery :
    recovery[r].status = "running" =>
      status[recovery[r].child] \in Active \/ InRuns(recovery[r].child)
=============================================================================
