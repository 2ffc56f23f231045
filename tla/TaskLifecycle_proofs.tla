------------------------- MODULE TaskLifecycle_proofs -------------------------
(* Theorems about TaskLifecycle, for any tasks, devices, bindings, recoveries *)
(* and bounds.                                                               *)
EXTENDS TaskLifecycle, TLAPS

-----------------------------------------------------------------------------
(* Types. That a recovery row names a task is part of them: the approval of a *)
(* recovery reads its parent's devices.                                      *)

RecoveryNamesTask ==
  \A r \in Recovery :
    /\ recovery[r].status # "absent" \/ recovery[r].child # None => recovery[r].task \in Task
    /\ recovery[r].status = "running" => recovery[r].child \in Task

TypeInv == TypeOK /\ RecoveryNamesTask

\* How a step changes a recovery row: it settles it, proposes it or approves it.
RowSettled(r) ==
  /\ recovery'[r].task = recovery[r].task /\ recovery'[r].child = recovery[r].child
  /\ \/ recovery'[r].status = recovery[r].status
     \/ /\ recovery'[r].status \in {"proposed", "failed", "rejected", "succeeded"}
        /\ recovery[r].task \in Task

RowProposed(r) ==
  /\ recovery'[r].status = "planning" /\ recovery'[r].child = None
  /\ recovery'[r].task \in Task

RowApproved(r) ==
  /\ recovery[r].task \in Task /\ recovery'[r].task = recovery[r].task
  /\ recovery'[r].child \in Task /\ ApproveRecovery(r, recovery'[r].child)
  /\ recovery'[r].status = IF backend[recovery[r].task] = "real" THEN "running" ELSE "succeeded"

RecoveryMove(r) == RowSettled(r) \/ RowProposed(r) \/ RowApproved(r)

\* A recovery of a task that gets another status is still one, and settled.
LEMMA SetRecoveryStatus ==
  ASSUME TypeOK, NEW r \in Recovery,
         NEW s \in {"proposed", "failed", "rejected", "succeeded"},
         recovery[r].task \in Task,
         recovery' = [recovery EXCEPT ![r].status = s]
  PROVE  /\ recovery' \in [Recovery -> RecoveryRow]
         /\ \A q \in Recovery : RecoveryMove(q)
<1>1. ASSUME NEW q \in Recovery
      PROVE  /\ q = r => recovery'[q] = [recovery[q] EXCEPT !.status = s]
             /\ q # r => recovery'[q] = recovery[q]
             /\ recovery[q] \in RecoveryRow
  BY DEF TypeOK
<1>2. ASSUME NEW q \in Recovery PROVE recovery'[q] \in RecoveryRow
  <2>1. CASE q = r
    <3>1. recovery'[q] = [recovery[q] EXCEPT !.status = s]
      BY <1>1, <2>1
    <3>2. recovery[q] \in RecoveryRow
      BY <1>1
    <3> QED BY <3>1, <3>2 DEF RecoveryRow
  <2>2. CASE q # r
    BY <1>1, <2>2
  <2> QED BY <2>1, <2>2
<1>3. ASSUME NEW q \in Recovery PROVE RowSettled(q)
  BY <1>1 DEF RecoveryRow, RowSettled
<1> QED BY <1>2, <1>3 DEF TypeOK, RecoveryMove

\* Every step settles, proposes or approves a recovery, or leaves it.
LEMMA RecoveryMoves ==
  ASSUME TypeInv, [Next]_vars
  PROVE  /\ recovery' \in [Recovery -> RecoveryRow]
         /\ \A r \in Recovery : RecoveryMove(r)
<1> USE DEF TypeInv
<1>0. ASSUME NEW q \in Recovery PROVE recovery[q] \in RecoveryRow
  BY DEF TypeOK
<1>1. CASE UNCHANGED recovery
  BY <1>1 DEF TypeOK, RecoveryMove, RowSettled
<1>2. ASSUME NEW t \in Task, WorkerReports(t)
      PROVE  /\ recovery' \in [Recovery -> RecoveryRow]
             /\ \A r \in Recovery : RecoveryMove(r)
  <2>1. CASE \E r \in Recovery : recovery[r].child = t
    <3>1. PICK r \in Recovery :
            /\ recovery[r].child = t
            /\ recovery' = [recovery EXCEPT ![r].status =
                              IF status[t] = "succeeded" THEN "succeeded" ELSE "failed"]
      BY <1>2, <2>1 DEF WorkerReports
    <3>2. recovery[r].task \in Task
      BY <3>1, NoneAssumption DEF RecoveryNamesTask
    <3> QED BY <3>1, <3>2, SetRecoveryStatus
  <2> QED BY <1>1, <1>2, <2>1 DEF WorkerReports
<1>3. ASSUME NEW r \in Recovery, PlanRecovery(r) \/ RejectRecovery(r)
      PROVE  /\ recovery' \in [Recovery -> RecoveryRow]
             /\ \A q \in Recovery : RecoveryMove(q)
  <2>1. recovery[r].task \in Task
    BY <1>3 DEF PlanRecovery, RejectRecovery, RecoveryNamesTask
  <2> QED BY <1>3, <2>1, SetRecoveryStatus DEF PlanRecovery, RejectRecovery
<1>4. ASSUME NEW r \in Recovery, NEW t \in Task, ProposeRecovery(r, t)
      PROVE  /\ recovery' \in [Recovery -> RecoveryRow]
             /\ \A q \in Recovery : RecoveryMove(q)
  <2>1. recovery' = [recovery EXCEPT ![r] = [status |-> "planning", task |-> t, child |-> None]]
    BY <1>4 DEF ProposeRecovery
  <2>2. ASSUME NEW q \in Recovery
        PROVE  recovery'[q] = IF q = r THEN [status |-> "planning", task |-> t, child |-> None]
                                       ELSE recovery[q]
    BY <2>1 DEF TypeOK
  <2>3. [status |-> "planning", task |-> t, child |-> None] \in RecoveryRow
    BY DEF RecoveryRow
  <2> QED BY <2>1, <2>2, <2>3 DEF TypeOK, RecoveryMove, RowSettled, RowProposed
<1>5. ASSUME NEW r \in Recovery, NEW c \in Task, ApproveRecovery(r, c)
      PROVE  /\ recovery' \in [Recovery -> RecoveryRow]
             /\ \A q \in Recovery : RecoveryMove(q)
  <2>1. recovery[r].task \in Task
    BY <1>5 DEF ApproveRecovery, RecoveryNamesTask
  <2>2. PICK s \in {"running", "succeeded"} :
          /\ s = IF backend[recovery[r].task] = "real" THEN "running" ELSE "succeeded"
          /\ recovery' = [recovery EXCEPT ![r].status = s, ![r].child = c]
    BY <1>5 DEF ApproveRecovery
  <2>3. ASSUME NEW q \in Recovery
        PROVE  /\ q = r => recovery'[q] = [[recovery[q] EXCEPT !.status = s] EXCEPT !.child = c]
               /\ q # r => recovery'[q] = recovery[q]
    BY <2>2 DEF TypeOK
  <2>4. ASSUME NEW q \in Recovery PROVE recovery'[q] \in RecoveryRow
    BY <1>0, <2>3 DEF RecoveryRow
  <2>5. /\ recovery'[r].task = recovery[r].task /\ recovery'[r].child = c
        /\ recovery'[r].status = s
    BY <1>0, <2>3 DEF RecoveryRow
  <2>6. RowApproved(r)
    BY <1>5, <2>1, <2>2, <2>5 DEF RowApproved
  <2>7. ASSUME NEW q \in Recovery, q # r PROVE RowSettled(q)
    BY <2>3, <2>7 DEF RowSettled
  <2> QED BY <2>2, <2>4, <2>6, <2>7 DEF TypeOK, RecoveryMove
<1>6. CASE Restart
  <2>1. ASSUME NEW q \in Recovery
        PROVE  recovery'[q] = IF q \in Interrupted THEN [recovery[q] EXCEPT !.status = "failed"]
                                                   ELSE recovery[q]
    BY <1>6 DEF Restart
  <2>2. ASSUME NEW q \in Recovery PROVE recovery'[q] \in RecoveryRow
    BY <1>0, <2>1 DEF RecoveryRow
  <2>3. ASSUME NEW q \in Recovery PROVE RowSettled(q)
    <3>1. q \in Interrupted => recovery[q].task \in Task
      BY DEF Interrupted, RecoveryNamesTask
    <3> QED BY <1>0, <2>1, <3>1 DEF RecoveryRow, RowSettled
  <2> QED BY <1>6, <2>2, <2>3 DEF Restart, RecoveryMove
<1> QED
  BY <1>1, <1>2, <1>3, <1>4, <1>5, <1>6
     DEF Next, Dispatch, Claim, Register, RunStep, Wait, BeginAsk, WriteAsk, ToolFails,
         WorkerFinishes, WorkerFails, WorkerCancelled, WorkerEnds, RequestStep,
         SignalCancel, StopSimulation, StopMark, StopSignal, Terminate, UserStep, Create,
         Resume, Reject, StopCheck, ReleaseScene, RecoveryStep, vars

\* A recovery keeps the task it is for.
LEMMA RecoveryNamesTaskStep ==
  ASSUME TypeInv, [Next]_vars
  PROVE  RecoveryNamesTask'
<1> SUFFICES ASSUME NEW r \in Recovery
             PROVE  /\ recovery'[r].status # "absent" \/ recovery'[r].child # None
                         => recovery'[r].task \in Task
                    /\ recovery'[r].status = "running" => recovery'[r].child \in Task
  BY DEF RecoveryNamesTask
<1>1. RecoveryMove(r)
  BY RecoveryMoves
<1> QED
  BY <1>1 DEF RecoveryMove, RowSettled, RowProposed, RowApproved, TypeInv, RecoveryNamesTask

\* Every task, run, reservation and recovery row keeps its type, and a recovery that
\* exists names the task it is for.
THEOREM TypeCorrect == Spec => []TypeInv
<1>1. Init => TypeInv
  <2>1. Init => TypeOK
    <3>1. [status |-> "absent", task |-> None, child |-> None] \in RecoveryRow
      BY DEF RecoveryRow
    <3> QED BY <3>1 DEF Init, TypeOK, Status, Scene
  <2> QED BY <2>1 DEF Init, TypeInv, RecoveryNamesTask
<1>2. TypeInv /\ [Next]_vars => TypeOK'
  <2> SUFFICES ASSUME TypeInv, [Next]_vars PROVE TypeOK'
    OBVIOUS
  <2>0. recovery' \in [Recovery -> RecoveryRow] /\ TypeOK
    BY RecoveryMoves DEF TypeInv
  <2> USE <2>0 DEF TypeOK, vars, taskVars, runVars, userVars
  <2>1. ASSUME NEW t \in Task, Dispatch(t) PROVE TypeOK'
    BY <2>1 DEF Dispatch, Claim, Register, Given, Status
  <2>2. ASSUME NEW t \in Task, RunStep(t) PROVE TypeOK'
    <3>1. CASE Wait(t) \/ BeginAsk(t) \/ WriteAsk(t)
      BY <3>1 DEF Wait, BeginAsk, WriteAsk, Status
    <3>2. CASE ToolFails(t)
      BY <3>2 DEF ToolFails, Fail, Signalled, Status, Scene
    <3>3. CASE WorkerFinishes(t)
      BY <3>3 DEF WorkerFinishes, Released, Status, Scene
    <3>4. CASE WorkerFails(t) \/ WorkerCancelled(t) \/ WorkerEnds(t)
      BY <3>4 DEF WorkerFails, WorkerCancelled, WorkerEnds, Fail, Status, Scene
    <3>5. CASE WorkerReports(t)
      <4>1. scene' \in [Task -> Scene]
        BY <3>5 DEF WorkerReports, ReportedScene, Scene
      <4> QED BY <3>5, <4>1 DEF WorkerReports
    <3> QED BY <2>2, <3>1, <3>2, <3>3, <3>4, <3>5 DEF RunStep
  <2>3. ASSUME NEW t \in Task, RequestStep(t) PROVE TypeOK'
    <3>1. CASE SignalCancel(t) \/ StopMark(t) \/ StopSignal(t)
      BY <3>1 DEF SignalCancel, StopMark, StopSignal, Status
    <3>2. CASE StopSimulation(t)
      BY <3>2 DEF StopSimulation, Released, Signalled, Status, Scene
    <3>3. CASE Terminate(t)
      BY <3>3 DEF Terminate, Status, Scene
    <3> QED BY <2>3, <3>1, <3>2, <3>3 DEF RequestStep
  <2>4. ASSUME NEW t \in Task, UserStep(t) PROVE TypeOK'
    <3>1. ASSUME NEW devices \in Bindings, NEW b \in Backend, Create(t, devices, b)
          PROVE  TypeOK'
      BY <3>1, BindingsAssumption, BackendAssumption DEF Create, Status
    <3>2. CASE Resume(t) \/ StopCheck(t)
      BY <3>2 DEF Resume, StopCheck, Status
    <3>3. CASE Reject(t)
      BY <3>3 DEF Reject, Fail, Signalled, Status, Scene
    <3>4. CASE ReleaseScene(t)
      BY <3>4 DEF ReleaseScene, Released, Scene
    <3> QED BY <2>4, <3>1, <3>2, <3>3, <3>4 DEF UserStep
  <2>5. ASSUME NEW r \in Recovery, RecoveryStep(r) PROVE TypeOK'
    <3>1. ASSUME NEW c \in Task, ApproveRecovery(r, c) PROVE TypeOK'
      <4>1. recovery[r].task \in Task
        BY <3>1 DEF ApproveRecovery, TypeInv, RecoveryNamesTask
      <4>2. /\ status' \in [Task -> Status] /\ scene' \in [Task -> Scene]
            /\ owner' \in [Device -> Task \cup {None}]
        BY <3>1, <4>1 DEF ApproveRecovery, HandedOver, Released, Status, Scene
      <4> QED BY <3>1, <4>1, <4>2 DEF ApproveRecovery
    <3> QED BY <2>5, <3>1 DEF RecoveryStep, PlanRecovery, RejectRecovery, ProposeRecovery
  <2>6. CASE Restart
    <3>1. status' \in [Task -> Status] /\ scene' \in [Task -> Scene]
      BY <2>6 DEF Restart, Status, Scene
    <3> QED BY <2>6, <3>1 DEF Restart
  <2>7. CASE UNCHANGED vars
    BY <2>7
  <2> QED BY <2>1, <2>2, <2>3, <2>4, <2>5, <2>6, <2>7 DEF Next
<1>3. TypeInv /\ [Next]_vars => TypeInv'
  BY <1>2, RecoveryNamesTaskStep DEF TypeInv
<1> QED BY <1>1, <1>3, PTL DEF Spec

\* The interface's type invariant, TypeOK, in particular: every task, reservation,
\* run, request and recovery row of the platform is one the code can store.
THEOREM TypesHold == Spec => []TypeOK
<1>1. TypeInv => TypeOK
  BY DEF TypeInv
<1> QED BY <1>1, TypeCorrect, PTL

-----------------------------------------------------------------------------
(* Runs. A task that does not exist has no run, no ask call and no stop        *)
(* request, and the task that is being dispatched is not in Runtime.runs yet. *)

AbsentIsIdle ==
  \A t \in Task :
    status[t] = "absent" =>
      worker[t] = "none" /\ dispatching # t /\ t \notin asking /\ stopper[t] = "none"

DispatchIsFresh == \A t \in Task : dispatching = t => ~InRuns(t)

RunInv == TypeInv /\ AbsentIsIdle /\ DispatchIsFresh

\* The row of a task once it is there, and how it comes to be there or to be queued.
RowMove(t) ==
  /\ status[t] # "absent" => /\ status'[t] # "absent"
                             /\ uses'[t] = uses[t] /\ backend'[t] = backend[t]
  /\ status'[t] # status[t] => status[t] = "absent" \/ status'[t] # "queued"

\* Every step moves a task's row in one of the ways of RowMove.
LEMMA RowMoves ==
  ASSUME RunInv, [Next]_vars, NEW t \in Task
  PROVE  RowMove(t)
<1> USE DEF RunInv, TypeInv, TypeOK, vars, taskVars, runVars, userVars
<1>1. ASSUME NEW u \in Task, Dispatch(u) PROVE RowMove(t)
  BY <1>1 DEF Dispatch, Claim, Register, RowMove
<1>2. ASSUME NEW u \in Task, RunStep(u) PROVE RowMove(t)
  BY <1>2 DEF RunStep, Wait, BeginAsk, WriteAsk, ToolFails, WorkerFinishes, WorkerFails,
              WorkerCancelled, WorkerReports, WorkerEnds, Fail, RowMove
<1>3. ASSUME NEW u \in Task, RequestStep(u) PROVE RowMove(t)
  BY <1>3 DEF RequestStep, SignalCancel, StopSimulation, StopMark, StopSignal, Terminate,
              RowMove
<1>4. ASSUME NEW u \in Task, UserStep(u) PROVE RowMove(t)
  BY <1>4 DEF UserStep, Create, Resume, Reject, StopCheck, ReleaseScene, Fail, RowMove
<1>5. ASSUME NEW r \in Recovery, RecoveryStep(r) PROVE RowMove(t)
  <2>1. ASSUME NEW c \in Task, ApproveRecovery(r, c) PROVE RowMove(t)
    BY <2>1 DEF ApproveRecovery, RowMove
  <2> QED BY <1>5, <2>1 DEF RecoveryStep, PlanRecovery, RejectRecovery, ProposeRecovery, RowMove
<1>6. CASE Restart
  BY <1>6 DEF Restart, Active, RowMove
<1>7. CASE UNCHANGED vars
  BY <1>7 DEF RowMove
<1> QED BY <1>1, <1>2, <1>3, <1>4, <1>5, <1>6, <1>7 DEF Next

\* Nothing runs for a task that has not been created.
LEMMA AbsentIsIdleStep ==
  ASSUME RunInv, [Next]_vars
  PROVE  AbsentIsIdle'
<1> USE DEF RunInv, TypeInv, TypeOK, vars, taskVars, runVars, userVars
<1> SUFFICES ASSUME NEW t \in Task, status'[t] = "absent"
             PROVE  /\ worker'[t] = "none" /\ dispatching' # t
                    /\ t \notin asking' /\ stopper'[t] = "none"
  BY DEF AbsentIsIdle
<1>0. /\ status[t] = "absent" /\ worker[t] = "none" /\ dispatching # t
      /\ t \notin asking /\ stopper[t] = "none"
  BY RowMoves DEF RowMove, AbsentIsIdle
<1> HIDE DEF AbsentIsIdle
<1> DEFINE Idle == /\ worker'[t] = "none" /\ dispatching' # t
                   /\ t \notin asking' /\ stopper'[t] = "none"
<1>1. ASSUME NEW u \in Task, Dispatch(u) PROVE Idle
  BY <1>0, <1>1, NoneAssumption DEF Dispatch, Claim, Register
<1>2. ASSUME NEW u \in Task, RunStep(u) PROVE Idle
  BY <1>0, <1>2 DEF RunStep, Wait, BeginAsk, WriteAsk, ToolFails, WorkerFinishes,
       WorkerFails, WorkerCancelled, WorkerReports, WorkerEnds
<1>3. ASSUME NEW u \in Task, RequestStep(u) PROVE Idle
  BY <1>0, <1>3 DEF RequestStep, SignalCancel, StopSimulation, StopMark, StopSignal, Terminate
<1>4. ASSUME NEW u \in Task, UserStep(u) PROVE Idle
  BY <1>0, <1>4 DEF UserStep, Create, Resume, Reject, StopCheck, ReleaseScene
<1>5. ASSUME NEW r \in Recovery, RecoveryStep(r) PROVE Idle
  BY <1>0, <1>5 DEF RecoveryStep, PlanRecovery, RejectRecovery, ProposeRecovery, ApproveRecovery
<1>6. CASE Restart
  BY <1>0, <1>6, NoneAssumption DEF Restart
<1>7. CASE UNCHANGED vars
  BY <1>0, <1>7
<1> QED BY <1>1, <1>2, <1>3, <1>4, <1>5, <1>6, <1>7 DEF Next

\* The scheduler registers the task it has claimed, before anybody ends it.
LEMMA DispatchIsFreshStep ==
  ASSUME RunInv, [Next]_vars
  PROVE  DispatchIsFresh'
<1> USE DEF RunInv, TypeInv, TypeOK, DispatchIsFresh, InRuns, vars, taskVars, runVars, userVars
<1>1. ASSUME NEW u \in Task, Dispatch(u) PROVE DispatchIsFresh'
  BY <1>1, NoneAssumption DEF Dispatch, Claim, Register
<1>2. ASSUME NEW u \in Task, RunStep(u) PROVE DispatchIsFresh'
  BY <1>2 DEF RunStep, Wait, BeginAsk, WriteAsk, ToolFails, WorkerFinishes,
       WorkerFails, WorkerCancelled, WorkerReports, WorkerEnds
<1>3. ASSUME NEW u \in Task, RequestStep(u) PROVE DispatchIsFresh'
  BY <1>3 DEF RequestStep, SignalCancel, StopSimulation, StopMark, StopSignal, Terminate
<1>4. ASSUME NEW u \in Task, UserStep(u) PROVE DispatchIsFresh'
  BY <1>4 DEF UserStep, Create, Resume, Reject, StopCheck, ReleaseScene
<1>5. ASSUME NEW r \in Recovery, RecoveryStep(r) PROVE DispatchIsFresh'
  BY <1>5 DEF RecoveryStep, PlanRecovery, RejectRecovery, ProposeRecovery, ApproveRecovery
<1>6. CASE Restart
  BY <1>6, NoneAssumption DEF Restart
<1>7. CASE UNCHANGED vars
  BY <1>7
<1> QED BY <1>1, <1>2, <1>3, <1>4, <1>5, <1>6, <1>7 DEF Next

\* Runs belong to tasks, always.
LEMMA RunsAreOfTasks == Spec => []RunInv
<1>1. Init => AbsentIsIdle /\ DispatchIsFresh
  BY NoneAssumption DEF Init, AbsentIsIdle, DispatchIsFresh
<1>2. RunInv /\ [Next]_vars => (AbsentIsIdle /\ DispatchIsFresh)'
  BY AbsentIsIdleStep, DispatchIsFreshStep
<1>3. RunInv <=> TypeInv /\ AbsentIsIdle /\ DispatchIsFresh
  BY DEF RunInv
<1> QED BY <1>1, <1>2, <1>3, TypeCorrect, PTL DEF Spec

-----------------------------------------------------------------------------
(* The lease. Every step of the platform is a step of DeviceLease, where the  *)
(* devices a task uses are those its run is at work on, or changes nothing    *)
(* there.                                                                    *)

\* A step that leaves bindings and runs alone moves what is used only if it settles
\* who dispatches.
LEMMA UsingKept ==
  ASSUME \A t \in Task : t \in Operating' <=> t \in Operating,
         \A t \in Operating : uses'[t] = uses[t]
  PROVE  Using' = Using
BY DEF Using, Operating

\* A run that is over, and nothing else that was at work, stops using its devices.
LEMMA UsingCeases ==
  ASSUME NEW t \in Task, DispatchIsFresh, worker[t] = "running", worker'[t] = "closing",
         \A u \in Task : u # t => worker'[u] = worker[u],
         UNCHANGED <<uses, backend, dispatching>>
  PROVE  /\ Using' = [Using EXCEPT ![t] = {}]
         /\ Using' = [u \in Task |-> IF u \in {t} THEN {} ELSE Using[u]]
<1>1. \A u \in Task : u \in Operating' <=> u \in Operating /\ u # t
  BY DEF Operating, DispatchIsFresh, InRuns
<1> QED BY <1>1 DEF Using

\* The scheduler keeps the lease: it claims devices that are free.
LEMMA DispatchLeases ==
  ASSUME RunInv, NEW t \in Task, Dispatch(t)
  PROVE  [Lease!Next]_(Lease!vars)
<1> USE DEF RunInv, TypeInv, TypeOK
<1>1. CASE Claim(t)
  <2>1. Using = [u \in Task |-> IF u \in Operating THEN uses[u] ELSE {}] /\ t \notin Operating
    BY <1>1, NoneAssumption DEF Claim, Using, Operating, InRuns
  <2>2. \A u \in Task : u \in Operating' <=> u \in Operating \/ (u = t /\ backend[t] = "real")
    BY <1>1, NoneAssumption DEF Claim, Operating, InRuns
  <2>3. Using' = [Using EXCEPT ![t] = IF backend[t] = "real" THEN uses[t] ELSE {}]
    BY <1>1, <2>1, <2>2 DEF Using, Claim
  <2>4. Lease!Acquire(t, uses[t])
    BY <1>1, <2>1, <2>3 DEF Claim, FreeFor, Given, Lease!Acquire, Lease!Idle, Lease!FreeFor
  <2> QED BY <2>4 DEF Lease!Next
<1>2. CASE Register(t)
  <2>1. Using' = Using
    BY <1>2, UsingKept, NoneAssumption DEF Register, Operating, taskVars
  <2> QED BY <1>2, <2>1 DEF Register, Lease!vars
<1> QED BY <1>1, <1>2 DEF Dispatch

\* A run keeps the lease: its worker begins on devices of its own.
LEMMA RunLeases ==
  ASSUME RunInv, NEW t \in Task, RunStep(t)
  PROVE  [Lease!Next]_(Lease!vars)
<1> USE DEF RunInv, TypeInv, TypeOK
<1>1. CASE Wait(t) \/ BeginAsk(t) \/ WriteAsk(t) \/ ToolFails(t) \/ WorkerReports(t)
           \/ WorkerEnds(t)
  <2>1. UNCHANGED <<uses, backend, owner, dispatching>>
        /\ \A u \in Task : worker'[u] = "running" <=> worker[u] = "running"
    BY <1>1 DEF Wait, BeginAsk, WriteAsk, ToolFails, WorkerReports, WorkerEnds, runVars, taskVars
  <2>2. Using' = Using
    BY <2>1, UsingKept DEF Operating
  <2> QED BY <2>1, <2>2 DEF Lease!vars
<1>2. CASE WorkerFinishes(t)
  <2>1. Using' = [Using EXCEPT ![t] = {}]
    BY <1>2, UsingCeases DEF WorkerFinishes
  <2>2. Lease!GiveBack(t)
    BY <1>2, <2>1 DEF WorkerFinishes, Released, Lease!GiveBack, Lease!Released
  <2> QED BY <2>2 DEF Lease!Next
<1>3. CASE WorkerFails(t) \/ WorkerCancelled(t)
  <2>1. Using' = [u \in Task |-> IF u \in {t} THEN {} ELSE Using[u]] /\ UNCHANGED owner
    BY <1>3, UsingCeases DEF WorkerFails, WorkerCancelled, taskVars
  <2>2. Lease!Cease({t})
    BY <2>1 DEF Lease!Cease
  <2> QED BY <2>2 DEF Lease!Next
<1> QED BY <1>1, <1>2, <1>3 DEF RunStep

\* Stops and the user's steps keep the lease.
LEMMA RequestLeases ==
  ASSUME RunInv, NEW t \in Task, RequestStep(t) \/ UserStep(t)
  PROVE  [Lease!Next]_(Lease!vars)
<1> USE DEF RunInv, TypeInv, TypeOK
<1>1. CASE SignalCancel(t) \/ StopMark(t) \/ StopSignal(t) \/ Terminate(t) \/ Resume(t)
           \/ Reject(t) \/ StopCheck(t)
  <2>1. UNCHANGED <<uses, backend, owner, dispatching, worker>>
    BY <1>1 DEF SignalCancel, StopMark, StopSignal, Terminate, Resume, Reject, StopCheck,
         runVars, taskVars
  <2>2. Using' = Using
    BY <2>1, UsingKept DEF Operating
  <2> QED BY <2>1, <2>2 DEF Lease!vars
<1>2. ASSUME UNCHANGED <<uses, backend, dispatching, worker>>, t \notin Operating,
             owner' = Released(t)
      PROVE  [Lease!Next]_(Lease!vars)
  <2>1. Using' = Using
    BY <1>2, UsingKept DEF Operating
  <2>2. Using' = [Using EXCEPT ![t] = {}]
    BY <1>2, <2>1 DEF Using
  <2>3. Lease!GiveBack(t)
    BY <1>2, <2>2 DEF Released, Lease!GiveBack, Lease!Released
  <2> QED BY <2>3 DEF Lease!Next
<1>3. CASE StopSimulation(t)
  <2>1. t \notin Operating /\ UNCHANGED <<uses, backend, dispatching, worker>>
    BY <1>3 DEF StopSimulation, Operating, runVars
  <2>2. CASE owner' = Released(t)
    BY <1>2, <2>1, <2>2
  <2>3. CASE UNCHANGED owner
    BY <2>1, <2>3, UsingKept DEF Operating, Lease!vars
  <2> QED BY <1>3, <2>2, <2>3 DEF StopSimulation
<1>4. CASE ReleaseScene(t)
  <2>1. t \notin Operating /\ UNCHANGED <<uses, backend, dispatching, worker>>
    BY <1>4, NoneAssumption DEF ReleaseScene, Operating, InRuns, runVars
  <2> QED BY <1>2, <1>4, <2>1 DEF ReleaseScene
<1>5. ASSUME NEW devices \in Bindings, NEW b \in Backend, Create(t, devices, b)
      PROVE  [Lease!Next]_(Lease!vars)
  <2>1. t \notin Operating
    BY <1>5 DEF Create, AbsentIsIdle, Operating
  <2>2. t \notin Operating'
    BY <1>5 DEF Create, AbsentIsIdle, Operating, runVars
  <2>3. Using' = Using
    BY <1>5, <2>1, <2>2, UsingKept DEF Create, Operating, runVars
  <2> QED BY <1>5, <2>3 DEF Create, Lease!vars
<1> QED BY <1>1, <1>3, <1>4, <1>5 DEF RequestStep, UserStep

\* A recovery keeps the lease: it takes over from a task that does not work.
LEMMA RecoveryLeases ==
  ASSUME RunInv, NEW r \in Recovery, RecoveryStep(r)
  PROVE  [Lease!Next]_(Lease!vars)
<1> USE DEF RunInv, TypeInv, TypeOK
<1>1. CASE UNCHANGED <<taskVars, owner, runVars>>
  BY <1>1, UsingKept DEF Operating, taskVars, runVars, Lease!vars
<1>2. ASSUME NEW c \in Task, ApproveRecovery(r, c)
      PROVE  [Lease!Next]_(Lease!vars)
  <2> DEFINE t == recovery[r].task
  <2>1. t \in Task /\ t # c
    BY <1>2 DEF ApproveRecovery, RecoveryNamesTask
  <2>2. t \notin Operating /\ c \notin Operating /\ c \notin Operating'
    BY <1>2, <2>1, NoneAssumption DEF ApproveRecovery, AbsentIsIdle, Operating, InRuns, runVars
  <2>3. Using' = Using
    BY <1>2, <2>2, UsingKept DEF ApproveRecovery, Operating, runVars
  <2>4. CASE backend[t] = "real"
    <3>1. Lease!HandOver(t, c, uses[t])
      BY <1>2, <2>1, <2>2, <2>3, <2>4
         DEF ApproveRecovery, FreeFor, HandedOver, Released, Using, Lease!HandOver, Lease!Idle,
             Lease!FreeFor, Lease!Released
    <3> QED BY <2>1, <3>1 DEF Lease!Next
  <2>5. CASE backend[t] # "real"
    <3>1. Using' = [Using EXCEPT ![t] = {}]
      BY <2>1, <2>2, <2>3 DEF Using
    <3>2. Lease!GiveBack(t)
      BY <1>2, <2>5, <3>1 DEF ApproveRecovery, Released, Lease!GiveBack, Lease!Released
    <3> QED BY <2>1, <3>2 DEF Lease!Next
  <2> QED BY <2>4, <2>5
<1> QED
  BY <1>1, <1>2 DEF RecoveryStep, PlanRecovery, RejectRecovery, ProposeRecovery

\* A restart keeps the lease: nobody works after it.
LEMMA RestartLeases ==
  ASSUME RunInv, Restart
  PROVE  [Lease!Next]_(Lease!vars)
<1>1. Operating' = {}
  BY NoneAssumption DEF Restart, Operating
<1>2. Lease!Cease(Task)
  BY <1>1 DEF Restart, Using, Lease!Cease
<1> QED BY <1>2 DEF Lease!Next

\* Claims, runs, stops, releases, recoveries and restarts move the reservations the way
\* DeviceLease promises: all of a task's devices at once, and never away from a task
\* that is at work on them (Core.claim, finish, stop_simulation, release_scene,
\* Runtime.approve_recovery, recover_startup).
THEOREM LeaseIsKept == Spec => KeepsLease
<1>1. Init => Lease!Init
  BY NoneAssumption DEF Init, Using, Operating, Lease!Init
<1>2. RunInv /\ [Next]_vars => [Lease!Next]_(Lease!vars)
  <2> SUFFICES ASSUME RunInv, [Next]_vars PROVE [Lease!Next]_(Lease!vars)
    OBVIOUS
  <2>1. CASE UNCHANGED vars
    BY <2>1, UsingKept DEF vars, taskVars, runVars, Operating, Lease!vars
  <2> QED
    BY <2>1, DispatchLeases, RunLeases, RequestLeases, RecoveryLeases, RestartLeases DEF Next
<1> QED BY <1>1, <1>2, RunsAreOfTasks, PTL DEF Spec, KeepsLease, Lease!Spec

LeaseProofs == INSTANCE DeviceLease_proofs WITH using <- Using

\* Two tasks are never at work on the same real device, whatever the scheduler, the
\* stops, the recoveries and the restarts do: what LeaseIsExclusive says of the
\* abstract lease holds of the platform that keeps it.
THEOREM WorkIsExclusive == Spec => []Lease!UseIsExclusive
<1>1. LeaseProofs!Spec => []LeaseProofs!UseIsExclusive
  BY LeaseProofs!LeaseIsExclusive, NoneAssumption
<1>2. Lease!Init => LeaseProofs!Init
  BY DEF LeaseProofs!Init, Lease!Init
<1>3. [Lease!Next]_(Lease!vars) => [LeaseProofs!Next]_(LeaseProofs!vars)
  BY DEF Lease!Next, LeaseProofs!Next, Lease!vars, LeaseProofs!vars,
         Lease!GiveBack, LeaseProofs!GiveBack, Lease!Cease, LeaseProofs!Cease,
         Lease!Acquire, LeaseProofs!Acquire, Lease!HandOver, LeaseProofs!HandOver,
         Lease!Idle, LeaseProofs!Idle, Lease!FreeFor, LeaseProofs!FreeFor,
         Lease!Released, LeaseProofs!Released
<1>4. LeaseProofs!UseIsExclusive => Lease!UseIsExclusive
  BY DEF LeaseProofs!UseIsExclusive, Lease!UseIsExclusive
<1> QED BY <1>1, <1>2, <1>3, <1>4, LeaseIsKept, PTL DEF KeepsLease, Lease!Spec, LeaseProofs!Spec

-----------------------------------------------------------------------------
(* Reservations and recoveries. A device belongs to a task that is there and  *)
(* bound to it; while a recovery runs, its child is there and its parent is   *)
(* neither at work nor on the way to it.                                     *)

OwnerIsBound ==
  \A d \in Device : owner[d] # None => d \in uses[owner[d]] /\ status[owner[d]] # "absent"

ChildExists == \A r \in Recovery : recovery[r].status = "running" => status[recovery[r].child] # "absent"

ParentIdle ==
  \A r \in Recovery :
    recovery[r].status = "running" =>
      /\ dispatching # recovery[r].task /\ worker[recovery[r].task] # "running"
      /\ status[recovery[r].task] \notin {"absent", "queued"}

RecoveryInv == RunInv /\ OwnerIsBound /\ ChildExists /\ ParentIdle /\ HandoverIsAtomic

\* A task takes a device that is its own from then on: by its claim or as a recovery task.
OwnerGains(d) ==
  owner'[d] # owner[d] /\ owner'[d] # None =>
    d \in uses'[owner'[d]] /\ status'[owner'[d]] # "absent"

\* Why a task loses a device. It is not queued before and after.
OwnerLoses(d) ==
  LET t == owner[d] IN
  t # None /\ owner'[d] # t =>
    /\ status[t] # "queued" \/ status'[t] # "queued"
    /\ IF owner'[d] = None
       THEN \/ status'[t] = "succeeded" \/ scene'[t] = "user_released"
            \/ backend[t] = "simulation"
       ELSE \E r \in Recovery : recovery'[r].task = t /\ recovery'[r].child = owner'[d]

\* The approval of a recovery hands the parent's devices to the child and no others.
LEMMA ApprovalMovesOwners ==
  ASSUME RunInv, OwnerIsBound, NEW r \in Recovery, NEW c \in Task, ApproveRecovery(r, c),
         NEW d \in Device
  PROVE  OwnerGains(d) /\ OwnerLoses(d)
<1> USE DEF RunInv, TypeInv, TypeOK
<1> DEFINE t == recovery[r].task
<1>1. t \in Task /\ t # c /\ c # None
  BY NoneAssumption DEF ApproveRecovery, RecoveryNamesTask
<1>2. recovery'[r].task = t /\ recovery'[r].child = c
  <2>1. recovery[r] \in RecoveryRow
    OBVIOUS
  <2>2. PICK s \in {"running", "succeeded"} :
          recovery' = [recovery EXCEPT ![r].status = s, ![r].child = c]
    BY DEF ApproveRecovery
  <2>3. recovery'[r] = [[recovery[r] EXCEPT !.status = s] EXCEPT !.child = c]
    BY <2>2
  <2> QED BY <2>1, <2>3 DEF RecoveryRow
<1>3. CASE backend[t] = "real"
  <2>1. owner' = HandedOver(t, c) /\ uses'[c] = uses[t] /\ status'[c] = "queued"
    BY <1>3 DEF ApproveRecovery
  <2>2. CASE d \in uses[t]
    <3>1. owner'[d] = c /\ owner[d] \in {t, None}
      BY <2>1, <2>2 DEF ApproveRecovery, HandedOver, FreeFor
    <3>2. status[t] # "queued"
      BY DEF ApproveRecovery
    <3> QED BY <1>1, <1>2, <2>1, <2>2, <3>1, <3>2 DEF OwnerGains, OwnerLoses
  <2>3. CASE d \notin uses[t]
    <3>1. owner[d] # t
      BY <1>1, <2>3, NoneAssumption DEF OwnerIsBound
    <3>2. owner'[d] = owner[d]
      BY <2>1, <2>3, <3>1 DEF HandedOver, Released
    <3> QED BY <3>2 DEF OwnerGains, OwnerLoses
  <2> QED BY <2>2, <2>3
<1>4. CASE backend[t] # "real"
  <2>1. owner' = Released(t) /\ backend[t] = "simulation" /\ status[t] # "queued"
    BY <1>1, <1>4 DEF ApproveRecovery
  <2> QED BY <2>1, NoneAssumption DEF Released, OwnerGains, OwnerLoses
<1> QED BY <1>3, <1>4

\* A device changes hands in one of the ways of OwnerGains and OwnerLoses.
LEMMA OwnerMoves ==
  ASSUME RunInv, OwnerIsBound, [Next]_vars, NEW d \in Device
  PROVE  OwnerGains(d) /\ OwnerLoses(d)
<1> USE DEF RunInv, TypeInv, TypeOK
<1>1. CASE UNCHANGED owner
  BY <1>1 DEF OwnerGains, OwnerLoses
<1>2. ASSUME NEW t \in Task, Claim(t) PROVE OwnerGains(d) /\ OwnerLoses(d)
  BY <1>2 DEF Claim, FreeFor, Given, OwnerGains, OwnerLoses
<1>3. ASSUME NEW t \in Task, WorkerFinishes(t) PROVE OwnerGains(d) /\ OwnerLoses(d)
  BY <1>3 DEF WorkerFinishes, Released, OwnerGains, OwnerLoses
<1>4. ASSUME NEW t \in Task, StopSimulation(t) PROVE OwnerGains(d) /\ OwnerLoses(d)
  BY <1>4 DEF StopSimulation, Released, OwnerGains, OwnerLoses
<1>5. ASSUME NEW t \in Task, ReleaseScene(t) PROVE OwnerGains(d) /\ OwnerLoses(d)
  BY <1>5 DEF ReleaseScene, Ended, Released, OwnerGains, OwnerLoses
<1>6. ASSUME NEW r \in Recovery, NEW c \in Task, ApproveRecovery(r, c)
      PROVE  OwnerGains(d) /\ OwnerLoses(d)
  BY <1>6, ApprovalMovesOwners
<1> QED
  BY <1>1, <1>2, <1>3, <1>4, <1>5, <1>6
     DEF Next, Dispatch, Register, RunStep, Wait, BeginAsk, WriteAsk, ToolFails, WorkerFails,
         WorkerCancelled, WorkerReports, WorkerEnds, RequestStep, SignalCancel, StopMark,
         StopSignal, Terminate, UserStep, Create, Resume, Reject, StopCheck, RecoveryStep,
         PlanRecovery, RejectRecovery, ProposeRecovery, Restart, vars

\* A run starts from the dispatch of its task, and the dispatch from the queue.
RunMove(t) ==
  /\ worker'[t] = "running" => worker[t] = "running" \/ dispatching = t
  /\ dispatching' = t => dispatching = t \/ status[t] = "queued"

\* Every step moves a run in one of the ways of RunMove.
LEMMA RunMoves ==
  ASSUME RunInv, [Next]_vars, NEW t \in Task
  PROVE  RunMove(t)
<1> USE DEF RunInv, TypeInv, TypeOK, runVars, RunMove
<1>1. ASSUME NEW u \in Task, Dispatch(u) PROVE RunMove(t)
  BY <1>1, NoneAssumption DEF Dispatch, Claim, Register
<1>2. ASSUME NEW u \in Task, RunStep(u) PROVE RunMove(t)
  BY <1>2 DEF RunStep, Wait, BeginAsk, WriteAsk, ToolFails, WorkerFinishes,
       WorkerFails, WorkerCancelled, WorkerReports, WorkerEnds
<1>3. CASE Restart
  BY <1>3, NoneAssumption DEF Restart
<1>4. CASE UNCHANGED <<dispatching, worker>>
  BY <1>4
<1> QED
  BY <1>1, <1>2, <1>3, <1>4
     DEF Next, RequestStep, SignalCancel, StopSimulation, StopMark, StopSignal, Terminate,
         UserStep, Create, Resume, Reject, StopCheck, ReleaseScene, RecoveryStep,
         PlanRecovery, RejectRecovery, ProposeRecovery, ApproveRecovery, vars

\* The owner of a device is bound to it.
LEMMA OwnerIsBoundStep ==
  ASSUME RunInv, OwnerIsBound, [Next]_vars
  PROVE  OwnerIsBound'
<1> SUFFICES ASSUME NEW d \in Device, owner'[d] # None
             PROVE  d \in uses'[owner'[d]] /\ status'[owner'[d]] # "absent"
  BY DEF OwnerIsBound
<1>1. CASE owner'[d] = owner[d]
  <2>1. owner[d] \in Task /\ d \in uses[owner[d]] /\ status[owner[d]] # "absent"
    BY <1>1 DEF OwnerIsBound, RunInv, TypeInv, TypeOK
  <2> QED BY <1>1, <2>1, RowMoves DEF RowMove
<1>2. CASE owner'[d] # owner[d]
  BY <1>2, OwnerMoves DEF OwnerGains
<1> QED BY <1>1, <1>2

\* A recovery that runs after a step ran before it, with the same parent and child,
\* or is approved by the step.
LEMMA RunningMoves ==
  ASSUME RunInv, [Next]_vars, NEW r \in Recovery, recovery'[r].status = "running"
  PROVE  /\ recovery'[r].task \in Task /\ recovery'[r].child \in Task
         /\ recovery'[r].task = recovery[r].task
         /\ \/ recovery[r].status = "running" /\ recovery'[r].child = recovery[r].child
            \/ backend[recovery[r].task] = "real" /\ ApproveRecovery(r, recovery'[r].child)
<1>1. RecoveryMove(r)
  BY RecoveryMoves DEF RunInv
<1>2. ~RowProposed(r)
  BY DEF RowProposed
<1> QED
  BY <1>1, <1>2 DEF RecoveryMove, RowSettled, RowApproved, RunInv, TypeInv, RecoveryNamesTask

\* A step keeps children and idle parents, and hands all devices over at once.
LEMMA RecoveryInvStep ==
  ASSUME RecoveryInv, [Next]_vars
  PROVE  ChildExists' /\ ParentIdle' /\ HandoverIsAtomic'
<1> USE DEF RecoveryInv
<1> SUFFICES ASSUME NEW r \in Recovery, recovery'[r].status = "running"
             PROVE  /\ status'[recovery'[r].child] # "absent"
                    /\ dispatching' # recovery'[r].task
                    /\ worker'[recovery'[r].task] # "running"
                    /\ status'[recovery'[r].task] \notin {"absent", "queued"}
                    /\ status'[recovery'[r].child] = "queued" =>
                         \A d \in uses'[recovery'[r].child] : owner'[d] = recovery'[r].child
  BY DEF ChildExists, ParentIdle, HandoverIsAtomic, Holds
<1> DEFINE t == recovery[r].task
           c == recovery'[r].child
<1>1. t \in Task /\ c \in Task /\ recovery'[r].task = t
  BY RunningMoves
<1>2. CASE recovery[r].status = "running" /\ c = recovery[r].child
  <2>1. /\ status[c] # "absent"
        /\ dispatching # t /\ worker[t] # "running" /\ status[t] \notin {"absent", "queued"}
        /\ status[c] = "queued" => Holds(c)
    BY <1>2 DEF ChildExists, ParentIdle, HandoverIsAtomic
  <2>2. RowMove(t) /\ RowMove(c) /\ RunMove(t)
    BY <1>1, RowMoves, RunMoves
  <2>3. status'[c] # "absent" /\ status'[t] \notin {"absent", "queued"}
    BY <2>1, <2>2 DEF RowMove
  <2>4. dispatching' # t /\ worker'[t] # "running"
    BY <2>1, <2>2 DEF RunMove
  <2>5. ASSUME status'[c] = "queued" PROVE \A d \in uses'[c] : owner'[d] = c
    <3>1. status[c] = "queued" /\ uses'[c] = uses[c]
      BY <2>1, <2>2, <2>5 DEF RowMove
    <3>2. ASSUME NEW d \in uses[c] PROVE owner'[d] = c
      <4>1. d \in Device /\ owner[d] = c /\ c # None
        BY <1>1, <2>1, <3>1, <3>2, NoneAssumption DEF Holds, RunInv, TypeInv, TypeOK
      <4>2. OwnerLoses(d)
        BY <4>1, OwnerMoves
      <4> QED BY <2>5, <3>1, <4>1, <4>2 DEF OwnerLoses
    <3> QED BY <3>1, <3>2
  <2> QED BY <1>1, <2>3, <2>4, <2>5
<1>3. CASE backend[t] = "real" /\ ApproveRecovery(r, c)
  <2> USE DEF RunInv, TypeInv, TypeOK
  <2>1. t # c /\ status'[c] = "queued" /\ status'[t] \in {"failed", "stopped"}
    BY <1>1, <1>3 DEF ApproveRecovery
  <2>2. dispatching' # t /\ worker'[t] # "running"
    BY <1>1, <1>3, NoneAssumption DEF ApproveRecovery, InRuns, runVars
  <2>3. \A d \in uses'[c] : owner'[d] = c
    BY <1>1, <1>3 DEF ApproveRecovery, HandedOver
  <2> QED BY <1>1, <2>1, <2>2, <2>3
<1> QED BY <1>2, <1>3, RunningMoves

\* The invariant of the recoveries holds always.
LEMMA RecoveryInvariant == Spec => []RecoveryInv
<1>1. Init => OwnerIsBound /\ ChildExists /\ ParentIdle /\ HandoverIsAtomic
  BY DEF Init, OwnerIsBound, ChildExists, ParentIdle, HandoverIsAtomic
<1>2. RecoveryInv /\ [Next]_vars => (OwnerIsBound /\ ChildExists /\ ParentIdle /\ HandoverIsAtomic)'
  BY OwnerIsBoundStep, RecoveryInvStep DEF RecoveryInv
<1>3. RecoveryInv <=> RunInv /\ OwnerIsBound /\ ChildExists /\ ParentIdle /\ HandoverIsAtomic
  BY DEF RecoveryInv
<1> QED BY <1>1, <1>2, <1>3, RunsAreOfTasks, PTL DEF Spec

\* From its approval on, a recovery is alone with the devices: its child holds them
\* while it waits in the queue, and its parent is not at work again
\* (Runtime.approve_recovery).
THEOREM RecoveryIsAlone == Spec => []RecoveryIsExclusive
<1>1. RecoveryInv => RecoveryIsExclusive
  BY DEF RecoveryInv, RecoveryIsExclusive, ParentIdle, ParentIdleDuringRecovery, Operating
<1> QED BY <1>1, RecoveryInvariant, PTL

\* A device changes hands only through its owner's completion, the user's release of
\* the scene, a simulated stop, or the approval of the owner's recovery (Core.finish,
\* stop_simulation, release_scene, Runtime.approve_recovery).
THEOREM HandsChangeOnPurpose == Spec => DevicesChangeHandsOnPurpose
<1>1. ASSUME RecoveryInv, [Next]_vars, NEW d \in Device, owner[d] # None, owner'[d] # owner[d]
      PROVE  LET t == owner[d] IN
             IF owner'[d] = None
             THEN \/ status'[t] = "succeeded" \/ scene'[t] = "user_released"
                  \/ backend[t] = "simulation"
             ELSE \E r \in Recovery : recovery'[r].task = t /\ recovery'[r].child = owner'[d]
  BY <1>1, OwnerMoves DEF RecoveryInv, OwnerLoses
<1> DEFINE Purpose ==
      \A d \in Device : owner[d] # None /\ owner'[d] # owner[d] =>
        LET t == owner[d] IN
        IF owner'[d] = None
        THEN \/ status'[t] = "succeeded" \/ scene'[t] = "user_released"
             \/ backend[t] = "simulation"
        ELSE \E r \in Recovery : recovery'[r].task = t /\ recovery'[r].child = owner'[d]
<1>2. RecoveryInv /\ [Next]_vars => [Purpose]_vars
  BY <1>1
<1> QED BY <1>2, RecoveryInvariant, PTL DEF Spec, DevicesChangeHandsOnPurpose
=============================================================================
