------------------------------ MODULE SimulatedRun ------------------------------
(****************************************************************************)
(* A task whose back end is the simulation: the worker that prepares a      *)
(* preview and executes the one operation in the process itself, with the   *)
(* user who confirms, writes, rejects and stops, and restarts. The task is  *)
(* of the one Skill the simulator supports; any other fails in prepare.     *)
(****************************************************************************)
EXTENDS Naturals

CONSTANTS
  MaxMessages, \* bound on the messages of the user
  Early        \* may the user write before the first preview?

ASSUME SimAssumption == MaxMessages \in Nat /\ Early \in BOOLEAN

VARIABLES
  confirm,     \* the policy confirms the operation
  status, scene, held,
  plan,        \* the latest preview
  approval,    \* the latest operation request
  unread, sent, \* messages not consumed, and written at all
  executed,    \* how often the simulated commands were run
  met,         \* what the contract asks for and is recorded: its step, its check
  simulator,   \* the worker, see Place
  cancel, stopping, \* the event of the run, and the thread of a stop
  restarted    \* the platform has ended since the task was created

taskVars == <<status, scene, held>>
rowVars  == <<plan, approval, unread, sent>>
workVars == <<executed, met>>
\* What no step of the worker writes.
othersVars == <<confirm, sent, cancel, stopping, restarted>>
simVars == <<confirm, taskVars, rowVars, workVars, simulator, cancel, stopping, restarted>>

Over == {"succeeded", "failed", "stopped"}
Contract == {"step", "check"}

\* Where the worker is inside Simulator.execute, whose commits are apart from each other but
\* under one lock: the process may end between them, and no one else's call come in.
Inside == {"again",     \* next: PrepareAgain
           "consumed",  \* next: RunCommands
           "ran",       \* next: RecordResult
           "recorded",  \* next: CompleteStep
           "stepped",   \* next: RecordCheck
           "checked"}   \* next: Finish
Place == Inside \cup {"none", "prepare", "loop", "look", "execute", "status", "raised", "leave"}

\* Mutant: the lock is given back after every commit.
NeverLocked == FALSE

Locked == simulator \in Inside

SimTypeOK ==
  /\ confirm \in BOOLEAN
  /\ status \in {"queued", "running", "waiting_user"} \cup Over
  /\ scene \in {"clean", "unknown"} /\ held \in BOOLEAN
  /\ plan \in {"none", "pending", "approved", "superseded", "rejected", "cancelled"}
  /\ approval \in {"none", "pending", "approved", "consumed", "finished"}
  /\ unread \in 0..MaxMessages /\ sent \in 0..MaxMessages
  /\ executed \in Nat /\ met \subseteq Contract
  /\ simulator \in Place
  /\ cancel \in BOOLEAN /\ stopping \in {"idle", "checked", "signal"}
  /\ restarted \in BOOLEAN

SimInit ==
  /\ confirm \in BOOLEAN /\ status = "queued" /\ scene = "clean" /\ held = FALSE
  /\ plan = "none" /\ approval = "none" /\ unread = 0 /\ sent = 0 /\ executed = 0 /\ met = {}
  /\ simulator = "none" /\ cancel = FALSE /\ stopping = "idle" /\ restarted = FALSE

PendingCancelled == IF plan = "pending" THEN "cancelled" ELSE plan

\* Core.fail: nothing for a task that has ended.
Fail == IF status \in Over
        THEN UNCHANGED <<taskVars, plan>>
        ELSE /\ status' = "failed" /\ scene' = "unknown" /\ plan' = PendingCancelled
             /\ UNCHANGED held

Claim ==
  /\ status = "queued" /\ simulator = "none"
  /\ status' = "running" /\ held' = TRUE /\ simulator' = "prepare"
  /\ UNCHANGED <<scene, rowVars, workVars, othersVars>>

\* A DomainError of a call of the worker: nothing of its transaction is left.
Raise == simulator' = "raised" /\ UNCHANGED <<taskVars, plan, approval>>

\* propose_preview, after which the worker is at next.
Propose(next) ==
  IF status = "running" /\ approval \in {"none", "finished"}
  THEN /\ status' = "waiting_user" /\ plan' = "pending" /\ simulator' = next
       /\ UNCHANGED <<scene, held, approval>>
  ELSE Raise

Prepare ==
  /\ simulator = "prepare" /\ Propose("loop")
  /\ UNCHANGED <<unread, workVars, othersVars>>

Loop ==
  /\ simulator = "loop" /\ simulator' = (IF cancel THEN "leave" ELSE "look")
  /\ UNCHANGED <<taskVars, rowVars, workVars, othersVars>>

\* The status is read before the lock that executes is taken.
LookAtStatus ==
  /\ simulator = "look" /\ simulator' = (IF status = "running" THEN "execute" ELSE "status")
  /\ UNCHANGED <<taskVars, rowVars, workVars, othersVars>>

\* And read again before the next turn.
LookBack ==
  /\ simulator = "status" /\ simulator' = (IF status \in Over THEN "leave" ELSE "loop")
  /\ UNCHANGED <<taskVars, rowVars, workVars, othersVars>>

\* Mutant: the commands are run before the operation is consumed.
RunFirst ==
  /\ executed' = executed + 1 /\ UNCHANGED <<unread, met>>
  /\ IF status = "running" /\ plan = "approved"
     THEN approval' = "consumed" /\ scene' = "unknown" /\ simulator' = "ran"
          /\ UNCHANGED <<status, held, plan>>
     ELSE Raise

Consume ==
  /\ UNCHANGED <<unread, workVars>>
  /\ IF status = "running" /\ plan = "approved"
     THEN /\ approval' = "consumed" /\ scene' = "unknown" /\ simulator' = "consumed"
          /\ UNCHANGED <<status, held, plan>>
     ELSE Raise

\* Mutant: the requested operation is taken as approved whatever the policy.
RequestApproved ==
  /\ simulator' = "status" /\ approval' = "approved" /\ status' = "waiting_user"
  /\ UNCHANGED <<scene, held, plan, unread, workVars>>

Request ==
  /\ simulator' = "status"
  /\ IF confirm THEN approval' = "pending" /\ status' = "waiting_user"
                ELSE approval' = "approved" /\ UNCHANGED status
  /\ UNCHANGED <<scene, held, plan, unread, workVars>>

\* Mutant: what the user has written is left unread.
ReadNothing == simulator' = "again" /\ UNCHANGED <<taskVars, plan, approval, unread, workVars>>

ReadMessages ==
  simulator' = "again" /\ unread' = 0 /\ UNCHANGED <<taskVars, plan, approval, workVars>>

\* What execute finds once it has the lock, up to its first commit.
Execute ==
  /\ simulator = "execute" /\ UNCHANGED othersVars
  /\ \/ approval = "approved" /\ Consume
     \/ approval # "approved" /\ status = "running" /\ plan = "superseded" /\ ReadMessages
     \/ approval # "approved" /\ status = "running" /\ plan = "approved" /\ Request
     \/ /\ approval # "approved" /\ (status # "running" \/ plan \notin {"superseded", "approved"})
        /\ simulator' = "status" /\ UNCHANGED <<taskVars, plan, approval, unread, workVars>>

PrepareAgain ==
  /\ simulator = "again" /\ Propose("status")
  /\ UNCHANGED <<unread, workVars, othersVars>>

RunCommands ==
  /\ simulator = "consumed" /\ simulator' = "ran" /\ executed' = executed + 1
  /\ UNCHANGED <<taskVars, rowVars, met, othersVars>>

RecordResult ==
  /\ simulator = "ran"
  /\ IF approval = "consumed"
     THEN simulator' = "recorded" /\ approval' = "finished" /\ UNCHANGED <<taskVars, plan>>
     ELSE Raise
  /\ UNCHANGED <<unread, workVars, othersVars>>

CompleteStep ==
  /\ simulator = "recorded" /\ UNCHANGED <<unread, executed, othersVars>>
  /\ IF status = "running"
     THEN /\ simulator' = "stepped" /\ met' = met \cup {"step"}
          /\ UNCHANGED <<taskVars, plan, approval>>
     ELSE Raise /\ UNCHANGED met

RecordCheck ==
  /\ simulator = "stepped" /\ UNCHANGED <<unread, executed, othersVars>>
  /\ IF status = "running" /\ approval = "finished"
     THEN /\ simulator' = "checked" /\ met' = met \cup {"check"}
          /\ UNCHANGED <<taskVars, plan, approval>>
     ELSE Raise /\ UNCHANGED met

Finish ==
  /\ simulator = "checked" /\ UNCHANGED <<unread, workVars, othersVars>>
  /\ IF status = "running" /\ plan = "approved" /\ met = Contract /\ approval = "finished"
     THEN /\ simulator' = "status" /\ status' = "succeeded" /\ scene' = "clean" /\ held' = FALSE
          /\ UNCHANGED <<plan, approval>>
     ELSE Raise

\* The worker's own except, outside the lock.
Raised ==
  /\ simulator = "raised" /\ simulator' = "leave"
  /\ IF cancel THEN UNCHANGED <<taskVars, plan>> ELSE Fail
  /\ UNCHANGED <<approval, unread, workVars, othersVars>>

\* The finally block: the task leaves Runtime.runs.
LeaveRuns ==
  /\ simulator = "leave" /\ simulator' = "none"
  /\ UNCHANGED <<taskVars, rowVars, workVars, othersVars>>

-----------------------------------------------------------------------------
(* The user, whose calls wait for the lock; the signal of a stop does not.   *)

ApprovePreview ==
  /\ ~Locked /\ status = "waiting_user" /\ plan = "pending" /\ unread = 0
  /\ status' = "running" /\ plan' = "approved"
  /\ UNCHANGED <<confirm, scene, held, approval, unread, sent, workVars, simulator, cancel, stopping, restarted>>

RejectPreview ==
  /\ ~Locked /\ status = "waiting_user" /\ plan = "pending"
  /\ status' = "failed" /\ plan' = "rejected"
  /\ UNCHANGED <<confirm, scene, held, approval, unread, sent, workVars, simulator, cancel, stopping, restarted>>

Approve ==
  /\ ~Locked /\ status = "waiting_user" /\ approval = "pending"
  /\ status' = "running" /\ approval' = "approved"
  /\ UNCHANGED <<confirm, scene, held, plan, unread, sent, workVars, simulator, cancel, stopping, restarted>>

\* Mutant: an operation of the superseded preview stays approved.
SupersedePreview ==
  /\ plan' = "superseded" /\ UNCHANGED approval
  /\ status' = (IF status = "waiting_user" THEN "running" ELSE status)

Supersede ==
  /\ plan' = "superseded"
  /\ approval' = (IF approval \in {"pending", "approved"} THEN "finished" ELSE approval)
  /\ status' = (IF status = "waiting_user" THEN "running" ELSE status)

\* A message takes back what was to be confirmed or executed, if there is anything.
Message ==
  /\ ~Locked /\ status \notin Over /\ sent < MaxMessages /\ (Early \/ plan # "none")
  /\ sent' = sent + 1 /\ unread' = unread + 1
  /\ IF plan \in {"pending", "approved"} THEN Supersede ELSE UNCHANGED <<plan, approval, status>>
  /\ UNCHANGED <<confirm, scene, held, workVars, simulator, cancel, stopping, restarted>>

\* Runtime.stop looks at the status, ends the task, and tells the worker if there is one.
StopLook ==
  /\ ~Locked /\ stopping = "idle" /\ status \notin Over /\ stopping' = "checked"
  /\ UNCHANGED <<confirm, taskVars, rowVars, workVars, simulator, cancel, restarted>>

\* Mutant: a stop keeps the devices of a task that has claimed them.
StopHeld ==
  /\ stopping = "checked" /\ status \notin Over
  /\ stopping' = "signal" /\ status' = "stopped" /\ scene' = "clean" /\ plan' = PendingCancelled
  /\ UNCHANGED <<held, confirm, approval, unread, sent, workVars, simulator, cancel, restarted>>

StopSimulation ==
  /\ ~Locked /\ stopping = "checked"
  /\ IF status \in Over
     THEN stopping' = "idle" /\ UNCHANGED <<taskVars, plan>>
     ELSE /\ stopping' = "signal" /\ status' = "stopped" /\ scene' = "clean" /\ held' = FALSE
          /\ plan' = PendingCancelled
  /\ UNCHANGED <<confirm, approval, unread, sent, workVars, simulator, cancel, restarted>>

StopSignal ==
  /\ stopping = "signal" /\ stopping' = "idle" /\ cancel' = (cancel \/ simulator # "none")
  /\ UNCHANGED <<confirm, taskVars, rowVars, workVars, simulator, restarted>>

\* The process ends and is started again: what was active has failed.
Restart ==
  /\ restarted' = TRUE /\ simulator' = "none" /\ stopping' = "idle" /\ cancel' = FALSE
  /\ Fail /\ UNCHANGED <<confirm, approval, unread, sent, workVars>>

Commits == PrepareAgain \/ RunCommands \/ RecordResult \/ CompleteStep \/ RecordCheck \/ Finish
SimulatorStep ==
  Prepare \/ Loop \/ LookAtStatus \/ Execute \/ Commits \/ LookBack \/ Raised \/ LeaveRuns

SimNext ==
  \/ Claim \/ SimulatorStep
  \/ ApprovePreview \/ RejectPreview \/ Approve \/ Message
  \/ StopLook \/ StopSimulation \/ StopSignal
  \/ Restart

SimSpec == SimInit /\ [][SimNext]_simVars
\* The scheduler and the worker go on, and the user confirms in the end what can be confirmed.
FairSimSpec == SimSpec /\ WF_simVars(Claim) /\ WF_simVars(SimulatorStep)
                 /\ WF_simVars(ApprovePreview) /\ WF_simVars(Approve)
                 /\ WF_simVars(StopSimulation) /\ WF_simVars(StopSignal)

-----------------------------------------------------------------------------
\* The devices of a task that has ended well or was stopped are free, and only theirs
\* (Core.finish, Core.stop_simulation against the worker).
EndedIsFree == status \in {"succeeded", "stopped"} => ~held /\ scene = "clean"

\* The simulated commands run at most once, whatever the user does between the status the
\* worker has read and the lock. A task that succeeds has run them and has its step and its
\* check; one that has run them succeeds, unless the platform ends before the last commit: it
\* has then failed, with its scene unknown and its devices held (Simulator.execute, Core.finish,
\* Core.recover_startup).
ExecutedOnce ==
  /\ executed <= 1
  /\ status = "succeeded" => executed = 1 /\ met = Contract
  /\ executed = 1 =>
       \/ status = "succeeded"
       \/ status = "running" /\ Locked
       \/ status = "failed" /\ restarted /\ scene = "unknown" /\ held

\* A simulated task fails only when the user rejects it or the platform has ended: no interleaving
\* of messages, stops and confirmations makes the worker raise for a task that is alive.
NoSpuriousFailure == status = "failed" => plan = "rejected" \/ restarted

\* A task waits for a user who has something to answer, and a preview that can be answered
\* belongs to a task that waits (Core.propose_preview, approve, message, fail, stop_simulation).
WaitingHasReason ==
  /\ status = "waiting_user" => plan = "pending" \/ approval = "pending"
  /\ plan = "pending" => status = "waiting_user"

\* The simulated commands run at most once, and just once for a task that succeeds; run and not
\* accounted for, they leave a failed task that holds its devices. A task that succeeded or was
\* stopped has given them back; one fails for a reason, and waits for a user who can answer
\* (Simulator.execute and Core against Runtime.worker and a restart between its commits).
ExecutesOnce == SimTypeOK /\ ExecutedOnce /\ EndedIsFree /\ NoSpuriousFailure /\ WaitingHasReason

\* Whoever confirms and does not stop to answer sees the task end, also when the platform
\* ends in between (Runtime.worker's loop).
TaskEnds == <>(status \in Over /\ simulator = "none")

\* What the user writes is taken into account, or the task ends: nothing stays to wait for
\* (Core.approve_preview refuses meanwhile).
MessageIsRead == unread > 0 ~> (unread = 0 \/ status \in Over)
=============================================================================
