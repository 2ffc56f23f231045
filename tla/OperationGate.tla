---------------------------- MODULE OperationGate ----------------------------
(****************************************************************************)
(* One claimed task between the user and the devices: the confirmed preview,*)
(* the approval of an operation, its consumption and its result, the        *)
(* questions and messages that cross them, and everything that can end the  *)
(* task meanwhile (rejection, failure, stop, completion, a restart).        *)
(*                                                                          *)
(* Actors, each a thread of the platform:                                   *)
(*   call     the tool call in flight in Gateway (tools.py); an openai      *)
(*            backend makes it on the worker's own thread, an acp agent     *)
(*            reaches it through the bridge on an HTTP thread               *)
(*   worker   Runtime.worker, which runs the backend and then finishes      *)
(*   user     HTTP requests that are one transaction each                   *)
(*   stopper  one request of Runtime.stop and the terminate thread it starts*)
(* Every block under Core.tx() is one action; what a thread does between    *)
(* two transactions can be interleaved with every other thread.             *)
(****************************************************************************)
EXTENDS Naturals, Sequences

CONSTANTS
  Kind,         \* backend kinds the task may be created with: "openai", "acp"
  Operation,    \* canonical operations: device role, action and arguments
  NeedsGrant,   \* operations the policy confirms one by one (request_operation)
  Plan,         \* operation lists the agent may put in a preview
  PreviewId,    \* identities of the previews the task may create
  ApprovalId,   \* identities of the operations the task may request
  Check, Step,  \* required checks and steps of the Skill contract
  MaxUnread,    \* bound on the user's messages that wait to be read
  None          \* no operation, no identity

ASSUME KindAssumption == Kind \subseteq {"openai", "acp"}
ASSUME PlanAssumption == Plan \subseteq Seq(Operation)
ASSUME GrantAssumption == NeedsGrant \subseteq Operation
ASSUME UnreadAssumption == MaxUnread \in Nat
ASSUME NoneAssumption == None \notin Operation \cup PreviewId \cup ApprovalId

VARIABLES
  kind,       \* snapshot.profile.kind
  status,     \* tasks.status
  scene,      \* tasks.scene
  held,       \* the task's reservations exist
  preview,    \* previews rows; confirmed: the event preview.approved was emitted
  approval,   \* approvals rows; granted: the event approval.granted was emitted;
              \* output: what the event tool.finished of the operation reports
  unread,     \* messages rows with consumed = 0
  evidence,   \* checks rows that passed: the operation each one refers to
  steps,      \* steps rows
  pc,         \* where the call in flight is
  subject,    \* the preview or operation the call waits for or executes
  finished,   \* Gateway.finished
  cancelled,  \* run['cancel']
  worker,     \* where the worker is; "gone": popped from Runtime.runs
  stopper,    \* where the stop request is
  signal      \* a reject request has yet to set run['cancel']

taskVars  == <<status, scene, held>>
rowVars   == <<preview, approval, unread, evidence, steps>>
callVars  == <<pc, subject, finished>>
runVars   == <<cancelled, worker>>
userVars  == <<stopper, signal>>
vars      == <<kind, taskVars, rowVars, callVars, runVars, userVars>>

Status  == {"running", "waiting_user", "stopping", "stopped", "failed", "succeeded"}
Active  == {"running", "waiting_user", "stopping"}      \* catalog.ACTIVE, once claimed
Scene   == {"clean", "unknown", "needs_recovery", "user_released"}

PreviewStatus  == {"absent", "pending", "approved", "superseded", "rejected", "cancelled"}
ApprovalStatus == {"absent", "pending", "approved", "consumed", "finished"}

PreviewRow  == [status : PreviewStatus, ops : Seq(Operation), position : Nat,
                confirmed : BOOLEAN]
ApprovalRow == [status : ApprovalStatus, op : Operation \cup {None},
                plan : PreviewId \cup {None}, pos : Nat, granted : BOOLEAN,
                output : {"none", "ok", "error"}]

CallPc == {"idle", "preview", "ask", "operation", "finish", "step", "check",
           "await_preview", "await_answer", "answered", "await_grant", "granted",
           "displaced", "drained", "executing", "failing", "failed",
           "reporting", "reported"}
WorkerPc  == {"backend", "returned", "closing", "gone"}
StopperPc == {"none", "checked", "marked", "terminating"}

TypeOK ==
  /\ kind \in Kind
  /\ status \in Status
  /\ scene \in Scene
  /\ held \in BOOLEAN
  /\ preview \in [PreviewId -> PreviewRow]
  /\ approval \in [ApprovalId -> ApprovalRow]
  /\ unread \in 0..MaxUnread
  /\ evidence \in [Check -> ApprovalId \cup {None}]
  /\ steps \subseteq Step
  /\ pc \in CallPc
  /\ subject \in PreviewId \cup ApprovalId \cup {None}
  /\ finished \in BOOLEAN
  /\ cancelled \in BOOLEAN
  /\ worker \in WorkerPc
  /\ stopper \in StopperPc
  /\ signal \in BOOLEAN

-----------------------------------------------------------------------------
(* Rows in a given state.                                                    *)

PreviewsIn(s)  == {p \in PreviewId : preview[p].status \in s}
ApprovalsIn(s) == {a \in ApprovalId : approval[a].status \in s}

FreePreview  == PreviewsIn({"absent"})
FreeApproval == ApprovalsIn({"absent"})

\* approvals.status != 'finished' of some row of the task
Unfinished == ApprovalsIn({"pending", "approved", "consumed"})

\* Mutant: an operation may be run out of the plan's order.
MatchingAnywhere(op) ==
  {p \in PreviewsIn({"approved"}) :
     /\ preview[p].position < Len(preview[p].ops)
     /\ \E k \in 1..Len(preview[p].ops) : preview[p].ops[k] = op}

\* Core._matching_preview: the approved preview whose next operation is op.
Matching(op) ==
  {p \in PreviewsIn({"approved"}) :
     /\ preview[p].position < Len(preview[p].ops)
     /\ preview[p].ops[preview[p].position + 1] = op}

\* The operation was handed to the executor (the event tool.started).
Started(a) == approval[a].status = "consumed" \/ approval[a].output # "none"

\* Mutant: a confirmed preview stays one.
SetPreviewsPending(from, to) ==
  [p \in PreviewId |->
     IF preview[p].status \in from \ {"approved"} THEN [preview[p] EXCEPT !.status = to]
                                                  ELSE preview[p]]

SetPreviews(from, to) ==
  [p \in PreviewId |->
     IF preview[p].status \in from THEN [preview[p] EXCEPT !.status = to]
                                   ELSE preview[p]]

\* Mutant: operations are voided with the status of previews.
SetApprovalsSuperseded(from, to) ==
  [a \in ApprovalId |->
     IF approval[a].status \in from THEN [approval[a] EXCEPT !.status = "superseded"]
                                    ELSE approval[a]]

SetApprovals(from, to) ==
  [a \in ApprovalId |->
     IF approval[a].status \in from THEN [approval[a] EXCEPT !.status = to]
                                    ELSE approval[a]]

\* Core.fail: no effect on a task that has ended.
Fail ==
  IF status \in {"succeeded", "failed", "stopped"}
  THEN UNCHANGED <<status, scene, preview>>
  ELSE /\ status' = "failed"
       /\ scene' = "unknown"
       /\ preview' = SetPreviews({"pending"}, "cancelled")

-----------------------------------------------------------------------------
(* The task has just been claimed: running, devices reserved, worker started.*)
(* Messages sent while it was queued are already there.                      *)

Init ==
  /\ kind \in Kind
  /\ status = "running" /\ scene = "clean" /\ held = TRUE
  /\ preview = [p \in PreviewId |->
       [status |-> "absent", ops |-> <<>>, position |-> 0, confirmed |-> FALSE]]
  /\ approval = [a \in ApprovalId |->
       [status |-> "absent", op |-> None, plan |-> None, pos |-> 0,
        granted |-> FALSE, output |-> "none"]]
  /\ unread \in 0..MaxUnread
  /\ evidence = [c \in Check |-> None]
  /\ steps = {}
  /\ pc = "idle" /\ subject = None /\ finished = FALSE
  /\ cancelled = FALSE /\ worker = "backend"
  /\ stopper = "none" /\ signal = FALSE

-----------------------------------------------------------------------------
(* The ways a step of the call in flight can end.                            *)

Goto(label) == pc' = label /\ UNCHANGED <<subject, worker, finished>>
Return      == pc' = "idle" /\ subject' = None /\ UNCHANGED <<worker, finished>>

\* Mutant: the agent gets the error and goes on.
ReturnError == pc' = "idle" /\ subject' = None /\ UNCHANGED <<worker, finished>>

\* Any exception but Cancelled: Gateway.__call__ is about to fail the task.
RaiseError  == pc' = "failing" /\ subject' = None /\ UNCHANGED <<worker, finished>>

\* Cancelled: an openai call runs on the worker's thread and unwinds it as well; an
\* acp call answers the bridge, after the HTTP handler has failed the task itself.
RaiseCancelled ==
  /\ subject' = None /\ UNCHANGED finished
  /\ IF kind = "acp" THEN pc' = "reporting" /\ UNCHANGED worker
                     ELSE pc' = "idle" /\ worker' = "closing"

\* core.fail in Gateway.__call__ and, for acp, again in the HTTP handler.
FailCall ==
  /\ pc \in {"failing", "reporting"}
  /\ Fail
  /\ Goto(IF pc = "failing" THEN "failed" ELSE "reported")
  /\ UNCHANGED <<kind, held, approval, unread, evidence, steps, cancelled, userVars>>

\* cancelled.set() follows each of them, outside the transaction.
CancelCall ==
  /\ pc \in {"failed", "reported"}
  /\ cancelled' = TRUE
  /\ IF pc = "failed" THEN RaiseCancelled ELSE Return
  /\ UNCHANGED <<kind, taskVars, rowVars, userVars>>

-----------------------------------------------------------------------------
(* A tool call starts: Gateway.execute up to the branch on the action.       *)

CanCall ==
  /\ pc = "idle"
  /\ IF kind = "acp" THEN worker # "gone" ELSE worker = "backend"

\* Bounds: a preview or an operation is requested only while an identity is left.
Callable(action) ==
  /\ action = "preview"   => FreePreview # {}
  /\ action = "operation" => FreeApproval # {}
  /\ action = "step"      => Step # {}
  /\ action = "check"     => Check # {}

BeginCall(action) ==
  /\ CanCall /\ Callable(action)
  /\ IF cancelled \/ status \notin {"running", "waiting_user"} THEN RaiseCancelled
     ELSE IF finished THEN RaiseError
     ELSE Goto(action)
  /\ UNCHANGED <<kind, taskVars, rowVars, cancelled, userVars>>

\* Arguments refused by the schema, the role or the operation's own rules.
InvalidCall ==
  /\ CanCall
  /\ RaiseError
  /\ UNCHANGED <<kind, taskVars, rowVars, cancelled, userVars>>

\* finish only marks the request; the worker completes the task later.
CallFinish ==
  /\ pc = "finish"
  /\ finished' = TRUE /\ pc' = "idle"
  /\ UNCHANGED <<kind, taskVars, rowVars, subject, runVars, userVars>>

-----------------------------------------------------------------------------
(* Previews.                                                                 *)

ProposePreview ==
  /\ pc = "preview"
  /\ IF status = "running" /\ Unfinished = {}
     THEN \E p \in FreePreview, ops \in Plan :
            /\ preview' = [SetPreviews({"approved"}, "superseded") EXCEPT ![p] =
                 [status |-> "pending", ops |-> ops, position |-> 0, confirmed |-> FALSE]]
            /\ status' = "waiting_user"
            /\ pc' = "await_preview" /\ subject' = p /\ UNCHANGED <<worker, finished>>
     ELSE RaiseError /\ UNCHANGED <<status, preview>>
  /\ UNCHANGED <<kind, scene, held, approval, unread, evidence, steps, cancelled, userVars>>

\* Mutant: only an approval ends the wait.
PreviewApproved == preview[subject].status = "approved" /\ UNCHANGED unread

\* The user approved, or changed the request: then the agent gets the messages.
PreviewDecided ==
  \/ preview[subject].status = "approved" /\ UNCHANGED unread
  \/ preview[subject].status = "superseded" /\ unread' = 0

\* One round of the loop that waits for the user's decision.
AwaitPreview ==
  /\ pc = "await_preview"
  /\ IF cancelled \/ status \in {"failed", "stopped", "stopping"}
     THEN RaiseCancelled /\ UNCHANGED unread
     ELSE Return /\ PreviewDecided
  /\ UNCHANGED <<kind, taskVars, preview, approval, evidence, steps, cancelled, userVars>>

ApprovePreview(p) ==
  /\ status = "waiting_user" /\ preview[p].status = "pending"
  /\ unread = 0
  /\ preview' = [preview EXCEPT ![p].status = "approved", ![p].confirmed = TRUE]
  /\ status' = "running"
  /\ UNCHANGED <<kind, scene, held, approval, unread, evidence, steps, callVars, runVars,
                 userVars>>

\* /api/preview/reject; the handler sets run['cancel'] after the transaction.
RejectPreview(p) ==
  /\ status = "waiting_user" /\ preview[p].status = "pending"
  /\ preview' = [preview EXCEPT ![p].status = "rejected"]
  /\ status' = "failed"
  /\ signal' = TRUE
  /\ UNCHANGED <<kind, scene, held, approval, unread, evidence, steps, callVars, runVars,
                 stopper>>

-----------------------------------------------------------------------------
(* Questions, steps and checks.                                              *)

\* The status is written without looking at it.
Ask ==
  /\ pc = "ask"
  /\ status' = "waiting_user"
  /\ Goto("await_answer")
  /\ UNCHANGED <<kind, scene, held, rowVars, cancelled, userVars>>

\* Mutant: the wait ignores the cancellation.
AwaitAnswerOnly ==
  /\ pc = "await_answer"
  /\ unread > 0 /\ unread' = 0 /\ Goto("answered")
  /\ UNCHANGED <<kind, taskVars, preview, approval, evidence, steps, cancelled, userVars>>

AwaitAnswer ==
  /\ pc = "await_answer"
  /\ IF cancelled THEN RaiseCancelled /\ UNCHANGED unread
                  ELSE unread > 0 /\ unread' = 0 /\ Goto("answered")
  /\ UNCHANGED <<kind, taskVars, preview, approval, evidence, steps, cancelled, userVars>>

Answered ==
  /\ pc = "answered"
  /\ status' = IF status = "waiting_user" THEN "running" ELSE status
  /\ Return
  /\ UNCHANGED <<kind, scene, held, rowVars, cancelled, userVars>>

CompleteStep ==
  /\ pc = "step"
  /\ IF status = "running" THEN Return /\ \E s \in Step : steps' = steps \cup {s}
                           ELSE RaiseError /\ UNCHANGED steps
  /\ UNCHANGED <<kind, taskVars, preview, approval, unread, evidence, cancelled, userVars>>

\* A check needs an operation that ended without an error; one that does not
\* pass is stored and then fails the task like every other tool error.
PassCheck ==
  /\ pc = "check"
  /\ \E c \in Check, a \in ApprovalId \cup {None} :
       IF a # None /\ status = "running" /\ approval[a].output = "ok"
       THEN \/ evidence' = [evidence EXCEPT ![c] = a] /\ Return
            \/ evidence' = [evidence EXCEPT ![c] = None] /\ RaiseError
       ELSE RaiseError /\ UNCHANGED evidence
  /\ UNCHANGED <<kind, taskVars, preview, approval, unread, steps, cancelled, userVars>>

-----------------------------------------------------------------------------
(* Operations on the devices.                                                *)

\* Mutant: no operation is confirmed by itself.
AlwaysApproved(op) == "approved"

Requested(op) == IF op \in NeedsGrant THEN "pending" ELSE "approved"

\* Core.request_operation: the intent is stored before anything can run.
RequestOperation ==
  /\ pc = "operation"
  /\ \E op \in Operation, a \in FreeApproval :
       IF status = "running" /\ held /\ Matching(op) # {}
       THEN \E p \in Matching(op) :
              /\ approval' = [approval EXCEPT ![a] =
                   [status |-> Requested(op), op |-> op, plan |-> p,
                    pos |-> preview[p].position, granted |-> FALSE, output |-> "none"]]
              /\ status' = IF Requested(op) = "pending" THEN "waiting_user" ELSE status
              /\ pc' = "await_grant" /\ subject' = a /\ UNCHANGED <<worker, finished>>
       ELSE RaiseError /\ UNCHANGED <<status, approval>>
  /\ UNCHANGED <<kind, scene, held, preview, unread, evidence, steps, cancelled, userVars>>

\* One round of the loop that waits for the operation's approval.
AwaitGrant ==
  /\ pc = "await_grant"
  /\ IF cancelled THEN RaiseCancelled /\ UNCHANGED unread
     ELSE \/ /\ approval[subject].status = "approved"
             /\ Goto("granted") /\ UNCHANGED unread
          \/ /\ approval[subject].status = "finished"
             /\ Return /\ unread' = 0
          \/ /\ approval[subject].status = "pending"
             /\ status \in {"failed", "stopped", "stopping"}
             /\ RaiseCancelled /\ UNCHANGED unread
  /\ UNCHANGED <<kind, taskVars, preview, approval, evidence, steps, cancelled, userVars>>

Approve(a) ==
  /\ status = "waiting_user" /\ approval[a].status = "pending"
  /\ approval' = [approval EXCEPT ![a].status = "approved", ![a].granted = TRUE]
  /\ status' = "running"
  /\ UNCHANGED <<kind, scene, held, preview, unread, evidence, steps, callVars, runVars,
                 userVars>>

\* drain_messages before the operation starts.
DrainBeforeStart ==
  /\ pc = "granted"
  /\ IF cancelled
     THEN RaiseCancelled /\ UNCHANGED unread
     ELSE unread' = 0 /\ Goto(IF unread > 0 THEN "displaced" ELSE "drained")
  /\ UNCHANGED <<kind, taskVars, preview, approval, evidence, steps, cancelled, userVars>>

\* A new request was read: the prepared operation is given up.
Displace ==
  /\ pc = "displaced"
  /\ approval' = [approval EXCEPT ![subject].status = "finished"]
  /\ Return
  /\ UNCHANGED <<kind, taskVars, preview, unread, evidence, steps, cancelled, userVars>>

\* Core.consume_operation. At most one preview is approved (OneLiveRequest), so
\* the row the code fetches is the one Matching finds.
Startable(a) ==
  /\ status = "running" /\ approval[a].status = "approved"
  /\ approval[a].plan \in Matching(approval[a].op)
  /\ preview[approval[a].plan].position = approval[a].pos

ConsumeOperation ==
  /\ pc = "drained"
  /\ IF Startable(subject)
     THEN /\ approval' = [approval EXCEPT ![subject].status = "consumed"]
          /\ preview' = [preview EXCEPT ![approval[subject].plan].position = @ + 1]
          /\ scene' = "unknown"
          /\ Goto("executing")
     ELSE RaiseError /\ UNCHANGED <<approval, preview, scene>>
  /\ UNCHANGED <<kind, status, held, unread, evidence, steps, cancelled, userVars>>

\* The executor returns or raises; record_result stores either outcome. A result
\* that is recorded may still raise afterwards (capture of the configuration).
RecordResult ==
  /\ pc = "executing"
  /\ \E out \in {"ok", "error"} :
       /\ approval' = [approval EXCEPT ![subject].status = "finished", ![subject].output = out]
       /\ \/ out = "ok" /\ Return
          \/ RaiseError
          \/ out = "error" /\ cancelled /\ RaiseCancelled
  /\ UNCHANGED <<kind, taskVars, preview, unread, evidence, steps, cancelled, userVars>>

-----------------------------------------------------------------------------
(* Messages.                                                                 *)

\* Mutants: a message voids nothing; the task keeps waiting for a void decision.
VoidNothing == UNCHANGED <<preview, approval, status>>

VoidAndWait ==
  /\ preview' = SetPreviews({"pending", "approved"}, "superseded")
  /\ approval' = SetApprovals({"pending", "approved"}, "finished")
  /\ UNCHANGED status

\* What was previewed or prepared before the message is void.
Void ==
  IF PreviewsIn({"pending", "approved"}) # {}
  THEN /\ preview' = SetPreviews({"pending", "approved"}, "superseded")
       /\ approval' = SetApprovals({"pending", "approved"}, "finished")
       /\ status' = IF status = "waiting_user" THEN "running" ELSE status
  ELSE UNCHANGED <<preview, approval, status>>

\* Catalog.message.
Message ==
  /\ status \in Active
  /\ unread < MaxUnread
  /\ unread' = unread + 1
  /\ Void
  /\ UNCHANGED <<kind, scene, held, evidence, steps, callVars, runVars, userVars>>

\* Whether the worker's thread is its own: an openai call runs on it, and nothing
\* keeps an acp agent from ending its turn before its call has come back.
WorkerFree == kind = "acp" \/ pc = "idle"

\* The backend reads the messages between two turns.
BackendDrain ==
  /\ worker = "backend" /\ WorkerFree
  /\ unread > 0
  /\ unread' = 0
  /\ UNCHANGED <<kind, taskVars, preview, approval, evidence, steps, callVars,
                 runVars, userVars>>

-----------------------------------------------------------------------------
(* The worker around the backend.                                            *)

\* The backend ends its session after finish, before any cancellation.
BackendReturns ==
  /\ worker = "backend" /\ WorkerFree
  /\ finished /\ ~cancelled
  /\ worker' = "returned"
  /\ UNCHANGED <<kind, taskVars, rowVars, callVars, cancelled, userVars>>

\* Connection lost, agent process gone, turn limit, session ended without finish.
BackendFails ==
  /\ worker = "backend" /\ WorkerFree
  /\ IF cancelled THEN UNCHANGED <<status, scene, preview>> ELSE Fail
  /\ worker' = "closing"
  /\ UNCHANGED <<kind, held, approval, unread, evidence, steps, callVars, cancelled,
                 userVars>>

BackendCancelled ==
  /\ worker = "backend" /\ WorkerFree
  /\ cancelled
  /\ worker' = "closing"
  /\ UNCHANGED <<kind, taskVars, rowVars, callVars, cancelled, userVars>>

\* Mutant: a task may finish before its plan is exhausted.
FinishableEarly ==
  /\ status = "running" /\ PreviewsIn({"approved"}) # {}
  /\ \A c \in Check : evidence[c] # None
  /\ steps = Step /\ Unfinished = {}

\* Core.finish: everything the task promised is done.
Finishable ==
  /\ status = "running"
  /\ \E p \in PreviewsIn({"approved"}) : preview[p].position = Len(preview[p].ops)
  /\ \A c \in Check : evidence[c] # None
  /\ steps = Step
  /\ Unfinished = {}

\* Its refusal, or remote processes, loads or tuning that are not settled, is an
\* exception of the worker.
Finish ==
  /\ worker = "returned"
  /\ \/ /\ Finishable
        /\ status' = "succeeded" /\ scene' = "clean" /\ held' = FALSE
        /\ UNCHANGED preview
     \/ /\ IF cancelled THEN UNCHANGED <<status, scene, preview>> ELSE Fail
        /\ UNCHANGED held
  /\ worker' = "closing"
  /\ UNCHANGED <<kind, approval, unread, evidence, steps, callVars, cancelled, userVars>>

\* Clean-up over: the run is forgotten and its bridge token with it.
WorkerEnds ==
  /\ worker = "closing"
  /\ worker' = "gone"
  /\ UNCHANGED <<kind, taskVars, rowVars, callVars, cancelled, userVars>>

-----------------------------------------------------------------------------
(* Rejecting, stopping, releasing, restarting.                               *)

\* /api/reject fails the task whatever it is doing.
RejectOperation ==
  /\ Fail
  /\ signal' = TRUE
  /\ UNCHANGED <<kind, held, approval, unread, evidence, steps, callVars, runVars, stopper>>

SignalCancel ==
  /\ signal
  /\ signal' = FALSE
  /\ cancelled' = (cancelled \/ worker # "gone")
  /\ UNCHANGED <<kind, taskVars, rowVars, callVars, worker, stopper>>

\* Runtime.stop looks at the status first, outside the transaction that follows.
StopCheck ==
  /\ stopper = "none"
  /\ status \in {"running", "waiting_user"}
  /\ stopper' = "checked"
  /\ UNCHANGED <<kind, taskVars, rowVars, callVars, runVars, signal>>

StopMark ==
  /\ stopper = "checked"
  /\ status' = "stopping"
  /\ preview' = SetPreviews({"pending"}, "cancelled")
  /\ stopper' = "marked"
  /\ UNCHANGED <<kind, scene, held, approval, unread, evidence, steps, callVars,
                 runVars, signal>>

StopSignal ==
  /\ stopper = "marked"
  /\ cancelled' = (cancelled \/ worker # "gone")
  /\ stopper' = "terminating"
  /\ UNCHANGED <<kind, taskVars, rowVars, callVars, worker, signal>>

\* Mutant: a stop that is not confirmed keeps the task stopping.
TerminateConfirmed ==
  /\ stopper = "terminating"
  /\ scene' \in {"needs_recovery", "unknown"}
  /\ status' = IF scene' = "needs_recovery" THEN "stopped" ELSE status
  /\ stopper' = "none"
  /\ UNCHANGED <<kind, held, rowVars, callVars, runVars, signal>>

\* The terminate thread ends; whether the stop is confirmed is the executor's.
Terminate ==
  /\ stopper = "terminating"
  /\ status' = "stopped"
  /\ scene' \in {"needs_recovery", "unknown"}
  /\ stopper' = "none"
  /\ UNCHANGED <<kind, held, rowVars, callVars, runVars, signal>>

\* Mutant: the devices of an ended task are released while its run goes on.
ReleaseEarly ==
  /\ status \notin Active
  /\ held' = FALSE /\ scene' = "user_released"
  /\ UNCHANGED <<kind, status, rowVars, callVars, runVars, userVars>>

\* Runtime.release_scene: the user acknowledges the scene of an ended task.
ReleaseScene ==
  /\ worker = "gone"
  /\ status \notin Active
  /\ held' = FALSE /\ scene' = "user_released"
  /\ UNCHANGED <<kind, status, rowVars, callVars, runVars, userVars>>

\* The platform stops or crashes and comes back: Core.recover_startup.
Restart ==
  /\ IF status \in Active
     THEN /\ status' = "failed" /\ scene' = "unknown"
          /\ preview' = SetPreviews({"pending"}, "cancelled")
     ELSE UNCHANGED <<status, scene, preview>>
  /\ pc' = "idle" /\ subject' = None /\ finished' = FALSE
  /\ cancelled' = FALSE /\ worker' = "gone"
  /\ stopper' = "none" /\ signal' = FALSE
  /\ UNCHANGED <<kind, held, approval, unread, evidence, steps>>

-----------------------------------------------------------------------------
Actions == {"preview", "ask", "operation", "finish", "step", "check"}

\* The call in flight goes on without a choice of the agent's.
CallStep ==
  \/ FailCall \/ CancelCall \/ CallFinish
  \/ ProposePreview \/ AwaitPreview
  \/ Ask \/ AwaitAnswer \/ Answered
  \/ CompleteStep \/ PassCheck
  \/ RequestOperation \/ AwaitGrant \/ DrainBeforeStart \/ Displace
  \/ ConsumeOperation \/ RecordResult

AgentStep == (\E action \in Actions : BeginCall(action)) \/ InvalidCall \/ BackendDrain

WorkerStep == BackendReturns \/ BackendFails \/ BackendCancelled \/ Finish \/ WorkerEnds

UserStep ==
  \/ \E p \in PreviewId : ApprovePreview(p) \/ RejectPreview(p)
  \/ \E a \in ApprovalId : Approve(a)
  \/ Message \/ RejectOperation \/ StopCheck \/ ReleaseScene

RequestStep == SignalCancel \/ StopMark \/ StopSignal \/ Terminate

Next == CallStep \/ AgentStep \/ WorkerStep \/ UserStep \/ RequestStep \/ Restart

Spec == Init /\ [][Next]_vars

(* Threads that have something to do are scheduled; device operations, the   *)
(* executor's stop and the clean-up have timeouts. The agent, its backend and *)
(* the user promise nothing, and nobody promises a restart.                  *)
Fairness ==
  /\ WF_vars(CallStep)
  /\ WF_vars(BackendCancelled) /\ WF_vars(Finish) /\ WF_vars(WorkerEnds)
  /\ WF_vars(RequestStep)

FairSpec == Spec /\ Fairness

-----------------------------------------------------------------------------
(* Properties.                                                               *)

\* Every operation that ran is the next one of the plan it was requested under:
\* each position below a preview's counter was run exactly once, by the operation
\* the user saw there, and nothing else ran (consume_operation, _matching_preview).
RanAt(p, k) == {a \in ApprovalId : Started(a) /\ approval[a].plan = p /\ approval[a].pos = k}

ExecutesConfirmedPlan ==
  /\ \A p \in PreviewId : \A k \in 0..(Len(preview[p].ops) - 1) :
       IF k < preview[p].position
       THEN \E a \in ApprovalId :
              RanAt(p, k) = {a} /\ approval[a].op = preview[p].ops[k + 1]
       ELSE RanAt(p, k) = {}
  /\ \A a \in ApprovalId :
       Started(a) => approval[a].pos < preview[approval[a].plan].position

\* Whatever ran was in a preview the user confirmed, and was granted by itself
\* where the policy asks for that (approve_preview, approve, request_operation).
StartedWithConsent ==
  \A a \in ApprovalId : Started(a) =>
    /\ preview[approval[a].plan].confirmed
    /\ approval[a].op \in NeedsGrant => approval[a].granted

\* A message voids a confirmed preview before anybody reads it, so an approved
\* preview never coexists with a request nobody has read (message, approve_preview).
NothingUnreadBehindApproval ==
  PreviewsIn({"approved"}) # {} => unread = 0

\* At most one preview is waiting or confirmed and at most one operation is open:
\* fetching "the" approved preview is unambiguous (propose_preview, message).
OneLiveRequest ==
  /\ \A p, q \in PreviewsIn({"pending", "approved"}) : p = q
  /\ \A a, b \in Unfinished : a = b

\* A task that waits for the user, with a live worker, gives the user something to
\* decide or a question to answer.
WaitingHasReason ==
  status = "waiting_user" /\ ~cancelled /\ worker # "gone" =>
    \/ PreviewsIn({"pending"}) # {}
    \/ ApprovalsIn({"pending"}) # {}
    \/ pc \in {"await_answer", "answered"}

\* No operation starts while a request of the user is unread.
StartsUpToDate ==
  [][(\E a \in ApprovalId : ~Started(a) /\ Started(a)') => unread = 0]_vars

\* After an operation has failed the task never touches a device again.
StopsAtFirstError ==
  [][(\E a \in ApprovalId : ~Started(a) /\ Started(a)')
       => \A b \in ApprovalId : approval[b].output # "error"]_vars

\* A task that completes did all of it: every operation it ever started returned
\* without error, the confirmed plan is exhausted and every required check refers
\* to an operation that ran and returned.
CompletesHonestly ==
  [][status # "succeeded" /\ status' = "succeeded" =>
       /\ \A a \in ApprovalId : Started(a) => approval[a].output = "ok"
       /\ \A p \in PreviewsIn({"approved"}) : \A k \in 0..(Len(preview[p].ops) - 1) :
            RanAt(p, k) # {}
       /\ \A c \in Check : evidence[c] # None /\ approval[evidence[c]].output = "ok"]_vars

\* While an operation runs on a device the task still holds its devices, when the
\* call runs on the worker's thread (finish, release_scene).
ExecutesOnHeldDevices == kind = "openai" /\ pc = "executing" => held

\* Once the run is cancelled the call in flight comes back.
CancelledCallReturns == cancelled ~> pc = "idle"

\* A stop comes to an end.
StopEnds == status = "stopping" ~> status # "stopping"

\* A preview the user voided by a message goes back to the agent.
VoidedPreviewReturns ==
  \A p \in PreviewId :
    (pc = "await_preview" /\ subject = p /\ preview[p].status = "superseded")
      ~> pc # "await_preview"

-----------------------------------------------------------------------------
(* Claims of the code's own messages and comments that it does not keep.     *)

\* core.py:291 refuses an approval and asks to wait until the agent updates the
\* preview: a refused preview is updated, or the message is read.
RefusedPreview ==
  /\ pc = "await_preview" /\ status = "waiting_user" /\ unread > 0
  /\ \E p \in PreviewId : subject = p /\ preview[p].status = "pending"

RefusedPreviewIsUpdated == RefusedPreview ~> ~RefusedPreview

\* task-view.js:82 promises that after a message the next operations need a new
\* preview: a changed request does not make a running task's operation an error.
ChangedRequestIsReplanned ==
  [][pc = "drained" /\ pc' = "failing" => status # "running"]_vars

\* runtime.py:141 treats an ended task as beyond stopping: its status is final.
EndedTaskStaysEnded ==
  [][(status \in {"succeeded", "failed", "stopped"}) => UNCHANGED status]_vars

\* bridge.py:27 lets a call wait for the user because the server's cancellation
\* closes it: the call of a failed task comes back.
FailedTaskCallReturns == (status = "failed" /\ pc # "idle") ~> pc = "idle"

\* runtime.py:169 refuses to release devices while the executor is still at work:
\* no operation runs for a task that holds no device, whatever the backend.
AnyExecutionIsHeld == pc = "executing" => held
=============================================================================
