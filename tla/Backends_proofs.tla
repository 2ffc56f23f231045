---------------------------- MODULE Backends_proofs ----------------------------
(****************************************************************************)
(* What the three back ends of a task keep, for any bounds.                 *)
(****************************************************************************)
EXTENDS AcpClient, OpenAIBackend, SimulatedRun, TLAPS

-----------------------------------------------------------------------------
(* The simulated execution.                                                  *)

\* What an operation may be, and a preview, as long as the task goes on.
RequestFitsPlan ==
  /\ status = "queued" => plan = "none" /\ approval = "none"
  /\ simulator = "prepare" /\ status = "running" => plan = "none" /\ approval = "none"
  /\ approval = "approved" /\ status \notin Over => status = "running" /\ plan = "approved"
  /\ approval = "pending" /\ status \notin Over => status = "waiting_user" /\ plan = "approved"

\* The worker prepares for a task that runs, unless the task has ended meanwhile, and is refused
\* only by a task that has.
WorkerFitsTask ==
  /\ simulator = "prepare" => status \in {"running"} \cup Over
  /\ simulator = "raised" => status \in Over
  /\ status \in {"running", "waiting_user"} => held

Executing == Inside \ {"again"}

\* Under the lock nothing but the process can end: where the worker is says what is committed.
CommitsSoFar ==
  /\ simulator \in Inside => status = "running"
  /\ simulator = "again" => plan = "superseded" /\ approval \in {"none", "finished"}
  /\ simulator \in Executing => plan = "approved" /\ scene = "unknown"
  /\ simulator \in {"consumed", "ran"} => approval = "consumed"
  /\ approval = "consumed" /\ status \notin Over => simulator \in {"consumed", "ran"}
  /\ simulator \in Executing \ {"consumed", "ran"} => approval = "finished"
  /\ simulator = "stepped" => "step" \in met
  /\ simulator = "checked" => met = Contract

\* How often the commands were run is known from the end of the task, or from the worker.
RunsCounted ==
  /\ met \subseteq Contract
  /\ executed \in {0, 1}
  /\ status = "succeeded" => executed = 1 /\ met = Contract
  /\ simulator \in Executing \ {"consumed"} => executed = 1
  /\ executed = 1 => \/ status = "succeeded"
                     \/ simulator \in Executing \ {"consumed"}
                     \/ status = "failed" /\ restarted /\ scene = "unknown" /\ held

\* The parts of the invariant: about what is true or false, counted, and named.
SimFlags  == {confirm, held, cancel, restarted} \subseteq BOOLEAN
Written == unread \in 0..MaxMessages /\ sent \in 0..MaxMessages /\ unread <= sent
SimNames  ==
  /\ status \in {"queued", "running", "waiting_user"} \cup Over
  /\ scene \in {"clean", "unknown"}
  /\ plan \in {"none", "pending", "approved", "superseded", "rejected", "cancelled"}
  /\ approval \in {"none", "pending", "approved", "consumed", "finished"}
  /\ simulator \in Place
  /\ stopping \in {"idle", "checked", "signal"}
SimInv ==
  /\ SimFlags /\ Written /\ SimNames /\ EndedIsFree /\ NoSpuriousFailure
  /\ WaitingHasReason /\ RequestFitsPlan /\ WorkerFitsTask /\ CommitsSoFar /\ RunsCounted

\* What a step does to the flags of the task.
LEMMA FlagsMove ==
  ASSUME SimInv, [SimNext]_simVars
  PROVE  SimFlags' /\ EndedIsFree' /\ NoSpuriousFailure'
<1> USE DEF SimInv, SimNames, Over, Inside, Place, Executing, Locked, taskVars, rowVars, workVars,
            othersVars, SimFlags, EndedIsFree, NoSpuriousFailure, WorkerFitsTask, CommitsSoFar
<1>1. CASE Loop \/ LookAtStatus \/ LookBack \/ LeaveRuns
  BY <1>1 DEF Loop, LookAtStatus, LookBack, LeaveRuns
<1>2. CASE Prepare \/ PrepareAgain
  BY <1>2 DEF Prepare, PrepareAgain, Propose, Raise
<1>3. CASE Execute
  BY <1>3 DEF Execute, Consume, ReadMessages, Request, Raise
<1>4. CASE RunCommands \/ RecordResult \/ CompleteStep \/ RecordCheck
  BY <1>4 DEF RunCommands, RecordResult, CompleteStep, RecordCheck, Raise
<1>5. CASE Finish \/ Raised
  BY <1>5 DEF Finish, Raised, Raise, Fail, PendingCancelled
<1>6. CASE Claim \/ ApprovePreview \/ RejectPreview \/ Approve
  BY <1>6 DEF Claim, ApprovePreview, RejectPreview, Approve
<1>7. CASE Message
  BY <1>7 DEF Message, Supersede
<1>8. CASE StopLook \/ StopSignal
  <2>1. UNCHANGED <<confirm, held, scene, status, plan, restarted>> /\ cancel' \in BOOLEAN
    BY <1>8 DEF StopLook, StopSignal
  <2> QED BY <2>1
<1>9. CASE StopSimulation
  BY <1>9 DEF StopSimulation, PendingCancelled
<1>10. CASE Restart
  BY <1>10 DEF Restart, Fail, PendingCancelled
<1>11. CASE UNCHANGED simVars
  BY <1>11 DEF simVars
<1> QED BY <1>1, <1>2, <1>3, <1>4, <1>5, <1>6, <1>7, <1>8, <1>9, <1>10, <1>11
       DEF SimNext, SimulatorStep, Commits

\* What a step does to the task, its preview and its operation.
LEMMA NamesMove ==
  ASSUME SimInv, [SimNext]_simVars
  PROVE  SimNames' /\ WaitingHasReason' /\ RequestFitsPlan'
<1> USE DEF SimInv, SimNames, Over, Inside, Place, Executing, Locked, taskVars, rowVars, workVars,
            othersVars, WaitingHasReason, RequestFitsPlan, WorkerFitsTask, CommitsSoFar
<1>1. CASE Loop \/ LookAtStatus \/ LookBack \/ LeaveRuns
  BY <1>1 DEF Loop, LookAtStatus, LookBack, LeaveRuns
<1>2. CASE Prepare \/ PrepareAgain
  BY <1>2 DEF Prepare, PrepareAgain, Propose, Raise
<1>3. CASE Execute
  BY <1>3 DEF Execute, Consume, ReadMessages, Request, Raise
<1>4. CASE RunCommands \/ RecordResult \/ CompleteStep \/ RecordCheck
  BY <1>4 DEF RunCommands, RecordResult, CompleteStep, RecordCheck, Raise
<1>5. CASE Finish \/ Raised
  BY <1>5 DEF Finish, Raised, Raise, Fail, PendingCancelled
<1>6. CASE Claim \/ ApprovePreview \/ RejectPreview \/ Approve
  BY <1>6 DEF Claim, ApprovePreview, RejectPreview, Approve
<1>7. CASE Message
  BY <1>7 DEF Message, Supersede
<1>8. CASE StopLook \/ StopSignal
  BY <1>8 DEF StopLook, StopSignal
<1>9. CASE StopSimulation
  BY <1>9 DEF StopSimulation, PendingCancelled
<1>10. CASE Restart
  BY <1>10 DEF Restart, Fail, PendingCancelled
<1>11. CASE UNCHANGED simVars
  BY <1>11 DEF simVars
<1> QED BY <1>1, <1>2, <1>3, <1>4, <1>5, <1>6, <1>7, <1>8, <1>9, <1>10, <1>11
       DEF SimNext, SimulatorStep, Commits

\* What a step does to the worker and to what it holds.
LEMMA SimulatorMoves ==
  ASSUME SimInv, [SimNext]_simVars
  PROVE  WorkerFitsTask'
<1> USE DEF SimInv, SimNames, Over, Inside, Place, Executing, Locked, taskVars, rowVars, workVars,
            othersVars, WaitingHasReason, RequestFitsPlan, WorkerFitsTask, CommitsSoFar
<1>1. CASE Loop \/ LookAtStatus \/ LookBack \/ LeaveRuns
  BY <1>1 DEF Loop, LookAtStatus, LookBack, LeaveRuns
<1>2. CASE Prepare \/ PrepareAgain
  BY <1>2 DEF Prepare, PrepareAgain, Propose, Raise
<1>3. CASE Execute
  BY <1>3 DEF Execute, Consume, ReadMessages, Request, Raise
<1>4. CASE RunCommands \/ RecordResult \/ CompleteStep \/ RecordCheck
  BY <1>4 DEF RunCommands, RecordResult, CompleteStep, RecordCheck, Raise
<1>5. CASE Finish \/ Raised
  BY <1>5 DEF Finish, Raised, Raise, Fail, PendingCancelled
<1>6. CASE Claim \/ ApprovePreview \/ RejectPreview \/ Approve
  BY <1>6 DEF Claim, ApprovePreview, RejectPreview, Approve
<1>7. CASE Message
  BY <1>7 DEF Message, Supersede
<1>8. CASE StopLook \/ StopSignal
  BY <1>8 DEF StopLook, StopSignal
<1>9. CASE StopSimulation
  BY <1>9 DEF StopSimulation, PendingCancelled
<1>10. CASE Restart
  BY <1>10 DEF Restart, Fail, PendingCancelled
<1>11. CASE UNCHANGED simVars
  BY <1>11 DEF simVars
<1> QED BY <1>1, <1>2, <1>3, <1>4, <1>5, <1>6, <1>7, <1>8, <1>9, <1>10, <1>11
       DEF SimNext, SimulatorStep, Commits

\* What is committed under the lock.
LEMMA CommitsMove ==
  ASSUME SimInv, [SimNext]_simVars
  PROVE  CommitsSoFar'
<1> USE DEF SimInv, SimNames, Over, Inside, Place, Executing, Locked, taskVars, rowVars, workVars,
            othersVars, Contract, RequestFitsPlan, WorkerFitsTask, CommitsSoFar, RunsCounted
<1>1. CASE Loop \/ LookAtStatus \/ LookBack \/ LeaveRuns
  BY <1>1 DEF Loop, LookAtStatus, LookBack, LeaveRuns
<1>2. CASE Prepare \/ PrepareAgain
  BY <1>2 DEF Prepare, PrepareAgain, Propose, Raise
<1>3. CASE Execute
  <2>1. CASE approval = "approved" /\ Consume
    BY <1>3, <2>1 DEF Execute, Consume, Raise
  <2>2. CASE approval # "approved" /\ status = "running" /\ plan = "superseded" /\ ReadMessages
    BY <1>3, <2>2 DEF Execute, ReadMessages
  <2>3. CASE approval # "approved" /\ status = "running" /\ plan = "approved" /\ Request
    BY <1>3, <2>3 DEF Execute, Request
  <2>4. CASE simulator' = "status" /\ UNCHANGED <<taskVars, plan, approval, workVars>>
    BY <1>3, <2>4 DEF Execute
  <2> QED BY <1>3, <2>1, <2>2, <2>3, <2>4 DEF Execute
<1>4. CASE RunCommands \/ RecordResult \/ CompleteStep \/ RecordCheck
  BY <1>4 DEF RunCommands, RecordResult, CompleteStep, RecordCheck, Raise
<1>5. CASE Finish \/ Raised
  BY <1>5 DEF Finish, Raised, Raise, Fail, PendingCancelled
<1>6. CASE Claim \/ ApprovePreview \/ RejectPreview \/ Approve
  BY <1>6 DEF Claim, ApprovePreview, RejectPreview, Approve
<1>7. CASE Message
  BY <1>7 DEF Message, Supersede
<1>8. CASE StopLook \/ StopSignal
  BY <1>8 DEF StopLook, StopSignal
<1>9. CASE StopSimulation
  BY <1>9 DEF StopSimulation, PendingCancelled
<1>10. CASE Restart
  BY <1>10 DEF Restart, Fail, PendingCancelled
<1>11. CASE UNCHANGED simVars
  BY <1>11 DEF simVars
<1> QED BY <1>1, <1>2, <1>3, <1>4, <1>5, <1>6, <1>7, <1>8, <1>9, <1>10, <1>11
       DEF SimNext, SimulatorStep, Commits

\* How often the commands have run, and what is recorded of them.
LEMMA RunsMove ==
  ASSUME SimInv, [SimNext]_simVars
  PROVE  RunsCounted'
<1> USE DEF SimInv, SimNames, Over, Inside, Place, Executing, Locked, taskVars, rowVars, workVars,
            othersVars, Contract, RequestFitsPlan, WorkerFitsTask, CommitsSoFar, RunsCounted
<1>1. CASE Loop \/ LookAtStatus \/ LookBack \/ LeaveRuns
  BY <1>1 DEF Loop, LookAtStatus, LookBack, LeaveRuns
<1>2. CASE Prepare \/ PrepareAgain
  BY <1>2 DEF Prepare, PrepareAgain, Propose, Raise
<1>3. CASE Execute
  BY <1>3 DEF Execute, Consume, ReadMessages, Request, Raise
<1>4. CASE RunCommands \/ RecordResult \/ CompleteStep \/ RecordCheck
  <2>1. CASE RunCommands
    BY <2>1 DEF RunCommands
  <2>2. CASE RecordResult
    BY <2>2 DEF RecordResult, Raise
  <2>3. CASE CompleteStep
    BY <2>3 DEF CompleteStep, Raise
  <2>4. CASE RecordCheck
    BY <2>4 DEF RecordCheck, Raise
  <2> QED BY <1>4, <2>1, <2>2, <2>3, <2>4
<1>5. CASE Finish \/ Raised
  BY <1>5 DEF Finish, Raised, Raise, Fail, PendingCancelled
<1>6. CASE Claim \/ ApprovePreview \/ RejectPreview \/ Approve
  BY <1>6 DEF Claim, ApprovePreview, RejectPreview, Approve
<1>7. CASE Message
  BY <1>7 DEF Message, Supersede
<1>8. CASE StopLook \/ StopSignal
  BY <1>8 DEF StopLook, StopSignal
<1>9. CASE StopSimulation
  BY <1>9 DEF StopSimulation, PendingCancelled
<1>10. CASE Restart
  BY <1>10 DEF Restart, Fail, PendingCancelled
<1>11. CASE UNCHANGED simVars
  BY <1>11 DEF simVars
<1> QED BY <1>1, <1>2, <1>3, <1>4, <1>5, <1>6, <1>7, <1>8, <1>9, <1>10, <1>11
       DEF SimNext, SimulatorStep, Commits

\* What is written and not read.
LEMMA WrittenMoves ==
  ASSUME SimInv, [SimNext]_simVars
  PROVE  Written'
<1> USE SimAssumption DEF SimInv, SimNames, Over, Inside, Place, Executing, Locked, taskVars, rowVars, workVars,
            othersVars, Written
<1>1. CASE Loop \/ LookAtStatus \/ LookBack \/ LeaveRuns
  BY <1>1 DEF Loop, LookAtStatus, LookBack, LeaveRuns
<1>2. CASE Prepare \/ PrepareAgain
  BY <1>2 DEF Prepare, PrepareAgain, Propose, Raise
<1>3. CASE Execute
  BY <1>3 DEF Execute, Consume, ReadMessages, Request, Raise
<1>4. CASE RunCommands \/ RecordResult \/ CompleteStep \/ RecordCheck
  BY <1>4 DEF RunCommands, RecordResult, CompleteStep, RecordCheck, Raise
<1>5. CASE Finish \/ Raised
  BY <1>5 DEF Finish, Raised, Raise, Fail, PendingCancelled
<1>6. CASE Claim \/ ApprovePreview \/ RejectPreview \/ Approve
  BY <1>6 DEF Claim, ApprovePreview, RejectPreview, Approve
<1>7. CASE Message
  BY <1>7 DEF Message, Supersede
<1>8. CASE StopLook \/ StopSignal
  BY <1>8 DEF StopLook, StopSignal
<1>9. CASE StopSimulation
  BY <1>9 DEF StopSimulation, PendingCancelled
<1>10. CASE Restart
  BY <1>10 DEF Restart, Fail, PendingCancelled
<1>11. CASE UNCHANGED simVars
  BY <1>11 DEF simVars
<1> QED BY <1>1, <1>2, <1>3, <1>4, <1>5, <1>6, <1>7, <1>8, <1>9, <1>10, <1>11
       DEF SimNext, SimulatorStep, Commits

\* The simulated commands run at most once, and just once for a task that succeeds; when the
\* platform ends between two commits of an execution, the task fails with its scene unknown and
\* keeps its devices. A task that succeeded or was stopped has given them back, one fails for a
\* reason, and one that waits can be answered.
THEOREM SimulationExecutesOnce == SimSpec => []ExecutesOnce
<1>1. SimInit => SimInv
  <2> SUFFICES ASSUME SimInit PROVE SimInv OBVIOUS
  <2>1. SimFlags
    BY DEF SimInit, SimFlags
  <2>2. Written /\ RunsCounted
    BY SimAssumption DEF SimInit, Written, RunsCounted, Executing, Inside
  <2> QED BY <2>1, <2>2 DEF SimInit, SimInv, SimNames, Over, Place, Inside, Executing, EndedIsFree,
                NoSpuriousFailure, WaitingHasReason, RequestFitsPlan, WorkerFitsTask, CommitsSoFar
<1>2. SimInv /\ [SimNext]_simVars => SimInv'
  BY FlagsMove, NamesMove, SimulatorMoves, CommitsMove, RunsMove, WrittenMoves DEF SimInv
<1>3. SimInv => ExecutesOnce
  <2> SUFFICES ASSUME SimInv PROVE ExecutesOnce OBVIOUS
  <2>1. SimTypeOK
    BY DEF SimInv, SimFlags, Written, SimNames, RunsCounted, SimTypeOK
  <2>2. ExecutedOnce
    BY DEF SimInv, RunsCounted, CommitsSoFar, ExecutedOnce, Locked, Executing
  <2> QED BY <2>1, <2>2 DEF SimInv, ExecutesOnce
<1> QED BY <1>1, <1>2, <1>3, PTL DEF SimSpec
-----------------------------------------------------------------------------
(* The model back end.                                                       *)

Answered == pc \in {"check", "line", "body", "calls"}

\* An answer is there while it is read and carried out; only one that is no stream is read in
\* one piece.
AnswerIsThere ==
  /\ Answered => reply \in Reply
  /\ pc = "body" => ~reply.streamed

\* How the run ended is known from then on.
EndIsLast == end # "none" => pc \in {"leave", "over"}

ModelInv == CallsAreWhole /\ AnswerIsThere /\ EndIsLast

\* What a step does to the answer under way and to the calls taken from it.
LEMMA AnswerMoves ==
  ASSUME ModelInv, [ModelNext]_modelVars
  PROVE  AnswerIsThere' /\ CallsOfWholeAnswers'
<1> USE DEF ModelInv, CallsAreWhole, AnswerIsThere, Answered, CallsOfWholeAnswers, Goto, EndRun,
            workerVars, answerVars, gateVars
<1>1. CASE Turn \/ Open \/ Look \/ Send
  BY <1>1 DEF Turn, Open, Look, Send
<1>2. CASE Headers
  <2>1. CASE pc' = "leave"
    BY <2>1
  <2>2. CASE reply' \in Reply /\ pc' = (IF reply'.streamed THEN "check" ELSE "body")
    BY <2>2
  <2> QED BY <1>2, <2>1, <2>2 DEF Headers
<1>3. CASE Check \/ Line \/ StreamFails
  BY <1>3 DEF Check, Line, StreamFails
<1>4. CASE StreamEnds
  BY <1>4 DEF StreamEnds, Take
<1>5. CASE Body
  BY <1>5 DEF Body, Take
<1>6. CASE ToolCall \/ AfterCalls \/ CloseModel
  BY <1>6 DEF ToolCall, AfterCalls, CloseModel
<1>7. CASE StopModel \/ UNCHANGED modelVars
  BY <1>7 DEF StopModel, modelVars
<1> QED BY <1>1, <1>2, <1>3, <1>4, <1>5, <1>6, <1>7 DEF ModelNext, Worker

\* What a step does to the worker and to what it has left to do.
LEMMA WorkerMoves ==
  ASSUME ModelInv, [ModelNext]_modelVars
  PROVE  ModelTypeOK' /\ DoneIsLast' /\ EndIsLast'
<1> USE ModelAssumption
    DEF ModelInv, CallsAreWhole, ModelTypeOK, DoneIsLast, EndIsLast, Goto, EndRun,
        workerVars, answerVars, gateVars
<1>1. CASE Turn \/ Open \/ Look \/ Send
  BY <1>1 DEF Turn, Open, Look, Send
<1>2. CASE Headers
  BY <1>2 DEF Headers
<1>3. CASE Check \/ Line \/ StreamFails
  BY <1>3 DEF Check, Line, StreamFails
<1>4. CASE StreamEnds
  BY <1>4 DEF StreamEnds, Take, AnswerIsThere, Answered, Reply
<1>5. CASE Body
  BY <1>5 DEF Body, Take, AnswerIsThere, Answered, Reply
<1>6. CASE ToolCall
  <2>1. left > 0 /\ left' \in {left, left - 1}
    BY <1>6 DEF ToolCall
  <2>2. left' \in 0..MaxCalls
    BY <2>1
  <2>3. accepted' \in BOOLEAN /\ signalled' \in BOOLEAN
    BY <1>6, Zenon DEF ToolCall
  <2>4. /\ turns' = turns /\ reply' = reply /\ read' = read /\ pc = "calls"
        /\ \/ pc' = "calls" /\ end' = end
           \/ pc' = "leave" /\ end' \in {"cancelled", "failed"}
    BY <1>6 DEF ToolCall
  <2> QED BY <2>2, <2>3, <2>4
<1>7. CASE AfterCalls \/ CloseModel
  BY <1>7 DEF AfterCalls, CloseModel
<1>8. CASE StopModel
  <2>1. signalled' \in BOOLEAN
    BY <1>8 DEF StopModel
  <2> QED BY <1>8, <2>1 DEF StopModel
<1>9. CASE UNCHANGED modelVars
  BY <1>9 DEF modelVars
<1> QED BY <1>1, <1>2, <1>3, <1>4, <1>5, <1>6, <1>7, <1>8, <1>9 DEF ModelNext, Worker

\* Tool calls of a model come from a complete answer, and a run is done when the gateway has
\* accepted its finish as the last of them.
THEOREM ModelCallsAreWhole == ModelSpec => []CallsAreWhole
<1>1. ModelInit => ModelInv
  <2> SUFFICES ASSUME ModelInit PROVE ModelInv OBVIOUS
  <2>1. turns \in 0..MaxTurns /\ left \in 0..MaxCalls
    BY ModelAssumption DEF ModelInit
  <2>2. accepted \in BOOLEAN /\ signalled \in BOOLEAN
    BY DEF ModelInit
  <2> QED BY <2>1, <2>2 DEF ModelInit, ModelInv, CallsAreWhole, ModelTypeOK, CallsOfWholeAnswers,
                DoneIsLast, AnswerIsThere, Answered, EndIsLast
<1>2. ModelInv /\ [ModelNext]_modelVars => ModelInv'
  BY AnswerMoves, WorkerMoves DEF ModelInv, CallsAreWhole
<1>3. ModelInv => CallsAreWhole
  BY DEF ModelInv
<1> QED BY <1>1, <1>2, <1>3, PTL DEF ModelSpec
-----------------------------------------------------------------------------
(* The agent's process.                                                      *)

CallPlaces == {"lock", "write", "flush", "wait"}
InCall == worker.pc \in CallPlaces
\* A prompt is under way, or about to be.
Prompting == worker.method = "prompt" /\ (worker.pc = "call" \/ InCall)

WorkerOK ==
  worker \in [pc : {"new", "call", "lock", "write", "flush", "wait", "between", "close", "over"},
              method : Methods, id : Nat, prompts : 0..Prompts,
              end : {None, "done", "failed", "cancelled"}]
\* The methods come in their order, and the prompts within their number.
WorkerFits ==
  /\ worker.pc = "new" => worker.method = "initialize"
  /\ worker.pc = "between" => worker.method = "prompt"
  /\ worker.method # "prompt" => worker.prompts = 0
  /\ Prompting => worker.prompts < Prompts

\* What follows a result: the next method before the first prompt, or the end of a prompt.
LEMMA AfterResultMoves ==
  ASSUME WorkerOK, AfterResult
  PROVE  \/ /\ worker.method # "prompt"
            /\ \E next \in Methods : worker' = [worker EXCEPT !.pc = "call", !.method = next]
         \/ /\ worker.method = "prompt"
            /\ worker' = [worker EXCEPT !.pc = "between", !.prompts = worker.prompts + 1]
<1> worker.method \in Methods
  BY DEF WorkerOK
<1> QED BY DEF AfterResult, Methods

\* Every way in which a step changes the worker.
WorkerGoesOn ==
  \/ worker' = worker
  \/ worker.pc = "new" /\ worker' = [worker EXCEPT !.pc = "call"]
  \/ Call /\ worker.pc = "call" /\ worker' = [worker EXCEPT !.pc = "lock", !.id = worker.id + 1]
  \/ InCall /\ \E place \in {"write", "flush", "wait"} : worker' = [worker EXCEPT !.pc = place]
  \/ /\ worker.pc = "wait" /\ worker.method # "prompt"
     /\ \E next \in Methods : worker' = [worker EXCEPT !.pc = "call", !.method = next]
  \/ /\ worker.pc = "wait" /\ worker.method = "prompt"
     /\ worker' = [worker EXCEPT !.pc = "between", !.prompts = worker.prompts + 1]
  \/ Between /\ worker.pc = "between" /\ worker.prompts < Prompts /\ worker' = [worker EXCEPT !.pc = "call"]
  \/ \E how \in {"done", "failed", "cancelled"} : worker' = [worker EXCEPT !.pc = "close", !.end = how]
  \/ worker.pc = "close" /\ worker' = [worker EXCEPT !.pc = "over"]

\* There is no other.
LEMMA WorkerGoes ==
  ASSUME WorkerOK, [Next]_vars PROVE WorkerGoesOn
<1> USE DEF WorkerGoesOn, InCall, CallPlaces, Leave
<1>1. CASE Start \/ Call
  BY <1>1 DEF Start, Call
<1>2. CASE WorkerLocks \/ WorkerFlushes
  BY <1>2 DEF WorkerLocks, WorkerFlushes
<1>3. CASE WorkerWrites
  BY <1>3 DEF WorkerWrites
<1>4. CASE Wait
  <2>1. CASE AfterResult
    BY <1>4, <2>1, AfterResultMoves DEF Wait
  <2>2. CASE ~AfterResult
    BY <1>4, <2>2 DEF Wait
  <2> QED BY <2>1, <2>2
<1>5. CASE Between \/ Close
  BY <1>5 DEF Between, Close
<1>6. CASE ReaderStep
  BY <1>6 DEF ReaderStep, Read, Put, ReaderLocks, ReaderWrites
<1>7. CASE StopperStep \/ Stop
  BY <1>7 DEF StopperStep, BeginCancel, StopperLocks, StopperWrites, StopperCloses, Stop
<1>8. CASE Write \/ AgentStep \/ AgentTells \/ AgentFinishes \/ AgentExits \/ UNCHANGED vars
  BY <1>8 DEF Write, AgentStep, AgentReads, AgentAnswers, AgentTells, AgentFinishes, AgentExits,
              clientVars, vars
<1> QED BY <1>1, <1>2, <1>3, <1>4, <1>5, <1>6, <1>7, <1>8 DEF Next, WorkerStep

\* The worker keeps to the order of the methods and to its number of prompts.
LEMMA WorkerKeeps ==
  ASSUME WorkerOK, WorkerFits, [Next]_vars PROVE WorkerOK' /\ WorkerFits'
<1> USE AcpBoundsAssumption DEF WorkerOK, WorkerFits, Prompting, InCall, CallPlaces, Methods
<1>1. CASE worker' = worker
  BY <1>1
<1>2. CASE worker.pc = "new" /\ worker' = [worker EXCEPT !.pc = "call"]
  BY <1>2
<1>3. CASE worker.pc = "call" /\ worker' = [worker EXCEPT !.pc = "lock", !.id = worker.id + 1]
  <2>1. /\ worker'.pc = "lock" /\ worker'.id = worker.id + 1 /\ worker'.method = worker.method
        /\ worker'.prompts = worker.prompts
    BY <1>3
  <2>2. worker.id + 1 \in Nat
    OBVIOUS
  <2>3. WorkerOK'
    BY <1>3, <2>2
  <2> QED BY <1>3, <2>1, <2>3
<1>4. ASSUME InCall, NEW place \in {"write", "flush", "wait"}, worker' = [worker EXCEPT !.pc = place]
      PROVE  WorkerOK' /\ WorkerFits'
  BY <1>4
<1>5. ASSUME worker.pc = "wait", worker.method # "prompt", NEW next \in Methods,
             worker' = [worker EXCEPT !.pc = "call", !.method = next]
      PROVE  WorkerOK' /\ WorkerFits'
  <2>1. /\ worker'.pc = "call" /\ worker'.method = next /\ worker'.prompts = worker.prompts
        /\ worker.prompts = 0
    BY <1>5
  <2>2. WorkerOK'
    BY <1>5
  <2> QED BY <2>1, <2>2
<1>6. CASE /\ worker.pc = "wait" /\ worker.method = "prompt"
           /\ worker' = [worker EXCEPT !.pc = "between", !.prompts = worker.prompts + 1]
  <2>1. /\ worker'.pc = "between" /\ worker'.prompts = worker.prompts + 1
        /\ worker'.method = "prompt" /\ worker.prompts < Prompts
    BY <1>6
  <2>2. worker.prompts + 1 \in 0..Prompts
    BY <2>1
  <2>3. WorkerOK'
    BY <1>6, <2>2
  <2> QED BY <2>1, <2>3
<1>7. CASE worker.pc = "between" /\ worker.prompts < Prompts /\ worker' = [worker EXCEPT !.pc = "call"]
  BY <1>7
<1>8. ASSUME NEW how \in {"done", "failed", "cancelled"},
             worker' = [worker EXCEPT !.pc = "close", !.end = how]
      PROVE  WorkerOK' /\ WorkerFits'
  BY <1>8
<1>9. CASE worker.pc = "close" /\ worker' = [worker EXCEPT !.pc = "over"]
  BY <1>9
<1> HIDE DEF WorkerOK, WorkerFits, Prompting, InCall, CallPlaces, Methods
<1> QED BY WorkerGoes, <1>1, <1>2, <1>3, <1>4, <1>5, <1>6, <1>7, <1>8, <1>9 DEF WorkerGoesOn

\* A call a message names is the worker's, under its method, or an earlier one.
Fits(w, id, of) == id <= w.id /\ (id = w.id /\ w.pc \in CallPlaces => of = w.method)
MsgFits(msg) == msg.kind \in {"call", "response"} => Fits(worker, msg.id, msg.of)

\* It stays so.
LEMMA FitsStays ==
  ASSUME WorkerOK, [Next]_vars, NEW id \in Nat, NEW of, Fits(worker, id, of)
  PROVE  Fits(worker', id, of)
<1> USE DEF WorkerOK, Fits, CallPlaces
<1>1. CASE worker' = worker
  BY <1>1
<1>2. CASE worker.pc = "new" /\ worker' = [worker EXCEPT !.pc = "call"]
  BY <1>2
<1>3. CASE worker.pc = "call" /\ worker' = [worker EXCEPT !.pc = "lock", !.id = worker.id + 1]
  BY <1>3
<1>4. ASSUME InCall, NEW place \in {"write", "flush", "wait"}, worker' = [worker EXCEPT !.pc = place]
      PROVE  Fits(worker', id, of)
  BY <1>4 DEF InCall
<1>5. ASSUME worker.pc = "wait", worker.method # "prompt", NEW next \in Methods,
             worker' = [worker EXCEPT !.pc = "call", !.method = next]
      PROVE  Fits(worker', id, of)
  BY <1>5
<1>6. CASE /\ worker.pc = "wait" /\ worker.method = "prompt"
           /\ worker' = [worker EXCEPT !.pc = "between", !.prompts = worker.prompts + 1]
  BY <1>6
<1>7. CASE worker.pc = "between" /\ worker.prompts < Prompts /\ worker' = [worker EXCEPT !.pc = "call"]
  BY <1>7
<1>8. ASSUME NEW how \in {"done", "failed", "cancelled"},
             worker' = [worker EXCEPT !.pc = "close", !.end = how]
      PROVE  Fits(worker', id, of)
  BY <1>8
<1>9. CASE worker.pc = "close" /\ worker' = [worker EXCEPT !.pc = "over"]
  BY <1>9
<1> HIDE DEF WorkerOK, Fits, CallPlaces
<1> QED BY WorkerGoes, <1>1, <1>2, <1>3, <1>4, <1>5, <1>6, <1>7, <1>8, <1>9 DEF WorkerGoesOn
\* What users have written, and the prompts it is for.
MessagesFit ==
  /\ messages \in [waiting : 0..Messages, sent : 0..Messages] /\ messages.waiting <= messages.sent
  /\ worker.prompts + messages.waiting <= 1 + messages.sent
  /\ Prompting => worker.prompts + messages.waiting <= messages.sent

\* Every prompt but the first takes a message at least.
LEMMA MessagesKeep ==
  ASSUME WorkerOK, WorkerFits, MessagesFit, [Next]_vars PROVE MessagesFit'
<1>1. worker.prompts \in Nat /\ messages.waiting \in Nat /\ messages.sent \in Nat
  BY AcpBoundsAssumption DEF WorkerOK, MessagesFit
<1>2. CASE Call
  <2>1. messages' = IF worker.method = "prompt" THEN [messages EXCEPT !.waiting = 0] ELSE messages
    BY <1>2 DEF Call
  <2>2. worker'.prompts = worker.prompts /\ worker'.method = worker.method
    BY <1>2 DEF Call, WorkerOK
  <2>3. Prompting' => Prompting
    BY <1>2, <2>2 DEF Call, Prompting
  <2> QED BY <1>1, <2>1, <2>2, <2>3, AcpBoundsAssumption DEF MessagesFit
<1>3. CASE Between
  <2>1. CASE messages' = messages /\ worker' = [worker EXCEPT !.pc = "close", !.end = worker'.end]
    BY <1>1, <2>1 DEF MessagesFit, WorkerOK, Prompting, InCall, CallPlaces
  <2>2. CASE /\ messages.waiting > 0 /\ messages' = [messages EXCEPT !.waiting = 0]
             /\ worker' = [worker EXCEPT !.pc = "call"]
    BY <1>1, <2>2, AcpBoundsAssumption DEF MessagesFit, WorkerOK
  <2> QED BY <1>3, <2>1, <2>2 DEF Between, Leave, WorkerOK
<1>4. CASE Write
  <2>1. worker' = worker /\ messages' = [waiting |-> messages.waiting + 1, sent |-> messages.sent + 1]
    BY <1>4 DEF Write, clientVars
  <2>2. messages.waiting + 1 \in 0..Messages /\ messages.sent + 1 \in 0..Messages
    BY <1>1, <1>4, AcpBoundsAssumption DEF Write, MessagesFit
  <2> QED BY <1>1, <2>1, <2>2 DEF MessagesFit, Prompting, InCall, CallPlaces
<1>5. CASE ~(Call \/ Between \/ Write)
  <2>1. messages' = messages
    BY <1>5 DEF Next, vars, WorkerStep, ReaderStep, StopperStep, AgentStep, Start, WorkerLocks,
         WorkerWrites, WorkerFlushes, Wait, Close, Read, Put, ReaderLocks, ReaderWrites, BeginCancel,
         StopperLocks, StopperWrites, StopperCloses, Stop, AgentReads, AgentAnswers, AgentTells,
         AgentFinishes, AgentExits
  <2>2. CASE worker' = worker
    BY <2>1, <2>2 DEF MessagesFit, Prompting, InCall, CallPlaces
  <2>3. CASE worker.pc = "new" /\ worker' = [worker EXCEPT !.pc = "call"]
    BY <1>1, <2>1, <2>3 DEF MessagesFit, Prompting, InCall, CallPlaces, WorkerOK, WorkerFits
  <2>4. ASSUME InCall, NEW place \in {"write", "flush", "wait"}, worker' = [worker EXCEPT !.pc = place]
        PROVE  MessagesFit'
    BY <1>1, <2>1, <2>4 DEF MessagesFit, Prompting, InCall, CallPlaces, WorkerOK
  <2>5. ASSUME worker.method # "prompt", NEW next \in Methods,
               worker' = [worker EXCEPT !.pc = "call", !.method = next]
        PROVE  MessagesFit'
    BY <1>1, <2>1, <2>5 DEF MessagesFit, WorkerOK, WorkerFits
  <2>6. CASE /\ worker.pc = "wait" /\ worker.method = "prompt"
             /\ worker' = [worker EXCEPT !.pc = "between", !.prompts = worker.prompts + 1]
    BY <1>1, <2>1, <2>6 DEF MessagesFit, Prompting, InCall, CallPlaces, WorkerOK
  <2>7. ASSUME NEW how \in {"done", "failed", "cancelled"},
               worker' = [worker EXCEPT !.pc = "close", !.end = how]
        PROVE  MessagesFit'
    BY <1>1, <2>1, <2>7 DEF MessagesFit, Prompting, InCall, CallPlaces, WorkerOK
  <2>8. CASE worker.pc = "close" /\ worker' = [worker EXCEPT !.pc = "over"]
    BY <1>1, <2>1, <2>8 DEF MessagesFit, Prompting, InCall, CallPlaces, WorkerOK
  <2>9. WorkerGoesOn
    BY WorkerGoes
  <2> QED BY <1>5, <2>2, <2>3, <2>4, <2>5, <2>6, <2>7, <2>8, <2>9 DEF WorkerGoesOn
<1> QED BY <1>2, <1>3, <1>4, <1>5
\* What a stop and the start of the process leave of each other.
StopFits ==
  /\ stopper # "idle" => cancelled = TRUE
  /\ worker.pc = "new" => session = FALSE /\ process = "none"
  /\ stopper = "stopped" => session = FALSE \/ process # "alive"
  /\ worker.pc = "over" => process # "alive"
FlagsOK == {cancelled, session, finished} \subseteq BOOLEAN
PlacesOK ==
  /\ stopper \in {"idle", "begun", "lock", "write", "close", "stopped"}
  /\ lock \in {None, "worker", "reader", "stopper"}
  /\ process \in {"none", "alive", "dead"} /\ told \in 0..Tells

\* What is true or false of the task stays so typed.
LEMMA FlagsKeep ==
  ASSUME FlagsOK, [Next]_vars PROVE FlagsOK'
<1> USE DEF FlagsOK
<1>1. CASE Wait
  <2>1. cancelled' = cancelled /\ finished' = finished
    BY <1>1 DEF Wait, agentVars
  <2>2. session' = session \/ session' = (session \/ worker.method = "session/new")
    BY <1>1 DEF Wait
  <2> QED BY <2>1, <2>2
<1>2. CASE Stop
  BY <1>2 DEF Stop, agentVars
<1>3. CASE AgentFinishes
  BY <1>3 DEF AgentFinishes, clientVars
<1>4. CASE ~(Wait \/ Stop \/ AgentFinishes)
  <2>1. UNCHANGED <<cancelled, session, finished>>
    BY <1>4 DEF Next, vars, clientVars, agentVars, WorkerStep, ReaderStep, StopperStep, AgentStep, Start, Call,
         WorkerLocks, WorkerWrites, WorkerFlushes, Between, Close, Read, Put, ReaderLocks, ReaderWrites,
         BeginCancel, StopperLocks, StopperWrites, StopperCloses, AgentReads, AgentAnswers, AgentTells,
         AgentExits, Write
  <2> QED BY <2>1
<1> QED BY <1>1, <1>2, <1>3, <1>4

\* Where the stopper, the lock and the process are.
LEMMA PlacesKeep ==
  ASSUME PlacesOK, [Next]_vars PROVE PlacesOK'
<1> USE AcpBoundsAssumption DEF PlacesOK
<1>1. CASE WorkerStep
  BY <1>1 DEF WorkerStep, Start, Call, WorkerLocks, WorkerWrites, WorkerFlushes, Wait, Between, Close, agentVars
<1>2. CASE ReaderStep
  BY <1>2 DEF ReaderStep, Read, Put, ReaderLocks, ReaderWrites, agentVars
<1>3. CASE StopperStep
  BY <1>3 DEF StopperStep, BeginCancel, StopperLocks, StopperWrites, StopperCloses, agentVars
<1>4. CASE AgentStep \/ AgentFinishes \/ AgentExits
  BY <1>4 DEF AgentStep, AgentReads, AgentAnswers, AgentFinishes, AgentExits, clientVars
<1>5. CASE AgentTells
  <2>1. told + 1 \in 0..Tells /\ told' = told + 1 /\ UNCHANGED <<stopper, lock, process>>
    BY <1>5 DEF AgentTells, clientVars
  <2> QED BY <2>1
<1>6. CASE Stop \/ Write \/ UNCHANGED vars
  BY <1>6 DEF Stop, Write, clientVars, agentVars, vars
<1> QED BY <1>1, <1>2, <1>3, <1>4, <1>5, <1>6 DEF Next

\* A process is started once, before there is a session, and not left to the end.
LEMMA StopKeeps ==
  ASSUME WorkerOK, FlagsOK, PlacesOK, StopFits, [Next]_vars PROVE StopFits'
<1>1. CASE Start
  BY <1>1 DEF Start, StopFits, WorkerOK
<1>2. CASE Wait
  <2>1. worker.pc = "wait" /\ worker'.pc \notin {"new", "over"} /\ UNCHANGED <<stopper, process, cancelled>>
    BY <1>2, AfterResultMoves DEF Wait, agentVars, Leave, WorkerOK
  <2>2. session' # session => ~cancelled
    BY <1>2 DEF Wait
  <2> QED BY <2>1, <2>2 DEF StopFits, PlacesOK, FlagsOK
<1>3. CASE WorkerStep /\ ~(Start \/ Wait \/ Close)
  <2>1. worker'.pc \notin {"new", "over"} /\ UNCHANGED <<stopper, process, cancelled, session>>
    BY <1>3 DEF WorkerStep, Call, WorkerLocks, WorkerWrites, WorkerFlushes, Between, agentVars, Leave, WorkerOK
  <2> QED BY <2>1 DEF StopFits
<1>4. CASE Close
  <2>1. /\ UNCHANGED <<stopper, cancelled, session>> /\ process' \in {"none", "dead"}
        /\ worker'.pc = "over"
    BY <1>4 DEF Close, PlacesOK, WorkerOK
  <2> QED BY <2>1 DEF StopFits
<1>5. CASE ReaderStep
  <2>1. UNCHANGED <<worker, stopper, process, cancelled, session>>
    BY <1>5 DEF ReaderStep, Read, Put, ReaderLocks, ReaderWrites, agentVars
  <2> QED BY <2>1 DEF StopFits
<1>6. CASE StopperStep
  <2>1. CASE StopperCloses
    BY <2>1 DEF StopperCloses, StopFits, PlacesOK
  <2>2. CASE ~StopperCloses
    <3>1. UNCHANGED <<worker, process, cancelled, session>> /\ stopper # "idle" /\ stopper' # "stopped"
      BY <1>6, <2>2 DEF StopperStep, BeginCancel, StopperLocks, StopperWrites, agentVars
    <3> QED BY <3>1 DEF StopFits
  <2> QED BY <2>1, <2>2
<1>7. CASE AgentStep \/ AgentTells \/ AgentFinishes \/ AgentExits
  <2>1. UNCHANGED <<worker, stopper, cancelled, session>> /\ process = "alive" /\ process' \in {process, "dead"}
    BY <1>7 DEF AgentStep, AgentReads, AgentAnswers, AgentTells, AgentFinishes, AgentExits, clientVars, Alive
  <2> QED BY <2>1 DEF StopFits
<1>8. CASE Stop
  BY <1>8 DEF Stop, agentVars, StopFits
<1>9. CASE Write \/ UNCHANGED vars
  BY <1>9 DEF Write, clientVars, agentVars, vars, StopFits
<1> QED BY <1>1, <1>2, <1>3, <1>4, <1>5, <1>6, <1>7, <1>8, <1>9 DEF Next, WorkerStep
\* What the pipes carry, and the calls the agent has not answered.
CallMsg == [kind : {"call"}, id : Nat, of : Methods]
Sent    == CallMsg \cup [kind : {"reply", "cancel"}, id : {0}, of : {None}]
Told    == [kind : {"response"}, id : Nat, of : Methods]
             \cup [kind : {"update", "permission"}, id : {0}, of : {None}]
PipesOK ==
  /\ toAgent \in Seq(Sent) /\ Len(toAgent) <= Room
  /\ toClient \in Seq(Told) /\ Len(toClient) <= Room
  /\ asked \subseteq CallMsg
ReaderOK ==
  reader \in [pc : {"none", "read", "found", "lock", "write", "ended"}, id : Nat, of : Methods \cup {None}]
\* Every call on its way is this one, under its method, or an earlier one.
TravellersFit ==
  /\ \A i \in 1..Len(toAgent)  : MsgFits(toAgent[i])
  /\ \A i \in 1..Len(toClient) : MsgFits(toClient[i])
  /\ \A call \in asked : MsgFits(call)
  /\ reader.pc = "found" => reader.of \in Methods /\ Fits(worker, reader.id, reader.of)

\* What is appended to a pipe comes last, and the rest stays.
LEMMA AppendMoves ==
  ASSUME NEW S, NEW s \in Seq(S), NEW e \in S
  PROVE  /\ Append(s, e) \in Seq(S) /\ Len(Append(s, e)) = Len(s) + 1
         /\ \A i \in 1..Len(Append(s, e)) : \/ i \in 1..Len(s) /\ Append(s, e)[i] = s[i]
                                            \/ Append(s, e)[i] = e
OBVIOUS

\* What is read from a pipe was its first, and the rest stays.
LEMMA TailMoves ==
  ASSUME NEW S, NEW s \in Seq(S), s # <<>>
  PROVE  /\ Tail(s) \in Seq(S) /\ Len(Tail(s)) = Len(s) - 1
         /\ Head(s) = s[1] /\ 1 \in 1..Len(s) /\ s[1] \in S
         /\ \A i \in 1..Len(Tail(s)) : i + 1 \in 1..Len(s) /\ Tail(s)[i] = s[i + 1]
OBVIOUS

\* How a step changes the pipe to the agent.
LEMMA ToAgentMoves ==
  ASSUME WorkerOK, PipesOK, [Next]_vars
  PROVE  \/ toAgent' = toAgent
         \/ toAgent # <<>> /\ toAgent' = Tail(toAgent)
         \/ /\ worker.pc = "write" /\ Len(toAgent) < Room
            /\ toAgent' = Append(toAgent, [kind |-> "call", id |-> worker.id, of |-> worker.method])
         \/ /\ Len(toAgent) < Room
            /\ \E kind \in {"reply", "cancel"} :
                 toAgent' = Append(toAgent, [kind |-> kind, id |-> 0, of |-> None])
<1>1. CASE WorkerWrites
  BY <1>1 DEF WorkerWrites
<1>2. CASE ReaderWrites \/ StopperWrites
  BY <1>2 DEF ReaderWrites, StopperWrites
<1>3. CASE AgentReads
  BY <1>3 DEF AgentReads
<1>4. CASE ~(WorkerWrites \/ ReaderWrites \/ StopperWrites \/ AgentReads)
  BY <1>4 DEF Next, vars, clientVars, agentVars, WorkerStep, ReaderStep, StopperStep, AgentStep, Start, Call,
       WorkerLocks, WorkerFlushes, Wait, Between, Close, Read, Put, ReaderLocks, Stop, Write,
       BeginCancel, StopperLocks, StopperCloses, AgentAnswers, AgentTells, AgentFinishes, AgentExits
<1> QED BY <1>1, <1>2, <1>3, <1>4

\* How a step changes the pipe to the client.
LEMMA ToClientMoves ==
  ASSUME [Next]_vars
  PROVE  \/ toClient' = toClient
         \/ toClient # <<>> /\ toClient' = Tail(toClient)
         \/ /\ Len(toClient) < Room
            /\ \E call \in asked :
                 toClient' = Append(toClient, [kind |-> "response", id |-> call.id, of |-> call.of])
         \/ /\ Len(toClient) < Room
            /\ \E kind \in {"update", "permission"} :
                 toClient' = Append(toClient, [kind |-> kind, id |-> 0, of |-> None])
<1>1. CASE Read
  BY <1>1 DEF Read
<1>2. CASE AgentAnswers \/ AgentTells
  BY <1>2 DEF AgentAnswers, AgentTells, Responds
<1>3. CASE ~(Read \/ AgentAnswers \/ AgentTells)
  BY <1>3 DEF Next, vars, clientVars, agentVars, WorkerStep, ReaderStep, StopperStep, AgentStep, Start, Call,
       WorkerLocks, WorkerWrites, WorkerFlushes, Wait, Between, Close, Put, ReaderLocks, ReaderWrites, Stop,
       Write, BeginCancel, StopperLocks, StopperWrites, StopperCloses, AgentReads, AgentFinishes, AgentExits
<1> QED BY <1>1, <1>2, <1>3

\* How a step changes what the agent has been asked.
LEMMA AskedMoves ==
  ASSUME [Next]_vars
  PROVE  \/ asked' \subseteq asked
         \/ toAgent # <<>> /\ Head(toAgent).kind = "call" /\ asked' = asked \cup {Head(toAgent)}
<1>1. CASE AgentReads
  BY <1>1 DEF AgentReads
<1>2. CASE AgentAnswers
  BY <1>2 DEF AgentAnswers
<1>3. CASE ~(AgentReads \/ AgentAnswers)
  BY <1>3 DEF Next, vars, clientVars, agentVars, WorkerStep, ReaderStep, StopperStep, AgentStep, Start, Call,
       WorkerLocks, WorkerWrites, WorkerFlushes, Wait, Between, Close, Read, Put, ReaderLocks, ReaderWrites, Stop,
       Write, BeginCancel, StopperLocks, StopperWrites, StopperCloses, AgentTells, AgentFinishes, AgentExits
<1> QED BY <1>1, <1>2, <1>3

\* How a step changes the reader: it may find what the pipe brings first.
LEMMA ReaderMoves ==
  ASSUME ReaderOK, [Next]_vars
  PROVE  \/ reader' = reader
         \/ \E place \in {"read", "lock", "write", "ended"} : reader' = [reader EXCEPT !.pc = place]
         \/ /\ toClient # <<>> /\ Head(toClient).kind = "response"
            /\ reader' = [pc |-> "found", id |-> Head(toClient).id, of |-> Head(toClient).of]
<1>1. CASE Read
  BY <1>1 DEF Read
<1>2. CASE Put \/ ReaderLocks \/ ReaderWrites
  BY <1>2 DEF Put, ReaderLocks, ReaderWrites, Crash
<1>3. CASE Start
  BY <1>3 DEF Start
<1>4. CASE ~(ReaderStep \/ Start)
  BY <1>4 DEF Next, vars, clientVars, agentVars, WorkerStep, ReaderStep, StopperStep, AgentStep, Call,
       WorkerLocks, WorkerWrites, WorkerFlushes, Wait, Between, Close, Stop,
       Write, BeginCancel, StopperLocks, StopperWrites, StopperCloses, AgentReads, AgentAnswers, AgentTells,
       AgentFinishes, AgentExits
<1> QED BY <1>1, <1>2, <1>3, <1>4 DEF ReaderStep
\* The pipes carry only what they may, and no more than they hold.
LEMMA PipesKeep ==
  ASSUME WorkerOK, PipesOK, [Next]_vars PROVE PipesOK'
<1> USE DEF PipesOK
<1>1. toAgent' \in Seq(Sent) /\ Len(toAgent') <= Room
  <2>1. CASE toAgent' = toAgent
    BY <2>1
  <2>2. CASE toAgent # <<>> /\ toAgent' = Tail(toAgent)
    BY <2>2, TailMoves, AcpBoundsAssumption
  <2>3. CASE /\ worker.pc = "write" /\ Len(toAgent) < Room
             /\ toAgent' = Append(toAgent, [kind |-> "call", id |-> worker.id, of |-> worker.method])
    <3>1. [kind |-> "call", id |-> worker.id, of |-> worker.method] \in Sent
      BY DEF WorkerOK, Sent, CallMsg
    <3> QED BY <2>3, <3>1, AppendMoves, AcpBoundsAssumption
  <2>4. ASSUME Len(toAgent) < Room, NEW kind \in {"reply", "cancel"},
               toAgent' = Append(toAgent, [kind |-> kind, id |-> 0, of |-> None])
        PROVE  toAgent' \in Seq(Sent) /\ Len(toAgent') <= Room
    <3>1. [kind |-> kind, id |-> 0, of |-> None] \in Sent
      BY DEF Sent
    <3> QED BY <2>4, <3>1, AppendMoves, AcpBoundsAssumption
  <2> QED BY <2>1, <2>2, <2>3, <2>4, ToAgentMoves
<1>2. toClient' \in Seq(Told) /\ Len(toClient') <= Room
  <2>1. CASE toClient' = toClient
    BY <2>1
  <2>2. CASE toClient # <<>> /\ toClient' = Tail(toClient)
    BY <2>2, TailMoves, AcpBoundsAssumption
  <2>3. ASSUME Len(toClient) < Room, NEW call \in asked,
               toClient' = Append(toClient, [kind |-> "response", id |-> call.id, of |-> call.of])
        PROVE  toClient' \in Seq(Told) /\ Len(toClient') <= Room
    <3>1. [kind |-> "response", id |-> call.id, of |-> call.of] \in Told
      BY DEF Told, CallMsg
    <3> QED BY <2>3, <3>1, AppendMoves, AcpBoundsAssumption
  <2>4. ASSUME Len(toClient) < Room, NEW kind \in {"update", "permission"},
               toClient' = Append(toClient, [kind |-> kind, id |-> 0, of |-> None])
        PROVE  toClient' \in Seq(Told) /\ Len(toClient') <= Room
    <3>1. [kind |-> kind, id |-> 0, of |-> None] \in Told
      BY DEF Told
    <3> QED BY <2>4, <3>1, AppendMoves, AcpBoundsAssumption
  <2> QED BY <2>1, <2>2, <2>3, <2>4, ToClientMoves
<1>3. asked' \subseteq CallMsg
  <2>1. CASE toAgent # <<>> /\ Head(toAgent).kind = "call" /\ asked' = asked \cup {Head(toAgent)}
    <3>1. Head(toAgent) \in Sent
      BY <2>1, TailMoves
    <3>2. Head(toAgent) \in CallMsg
      BY <2>1, <3>1 DEF Sent
    <3> QED BY <2>1, <3>2
  <2> QED BY <2>1, AskedMoves
<1> QED BY <1>1, <1>2, <1>3

\* The reader holds what a response names.
LEMMA ReaderKeeps ==
  ASSUME ReaderOK, PipesOK, [Next]_vars PROVE ReaderOK'
<1>1. ASSUME NEW place \in {"read", "lock", "write", "ended"}, reader' = [reader EXCEPT !.pc = place]
      PROVE  ReaderOK'
  BY <1>1 DEF ReaderOK
<1>2. CASE /\ toClient # <<>> /\ Head(toClient).kind = "response"
           /\ reader' = [pc |-> "found", id |-> Head(toClient).id, of |-> Head(toClient).of]
  <2>1. Head(toClient) \in Told
    BY <1>2, TailMoves DEF PipesOK
  <2>2. Head(toClient).id \in Nat /\ Head(toClient).of \in Methods
    BY <1>2, <2>1 DEF Told
  <2> QED BY <1>2, <2>2 DEF ReaderOK
<1>3. CASE reader' = reader
  BY <1>3 DEF ReaderOK
<1> QED BY <1>1, <1>2, <1>3, ReaderMoves

\* What travels keeps fitting, also while the worker goes on.
LEMMA MsgFitsStays ==
  ASSUME WorkerOK, [Next]_vars, NEW msg \in Sent \cup Told, MsgFits(msg)
  PROVE  msg.kind \in {"call", "response"} => Fits(worker', msg.id, msg.of)
<1> SUFFICES ASSUME msg.kind \in {"call", "response"} PROVE Fits(worker', msg.id, msg.of)
  OBVIOUS
<1>1. msg.id \in Nat
  BY DEF Sent, Told, CallMsg
<1> QED BY <1>1, FitsStays DEF MsgFits

\* The calls on their way keep fitting.
LEMMA TravellersKeep ==
  ASSUME WorkerOK, PipesOK, ReaderOK, TravellersFit, [Next]_vars PROVE TravellersFit'
<1> DEFINE FitsThen(msg) == msg.kind \in {"call", "response"} => Fits(worker', msg.id, msg.of)
<1>1. ASSUME NEW j \in 1..Len(toAgent) PROVE FitsThen(toAgent[j])
  BY MsgFitsStays DEF PipesOK, TravellersFit
<1>2. ASSUME NEW j \in 1..Len(toClient) PROVE FitsThen(toClient[j])
  BY MsgFitsStays DEF PipesOK, TravellersFit
<1>3. ASSUME NEW call \in asked PROVE FitsThen(call)
  BY MsgFitsStays DEF PipesOK, TravellersFit, Sent
<1>4. ASSUME NEW i \in 1..Len(toAgent') PROVE FitsThen(toAgent'[i])
  <2>1. CASE toAgent' = toAgent
    BY <1>1, <2>1
  <2>2. CASE toAgent # <<>> /\ toAgent' = Tail(toAgent)
    <3>1. i + 1 \in 1..Len(toAgent) /\ toAgent'[i] = toAgent[i + 1]
      BY <2>2, TailMoves DEF PipesOK
    <3> QED BY <1>1, <3>1
  <2>3. CASE /\ worker.pc = "write"
             /\ toAgent' = Append(toAgent, [kind |-> "call", id |-> worker.id, of |-> worker.method])
    <3> DEFINE msg == [kind |-> "call", id |-> worker.id, of |-> worker.method]
    <3>1. msg \in Sent /\ MsgFits(msg)
      BY DEF WorkerOK, Sent, CallMsg, MsgFits, Fits
    <3>2. \/ i \in 1..Len(toAgent) /\ toAgent'[i] = toAgent[i]
          \/ toAgent'[i] = msg
      BY <2>3, <3>1, AppendMoves DEF PipesOK
    <3>3. FitsThen(msg)
      BY <3>1, MsgFitsStays
    <3> HIDE DEF msg, FitsThen
    <3> QED BY <1>1, <3>2, <3>3
  <2>4. ASSUME NEW kind \in {"reply", "cancel"},
               toAgent' = Append(toAgent, [kind |-> kind, id |-> 0, of |-> None])
        PROVE  FitsThen(toAgent'[i])
    <3> DEFINE msg == [kind |-> kind, id |-> 0, of |-> None]
    <3>1. msg \in Sent
      BY DEF Sent
    <3>2. \/ i \in 1..Len(toAgent) /\ toAgent'[i] = toAgent[i]
          \/ toAgent'[i] = msg
      BY <2>4, <3>1, AppendMoves DEF PipesOK
    <3>3. FitsThen(msg)
      OBVIOUS
    <3> HIDE DEF msg, FitsThen
    <3> QED BY <1>1, <3>2, <3>3
  <2> QED BY <2>1, <2>2, <2>3, <2>4, ToAgentMoves
<1>5. ASSUME NEW i \in 1..Len(toClient') PROVE FitsThen(toClient'[i])
  <2>1. CASE toClient' = toClient
    BY <1>2, <2>1
  <2>2. CASE toClient # <<>> /\ toClient' = Tail(toClient)
    <3>1. i + 1 \in 1..Len(toClient) /\ toClient'[i] = toClient[i + 1]
      BY <2>2, TailMoves DEF PipesOK
    <3> QED BY <1>2, <3>1
  <2>3. ASSUME NEW call \in asked,
               toClient' = Append(toClient, [kind |-> "response", id |-> call.id, of |-> call.of])
        PROVE  FitsThen(toClient'[i])
    <3> DEFINE msg == [kind |-> "response", id |-> call.id, of |-> call.of]
    <3>1. msg \in Told /\ call.kind = "call"
      BY DEF PipesOK, Told, CallMsg
    <3>2. \/ i \in 1..Len(toClient) /\ toClient'[i] = toClient[i]
          \/ toClient'[i] = msg
      BY <2>3, <3>1, AppendMoves DEF PipesOK
    <3>3. FitsThen(msg)
      BY <1>3, <3>1
    <3> HIDE DEF msg, FitsThen
    <3> QED BY <1>2, <3>2, <3>3
  <2>4. ASSUME NEW kind \in {"update", "permission"},
               toClient' = Append(toClient, [kind |-> kind, id |-> 0, of |-> None])
        PROVE  FitsThen(toClient'[i])
    <3> DEFINE msg == [kind |-> kind, id |-> 0, of |-> None]
    <3>1. msg \in Told
      BY DEF Told
    <3>2. \/ i \in 1..Len(toClient) /\ toClient'[i] = toClient[i]
          \/ toClient'[i] = msg
      BY <2>4, <3>1, AppendMoves DEF PipesOK
    <3>3. FitsThen(msg)
      OBVIOUS
    <3> HIDE DEF msg, FitsThen
    <3> QED BY <1>2, <3>2, <3>3
  <2> QED BY <2>1, <2>2, <2>3, <2>4, ToClientMoves
<1>6. ASSUME NEW call \in asked' PROVE FitsThen(call)
  <2>1. CASE toAgent # <<>> /\ asked' = asked \cup {Head(toAgent)}
    <3>1. 1 \in 1..Len(toAgent) /\ Head(toAgent) = toAgent[1]
      BY <2>1, TailMoves DEF PipesOK
    <3> QED BY <1>1, <1>3, <2>1, <3>1
  <2> QED BY <1>3, <2>1, AskedMoves
<1>7. reader'.pc = "found" => reader'.of \in Methods /\ Fits(worker', reader'.id, reader'.of)
  <2> SUFFICES ASSUME reader'.pc = "found"
               PROVE  reader'.of \in Methods /\ Fits(worker', reader'.id, reader'.of)
    OBVIOUS
  <2>1. CASE reader' = reader
    BY <2>1, FitsStays DEF TravellersFit, ReaderOK
  <2>2. CASE \E place \in {"read", "lock", "write", "ended"} : reader' = [reader EXCEPT !.pc = place]
    BY <2>2 DEF ReaderOK
  <2>3. CASE /\ toClient # <<>> /\ Head(toClient).kind = "response"
             /\ reader' = [pc |-> "found", id |-> Head(toClient).id, of |-> Head(toClient).of]
    <3>1. 1 \in 1..Len(toClient) /\ Head(toClient) = toClient[1] /\ Head(toClient) \in Told
      BY <2>3, TailMoves DEF PipesOK
    <3>2. Head(toClient).of \in Methods
      BY <2>3, <3>1 DEF Told
    <3> QED BY <1>2, <2>3, <3>1, <3>2
  <2> QED BY <2>1, <2>2, <2>3, ReaderMoves
<1> QED BY <1>4, <1>5, <1>6, <1>7 DEF TravellersFit, MsgFits
\* A response is accepted for the call under way only, and what is in its queue answers it.
CallFits ==
  /\ pending \subseteq {worker.id}
  /\ worker.pc \in {"new", "call", "between"} => pending = {}
  /\ InCall /\ answer.kind = "result" => answer.of = worker.method
AnswerOK == answer \in [kind : {None, "result", "error"}, of : Methods \cup {None}]

\* How a step changes the queue of the call.
LEMMA QueueMoves ==
  ASSUME WorkerOK, [Next]_vars
  PROVE  \/ answer' = answer
         \/ answer' = NoAnswer
         \/ answer' = [kind |-> "error", of |-> worker.method]
         \/ /\ reader.pc = "found" /\ reader.id \in pending /\ worker' = worker
            /\ answer' = [kind |-> "result", of |-> reader.of]
<1>1. CASE Put
  BY <1>1 DEF Put, Crash
<1>2. CASE ReaderLocks \/ ReaderWrites
  BY <1>2 DEF ReaderLocks, ReaderWrites, Crash
<1>3. CASE Call
  BY <1>3 DEF Call
<1>4. CASE ~(Put \/ ReaderLocks \/ ReaderWrites \/ Call)
  BY <1>4 DEF Next, vars, clientVars, agentVars, WorkerStep, ReaderStep, StopperStep, AgentStep, Start,
       WorkerLocks, WorkerWrites, WorkerFlushes, Wait, Between, Close, Read, Stop,
       Write, BeginCancel, StopperLocks, StopperWrites, StopperCloses, AgentReads, AgentAnswers, AgentTells,
       AgentFinishes, AgentExits
<1> QED BY <1>1, <1>2, <1>3, <1>4

\* The queue holds a response or an error, or nothing.
LEMMA AnswerKeeps ==
  ASSUME WorkerOK, AnswerOK, TravellersFit, [Next]_vars PROVE AnswerOK'
<1>1. worker.method \in Methods
  BY DEF WorkerOK
<1> QED BY <1>1, QueueMoves DEF AnswerOK, TravellersFit, NoAnswer

\* How a step changes the calls a response is accepted for.
LEMMA PendingMoves ==
  ASSUME [Next]_vars
  PROVE  \/ pending' = pending /\ ~Call /\ ~Wait
         \/ Call /\ pending' = pending \cup {worker.id + 1} /\ answer' = NoAnswer
         \/ Wait /\ pending' = pending \ {worker.id} /\ answer' = answer
<1>1. CASE Call
  BY <1>1 DEF Call
<1>2. CASE Wait
  BY <1>2 DEF Wait
<1>3. CASE ~Call /\ ~Wait
  BY <1>3 DEF Next, vars, clientVars, agentVars, WorkerStep, ReaderStep, StopperStep, AgentStep, Start,
       WorkerLocks, WorkerWrites, WorkerFlushes, Between, Close, Read, Put, ReaderLocks, ReaderWrites, Stop,
       Write, BeginCancel, StopperLocks, StopperWrites, StopperCloses, AgentReads, AgentAnswers, AgentTells,
       AgentFinishes, AgentExits
<1> QED BY <1>1, <1>2, <1>3

\* A call returns in one place only.
LEMMA OnlyWaitReturns ==
  ASSUME [Next]_vars, worker.pc = "wait", worker'.pc \in {"call", "between"} PROVE Wait
BY DEF Next, vars, clientVars, agentVars, WorkerStep, ReaderStep, StopperStep, AgentStep, Start, Call,
   WorkerLocks, WorkerWrites, WorkerFlushes, Between, Close, Read, Put, ReaderLocks, ReaderWrites, Stop,
   Write, BeginCancel, StopperLocks, StopperWrites, StopperCloses, AgentReads, AgentAnswers, AgentTells,
   AgentFinishes, AgentExits

\* The queue keeps to the call under way.
LEMMA CallKeeps ==
  ASSUME WorkerOK, AnswerOK, TravellersFit, CallFits, [Next]_vars PROVE CallFits'
<1>1. CASE Call
  <2>1. worker.pc = "call" /\ worker'.id = worker.id + 1 /\ worker'.pc = "lock"
    BY <1>1 DEF Call, WorkerOK
  <2>2. pending' = {worker.id + 1} /\ answer' = NoAnswer
    BY <1>1, <2>1 DEF Call, CallFits
  <2> QED BY <2>1, <2>2, NoneIsNoAnswer DEF CallFits, NoAnswer
<1>2. CASE Wait
  <2>1. pending' = {} /\ answer' = answer
    BY <1>2 DEF Wait, CallFits
  <2>2. worker'.pc \notin CallPlaces
    BY <1>2, AfterResultMoves DEF Wait, Leave, WorkerOK, CallPlaces
  <2> QED BY <2>1, <2>2 DEF CallFits, InCall
<1>3. CASE ~Call /\ ~Wait
  <2>1. pending' = pending
    BY <1>3, PendingMoves
  <2>2. worker'.id = worker.id /\ (worker'.pc \in CallPlaces => InCall /\ worker'.method = worker.method)
    <3>1. WorkerGoesOn
      BY WorkerGoes
    <3>2. ASSUME worker.pc = "wait", worker'.pc \in {"call", "between"} PROVE FALSE
      BY <1>3, <3>2, OnlyWaitReturns
    <3> QED BY <1>3, <3>1, <3>2 DEF WorkerGoesOn, WorkerOK, InCall, CallPlaces
  <2>3. worker'.pc \in {"new", "call", "between"} => worker.pc \in {"new", "call", "between"}
    <3>1. ASSUME worker.pc = "wait", worker'.pc \in {"call", "between"} PROVE FALSE
      BY <1>3, <3>1, OnlyWaitReturns
    <3> QED BY <3>1, WorkerGoes DEF WorkerGoesOn, WorkerOK, InCall, CallPlaces
  <2>4. worker'.pc \in CallPlaces /\ answer'.kind = "result" => answer'.of = worker'.method
    <3>1. CASE answer' = answer
      BY <2>2, <3>1 DEF CallFits
    <3>2. CASE answer' = NoAnswer
      BY <3>2, NoneIsNoAnswer DEF NoAnswer
    <3>3. CASE answer' = [kind |-> "error", of |-> worker.method]
      BY <3>3
    <3>4. CASE /\ reader.pc = "found" /\ reader.id \in pending /\ worker' = worker
               /\ answer' = [kind |-> "result", of |-> reader.of]
      BY <3>4 DEF CallFits, TravellersFit, Fits
    <3> QED BY <3>1, <3>2, <3>3, <3>4, QueueMoves
  <2> QED BY <2>1, <2>2, <2>3, <2>4 DEF CallFits, InCall
<1> QED BY <1>1, <1>2, <1>3

AcpInv ==
  /\ WorkerOK /\ WorkerFits /\ MessagesFit /\ FlagsOK /\ PlacesOK /\ StopFits
  /\ PipesOK /\ ReaderOK /\ TravellersFit /\ AnswerOK /\ CallFits

\* The invariant holds from the first state on.
LEMMA AcpInvariant == Spec => []AcpInv
<1>1. Init => AcpInv
  <2> SUFFICES ASSUME Init PROVE AcpInv
    OBVIOUS
  <2> USE AcpBoundsAssumption DEF Init
  <2>1. WorkerOK /\ WorkerFits
    BY DEF WorkerOK, WorkerFits, Prompting, InCall, Methods
  <2>2. MessagesFit /\ PlacesOK
    BY DEF MessagesFit, PlacesOK, Prompting
  <2>5. FlagsOK /\ StopFits
    BY DEF FlagsOK, StopFits
  <2>3. PipesOK /\ ReaderOK /\ TravellersFit
    BY DEF PipesOK, ReaderOK, TravellersFit
  <2>4. AnswerOK /\ CallFits
    BY DEF AnswerOK, CallFits, NoAnswer, InCall, CallPlaces
  <2> QED BY <2>1, <2>2, <2>3, <2>4, <2>5 DEF AcpInv
<1>2. AcpInv /\ [Next]_vars => AcpInv'
  BY WorkerKeeps, MessagesKeep, FlagsKeep, PlacesKeep, StopKeeps, PipesKeep, ReaderKeeps, TravellersKeep,
     AnswerKeeps, CallKeeps DEF AcpInv
<1> QED BY <1>1, <1>2, PTL DEF Spec

\* The agent's process serves its task only: it does not survive it or a stop, is prompted again
\* only for what a user wrote, and a call returns with the response to itself, also from an
\* agent that answers twice or late.
THEOREM AgentServes == Spec => AgentServesItsTask
<1>1. AcpInv => TypeOK /\ NoOrphanAgent /\ StoppedAgentIsDead /\ NoUnaskedPrompt
  <2> SUFFICES ASSUME AcpInv PROVE TypeOK /\ NoOrphanAgent /\ StoppedAgentIsDead /\ NoUnaskedPrompt
    OBVIOUS
  <2>1. NoOrphanAgent /\ StoppedAgentIsDead
    BY DEF AcpInv, StopFits, NoOrphanAgent, StoppedAgentIsDead
  <2>2. NoUnaskedPrompt
    <3>1. worker.prompts \in Nat /\ messages.waiting \in Nat /\ messages.sent \in Nat
      BY AcpBoundsAssumption DEF AcpInv, WorkerOK, MessagesFit
    <3> QED BY <3>1 DEF AcpInv, MessagesFit, NoUnaskedPrompt
  <2>3. pending \subseteq Nat
    BY DEF AcpInv, CallFits, WorkerOK
  <2>4. \A call \in asked : call.of \in Methods
    BY DEF AcpInv, PipesOK, CallMsg
  <2>5. cancelled \in BOOLEAN /\ session \in BOOLEAN /\ finished \in BOOLEAN
    BY DEF AcpInv, FlagsOK
  <2>6. worker \in [pc : {"new", "call", "lock", "write", "flush", "wait", "between", "close", "over"},
                    method : Methods, id : Nat, prompts : 0..Prompts,
                    end : {None, "done", "failed", "cancelled"}]
    BY DEF AcpInv, WorkerOK
  <2>7. TypeOK
    BY <2>3, <2>4, <2>5, <2>6 DEF AcpInv, PlacesOK, PipesOK, ReaderOK, AnswerOK, MessagesFit, TypeOK
  <2> QED BY <2>1, <2>2, <2>7
<1>2. AcpInv /\ [Next]_vars
        => [(worker.pc = "wait" /\ worker'.pc \in {"call", "between"}) => answer.of = worker.method]_vars
  <2> SUFFICES ASSUME AcpInv, [Next]_vars, worker.pc = "wait", worker'.pc \in {"call", "between"}
               PROVE  answer.of = worker.method
    OBVIOUS
  <2>1. Wait
    BY OnlyWaitReturns
  <2>2. answer.kind = "result"
    BY <2>1 DEF Wait, Leave, AcpInv, WorkerOK
  <2> QED BY <2>2 DEF AcpInv, CallFits, InCall, CallPlaces
<1> QED BY <1>1, <1>2, AcpInvariant, PTL DEF AgentServesItsTask, OwnResponse, Spec
=============================================================================
