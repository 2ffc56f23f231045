----------------------------- MODULE OpenAIBackend -----------------------------
(****************************************************************************)
(* The model back end of a task: turns of one request each, whose answer is *)
(* read line by line or as a whole and whose tool calls go to the gateway,  *)
(* against a stop, which sets the event the worker looks at now and then.   *)
(* The stop also closes the connection it finds: a request that has not been *)
(* sent opens it again, and a read under way ends then or by its timeout, as *)
(* every read here may.                                                     *)
(****************************************************************************)
EXTENDS Naturals

CONSTANTS
  NoReply,
  MaxTurns,  \* max_turns, 200 by default
  MaxCalls,  \* bound on the tool calls of an answer
  Streaming  \* may the server stream its answers, may it not?

ASSUME ModelAssumption ==
  /\ MaxTurns \in Nat /\ MaxCalls \in Nat /\ Streaming \subseteq BOOLEAN /\ Streaming # {}

VARIABLES
  pc,        \* of the worker
  turns,     \* requests begun
  end,       \* how the run ended
  reply,     \* the answer under way
  read,      \* what the worker has of it
  left,      \* tool calls of the answer not carried out yet
  accepted,  \* Gateway.finished
  signalled  \* the event of the run

workerVars == <<pc, turns, end>>
answerVars == <<reply, read>>
gateVars   == <<left, accepted>>
modelVars == <<workerVars, answerVars, gateVars, signalled>>

Reply == [streamed : Streaming, calls : 0..MaxCalls, finish : {"stop", "tool_calls", "length"}]
Ends  == {"stop", "tool_calls"}

ModelTypeOK ==
  /\ pc \in {"turn", "open", "look", "send", "headers", "check", "line", "body", "calls",
             "leave", "over"}
  /\ turns \in 0..MaxTurns /\ end \in {"none", "done", "failed", "cancelled"}
  /\ reply \in Reply \cup {NoReply} /\ read \in {"nothing", "part", "all"}
  /\ left \in 0..MaxCalls /\ accepted \in BOOLEAN
  /\ signalled \in BOOLEAN

ModelInit ==
  /\ pc = "turn" /\ turns = 0 /\ end = "none"
  /\ reply = NoReply /\ read = "nothing" /\ left = 0 /\ accepted = FALSE
  /\ signalled = FALSE

Goto(label) == pc' = label /\ UNCHANGED <<turns, end>>
EndRun(how)  == pc' = "leave" /\ end' = how /\ UNCHANGED turns

-----------------------------------------------------------------------------
(* run: what users have written goes into the history with the turn.         *)

Turn ==
  /\ pc = "turn"
  /\ \/ turns = MaxTurns /\ EndRun("failed")
     \/ turns < MaxTurns /\ signalled /\ EndRun("cancelled")
     \/ turns < MaxTurns /\ ~signalled /\ pc' = "open" /\ turns' = turns + 1 /\ UNCHANGED end
  /\ UNCHANGED <<answerVars, gateVars, signalled>>

\* request: the connection is prepared, and the event looked at before it is used.
Open ==
  /\ pc = "open" /\ Goto("look")
  /\ reply' = NoReply /\ read' = "nothing"
  /\ UNCHANGED <<gateVars, signalled>>

Look ==
  /\ pc = "look"
  /\ IF signalled THEN EndRun("cancelled") ELSE Goto("send")
  /\ UNCHANGED <<answerVars, gateVars, signalled>>

Send ==
  /\ pc = "send"
  /\ Goto("headers") \/ EndRun("failed")
  /\ UNCHANGED <<answerVars, gateVars, signalled>>

\* The server answers, refuses, or does not answer before the timeout.
Headers ==
  /\ pc = "headers"
  /\ \/ EndRun("failed") /\ UNCHANGED reply
     \/ /\ reply' \in Reply
        /\ Goto(IF reply'.streamed THEN "check" ELSE "body")
  /\ UNCHANGED <<read, gateVars, signalled>>

-----------------------------------------------------------------------------
(* completion.                                                               *)

Take == IF reply.calls > 0 THEN Goto("calls") /\ left' = reply.calls
                           ELSE EndRun("failed") /\ UNCHANGED left

\* Mutant: the event is not looked at while an answer comes in.
CheckNothing ==
  /\ pc = "check" /\ Goto("line")
  /\ UNCHANGED <<answerVars, gateVars, signalled>>

Check ==
  /\ pc = "check"
  /\ IF signalled THEN EndRun("cancelled") ELSE Goto("line")
  /\ UNCHANGED <<answerVars, gateVars, signalled>>

\* Another line: a part of the answer, or its reason to end.
Line ==
  /\ pc = "line" /\ Goto("check")
  /\ \/ read = "all" /\ UNCHANGED read
     \/ read # "all" /\ read' \in {"part", "all"}
  /\ UNCHANGED <<reply, gateVars, signalled>>

\* Mutant: a stream that ends is an answer that ended.
TakeAnyEnd ==
  /\ pc = "line"
  /\ Take
  /\ UNCHANGED <<answerVars, accepted, signalled>>

\* The stream ends: [DONE], the server's end, or the connection's.
StreamEnds ==
  /\ pc = "line"
  /\ IF read = "all" /\ reply.finish \in Ends THEN Take ELSE EndRun("failed") /\ UNCHANGED left
  /\ UNCHANGED <<answerVars, accepted, signalled>>

\* A read that times out, an event that cannot be read or tells an error.
StreamFails ==
  /\ pc = "line" /\ EndRun("failed")
  /\ UNCHANGED <<answerVars, gateVars, signalled>>

\* An answer in one piece is taken whatever its reason to end; one cut short is no document.
Body ==
  /\ pc = "body"
  /\ \/ EndRun("failed") /\ UNCHANGED <<read, left>>
     \/ read' = "all" /\ Take
  /\ UNCHANGED <<reply, accepted, signalled>>

-----------------------------------------------------------------------------
(* The tool calls of an answer, one after the other.                         *)

\* Mutant: what follows a finish in the same answer is left out.
CallUpToFinish ==
  /\ pc = "calls" /\ left > 0
  /\ \/ signalled /\ EndRun("cancelled") /\ UNCHANGED <<gateVars, signalled>>
     \/ ~signalled /\ left' = left - 1 /\ Goto("calls") /\ UNCHANGED <<accepted, signalled>>
     \/ ~signalled /\ accepted' = TRUE /\ EndRun("done") /\ UNCHANGED <<left, signalled>>
  /\ UNCHANGED <<answerVars>>

\* The gateway carries a call out, takes it for the finish, or refuses it and cancels the run;
\* arguments that are no document do not get there.
ToolCall ==
  /\ pc = "calls" /\ left > 0
  /\ \/ signalled /\ EndRun("cancelled") /\ UNCHANGED <<gateVars, signalled>>
     \/ /\ ~signalled /\ ~accepted /\ left' = left - 1 /\ accepted' \in BOOLEAN
        /\ Goto("calls") /\ UNCHANGED signalled
     \/ ~signalled /\ EndRun("failed") /\ signalled' \in {signalled, TRUE} /\ UNCHANGED gateVars
  /\ UNCHANGED <<answerVars>>

AfterCalls ==
  /\ pc = "calls" /\ left = 0
  /\ IF accepted THEN EndRun("done") ELSE Goto("turn")
  /\ UNCHANGED <<answerVars, gateVars, signalled>>

\* The worker's finally block.
CloseModel ==
  /\ pc = "leave" /\ Goto("over")
  /\ UNCHANGED <<answerVars, gateVars, signalled>>

-----------------------------------------------------------------------------
\* Runtime.stop.
StopModel ==
  /\ ~signalled /\ pc # "over" /\ signalled' = TRUE
  /\ UNCHANGED <<workerVars, answerVars, gateVars>>

Worker ==
  \/ Turn \/ Open \/ Look \/ Send \/ Headers \/ Check \/ Line \/ StreamEnds \/ StreamFails
  \/ Body \/ ToolCall \/ AfterCalls \/ CloseModel

ModelNext == Worker \/ StopModel

ModelSpec == ModelInit /\ [][ModelNext]_modelVars

(* Every read returns by its timeout, and a gateway call of a cancelled run   *)
(* returns (OperationGate, CancelledCallReturns). A stream may go on forever. *)
FairModelSpec == ModelSpec /\ WF_modelVars(Worker)

-----------------------------------------------------------------------------
(* Properties.                                                               *)

\* Tool calls are carried out from a complete answer only: one whose end has been read and, if
\* it is a stream, whose reason to end is not that the server cut it short (completion).
CallsOfWholeAnswers == pc = "calls" => read = "all" /\ (reply.streamed => reply.finish \in Ends)

\* A run is done when the gateway has accepted its finish and nothing follows the finish: a call
\* behind it in the same answer makes the run fail (run, the loop over calls).
DoneIsLast == end = "done" => accepted /\ left = 0

\* Tool calls of a model come from a complete answer, and a run is done when the gateway has
\* accepted its finish as the last of them (openai_backend.py).
CallsAreWhole == ModelTypeOK /\ CallsOfWholeAnswers /\ DoneIsLast

\* A stop ends the run, also one that reads an answer that does not end.
StopEndsRun == signalled ~> (pc = "over")
=============================================================================
