------------------------------- MODULE AcpClient -------------------------------
(****************************************************************************)
(* The ACP back end of a task: a worker that calls an agent process over a  *)
(* pair of pipes, the reader thread that answers its permission requests    *)
(* and hands responses to the worker, and the thread of a stop. Both write  *)
(* to the one pipe under the one lock, and a pipe holds only so much.       *)
(****************************************************************************)
EXTENDS Naturals, Sequences

CONSTANTS
  None,
  Prompts,     \* how often the worker may prompt (100 in the code)
  Messages,    \* bound on the messages users send
  Tells,       \* bound on what the agent sends of its own accord
  Room,        \* what a pipe holds
  Large,       \* is a prompt larger than that?
  Twice,       \* may the agent answer a call twice?
  Slow,        \* may a call be given up after its timeout?
  Stops        \* may the task be stopped?

ASSUME AcpBoundsAssumption ==
  /\ Prompts \in Nat \ {0} /\ Messages \in Nat /\ Tells \in Nat /\ Room \in Nat \ {0}
  /\ {Large, Twice} \subseteq BOOLEAN /\ Slow \in BOOLEAN /\ Stops \in BOOLEAN

ASSUME NoneIsNoAnswer == None \notin {"result", "error"}

VARIABLES
  worker,      \* pc, what it called under which number, and how the run ended
  stopper,     \* the thread of Runtime.stop
  cancelled,   \* the event both share
  lock,        \* who holds ACP.lock
  pending,     \* the calls a response is accepted for
  answer,      \* what is in the queue of the call, and which call it answers
  session,     \* ACP.session is set
  reader,      \* pc, and the number of a response it is about to hand over
  process,     \* "none", "alive" or "dead"
  toAgent, toClient, \* the pipes
  asked,       \* calls and permissions the agent has not answered yet
  told,        \* what it has sent of its own accord
  finished,    \* the gateway has accepted the agent's finish
  messages     \* user messages not drained yet, and how many have been sent

clientVars == <<worker, stopper, cancelled, lock, pending, answer, session, reader>>
agentVars  == <<process, toAgent, toClient, asked, told, finished>>
vars == <<clientVars, agentVars, messages>>

Methods  == {"initialize", "session/new", "set_model", "prompt"}
NoAnswer == [kind |-> None, of |-> None]

TypeOK ==
  /\ worker \in [pc : {"new", "call", "lock", "write", "flush", "wait", "between", "close", "over"},
                 method : Methods, id : Nat, prompts : 0..Prompts,
                 end : {None, "done", "failed", "cancelled"}]
  /\ stopper \in {"idle", "begun", "lock", "write", "close", "stopped"}
  /\ cancelled \in BOOLEAN /\ lock \in {None, "worker", "reader", "stopper"}
  /\ pending \subseteq Nat /\ answer \in [kind : {None, "result", "error"}, of : Methods \cup {None}]
  /\ session \in BOOLEAN
  /\ reader \in [pc : {"none", "read", "found", "lock", "write", "ended"}, id : Nat, of : Methods \cup {None}]
  /\ process \in {"none", "alive", "dead"}
  /\ Len(toAgent) <= Room /\ Len(toClient) <= Room
  /\ \A call \in asked : call.of \in Methods
  /\ told \in 0..Tells /\ finished \in BOOLEAN /\ messages \in [waiting : 0..Messages, sent : 0..Messages]

Init ==
  /\ worker = [pc |-> "new", method |-> "initialize", id |-> 0, prompts |-> 0, end |-> None]
  /\ stopper = "idle" /\ cancelled = FALSE /\ lock = None
  /\ pending = {} /\ answer = NoAnswer /\ session = FALSE
  /\ reader = [pc |-> "none", id |-> 0, of |-> None]
  /\ process = "none" /\ toAgent = <<>> /\ toClient = <<>> /\ asked = {} /\ told = 0
  /\ finished = FALSE /\ messages = [waiting |-> 0, sent |-> 0]

Alive == process = "alive"

-----------------------------------------------------------------------------
(* The worker.                                                               *)

Leave(end) == worker' = [worker EXCEPT !.pc = "close", !.end = end]

\* start: the process and its reader.
Start ==
  /\ worker.pc = "new" /\ worker' = [worker EXCEPT !.pc = "call"]
  /\ process' = "alive" /\ reader' = [reader EXCEPT !.pc = "read"]
  /\ UNCHANGED <<stopper, cancelled, lock, pending, answer, session, toAgent, toClient, asked, told,
                 finished, messages>>

\* A prompt takes along what users have written by now.
Call ==
  /\ worker.pc = "call" /\ worker' = [worker EXCEPT !.pc = "lock", !.id = @ + 1]
  /\ pending' = pending \cup {worker.id + 1} /\ answer' = NoAnswer
  /\ messages' = IF worker.method = "prompt" THEN [messages EXCEPT !.waiting = 0] ELSE messages
  /\ UNCHANGED <<stopper, cancelled, lock, session, reader, agentVars>>

\* _send: the lock, a look at the process, the write. A process that has gone raises.
WorkerLocks ==
  /\ worker.pc = "lock" /\ lock = None
  /\ IF Alive THEN lock' = "worker" /\ worker' = [worker EXCEPT !.pc = "write"]
              ELSE UNCHANGED lock /\ Leave("failed")
  /\ UNCHANGED <<stopper, cancelled, pending, answer, session, reader, agentVars, messages>>

\* Mutant: a write that fails keeps the lock.
WorkerWritesLocked ==
  /\ worker.pc = "write"
  /\ IF Alive
     THEN /\ Len(toAgent) < Room /\ worker' = [worker EXCEPT !.pc = "wait"] /\ lock' = None
          /\ toAgent' = Append(toAgent, [kind |-> "call", id |-> worker.id, of |-> worker.method])
     ELSE UNCHANGED <<toAgent, lock>> /\ Leave("failed")
  /\ UNCHANGED <<stopper, cancelled, pending, answer, session, reader, process, toClient, asked, told,
                 finished, messages>>

WorkerWrites ==
  LET large == Large /\ worker.method = "prompt" IN
  /\ worker.pc = "write"
  /\ IF Alive
     THEN /\ Len(toAgent) < Room
          /\ toAgent' = Append(toAgent, [kind |-> "call", id |-> worker.id, of |-> worker.method])
          /\ worker' = [worker EXCEPT !.pc = IF large THEN "flush" ELSE "wait"]
          /\ lock' = (IF large THEN lock ELSE None)
     ELSE UNCHANGED toAgent /\ Leave("failed") /\ lock' = None
  /\ UNCHANGED <<stopper, cancelled, pending, answer, session, reader, process, toClient, asked, told,
                 finished, messages>>

\* A write larger than the pipe returns when the agent has read it.
WorkerFlushes ==
  /\ worker.pc = "flush" /\ (toAgent = <<>> \/ ~Alive) /\ lock' = None
  /\ IF Alive THEN worker' = [worker EXCEPT !.pc = "wait"] ELSE Leave("failed")
  /\ UNCHANGED <<stopper, cancelled, pending, answer, session, reader, agentVars, messages>>

\* What follows a response: the rest of start, select_model for a task with a model, a prompt.
AfterResult ==
  CASE worker.method = "initialize"  -> worker' = [worker EXCEPT !.pc = "call", !.method = "session/new"]
    [] worker.method = "session/new" ->
         \E next \in {"set_model", "prompt"} : worker' = [worker EXCEPT !.pc = "call", !.method = next]
    [] worker.method = "set_model"   -> worker' = [worker EXCEPT !.pc = "call", !.method = "prompt"]
    [] OTHER                         -> worker' = [worker EXCEPT !.pc = "between", !.prompts = @ + 1]

\* Mutant: a process that has ended is not noticed.
WaitAnswer ==
  /\ worker.pc = "wait" /\ pending' = pending \ {worker.id}
  /\ \/ cancelled /\ Leave("cancelled") /\ UNCHANGED session
     \/ ~cancelled /\ answer.kind = "result" /\ AfterResult /\ session' = TRUE
     \/ ~cancelled /\ answer.kind = "error" /\ Leave("failed") /\ UNCHANGED session
  /\ UNCHANGED <<stopper, cancelled, lock, answer, reader, agentVars, messages>>

\* Only the prompt has no timeout.
Wait ==
  /\ worker.pc = "wait" /\ pending' = pending \ {worker.id}
  /\ \/ cancelled /\ Leave("cancelled") /\ UNCHANGED session
     \/ /\ ~cancelled /\ answer.kind = "result" /\ AfterResult
        /\ session' = (session \/ worker.method = "session/new")
     \/ ~cancelled /\ answer.kind = "error" /\ Leave("failed") /\ UNCHANGED session
     \/ ~cancelled /\ answer.kind = None /\ ~Alive /\ Leave("failed") /\ UNCHANGED session
     \/ /\ ~cancelled /\ answer.kind = None /\ Slow /\ worker.method # "prompt"
        /\ Leave("failed") /\ UNCHANGED session
  /\ UNCHANGED <<stopper, cancelled, lock, answer, reader, agentVars, messages>>

\* Mutant: an agent that has not finished is prompted again.
BetweenAgain ==
  /\ worker.pc = "between"
  /\ \/ ~cancelled /\ finished /\ Leave("done")
     \/ ~cancelled /\ ~finished /\ worker.prompts < Prompts /\ worker' = [worker EXCEPT !.pc = "call"]
  /\ UNCHANGED <<stopper, cancelled, lock, pending, answer, session, reader, agentVars, messages>>

\* After a prompt: done if the gateway has finished, again if users have written.
Between ==
  /\ worker.pc = "between"
  /\ \/ cancelled /\ Leave("cancelled") /\ UNCHANGED messages
     \/ ~cancelled /\ finished /\ Leave("done") /\ UNCHANGED messages
     \/ /\ ~cancelled /\ ~finished /\ messages.waiting > 0 /\ worker.prompts < Prompts
        /\ worker' = [worker EXCEPT !.pc = "call"]
        /\ messages' = [messages EXCEPT !.waiting = 0]
     \/ /\ ~cancelled /\ ~finished /\ (messages.waiting = 0 \/ worker.prompts = Prompts)
        /\ Leave("failed") /\ UNCHANGED messages
  /\ UNCHANGED <<stopper, cancelled, lock, pending, answer, session, reader, agentVars>>

\* Mutant: a run that ended well leaves its process.
CloseFailed ==
  /\ worker.pc = "close" /\ worker' = [worker EXCEPT !.pc = "over"]
  /\ process' = (IF worker.end = "failed" THEN "dead" ELSE process)
  /\ UNCHANGED <<stopper, cancelled, lock, pending, answer, session, reader, toAgent, toClient, asked,
                 told, finished, messages>>

\* The worker's finally block closes the back end whatever happened: the process group is killed.
Close ==
  /\ worker.pc = "close" /\ worker' = [worker EXCEPT !.pc = "over"]
  /\ process' = (IF process = "none" THEN "none" ELSE "dead")
  /\ UNCHANGED <<stopper, cancelled, lock, pending, answer, session, reader, toAgent, toClient, asked,
                 told, finished, messages>>

-----------------------------------------------------------------------------
(* The reader.                                                               *)

\* The except clause: whoever waits gets an error, and nobody reads any more.
Crash ==
  /\ reader' = [reader EXCEPT !.pc = "ended"]
  /\ answer' = IF worker.id \in pending /\ answer = NoAnswer
               THEN [kind |-> "error", of |-> worker.method] ELSE answer

\* A response nobody waits for is answered like an unknown request.
Read ==
  /\ reader.pc = "read"
  /\ \/ /\ toClient # <<>> /\ toClient' = Tail(toClient)
        /\ LET msg == Head(toClient) IN
           reader' = IF msg.kind = "update" THEN reader
                     ELSE IF msg.kind = "response" /\ msg.id \in pending
                     THEN [pc |-> "found", id |-> msg.id, of |-> msg.of]
                     ELSE [reader EXCEPT !.pc = "lock"]
     \/ toClient = <<>> /\ ~Alive /\ reader' = [reader EXCEPT !.pc = "ended"] /\ UNCHANGED toClient
  /\ UNCHANGED <<worker, stopper, cancelled, lock, pending, answer, session, process, toAgent, asked, told,
                 finished, messages>>

\* Mutant: a response is handed to whoever waits now.
PutAny ==
  /\ reader.pc = "found" /\ reader' = [reader EXCEPT !.pc = "read"]
  /\ answer' = IF answer = NoAnswer THEN [kind |-> "result", of |-> reader.of] ELSE answer
  /\ UNCHANGED <<worker, stopper, cancelled, lock, pending, session, agentVars, messages>>

\* The queue is looked up again; a call given up meanwhile is a KeyError.
Put ==
  /\ reader.pc = "found"
  /\ IF reader.id \in pending
     THEN /\ reader' = [reader EXCEPT !.pc = "read"]
          /\ answer' = IF answer = NoAnswer
                       THEN [kind |-> "result", of |-> reader.of] ELSE answer
     ELSE Crash
  /\ UNCHANGED <<worker, stopper, cancelled, lock, pending, session, agentVars, messages>>

ReaderLocks ==
  /\ reader.pc = "lock" /\ lock = None
  /\ IF Alive THEN lock' = "reader" /\ reader' = [reader EXCEPT !.pc = "write"] /\ UNCHANGED answer
              ELSE UNCHANGED lock /\ Crash
  /\ UNCHANGED <<worker, stopper, cancelled, pending, session, agentVars, messages>>

ReaderWrites ==
  /\ reader.pc = "write" /\ lock' = None
  /\ IF Alive
     THEN /\ Len(toAgent) < Room /\ toAgent' = Append(toAgent, [kind |-> "reply", id |-> 0, of |-> None])
          /\ reader' = [reader EXCEPT !.pc = "read"] /\ UNCHANGED answer
     ELSE UNCHANGED toAgent /\ Crash
  /\ UNCHANGED <<worker, stopper, cancelled, pending, session, process, toClient, asked, told, finished,
                 messages>>

-----------------------------------------------------------------------------
(* The stop of the task, and its users.                                      *)

Stop ==
  /\ Stops /\ stopper = "idle" /\ worker.pc # "over"
  /\ stopper' = "begun" /\ cancelled' = TRUE
  /\ UNCHANGED <<worker, lock, pending, answer, session, reader, agentVars, messages>>

\* cancel: tell the agent if there is a session, then close.
BeginCancel ==
  /\ stopper = "begun" /\ stopper' = (IF session /\ Alive THEN "lock" ELSE "close")
  /\ UNCHANGED <<worker, cancelled, lock, pending, answer, session, reader, agentVars, messages>>

StopperLocks ==
  /\ stopper = "lock" /\ lock = None
  /\ IF Alive THEN lock' = "stopper" /\ stopper' = "write"
              ELSE UNCHANGED lock /\ stopper' = "close"
  /\ UNCHANGED <<worker, cancelled, pending, answer, session, reader, agentVars, messages>>

\* Mutant: an agent that has been told is not closed.
StopperOnlyWrites ==
  /\ stopper = "write" /\ stopper' = "stopped" /\ lock' = None /\ Len(toAgent) < Room
  /\ toAgent' = Append(toAgent, [kind |-> "cancel", id |-> 0, of |-> None])
  /\ UNCHANGED <<worker, cancelled, pending, answer, session, reader, process, toClient, asked, told,
                 finished, messages>>

StopperWrites ==
  /\ stopper = "write" /\ stopper' = "close" /\ lock' = None
  /\ IF Alive
     THEN Len(toAgent) < Room /\ toAgent' = Append(toAgent, [kind |-> "cancel", id |-> 0, of |-> None])
     ELSE UNCHANGED toAgent
  /\ UNCHANGED <<worker, cancelled, pending, answer, session, reader, process, toClient, asked, told,
                 finished, messages>>

StopperCloses ==
  /\ stopper = "close" /\ stopper' = "stopped"
  /\ process' = (IF process = "none" THEN "none" ELSE "dead")
  /\ UNCHANGED <<worker, cancelled, lock, pending, answer, session, reader, toAgent, toClient, asked, told,
                 finished, messages>>

Write ==
  /\ messages.sent < Messages /\ worker.pc # "over"
  /\ messages' = [waiting |-> messages.waiting + 1, sent |-> messages.sent + 1]
  /\ UNCHANGED <<clientVars, agentVars>>

-----------------------------------------------------------------------------
(* The agent, as far as the client relies on it.                             *)

AgentReads ==
  /\ Alive /\ toAgent # <<>> /\ toAgent' = Tail(toAgent)
  /\ asked' = IF Head(toAgent).kind = "call" THEN asked \cup {Head(toAgent)} ELSE asked
  /\ UNCHANGED <<clientVars, process, toClient, told, finished, messages>>

Responds(call) ==
  /\ Len(toClient) < Room
  /\ toClient' = Append(toClient, [kind |-> "response", id |-> call.id, of |-> call.of])

AgentAnswers ==
  /\ Alive
  /\ \E call \in asked : Responds(call) /\ asked' = asked \ {call}
  /\ UNCHANGED <<clientVars, process, toAgent, told, finished, messages>>

\* Updates, permission requests and responses given twice.
AgentTells ==
  /\ Alive /\ told < Tells /\ told' = told + 1
  /\ \/ Twice /\ \E call \in asked : Responds(call)
     \/ /\ Len(toClient) < Room
        /\ \E kind \in {"update", "permission"} :
             toClient' = Append(toClient, [kind |-> kind, id |-> 0, of |-> None])
  /\ UNCHANGED <<clientVars, process, toAgent, asked, finished, messages>>

\* A tool call of its own, to the gateway.
AgentFinishes ==
  /\ Alive /\ (\E call \in asked : call.of = "prompt") /\ finished' = TRUE
  /\ UNCHANGED <<clientVars, process, toAgent, toClient, asked, told, messages>>

AgentExits ==
  /\ Alive /\ process' = "dead"
  /\ UNCHANGED <<clientVars, toAgent, toClient, asked, told, finished, messages>>

WorkerStep  == Start \/ Call \/ WorkerLocks \/ WorkerWrites \/ WorkerFlushes \/ Wait \/ Between \/ Close
ReaderStep  == Read \/ Put \/ ReaderLocks \/ ReaderWrites
StopperStep == BeginCancel \/ StopperLocks \/ StopperWrites \/ StopperCloses
AgentStep   == AgentReads \/ AgentAnswers

Next ==
  \/ WorkerStep \/ ReaderStep \/ StopperStep \/ AgentStep
  \/ Stop \/ Write \/ AgentTells \/ AgentFinishes \/ AgentExits

Spec == Init /\ [][Next]_vars
\* The client's threads are scheduled, and a lock that is free often enough is got.
ClientFairness == WF_vars(WorkerStep) /\ SF_vars(WorkerLocks) /\ WF_vars(ReaderStep) /\ SF_vars(ReaderLocks)
                  /\ WF_vars(StopperStep) /\ SF_vars(StopperLocks)
FairSpec == Spec /\ ClientFairness

-----------------------------------------------------------------------------
\* The response a call returns with is the response to that call, also when the agent answers
\* twice or late (ACP.call, ACP._read).
OwnResponse == [][(worker.pc = "wait" /\ worker'.pc \in {"call", "between"}) => answer.of = worker.method]_vars

\* No agent survives its task, whenever the stop and the start of its process meet
\* (ACP.cancel, Runtime.worker's finally).
NoOrphanAgent == worker.pc = "over" => process # "alive"

\* A process whose stop has been reported as carried out is not working for the task any more
\* unless it was started after that (ACP.cancel).
StoppedAgentIsDead == stopper = "stopped" /\ session => process # "alive"

\* A prompt is followed by another only if a user wrote something meanwhile: the client never
\* continues an agent of its own accord (ACP.run).
NoUnaskedPrompt == worker.prompts <= 1 + messages.sent

\* The agent's process serves its task only: it does not survive it or a stop, is prompted again
\* only for what a user wrote, and a call returns with the response to itself, also from an
\* agent that answers twice or late (acp.py).
AgentServesItsTask ==
  [](TypeOK /\ NoOrphanAgent /\ StoppedAgentIsDead /\ NoUnaskedPrompt) /\ OwnResponse

\* A run ends when its agent keeps reading and answers every call once (ACP.call, which has no
\* timeout for a prompt, and Runtime.worker).
RunEnds == <>(worker.pc = "over")

\* A stop ends, and with it the agent's process: a task does not stay in stopping
\* (ACP.cancel, Runtime.stop's thread).
StopEnds == cancelled ~> (stopper = "stopped" /\ worker.pc = "over")
=============================================================================
