------------------------------- MODULE MCBackends -------------------------------
(****************************************************************************)
(* One run over the three back ends of a task, which share no state: the    *)
(* first state chooses the back end that runs, and the others stay as they  *)
(* are.                                                                     *)
(****************************************************************************)
EXTENDS AcpClient, OpenAIBackend, SimulatedRun

CONSTANT Parts  \* of "agent", "served", "model", "simulated", "early"

VARIABLE part

allVars == <<part, vars, modelVars, simVars>>

\* An agent that keeps reading and answers every call once, before its timeout.
Served == INSTANCE AcpClient
  WITH Messages <- 1, Tells <- 1, Twice <- FALSE, Slow <- FALSE
\* A user who writes at any time, also before there is a preview.
Anytime == INSTANCE SimulatedRun WITH Early <- TRUE

MCInit ==
  /\ part \in Parts /\ Init /\ ModelInit /\ SimInit
  /\ part \in {"simulated", "early"} \/ confirm

MCNext ==
  \/ part = "agent"       /\ Next             /\ UNCHANGED <<part, modelVars, simVars>>
  \/ part = "served"      /\ Served!Next      /\ UNCHANGED <<part, modelVars, simVars>>
  \/ part = "model"       /\ ModelNext        /\ UNCHANGED <<part, vars, simVars>>
  \/ part = "simulated"   /\ SimNext          /\ UNCHANGED <<part, vars, modelVars>>
  \/ part = "early"       /\ Anytime!SimNext  /\ UNCHANGED <<part, vars, modelVars>>

\* The fairness of AcpClient, with an agent that serves, of OpenAIBackend and of SimulatedRun.
OfServed(A) == part = "served" /\ A /\ UNCHANGED <<part, modelVars, simVars>>
OfSimulated(A) == part = "simulated" /\ A /\ UNCHANGED <<part, vars, modelVars>>
MCSpec ==
  /\ MCInit /\ [][MCNext]_allVars
  /\ WF_allVars(OfServed(Served!WorkerStep))  /\ SF_allVars(OfServed(Served!WorkerLocks))
  /\ WF_allVars(OfServed(Served!ReaderStep))  /\ SF_allVars(OfServed(Served!ReaderLocks))
  /\ WF_allVars(OfServed(Served!StopperStep)) /\ SF_allVars(OfServed(Served!StopperLocks))
  /\ WF_allVars(OfServed(Served!AgentReads))  /\ WF_allVars(OfServed(Served!AgentAnswers))
  /\ WF_allVars(part = "model" /\ Worker /\ UNCHANGED <<part, vars, simVars>>)
  /\ WF_allVars(OfSimulated(Claim)) /\ WF_allVars(OfSimulated(SimulatorStep))
  /\ WF_allVars(OfSimulated(ApprovePreview)) /\ WF_allVars(OfSimulated(Approve))
  /\ WF_allVars(OfSimulated(StopSimulation))
  /\ WF_allVars(OfSimulated(StopSignal))

\* Every run ends: of an agent that serves, once it is stopped or by itself; of a model, once
\* it is stopped; of a simulation, if its user answers; and what the user writes is read
\* (Runtime.worker, ACP.cancel, OpenAIBackend.cancel).
RunsEnd ==
  /\ part = "served" => Served!RunEnds /\ Served!StopEnds
  /\ part = "model" => StopEndsRun
  /\ part = "simulated" => TaskEnds /\ MessageIsRead
=============================================================================
