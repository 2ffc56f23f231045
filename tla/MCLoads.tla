-------------------------------- MODULE MCLoads --------------------------------
(****************************************************************************)
(* One run over the modules of a load, which share no state: the first      *)
(* state chooses the part that moves, and the others stay as they are.      *)
(****************************************************************************)
EXTENDS LoadCustody, LoadStages, Workload

CONSTANT Parts  \* of "custody", "stages", "load", "killed", "external"

VARIABLE part

allVars == <<part, custodyVars, stagesVars, vars>>

\* The load of the constants may be killed. One that keeps its runner may lose calls or its
\* platform, and one controls an external tool, whose commands may fail.
Kept == INSTANCE Workload WITH Faults <- {"drop", "crash"}
Controlled == INSTANCE Workload
  WITH Stages <- 1, External <- TRUE, Faults <- {"drop", "crash", "control"}

\* Plans of up to 7 time units, of every shape, with a surge that begins before the end, at it
\* or after it.
MCPlans ==
  [shape : Shape, duration : 1..7, interval : 1..3, rate : {2}, low : 0..1, high : 0..2,
   surge_start : {0, 2, 3, 8}, surge_duration : {1, 3, 9}]
SomePlan == CHOOSE p \in MCPlans : TRUE

MCInit ==
  /\ part \in Parts /\ CustodyInit /\ Init
  /\ StagesInit /\ (part = "stages" \/ plan = SomePlan)

MCNext ==
  \/ part = "custody"  /\ CustodyNext     /\ UNCHANGED <<part, stagesVars, vars>>
  \/ part = "stages"   /\ StagesNext      /\ UNCHANGED <<part, custodyVars, vars>>
  \/ part = "load"     /\ Kept!Next       /\ UNCHANGED <<part, custodyVars, stagesVars>>
  \/ part = "killed"   /\ Next            /\ UNCHANGED <<part, custodyVars, stagesVars>>
  \/ part = "external" /\ Controlled!Next /\ UNCHANGED <<part, custodyVars, stagesVars>>

\* The fairness of Workload (see there), for the load that keeps its runner.
MCSpec ==
  /\ MCInit /\ [][MCNext]_allVars
  /\ WF_allVars(part = "load" /\ Kept!RunnerStep /\ UNCHANGED <<part, custodyVars, stagesVars>>)
  /\ WF_allVars(part = "load" /\ Kept!OpStep /\ UNCHANGED <<part, custodyVars, stagesVars>>)
  /\ WF_allVars(part = "load" /\ Kept!Lose /\ ~placed
                  /\ UNCHANGED <<part, custodyVars, stagesVars>>)
  /\ WF_allVars(part = "load" /\ Kept!Monitor /\ UNCHANGED <<part, custodyVars, stagesVars>>)

\* A load whose runner has left evidence settles, whatever calls are lost and however often
\* the platform dies, and a stop that reached the runner ends it (monitor, load_runner.run).
LoadSettles ==
  part = "load" => Kept!StartedLoadSettles /\ Kept!SignalledRunnerEnds
=============================================================================
