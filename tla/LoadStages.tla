------------------------------- MODULE LoadStages -------------------------------
(****************************************************************************)
(* How a load plan becomes stages: one iteration of the loop of stages() is *)
(* one action. Rates are whole numbers; which one a random plan draws is    *)
(* left open.                                                               *)
(****************************************************************************)
EXTENDS Naturals, Sequences

CONSTANTS
  Plans,       \* the plans to expand
  MaxStages    \* 1000 in the code

Shape == {"constant", "square", "surge", "random"}
ValidPlan == [shape : Shape, duration : Nat \ {0}, interval : Nat \ {0}, rate : Nat, low : Nat,
              high : Nat, surge_start : Nat, surge_duration : Nat \ {0}]

ASSUME PlansAssumption == Plans \subseteq ValidPlan /\ MaxStages \in Nat

VARIABLES plan, elapsed, result, outcome

stagesVars == <<plan, elapsed, result, outcome>>

StagesTypeOK ==
  /\ plan \in Plans /\ elapsed \in Nat
  /\ result \in Seq([duration : Nat, rate : Nat, offset : Nat])
  /\ outcome \in {"new", "expanding", "done", "refused"}

StagesInit == plan \in Plans /\ elapsed = 0 /\ result = <<>> /\ outcome = "new"

\* What is refused before the first stage.
BeginPlan ==
  /\ outcome = "new" /\ outcome' = (IF plan.high < plan.low THEN "refused" ELSE "expanding")
  /\ UNCHANGED <<plan, elapsed, result>>

Least(a, b) == IF a < b THEN a ELSE b

SurgeEnd == plan.surge_start + plan.surge_duration
Surging  == plan.surge_start <= elapsed /\ elapsed < SurgeEnd
\* The next change of the rate, if there is one left.
Boundary == IF elapsed < plan.surge_start THEN plan.surge_start ELSE SurgeEnd

\* Mutant: a stage is not cut at the boundaries of the surge.
LengthUncut == Least(plan.interval, plan.duration - elapsed)

Length ==
  LET length == Least(plan.interval, plan.duration - elapsed) IN
  IF plan.shape = "surge" /\ elapsed < Boundary THEN Least(length, Boundary - elapsed) ELSE length

Rates ==
  CASE plan.shape = "constant" -> {plan.rate}
    [] plan.shape = "square"   -> {IF Len(result) % 2 = 1 THEN plan.high ELSE plan.low}
    [] plan.shape = "random"   -> plan.low..plan.high
    [] plan.shape = "surge"    -> {IF Surging THEN plan.high ELSE plan.low}

Expand ==
  /\ outcome = "expanding" /\ elapsed < plan.duration
  /\ \E rate \in Rates :
       result' = Append(result, [duration |-> Length, rate |-> rate, offset |-> elapsed])
  /\ elapsed' = elapsed + Length
  /\ outcome' = (IF Len(result) + 1 > MaxStages THEN "refused" ELSE outcome)
  /\ UNCHANGED plan

Return ==
  /\ outcome = "expanding" /\ elapsed >= plan.duration /\ outcome' = "done"
  /\ UNCHANGED <<plan, elapsed, result>>

StagesNext == BeginPlan \/ Expand \/ Return

StagesSpec == StagesInit /\ [][StagesNext]_stagesVars

-----------------------------------------------------------------------------
End(stage) == stage.offset + stage.duration

\* The stages follow each other without gap or overlap from the start of the plan, none is
\* empty or longer than the interval, and together they are as long as what has elapsed
\* (stages, offset and elapsed).
Tiles ==
  /\ \A i \in 1..Len(result) :
       /\ 0 < result[i].duration /\ result[i].duration <= plan.interval
       /\ result[i].offset = (IF i = 1 THEN 0 ELSE End(result[i - 1]))
  /\ elapsed = (IF result = <<>> THEN 0 ELSE End(result[Len(result)]))

\* A plan that is returned is exactly as long as it says and has at most MaxStages stages.
CoversDuration == outcome = "done" => elapsed = plan.duration /\ Len(result) <= MaxStages

\* A surge begins and ends when the plan says: no stage spans a boundary, and the rate is the
\* high one in the surge and the low one out of it (stages, the cut at boundary).
SurgeIsSharp ==
  plan.shape = "surge" =>
    \A i \in 1..Len(result) :
      \/ /\ plan.surge_start <= result[i].offset /\ End(result[i]) <= SurgeEnd
         /\ result[i].rate = plan.high
      \/ /\ End(result[i]) <= plan.surge_start \/ SurgeEnd <= result[i].offset
         /\ result[i].rate = plan.low

\* Every list of stages returned is the plan that was asked for (stages).
StagesFollowPlan == StagesTypeOK /\ Tiles /\ CoversDuration /\ SurgeIsSharp
=============================================================================
