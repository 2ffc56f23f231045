------------------------------ MODULE Loads_proofs ------------------------------
(****************************************************************************)
(* Proofs about the device of a load (LoadCustody), for every set of tasks  *)
(* and number of recoveries; about the stages of its plan (LoadStages), for *)
(* plans of whatever length: they tile the plan and put a surge exactly     *)
(* where it says; and about the load on the device (Workload), for any      *)
(* number of stages, output and faults: it implements LoadLedger, and the   *)
(* log of a load that is over is complete.                                  *)
(****************************************************************************)
EXTENDS LoadCustody, LoadStages, Workload, TLAPS

-----------------------------------------------------------------------------
(* The device. Inv says where the row of a live load may be: it is open, or  *)
(* it went with its task, which then neither holds nor ever again asks for   *)
(* the device.                                                               *)

LiveIsOpen ==
  \A t \in Task : phase[t] = "live" => rows[t] = "open" \/ (status[t] = "deleted" /\ owner # t)

Inv == CustodyTypeOK /\ LiveIsOpen

\* Every step keeps the types of the tasks, the reservation and the loads.
LEMMA TypeInvariant == CustodyTypeOK /\ [CustodyNext]_custodyVars => CustodyTypeOK'
<1> SUFFICES ASSUME CustodyTypeOK, [CustodyNext]_custodyVars PROVE CustodyTypeOK'
  OBVIOUS
<1> USE NoneAssumption DEF CustodyTypeOK, taskLoadVars, SetStatus, GiveBack, NoOpenLoad, Ended
<1>1. CASE Restart
  BY <1>1 DEF Restart
<1>2. ASSUME NEW t \in Task, Create(t) \/ Claim(t) \/ Finish(t) \/ Fail(t)  PROVE CustodyTypeOK'
  BY <1>2 DEF Create, Claim, Finish, Fail
<1>3. ASSUME NEW t \in Task, Leave(t) \/ Release(t) \/ Delete(t)  PROVE CustodyTypeOK'
  BY <1>3 DEF Leave, Release, Delete
<1>4. ASSUME NEW t \in Task, Recover(t)  PROVE CustodyTypeOK'
  BY <1>4 DEF Recover
<1>5. ASSUME NEW t \in Task, StoreLoad(t) \/ LaunchLoad(t) \/ LoadEnds(t)  PROVE CustodyTypeOK'
  BY <1>5 DEF StoreLoad, LaunchLoad, LoadEnds
<1>6. ASSUME NEW t \in Task, RefreshRow(t)  PROVE CustodyTypeOK'
  BY <1>6 DEF RefreshRow
<1>7. CASE UNCHANGED custodyVars
  BY <1>7 DEF custodyVars
<1> QED
  BY <1>1, <1>2, <1>3, <1>4, <1>5, <1>6, <1>7 DEF CustodyNext

\* Every step keeps the row of a live load open, or its task deleted.
LEMMA OpenInvariant == Inv /\ [CustodyNext]_custodyVars => LiveIsOpen'
<1> SUFFICES ASSUME Inv, [CustodyNext]_custodyVars PROVE LiveIsOpen'
  OBVIOUS
<1> USE NoneAssumption DEF Inv, CustodyTypeOK, LiveIsOpen, taskLoadVars, SetStatus, GiveBack, NoOpenLoad, Ended
<1>1. CASE Restart
  BY <1>1 DEF Restart
<1>2. ASSUME NEW t \in Task, Create(t) \/ Claim(t) \/ Finish(t) \/ Fail(t)  PROVE LiveIsOpen'
  BY <1>2 DEF Create, Claim, Finish, Fail
<1>3. ASSUME NEW t \in Task, Leave(t) \/ Release(t)  PROVE LiveIsOpen'
  BY <1>3 DEF Leave, Release
<1>4. ASSUME NEW t \in Task, Recover(t)  PROVE LiveIsOpen'
  BY <1>4 DEF Recover
\* The task that goes does not hold the device.
<1>5. ASSUME NEW t \in Task, Delete(t)  PROVE LiveIsOpen'
  BY <1>5 DEF Delete
<1>6. ASSUME NEW t \in Task, StoreLoad(t) \/ LaunchLoad(t) \/ LoadEnds(t)  PROVE LiveIsOpen'
  BY <1>6 DEF StoreLoad, LaunchLoad, LoadEnds
\* A refresh settles only a load that is over.
<1>7. ASSUME NEW t \in Task, RefreshRow(t)  PROVE LiveIsOpen'
  BY <1>7 DEF RefreshRow
<1>8. CASE UNCHANGED custodyVars
  BY <1>8 DEF custodyVars
<1> QED
  BY <1>1, <1>2, <1>3, <1>4, <1>5, <1>6, <1>7, <1>8 DEF CustodyNext

\* A step that gives the device back is a finish or a release, and both ask for the rows
\* of the task's own loads.
LEMMA GiveBackStep ==
  ASSUME Inv, [CustodyNext]_custodyVars
  PROVE  \A t \in Task : (owner = t /\ owner' = None) => phase[t] # "live"
<1> SUFFICES ASSUME NEW t \in Task, owner = t, owner' = None  PROVE phase[t] # "live"
  OBVIOUS
<1> USE NoneAssumption DEF taskLoadVars, GiveBack, NoOpenLoad
<1>1. ASSUME NEW u \in Task, Finish(u) \/ Release(u)  PROVE phase[t] # "live"
  <2>1. u = t /\ rows[t] # "open"
    BY <1>1 DEF Finish, Release
  <2> QED
    BY <2>1 DEF Inv, LiveIsOpen
<1>2. ASSUME NEW u \in Task, Claim(u) \/ Recover(u)  PROVE FALSE
  BY <1>2 DEF Claim, Recover
<1>3. ASSUME NEW u \in Task,
             Create(u) \/ Fail(u) \/ Leave(u) \/ Delete(u) \/ StoreLoad(u) \/ LaunchLoad(u)
               \/ LoadEnds(u) \/ RefreshRow(u)
      PROVE  FALSE
  BY <1>3 DEF Create, Fail, Leave, Delete, StoreLoad, LaunchLoad, LoadEnds, RefreshRow
<1>4. ~Restart /\ ~UNCHANGED custodyVars
  BY DEF Restart, custodyVars
<1> QED
  BY <1>1, <1>2, <1>3, <1>4 DEF CustodyNext

\* Initially no load lives, so none is without an open row.
LEMMA InitInv == CustodyInit => Inv
  BY NoneAssumption DEF CustodyInit, Inv, CustodyTypeOK, LiveIsOpen

\* The types hold in every state: Core's task states, one holder of the device at most.
THEOREM TypeCorrect == CustodySpec => []CustodyTypeOK
<1>1. Inv /\ [CustodyNext]_custodyVars => Inv'
  BY TypeInvariant, OpenInvariant DEF Inv
<1>2. Inv => CustodyTypeOK
  BY DEF Inv
<1> QED
  BY InitInv, <1>1, <1>2, PTL DEF CustodySpec

\* However tasks, recoveries, deletions and restarts interleave, finish and release_scene
\* never give a device back while the load of the task that holds it runs.
THEOREM DeviceOutlivesLoad == CustodySpec => GivesBackAfterLoad
<1>1. Inv /\ [CustodyNext]_custodyVars => Inv'
  BY TypeInvariant, OpenInvariant DEF Inv
<1>2. Inv /\ [CustodyNext]_custodyVars
        => [\A t \in Task : (owner = t /\ owner' = None) => phase[t] # "live"]_custodyVars
  BY GiveBackStep
<1> QED
  BY InitInv, <1>1, <1>2, PTL DEF CustodySpec, GivesBackAfterLoad

-----------------------------------------------------------------------------
(* A task that has a worker holds the device, or is over and has no load to   *)
(* launch; a recovery is created with its parent and never changes it.        *)

WorkerHolds ==
  \A t \in running : \/ owner = t
                     \/ status[t] \in {"succeeded", "deleted"} /\ (phase[t] = "new" => rows[t] = "none")
SettledIsOver == \A t \in Task : rows[t] = "settled" => phase[t] = "over"
ChildrenExist == \A c \in Task : parent[c] # None => status[c] # "none"
HoldInv == Inv /\ WorkerHolds /\ SettledIsOver /\ ChildrenExist /\ LiveLoadKeepsDevice

\* Initially no worker, load or child asks for anything.
LEMMA InitHold == CustodyInit => HoldInv
  BY InitInv, NoneAssumption
     DEF CustodyInit, HoldInv, WorkerHolds, SettledIsOver, ChildrenExist, LiveLoadKeepsDevice

\* Only a recovery creates a child, and no step takes a parent from one.
LEMMA ParentsStay ==
  ASSUME HoldInv, [CustodyNext]_custodyVars
  PROVE  ChildrenExist' /\ \A c \in Task : parent[c] # None => parent'[c] = parent[c]
<1> USE NoneAssumption DEF HoldInv, Inv, CustodyTypeOK, ChildrenExist, taskLoadVars, SetStatus, Ended
<1>1. ASSUME NEW t \in Task, Recover(t)
      PROVE  ChildrenExist' /\ \A c \in Task : parent[c] # None => parent'[c] = parent[c]
  BY <1>1 DEF Recover
<1>2. CASE ~\E t \in Task : Recover(t)
  <2>1. UNCHANGED parent
    BY <1>2 DEF CustodyNext, custodyVars, Restart, Create, Claim, Finish, Fail, Leave, Release, Delete,
                StoreLoad, LaunchLoad, LoadEnds, RefreshRow
  <2>2. \A c \in Task : status[c] # "none" => status'[c] # "none"
    BY <1>2 DEF CustodyNext, custodyVars, Restart, Create, Claim, Finish, Fail, Leave, Release, Delete,
                StoreLoad, LaunchLoad, LoadEnds, RefreshRow
  <2> QED
    BY <2>1, <2>2
<1> QED
  BY <1>1, <1>2

\* Every step keeps the device with the task of a live load, or gives it to its recovery.
LEMMA HoldInvariant ==
  ASSUME HoldInv, [CustodyNext]_custodyVars
  PROVE  HoldInv'
<1>1. Inv'
  BY TypeInvariant, OpenInvariant DEF HoldInv, Inv
<1>2. ChildrenExist' /\ \A c \in Task : parent[c] # None => parent'[c] = parent[c]
  BY ParentsStay
<1> USE NoneAssumption DEF HoldInv, Inv, CustodyTypeOK, LiveIsOpen, taskLoadVars, SetStatus, GiveBack,
                           NoOpenLoad, Ended
<1>3. SettledIsOver'
  BY DEF SettledIsOver, CustodyNext, custodyVars, Restart, Create, Claim, Finish, Fail, Leave,
         Release, Recover, Delete, StoreLoad, LaunchLoad, LoadEnds, RefreshRow
<1>4. LiveLoadKeepsDevice'
  <2> USE DEF LiveLoadKeepsDevice, WorkerHolds, SettledIsOver
  <2>1. ASSUME NEW t \in Task, Claim(t) \/ Finish(t) \/ Release(t)  PROVE LiveLoadKeepsDevice'
    BY <1>2, <2>1 DEF Claim, Finish, Release
  <2>2. ASSUME NEW t \in Task, LaunchLoad(t)  PROVE LiveLoadKeepsDevice'
    BY <1>2, <2>2 DEF LaunchLoad
  <2>3. CASE UNCHANGED <<phase, owner, parent>>
    BY <2>3
  <2>4. ASSUME NEW t \in Task, LoadEnds(t)  PROVE LiveLoadKeepsDevice'
    BY <1>2, <2>4 DEF LoadEnds
  <2>5. ASSUME NEW t \in Task, Recover(t)  PROVE LiveLoadKeepsDevice'
    <3> SUFFICES ASSUME NEW u \in Task, phase'[u] = "live"
                 PROVE  owner' = u \/ \E c \in Task : parent'[c] = u
      OBVIOUS
    <3>1. phase[u] = "live" /\ owner \in {None, t}
      BY <2>5 DEF Recover
    <3>2. u = t \/ \E c \in Task : parent[c] = u
      BY <3>1
    <3>3. \E c \in Task : parent'[c] = t
      BY <2>5 DEF Recover
    <3> QED
      BY <1>2, <3>2, <3>3
  <2> QED
    BY <2>1, <2>2, <2>3, <2>4, <2>5
       DEF CustodyNext, custodyVars, Restart, Create, Fail, Leave, Delete, StoreLoad, RefreshRow
<1>5. WorkerHolds'
  <2> USE DEF WorkerHolds, SettledIsOver
  <2>1. ASSUME NEW t \in Task, Create(t) \/ Claim(t) \/ Fail(t) \/ Leave(t)  PROVE WorkerHolds'
    BY <2>1 DEF Create, Claim, Fail, Leave
  <2>2. ASSUME NEW t \in Task, Finish(t) \/ Release(t) \/ Delete(t)  PROVE WorkerHolds'
    BY <2>2 DEF Finish, Release, Delete
  <2>3. ASSUME NEW t \in Task, StoreLoad(t) \/ LaunchLoad(t) \/ LoadEnds(t) \/ RefreshRow(t)
        PROVE  WorkerHolds'
    BY <2>3 DEF StoreLoad, LaunchLoad, LoadEnds, RefreshRow
  <2>4. CASE Restart
    BY <2>4 DEF Restart
  <2>5. CASE UNCHANGED custodyVars
    BY <2>5 DEF custodyVars
  <2>6. ASSUME NEW t \in Task, Recover(t)  PROVE WorkerHolds'
    BY <2>6 DEF Recover
  <2> QED
    BY <2>1, <2>2, <2>3, <2>4, <2>5, <2>6 DEF CustodyNext
<1> QED
  BY <1>1, <1>2, <1>3, <1>4, <1>5

\* A task keeps its device for as long as its load runs, unless a recovery takes it over.
THEOREM LoadKeepsDevice == CustodySpec => []LiveLoadKeepsDevice
<1>1. HoldInv /\ [CustodyNext]_custodyVars => HoldInv'
  BY HoldInvariant
<1>2. HoldInv => LiveLoadKeepsDevice
  BY DEF HoldInv
<1> QED
  BY InitHold, <1>1, <1>2, PTL DEF CustodySpec

-----------------------------------------------------------------------------
(* The stages.                                                               *)

\* What the loop keeps: the properties, that it never runs past the end of the plan, and the
\* number of stages while it goes on.
LoopInv ==
  /\ StagesTypeOK
  /\ Tiles
  /\ SurgeIsSharp
  /\ elapsed <= plan.duration
  /\ outcome \in {"expanding", "done"} => Len(result) <= MaxStages
  /\ outcome = "new" => result = <<>>
  /\ outcome = "done" => elapsed = plan.duration

\* The next stage is not empty, no longer than the interval or the rest of the plan.
LEMMA LengthBounds ==
  ASSUME plan \in Plans, elapsed \in Nat, elapsed < plan.duration
  PROVE  /\ Length \in Nat /\ 0 < Length
         /\ Length <= plan.interval /\ elapsed + Length <= plan.duration
  <1>1. plan \in ValidPlan
    BY PlansAssumption
  <1>2. /\ plan.interval \in Nat \ {0} /\ plan.duration \in Nat \ {0}
        /\ plan.surge_start \in Nat /\ plan.surge_duration \in Nat \ {0}
    BY <1>1 DEF ValidPlan
  <1>3. QED
    BY <1>2 DEF Length, Least, Boundary, SurgeEnd

\* A rate of the plan, and the one of the surge or of the time outside it.
LEMMA RatesOfPlan ==
  ASSUME plan \in Plans, NEW rate \in Rates
  PROVE  /\ rate \in Nat
         /\ plan.shape = "surge" => rate = (IF Surging THEN plan.high ELSE plan.low)
  <1>1. /\ plan.shape \in Shape /\ plan.rate \in Nat /\ plan.low \in Nat /\ plan.high \in Nat
    BY PlansAssumption DEF ValidPlan
  <1>2. CASE plan.shape = "constant"
    BY <1>1, <1>2 DEF Rates
  <1>3. CASE plan.shape = "square"
    BY <1>1, <1>3 DEF Rates
  <1>4. CASE plan.shape = "random"
    BY <1>1, <1>4 DEF Rates
  <1>5. CASE plan.shape = "surge"
    BY <1>1, <1>5 DEF Rates
  <1>6. QED
    BY <1>1, <1>2, <1>3, <1>4, <1>5 DEF Shape

\* A stage of a surge ends at its boundaries.
LEMMA StageAtBoundary ==
  ASSUME plan \in Plans, elapsed \in Nat, elapsed < plan.duration, plan.shape = "surge"
  PROVE  IF Surging THEN plan.surge_start <= elapsed /\ elapsed + Length <= SurgeEnd
                    ELSE elapsed + Length <= plan.surge_start \/ SurgeEnd <= elapsed
  <1>1. /\ plan.interval \in Nat \ {0} /\ plan.duration \in Nat \ {0}
        /\ plan.surge_start \in Nat /\ plan.surge_duration \in Nat \ {0}
    BY PlansAssumption DEF ValidPlan
  <1>2. QED
    BY <1>1 DEF Length, Least, Boundary, SurgeEnd, Surging

\* One more stage keeps what the loop keeps.
LEMMA ExpandKeeps == LoopInv /\ Expand => LoopInv'
  <1> SUFFICES ASSUME LoopInv, Expand PROVE LoopInv'
    OBVIOUS
  <1> USE DEF LoopInv
  <1>0. plan \in Plans /\ elapsed \in Nat /\ elapsed < plan.duration /\ plan' = plan
    BY DEF StagesTypeOK, Expand
  <1>1. PICK rate \in Rates :
          result' = Append(result, [duration |-> Length, rate |-> rate, offset |-> elapsed])
    BY DEF Expand
  <1>2. /\ Length \in Nat /\ 0 < Length
        /\ Length <= plan.interval /\ elapsed + Length <= plan.duration
    BY <1>0, LengthBounds
  <1>3. /\ rate \in Nat
        /\ plan.shape = "surge" => rate = (IF Surging THEN plan.high ELSE plan.low)
    BY <1>0, RatesOfPlan
  <1>4. elapsed' = elapsed + Length
    BY DEF Expand
  <1> DEFINE next == [duration |-> Length, rate |-> rate, offset |-> elapsed]
  <1>5. result \in Seq([duration : Nat, rate : Nat, offset : Nat])
    BY DEF StagesTypeOK
  <1>6. next \in [duration : Nat, rate : Nat, offset : Nat]
    BY <1>0, <1>2, <1>3
  <1>7. /\ Len(result') = Len(result) + 1 /\ Len(result) \in Nat
        /\ result'[Len(result) + 1] = next
        /\ \A i \in 1..Len(result) : result'[i] = result[i]
    BY <1>1, <1>5, <1>6
  <1>8. StagesTypeOK'
    <2>1. result' \in Seq([duration : Nat, rate : Nat, offset : Nat])
      BY <1>1, <1>5, <1>6
    <2>2. outcome' \in {"new", "expanding", "done", "refused"}
      BY DEF Expand, StagesTypeOK
    <2>3. QED
      BY <1>0, <1>2, <1>4, <2>1, <2>2 DEF StagesTypeOK
  <1>9. Tiles'
    <2>1. ASSUME NEW i \in 1..Len(result')
          PROVE  /\ 0 < result'[i].duration /\ result'[i].duration <= plan.interval
                 /\ result'[i].offset = (IF i = 1 THEN 0 ELSE End(result'[i - 1]))
      <3>1. CASE i \in 1..Len(result)
        <4>1. i # 1 => i - 1 \in 1..Len(result)
          BY <1>7, <3>1
        <4>2. QED
          BY <1>7, <3>1, <4>1 DEF Tiles
      <3>2. CASE i = Len(result) + 1
        <4>1. result'[i].duration = Length /\ result'[i].offset = elapsed
          BY <1>7, <3>2
        <4>2. CASE Len(result) = 0
          <5>1. result = <<>>
            BY <1>5, <4>2
          <5>2. elapsed = 0
            BY <5>1 DEF Tiles
          <5>3. QED
            BY <1>2, <3>2, <4>1, <4>2, <5>2
        <4>3. CASE Len(result) # 0
          <5>1. Len(result) \in 1..Len(result) /\ i # 1 /\ i - 1 = Len(result) /\ result # <<>>
            BY <1>5, <1>7, <3>2, <4>3
          <5>2. result'[i - 1] = result[Len(result)]
            BY <1>7, <5>1
          <5>3. elapsed = End(result[Len(result)])
            BY <5>1 DEF Tiles
          <5>4. QED
            BY <1>2, <4>1, <5>1, <5>2, <5>3 DEF End
        <4>4. QED
          BY <4>2, <4>3
      <3>3. QED
        BY <1>7, <3>1, <3>2
    <2>2. elapsed' = (IF result' = <<>> THEN 0 ELSE End(result'[Len(result')]))
      <3>1. result' # <<>>
        BY <1>7
      <3>2. End(next) = elapsed + Length
        BY DEF End
      <3>3. QED
        BY <1>4, <1>7, <3>1, <3>2
    <2>3. QED
      BY <1>0, <2>1, <2>2 DEF Tiles, End
  <1>10. SurgeIsSharp'
    <2> SUFFICES ASSUME plan.shape = "surge", NEW i \in 1..Len(result')
                 PROVE  \/ /\ plan.surge_start <= result'[i].offset /\ End(result'[i]) <= SurgeEnd
                           /\ result'[i].rate = plan.high
                        \/ /\ End(result'[i]) <= plan.surge_start \/ SurgeEnd <= result'[i].offset
                           /\ result'[i].rate = plan.low
      BY <1>0 DEF SurgeIsSharp, SurgeEnd, End
    <2>1. CASE i \in 1..Len(result)
      BY <1>7, <2>1 DEF SurgeIsSharp
    <2>2. CASE i = Len(result) + 1
      <3>1. result'[i] = next
        BY <1>7, <2>2
      <3>2. End(next) = elapsed + Length /\ next.offset = elapsed /\ next.rate = rate
        BY DEF End
      <3>3. IF Surging THEN plan.surge_start <= elapsed /\ elapsed + Length <= SurgeEnd
                       ELSE elapsed + Length <= plan.surge_start \/ SurgeEnd <= elapsed
        BY <1>0, StageAtBoundary
      <3>4. QED
        BY <1>3, <3>1, <3>2, <3>3
    <2>3. QED
      BY <1>7, <2>1, <2>2
  <1>11. outcome' \in {"expanding", "refused"}
         /\ (outcome' = "expanding" => Len(result) + 1 <= MaxStages)
    BY <1>7, PlansAssumption DEF Expand
  <1>12. elapsed' <= plan'.duration
    BY <1>0, <1>2, <1>4
  <1>13. QED
    BY <1>0, <1>7, <1>8, <1>9, <1>10, <1>11, <1>12

\* What the loop keeps holds from the beginning and in every step.
THEOREM LoopInvariant == StagesSpec => []LoopInv
  <1>1. StagesInit => LoopInv
    <2> SUFFICES ASSUME StagesInit PROVE LoopInv
      OBVIOUS
    <2>1. plan.duration \in Nat
      BY PlansAssumption DEF StagesInit, ValidPlan
    <2>2. Len(result) = 0 /\ result \in Seq([duration : Nat, rate : Nat, offset : Nat])
      BY DEF StagesInit
    <2>3. QED
      BY <2>1, <2>2 DEF StagesInit, LoopInv, StagesTypeOK, Tiles, SurgeIsSharp
  <1>2. LoopInv /\ [StagesNext]_stagesVars => LoopInv'
    <2> SUFFICES ASSUME LoopInv, [StagesNext]_stagesVars PROVE LoopInv'
      OBVIOUS
    <2>1. CASE BeginPlan
      <3>1. Len(result) = 0 /\ UNCHANGED <<plan, elapsed, result>>
        BY <2>1 DEF BeginPlan, LoopInv
      <3>2. outcome' \in {"refused", "expanding"}
        BY <2>1 DEF BeginPlan
      <3>3. QED
        BY <3>1, <3>2, PlansAssumption DEF LoopInv, StagesTypeOK, Tiles, SurgeIsSharp, SurgeEnd, End
    <2>2. CASE Expand
      BY <2>2, ExpandKeeps
    <2>3. CASE Return
      <3>1. plan.duration \in Nat /\ elapsed \in Nat
        BY PlansAssumption DEF LoopInv, StagesTypeOK, ValidPlan
      <3>2. elapsed = plan.duration
        BY <2>3, <3>1 DEF Return, LoopInv
      <3>3. QED
        BY <2>3, <3>2 DEF Return, LoopInv, StagesTypeOK, Tiles, SurgeIsSharp, SurgeEnd, End
    <2>4. CASE UNCHANGED stagesVars
      BY <2>4 DEF stagesVars, LoopInv, StagesTypeOK, Tiles, SurgeIsSharp, SurgeEnd, End
    <2>5. QED
      BY <2>1, <2>2, <2>3, <2>4 DEF StagesNext
  <1>3. QED
    BY <1>1, <1>2, PTL DEF StagesSpec

\* The stages of every plan follow each other without gap or overlap, none is longer than the
\* interval, a plan that is returned is as long as it says and has no more stages than allowed,
\* and a surge is exactly where the plan says (stages, load_plans.py).
THEOREM StagesAlwaysFollowPlan == StagesSpec => []StagesFollowPlan
  <1>1. LoopInv => StagesFollowPlan
    BY DEF LoopInv, StagesFollowPlan, CoversDuration
  <1>2. QED
    BY <1>1, LoopInvariant, PTL

-----------------------------------------------------------------------------
(* The load on the device (Workload).                                        *)

\* The loads the theorems are about. A group ends by SIGKILL, and a supervisor that
\* controls an external tool is not killed: without either the code does not keep the
\* ledger (README, where the promises stop).
Scope ==
  /\ Stages \in Nat \ {0} /\ External \in BOOLEAN
  /\ Size \in Nat /\ Chunk \in Nat /\ MaxFaults \in Nat
  /\ "stubborn" \notin Faults /\ ~(External /\ "kill" \in Faults)

-----------------------------------------------------------------------------
(* Types.                                                                    *)

\* Min chooses the smaller of two numbers.
LEMMA MinOfTwo ==
  ASSUME NEW m \in Nat, NEW n \in Nat
  PROVE  Min({m, n}) \in {m, n} /\ Min({m, n}) <= m /\ Min({m, n}) <= n
<1>1. \E x \in {m, n} : \A y \in {m, n} : x =< y
  <2>1. CASE m <= n
    BY <2>1
  <2>2. CASE n <= m
    BY <2>2
  <2> QED BY <2>1, <2>2
<1>2. Min({m, n}) \in {m, n} /\ \A y \in {m, n} : Min({m, n}) =< y
  BY <1>1 DEF Min
<1> QED BY <1>2

\* What a read takes from the output: it starts where the local log ends, does not pass
\* the end of the output, and leaves half a line only when the writers are gone.
LEMMA JudgeReads ==
  ASSUME Scope, TypeOK, row.offset <= size, op.seen.state # "absent", Judge
  PROVE  LET answer == op'.answer IN
         /\ op'.pc = "store" /\ op'.action = op.action /\ op'.seen = op.seen
         /\ answer \in Answer
         /\ answer.confirmed => /\ ~Alive /\ op.seen.state \in Terminal
         /\ answer.read =>
              /\ row.offset <= answer.upto /\ answer.upto <= size
              /\ answer.confirmed /\ ~answer.more => answer.upto = size
              /\ answer.upto % 2 = 1 => answer.confirmed \/ answer.upto = row.offset
<1> USE DEF Scope
<1> DEFINE end == Min({row.offset + Chunk, size})
           state == IF op.seen.state = "running" /\ ~Alive THEN "unknown" ELSE op.seen.state
           confirmed == Gone(op.seen) /\ state \in Terminal
           upto == IF confirmed THEN end ELSE Whole(end)
           reading == op.action = "read"
           answer == [state |-> state, confirmed |-> confirmed, read |-> reading,
                      upto |-> IF reading THEN upto ELSE 0, more |-> reading /\ upto < size]
<1>1. row.offset \in Nat /\ size \in Nat /\ size <= Size /\ op.seen \in Status
  BY DEF TypeOK
<1>2. end \in Nat /\ row.offset <= end /\ end <= size
  BY <1>1, MinOfTwo
<1> HIDE DEF end
<1>3. Whole(end) \in Nat /\ row.offset <= Whole(end) /\ Whole(end) <= size
  BY <1>1, <1>2 DEF Whole
<1>4. Whole(end) % 2 = 1 => Whole(end) = row.offset
  BY <1>1, <1>2 DEF Whole
<1>5. op' = [op EXCEPT !.pc = "store", !.answer = answer]
  BY DEF Judge, end
<1>6. state \in State /\ confirmed \in BOOLEAN /\ reading \in BOOLEAN
  BY <1>1 DEF Status, State, Terminal, Gone
<1>7. upto \in 0..Size
  BY <1>1, <1>2, <1>3
<1>8. confirmed => ~Alive /\ op.seen.state \in Terminal
  BY DEF Gone, Terminal
<1>9. /\ row.offset <= upto /\ upto <= size
      /\ confirmed /\ ~(upto < size) => upto = size
      /\ upto % 2 = 1 => confirmed \/ upto = row.offset
  BY <1>1, <1>2, <1>3, <1>4
<1> HIDE DEF state, confirmed, upto, reading
<1>10. answer \in Answer
  BY <1>6, <1>7 DEF Answer
<1>11. /\ answer.confirmed = confirmed /\ answer.read = reading
       /\ reading => answer.upto = upto /\ answer.more = (upto < size)
  BY <1>6
<1> HIDE DEF answer
<1>12. op' = [[op EXCEPT !.pc = "store"] EXCEPT !.answer = answer]
  BY <1>5
<1>13. op'.pc = "store" /\ op'.action = op.action /\ op'.seen = op.seen /\ op'.answer = answer
  BY <1>12 DEF TypeOK
<1> QED BY <1>8, <1>9, <1>10, <1>11, <1>13
-----------------------------------------------------------------------------
(* The inductive invariant.                                                  *)

Over == runner = "dead" /\ group = "none"

\* The group is gone and no other stage begins.
NoMoreStages == group = "none" /\ (stopping \/ runner = "dead")

\* A load that has not begun has left nothing; a supervisor at work has a state file.
BeginsClean ==
  /\ runner \in {"absent", "launched"} =>
       /\ memory = NoStatus /\ file = NoStatus /\ group = "none" /\ ~stopping
       /\ size = 0 /\ stage = 0
  /\ runner \notin {"absent", "launched", "dead"} => memory.state # "absent" /\ file.state # "absent"
  /\ file.state = "absent" => file = NoStatus

\* The supervisor is launched by the start only, which is made once.
LaunchesOnce ==
  /\ row.state = "absent" \/ op.pc \in {"row", "directory", "files"} => runner = "absent"
  /\ row.state = "absent" => op.pc = "idle"

\* The supervisor knows the group it has to stop, and so does the state file, unless the
\* supervisor is killed before it has written it.
KnowsGroup ==
  /\ runner \in {"loop", "external"} => group = "none"
  /\ runner \in {"loop", "spawned", "watch", "external"} => memory.state = "running"
  /\ runner = "watch" => memory.group
  /\ runner = "closing" /\ ~memory.group => group = "none"
  /\ group # "none" /\ ~file.group => runner = "spawned" \/ ("kill" \in Faults /\ runner = "dead")

\* The stage that is running is one of the plan.
RunsAStage == runner \in {"spawned", "watch"} => stage < Stages

\* A stop has told the supervisor, or found it gone, before it touches the group.
StopHolds ==
  /\ op.pc \in {"waiting", "orphans"} => op.action = "stop"
  /\ op.pc \in {"waiting", "reread", "orphans", "judge"} => file.state # "absent"
  /\ op.pc \in {"orphans", "judge"} => op.seen.state # "absent"
  /\ op.pc \in {"waiting", "reread", "orphans"} /\ op.action = "stop" => stopping \/ runner = "dead"
  /\ op.pc = "reread" /\ op.action = "stop" => runner = "dead"
  /\ op.pc = "orphans" /\ External /\ ~op.seen.group => group = "none"

\* A terminal state, wherever it is written or read, means that no stage will follow;
\* confirmed, that nothing is left.
EndIsEnd ==
  /\ file.state \in Terminal => NoMoreStages
  /\ op.pc \in {"orphans", "judge"} /\ op.seen.state \in Terminal => NoMoreStages
  /\ op.pc = "store" /\ op.answer.confirmed => Over
  /\ Settled => Over

\* The local log is the output up to the offset, and a terminal load's offset is its end.
LogInv ==
  /\ row.offset <= size /\ (Settled => row.offset = size)
  /\ op.pc = "store" /\ op.answer.read =>
       /\ row.offset <= op.answer.upto /\ op.answer.upto <= size
       /\ op.answer.confirmed /\ ~op.answer.more => op.answer.upto = size
       /\ op.answer.upto % 2 = 1 => op.answer.confirmed \/ op.answer.upto = row.offset
  /\ row.offset % 2 = 1 => Over
  /\ \A b \in 1..Size : IF b <= row.offset THEN 1 <= copies[b] /\ copies[b] <= 1 + faults
                                           ELSE copies[b] <= faults

RunnerInv == BeginsClean /\ LaunchesOnce /\ KnowsGroup /\ RunsAStage /\ StopHolds /\ EndIsEnd
LoadInv   == TypeOK /\ RunnerInv /\ LogInv
-----------------------------------------------------------------------------
(* The steps of the supervisor.                                              *)

\* A change of the supervisor's state file, its memory or its group: what the
\* invariant asks of the state file, and that nothing comes back.
LEMMA RunnerMoves ==
  ASSUME Scope, TypeOK, RunnerInv, RunnerStep
  PROVE  /\ memory' \in Status /\ file' \in Status
         /\ BeginsClean' /\ KnowsGroup'
         /\ file'.state \in Terminal => NoMoreStages'
         /\ runner \notin {"absent", "dead"} /\ runner' \notin {"absent", "launched"}
         /\ NoMoreStages => NoMoreStages'
         /\ (stopping \/ runner = "dead") /\ group = "none" => group' = "none"
         /\ file.state # "absent" => file'.state # "absent"
         /\ UNCHANGED <<row, copies, op, placed, stopping, size, faults>>
<1> USE DEF Scope, RunnerInv, BeginsClean, KnowsGroup, EndIsEnd, NoMoreStages, Terminal, State, Status,
            NoStatus, Save, platformVars, loadVars, runnerVars
<1>1. memory \in Status /\ file \in Status
  BY DEF TypeOK
<1>2. CASE Begin
  BY <1>1, <1>2 DEF Begin
<1>3. CASE Spawn
  BY <1>1, <1>3 DEF Spawn
<1>4. CASE RecordGroup
  BY <1>1, <1>4 DEF RecordGroup
<1>5. CASE Raise
  BY <1>1, <1>5 DEF Raise, GroupSurvives
<1>6. CASE Reap
  BY <1>1, <1>6 DEF Reap, GroupStops, GroupSurvives
<1>7. CASE LeaveExternal \/ LeaveLoop
  BY <1>1, <1>7 DEF LeaveExternal, LeaveLoop
<1>8. CASE Close
  BY <1>1, <1>8 DEF Close, GroupStops, GroupSurvives
<1> QED BY <1>2, <1>3, <1>4, <1>5, <1>6, <1>7, <1>8 DEF RunnerStep

\* A step of the supervisor keeps the types, and begins stages of the plan only.
LEMMA RunnerTypes ==
  ASSUME Scope, TypeOK, RunnerInv, RunnerStep
  PROVE  TypeOK' /\ RunsAStage'
<1> USE DEF Scope, RunnerInv, RunsAStage, platformVars, loadVars, runnerVars
<1> DEFINE Kept == UNCHANGED <<row, copies, op, placed, stopping, size, faults>>
           Types == /\ runner' \in {"loop", "spawned", "watch", "external", "closing", "dead"}
                    /\ stage' \in 0..Stages /\ RunsAStage'
                    /\ group' \in {"none", "leader", "children"} /\ tool' \in BOOLEAN
<1>1. /\ stage \in 0..Stages /\ tool \in BOOLEAN /\ group \in {"none", "leader", "children"}
  BY DEF TypeOK
<1>2. Types
  <2>1. CASE Begin \/ Spawn \/ RecordGroup
    BY <1>1, <2>1 DEF Begin, Spawn, RecordGroup
  <2>2. CASE Raise \/ Reap
    BY <1>1, <2>2 DEF Raise, Reap, GroupStops, GroupSurvives
  <2>3. CASE LeaveExternal \/ LeaveLoop \/ Close
    BY <1>1, <2>3 DEF LeaveExternal, LeaveLoop, Close, GroupStops, GroupSurvives
  <2> QED BY <2>1, <2>2, <2>3 DEF RunnerStep
<1>3. memory' \in Status /\ file' \in Status /\ Kept
  BY RunnerMoves
<1> HIDE DEF RunsAStage
<1> QED BY <1>2, <1>3 DEF TypeOK

\* A step of the supervisor keeps the invariant: it says that it has ended when its group is
\* gone.
LEMMA RunnerKeepsInv ==
  ASSUME Scope, LoadInv, RunnerStep
  PROVE  LoadInv'
<1> USE DEF LoadInv
<1>1. /\ BeginsClean' /\ KnowsGroup'
      /\ file'.state \in Terminal => NoMoreStages'
      /\ runner \notin {"absent", "dead"} /\ runner' \notin {"absent", "launched"}
      /\ NoMoreStages => NoMoreStages'
      /\ (stopping \/ runner = "dead") /\ group = "none" => group' = "none"
      /\ file.state # "absent" => file'.state # "absent"
      /\ UNCHANGED <<row, copies, op, placed, stopping, size, faults>>
  BY RunnerMoves
<1>2. TypeOK' /\ RunsAStage'
  BY RunnerTypes
<1>3. LaunchesOnce'
  BY <1>1 DEF RunnerInv, LaunchesOnce
<1>4. StopHolds'
  BY <1>1 DEF RunnerInv, StopHolds
<1>5. EndIsEnd' /\ LogInv'
  BY <1>1 DEF RunnerInv, EndIsEnd, LogInv, Over, Settled
<1> QED BY <1>1, <1>2, <1>3, <1>4, <1>5 DEF RunnerInv

-----------------------------------------------------------------------------
(* The load itself, and a supervisor that is killed.                         *)

\* So do the steps of the processes, of the tool, and a kill of the supervisor.
LEMMA LoadKeepsInv ==
  ASSUME Scope, LoadInv, Write \/ LeaderExits \/ ToolChanges \/ Kill
  PROVE  LoadInv'
<1> USE DEF LoadInv, Scope, platformVars, loadVars, runnerVars
<1>1. TypeOK'
  <2>1. UNCHANGED <<row, copies, op, memory, file, stage, stopping, placed>>
    BY DEF Write, LeaderExits, ToolChanges, Kill
  <2>2. /\ runner' \in {runner, "dead"} /\ group' \in {"none", "leader", "children"}
        /\ size' \in 0..Size /\ faults' \in 0..MaxFaults
    BY DEF TypeOK, Write, LeaderExits, ToolChanges, Kill
  <2>3. tool' \in BOOLEAN
    BY DEF TypeOK, Write, LeaderExits, ToolChanges, Kill
  <2> QED BY <2>1, <2>2, <2>3 DEF TypeOK
<1>2. (BeginsClean /\ LaunchesOnce /\ KnowsGroup /\ RunsAStage)'
  BY DEF RunnerInv, BeginsClean, LaunchesOnce, KnowsGroup, RunsAStage, Write, LeaderExits, ToolChanges, Kill, Alive
<1>3. StopHolds'
  BY DEF RunnerInv, BeginsClean, StopHolds, Write, LeaderExits, ToolChanges, Kill, Alive
<1>4. EndIsEnd'
  BY DEF RunnerInv, BeginsClean, EndIsEnd, NoMoreStages, Over, Settled,
         Write, LeaderExits, ToolChanges, Kill, Alive
<1>5. LogInv'
  <2> USE DEF RunnerInv, BeginsClean, KnowsGroup, EndIsEnd, LogInv, Over, Settled
  <2>1. CASE Write
    <3>1. ~Over /\ ~Settled
      BY <2>1 DEF Write
    <3>2. /\ size' = size + 1 /\ UNCHANGED <<row, copies, op, runner, faults>>
          /\ UNCHANGED group
      BY <2>1 DEF Write
    <3>3. row.offset \in Nat /\ size \in Nat /\ op.answer.upto \in Nat
      BY DEF TypeOK, Answer
    <3>4. ~(op'.pc = "store" /\ op'.answer.confirmed) /\ ~Settled' /\ ~Over'
      BY <3>1, <3>2
    <3> HIDE DEF Over, Settled
    <3> QED BY <3>1, <3>2, <3>3, <3>4
  <2>2. CASE LeaderExits \/ ToolChanges
    BY <2>2 DEF LeaderExits, ToolChanges
  <2>3. CASE Kill
    <3>1. faults' = faults + 1 /\ faults \in Nat /\ copies \in [1..Size -> Int]
      BY <2>3 DEF Kill, TypeOK
    <3>2. ~Over
      BY <2>3 DEF Kill, Alive
    <3> QED BY <2>3, <3>1, <3>2 DEF Kill
  <2> QED BY <2>1, <2>2, <2>3
<1> QED BY <1>1, <1>2, <1>3, <1>4, <1>5 DEF RunnerInv
-----------------------------------------------------------------------------
(* The platform: a start, a refresh, a call that is lost and a crash.        *)

\* So do the steps of a start, which launches once.
LEMMA StartKeepsInv ==
  ASSUME Scope, LoadInv, StartRow \/ MakeDirectory \/ WriteFiles \/ Launch
  PROVE  LoadInv'
<1> USE DEF LoadInv, Scope, Idle, platformVars, loadVars, runnerVars
<1>1. TypeOK'
  <2>1. row' \in [state : State \cup {"absent", "starting", "finishing"}, offset : 0..Size]
    BY DEF TypeOK, StartRow, MakeDirectory, WriteFiles, Launch
  <2>2. NoStatus \in Status /\ NoAnswer \in Answer
    BY DEF NoStatus, Status, NoAnswer, Answer, State
  <2>3. /\ op'.pc \in {"row", "directory", "files", "inspect"}
        /\ op' \in [pc : {"row", "directory", "files", "inspect"},
                    action : {"start", "read", "stop"}, seen : Status, answer : Answer]
    BY <2>2 DEF TypeOK, StartRow, MakeDirectory, WriteFiles, Launch
  <2> QED BY <2>1, <2>3 DEF TypeOK, StartRow, MakeDirectory, WriteFiles, Launch
<1>2. (BeginsClean /\ LaunchesOnce /\ KnowsGroup /\ RunsAStage)'
  BY DEF TypeOK, RunnerInv, BeginsClean, LaunchesOnce, KnowsGroup, RunsAStage, NoStatus,
         StartRow, MakeDirectory, WriteFiles, Launch
<1>3. /\ op'.pc \in {"row", "directory", "files", "inspect"} /\ ~Settled' /\ ~Over
      /\ file' = file /\ file = NoStatus
  BY DEF TypeOK, RunnerInv, BeginsClean, LaunchesOnce, EndIsEnd, Settled, Terminal, Over,
         StartRow, MakeDirectory, WriteFiles, Launch
<1>4. StopHolds'
  BY <1>3 DEF StopHolds
<1>5. EndIsEnd'
  BY <1>3 DEF EndIsEnd, NoStatus, Terminal
<1>6. LogInv'
  <2>1. /\ row'.offset = row.offset /\ UNCHANGED <<copies, size, faults>>
    BY DEF TypeOK, StartRow, MakeDirectory, WriteFiles, Launch
  <2> QED BY <1>3, <2>1 DEF LogInv
<1> QED BY <1>1, <1>2, <1>4, <1>5, <1>6 DEF RunnerInv

\* What an answer says of the output, while it waits to be stored.
AnswerIsGood ==
  op.pc = "store" /\ op.answer.read =>
    /\ row.offset <= op.answer.upto /\ op.answer.upto <= size
    /\ op.answer.confirmed /\ ~op.answer.more => op.answer.upto = size
    /\ op.answer.upto % 2 = 1 => op.answer.confirmed \/ op.answer.upto = row.offset

\* A step of a refresh that only reads.
LEMMA LookKeepsInv ==
  ASSUME Scope, LoadInv,
         Monitor \/ Request \/ Inspect \/ Reread \/ Judge \/ Uncertain
  PROVE  LoadInv'
<1> USE DEF LoadInv, Scope, platformVars, loadVars, runnerVars
<1> DEFINE Looks == \/ \E action \in {"read", "stop"} : Refresh(action)
                    \/ Inspect \/ Reread \/ Judge \/ Uncertain
<1>0. Looks
  BY DEF Monitor, Request
<1>1. UNCHANGED <<row, copies, placed, runner, memory, file, stage, group, tool, size, faults>>
  BY <1>0 DEF Refresh, Inspect, Reread, Judge, Uncertain
<1>2. \/ stopping' = stopping
      \/ stopping' = TRUE /\ runner \notin {"absent", "launched"}
  BY <1>0 DEF RunnerInv, BeginsClean, Refresh, Inspect, Reread, Judge, Uncertain
<1>3. NoStatus \in Status /\ NoAnswer \in Answer
  BY DEF NoStatus, Status, NoAnswer, Answer, State
<1>4. /\ op' \in [pc : {"inspect", "waiting", "reread", "orphans", "judge", "store"},
                  action : {"start", "read", "stop"}, seen : Status, answer : Answer]
  <2>1. CASE \E action \in {"read", "stop"} : Refresh(action)
    BY <1>3, <2>1 DEF Refresh, Idle
  <2>2. CASE Inspect
    <3>1. [NoAnswer EXCEPT !.read = op.action = "read", !.upto = row.offset] \in Answer
      BY <2>2 DEF TypeOK, NoAnswer, Answer, State
    <3> QED BY <2>2, <3>1 DEF Inspect, TypeOK
  <2>3. CASE Reread
    BY <2>3 DEF Reread, TypeOK
  <2>4. CASE Judge
    <3>1. op'.pc = "store" /\ op'.answer \in Answer
      BY <2>4, JudgeReads DEF RunnerInv, StopHolds, LogInv, Judge
    <3> QED BY <2>4, <3>1 DEF Judge, TypeOK
  <2>5. CASE Uncertain
    BY <1>3, <2>5 DEF Uncertain, TypeOK
  <2> QED BY <1>0, <2>1, <2>2, <2>3, <2>4, <2>5
<1>5. TypeOK'
  <2>1. stopping' \in BOOLEAN
    BY <1>2 DEF TypeOK
  <2> QED BY <1>1, <1>4, <2>1 DEF TypeOK
<1>6. (BeginsClean /\ LaunchesOnce /\ KnowsGroup /\ RunsAStage)'
  BY <1>0, <1>1, <1>2, <1>4
     DEF RunnerInv, BeginsClean, LaunchesOnce, KnowsGroup, RunsAStage,
         Refresh, Inspect, Reread, Judge, Uncertain
<1>7. /\ NoMoreStages => NoMoreStages'
      /\ (Over' <=> Over) /\ (Settled' <=> Settled)
      /\ file'.state \in Terminal => NoMoreStages'
      /\ Settled' => Over'
  BY <1>1, <1>2 DEF RunnerInv, EndIsEnd, NoMoreStages, Over, Settled
<1>8. (op'.pc = "store" /\ op'.answer.confirmed => Over) /\ AnswerIsGood' => LogInv'
  BY <1>1, <1>7 DEF LogInv, AnswerIsGood
<1> DEFINE OpInv == StopHolds' /\ EndIsEnd' /\ AnswerIsGood'
<1>9. ASSUME \E action \in {"read", "stop"} : Refresh(action) PROVE OpInv
  <2>1. op'.pc = "inspect"
    BY <1>9 DEF Refresh, Idle
  <2>2. StopHolds'
    BY <1>1, <1>7, <2>1 DEF StopHolds
  <2>3. EndIsEnd'
    BY <1>1, <1>7, <2>1 DEF EndIsEnd
  <2>4. AnswerIsGood'
    BY <1>1, <1>7, <2>1 DEF AnswerIsGood
  <2> QED BY <2>2, <2>3, <2>4
<1>10. ASSUME Inspect PROVE OpInv
  <2>1. CASE file = NoStatus
    <3>1. op' = [[op EXCEPT !.pc = "store"] EXCEPT
                   !.answer = [NoAnswer EXCEPT !.read = op.action = "read", !.upto = row.offset]]
      BY <1>10, <2>1 DEF Inspect
    <3>2. op'.pc = "store" /\ ~op'.answer.confirmed /\ op'.answer.upto = row.offset
      BY <3>1 DEF TypeOK, NoAnswer
    <3>3. row.offset \in Nat /\ size \in Nat /\ row.offset <= size
      BY DEF TypeOK, LogInv
    <3>4. StopHolds'
      BY <1>1, <1>7, <3>2, <3>3 DEF StopHolds
    <3>5. EndIsEnd'
      BY <1>1, <1>7, <3>2, <3>3 DEF EndIsEnd
    <3>6. AnswerIsGood'
      BY <1>1, <1>7, <3>2, <3>3 DEF AnswerIsGood
    <3> QED BY <3>4, <3>5, <3>6
  <2>2. CASE file # NoStatus
    <3>1. file.state # "absent" /\ runner \notin {"absent", "launched"}
      BY <2>2 DEF RunnerInv, BeginsClean
    <3>2. op'.pc \in {"waiting", "reread"} /\ op'.action = op.action
      BY <1>10, <2>2 DEF Inspect, TypeOK
    <3>3. op'.pc = "waiting" => op'.action = "stop" /\ stopping'
      BY <1>10, <2>2 DEF Inspect, TypeOK
    <3>4. op'.pc = "reread" /\ op'.action = "stop" => runner = "dead"
      BY <1>10, <2>2, <3>1 DEF Inspect, TypeOK, Alive
    <3>5. StopHolds'
      BY <1>1, <1>7, <3>1, <3>2, <3>3, <3>4 DEF StopHolds
    <3>6. EndIsEnd'
      BY <1>1, <1>7, <3>1, <3>2, <3>3, <3>4 DEF EndIsEnd
    <3>7. AnswerIsGood'
      BY <1>1, <1>7, <3>1, <3>2, <3>3, <3>4 DEF AnswerIsGood
    <3> QED BY <3>5, <3>6, <3>7
  <2> QED BY <2>1, <2>2
<1>11. ASSUME Reread PROVE OpInv
  <2>1. /\ op'.pc = (IF op.action = "stop" THEN "orphans" ELSE "judge")
        /\ op'.action = op.action /\ op'.seen = file /\ UNCHANGED stopping
    BY <1>11 DEF Reread, TypeOK
  <2>2. /\ file.state # "absent"
        /\ op.action = "stop" => stopping \/ runner = "dead"
        /\ op.action = "stop" => runner # "spawned"
    BY <1>11 DEF Reread, RunnerInv, StopHolds
  <2>3. op.action = "stop" /\ External /\ ~file.group => group = "none"
    BY <2>2 DEF RunnerInv, KnowsGroup
  <2>4. StopHolds'
    BY <1>1, <1>7, <2>1, <2>2, <2>3 DEF StopHolds
  <2>5. EndIsEnd'
    BY <1>1, <1>7, <2>1, <2>2, <2>3 DEF EndIsEnd
  <2>6. AnswerIsGood'
    BY <1>1, <1>7, <2>1, <2>2, <2>3 DEF AnswerIsGood
  <2> QED BY <2>4, <2>5, <2>6
<1>12. ASSUME Judge PROVE OpInv
  <2>1. op.pc = "judge"
    BY <1>12 DEF Judge
  <2>2. file.state # "absent" /\ op.seen.state # "absent" /\ row.offset <= size
    BY <2>1 DEF RunnerInv, StopHolds, LogInv
  <2>3. op'.pc = "store"
    BY <1>12, <2>2, JudgeReads
  <2>4. op'.answer.confirmed => Over
    <3>1. op'.answer.confirmed => ~Alive /\ op.seen.state \in Terminal
      BY <1>12, <2>2, JudgeReads
    <3>2. runner \notin {"absent", "launched"}
      BY <2>2 DEF RunnerInv, BeginsClean, NoStatus
    <3> QED BY <2>1, <3>1, <3>2 DEF RunnerInv, EndIsEnd, NoMoreStages, Over, Alive
  <2>5. op'.answer.read =>
          /\ row.offset <= op'.answer.upto /\ op'.answer.upto <= size
          /\ op'.answer.confirmed /\ ~op'.answer.more => op'.answer.upto = size
          /\ op'.answer.upto % 2 = 1 => op'.answer.confirmed \/ op'.answer.upto = row.offset
    BY <1>12, <2>2, JudgeReads
  <2>6. StopHolds'
    BY <1>1, <1>7, <2>3, <2>4, <2>5 DEF StopHolds
  <2>7. EndIsEnd'
    BY <1>1, <1>7, <2>3, <2>4, <2>5 DEF EndIsEnd
  <2>8. AnswerIsGood'
    BY <1>1, <1>7, <2>3, <2>4, <2>5 DEF AnswerIsGood
  <2> QED BY <2>6, <2>7, <2>8
<1>13. ASSUME Uncertain PROVE OpInv
  <2>1. op'.pc = "store" /\ ~op'.answer.confirmed /\ ~op'.answer.read
    BY <1>13 DEF Uncertain, TypeOK, NoAnswer
  <2>2. StopHolds'
    BY <1>1, <1>7, <2>1 DEF StopHolds
  <2>3. EndIsEnd'
    BY <1>1, <1>7, <2>1 DEF EndIsEnd
  <2>4. AnswerIsGood'
    BY <1>1, <1>7, <2>1 DEF AnswerIsGood
  <2> QED BY <2>2, <2>3, <2>4
<1>14. OpInv
  BY <1>0, <1>9, <1>10, <1>11, <1>12, <1>13
<1>15. LogInv'
  BY <1>7, <1>14, <1>8 DEF EndIsEnd
<1> QED BY <1>5, <1>6, <1>14, <1>15 DEF RunnerInv

\* A stop ends the group the file names: nothing of the load comes back after it.
LEMMA OrphansKeepInv ==
  ASSUME Scope, LoadInv, StopOrphans
  PROVE  LoadInv'
<1> USE DEF LoadInv, Scope
<1> DEFINE stopTool == External /\ ~Alive /\ ~op.seen.stopped
<1>1. /\ op.pc = "orphans" /\ op' = [[op EXCEPT !.pc = "judge"] EXCEPT !.seen = op'.seen]
      /\ UNCHANGED <<row, copies, placed, runner, memory, stage, stopping, size, faults>>
      /\ op'.pc = "judge" /\ op'.action = op.action /\ op'.answer = op.answer
      /\ tool' = (tool /\ ~stopTool)
  BY DEF StopOrphans, TypeOK
<1>2. /\ op.action = "stop" /\ file.state # "absent" /\ op.seen.state # "absent"
      /\ stopping \/ runner = "dead"
      /\ runner \notin {"absent", "launched"}
      /\ External /\ ~op.seen.group => group = "none"
      /\ op.seen.state \in Terminal => NoMoreStages
  <2>1. /\ op.action = "stop" /\ file.state # "absent" /\ op.seen.state # "absent"
        /\ stopping \/ runner = "dead"
        /\ External /\ ~op.seen.group => group = "none"
    BY <1>1 DEF RunnerInv, StopHolds
  <2>2. op.seen.state \in Terminal => NoMoreStages
    BY <1>1 DEF RunnerInv, EndIsEnd
  <2>3. runner \notin {"absent", "launched"}
    BY <2>1 DEF RunnerInv, BeginsClean, NoStatus
  <2> QED BY <2>1, <2>2, <2>3
\* The group is stopped, the tool is, or the file stays.
<1>3. /\ file' \in Status /\ op'.seen \in Status
      /\ \/ group' = "none" /\ file'.state = "stopped" /\ op'.seen.state = "stopped"
         \/ UNCHANGED <<file, group>> /\ op'.seen = op.seen
  <2>1. op.seen \in Status /\ file \in Status
    BY DEF TypeOK
  <2>2. CASE op.seen.group
    <3>1. PICK stopped \in BOOLEAN :
            /\ group' = "none"
            /\ file' = [state |-> "stopped", group |-> FALSE, stopped |-> stopped]
            /\ op' = [op EXCEPT !.pc = "judge", !.seen = file']
      <4>1. op.seen.stopped \/ stopTool \in BOOLEAN
        BY <2>1 DEF Status
      <4>2. /\ group' = "none"
            /\ file' = [state |-> "stopped", group |-> FALSE, stopped |-> op.seen.stopped \/ stopTool]
            /\ op' = [op EXCEPT !.pc = "judge", !.seen = file']
        BY <2>2 DEF StopOrphans, GroupStops, GroupSurvives
      <4> QED BY <4>1, <4>2
    <3>2. file' \in Status /\ file'.state = "stopped"
      BY <3>1 DEF Status, State, Terminal
    <3>3. op'.seen = file'
      BY <3>1 DEF TypeOK
    <3> QED BY <3>1, <3>2, <3>3
  <2>3. CASE ~op.seen.group /\ stopTool
    <3>1. /\ UNCHANGED group
          /\ file' = [[op.seen EXCEPT !.state = "stopped"] EXCEPT !.stopped = TRUE]
          /\ op' = [op EXCEPT !.pc = "judge", !.seen = file']
      BY <2>3 DEF StopOrphans
    <3>2. file' \in Status /\ file'.state = "stopped"
      BY <2>1, <3>1 DEF Status, State, Terminal
    <3>3. op'.seen = file' /\ group' = "none"
      BY <1>2, <2>3, <3>1 DEF TypeOK
    <3> QED BY <3>2, <3>3
  <2>4. CASE ~op.seen.group /\ ~stopTool
    <3>1. UNCHANGED <<file, group>> /\ op' = [op EXCEPT !.pc = "judge", !.seen = op.seen]
      BY <2>4 DEF StopOrphans
    <3>2. op'.seen = op.seen
      BY <3>1 DEF TypeOK
    <3> QED BY <2>1, <3>1, <3>2
  <2> QED BY <2>2, <2>3, <2>4
<1> HIDE DEF stopTool
<1>4. /\ NoMoreStages => NoMoreStages'
      /\ file'.state \in Terminal => NoMoreStages'
      /\ op'.seen.state \in Terminal => NoMoreStages'
      /\ Over => Over'
      /\ Settled' => Over'
  BY <1>1, <1>2, <1>3 DEF RunnerInv, EndIsEnd, NoMoreStages, Over, Settled
<1>5. TypeOK'
  <2>1. tool' \in BOOLEAN
    BY <1>1 DEF TypeOK
  <2>2. group' \in {"none", "leader", "children"}
    BY <1>3 DEF TypeOK
  <2>3. op' \in [pc : {"judge"}, action : {"start", "read", "stop"}, seen : Status, answer : Answer]
    BY <1>1, <1>3 DEF TypeOK
  <2> QED BY <1>1, <1>3, <2>1, <2>2, <2>3 DEF TypeOK
<1>6. BeginsClean' /\ LaunchesOnce' /\ RunsAStage'
  BY <1>1, <1>2, <1>3 DEF RunnerInv, BeginsClean, LaunchesOnce, RunsAStage
<1>7. KnowsGroup'
  BY <1>1, <1>2, <1>3 DEF RunnerInv, KnowsGroup
<1>8. StopHolds'
  BY <1>1, <1>2, <1>3 DEF StopHolds
<1>9. EndIsEnd'
  BY <1>1, <1>4 DEF EndIsEnd
<1>10. LogInv'
  BY <1>1, <1>4 DEF LogInv, Settled
<1> QED BY <1>5, <1>6, <1>7, <1>8, <1>9, <1>10 DEF RunnerInv

\* Storing an answer moves the log to the end of what was read.
LEMMA StoreKeepsInv ==
  ASSUME Scope, LoadInv, Store
  PROVE  LoadInv'
<1> USE DEF LoadInv, Scope, Idle
<1> DEFINE answer == op.answer
           upto == IF answer.read THEN answer.upto ELSE row.offset
<1>1. /\ op.pc = "store" /\ UNCHANGED <<placed, runner, memory, file, stage, stopping, group, tool, size, faults>>
      /\ row' = [state |-> StateOf(answer), offset |-> upto]
      /\ copies' = Appended(answer)
      /\ op'.pc \in {"inspect", "idle"}
  BY DEF Store, Stored, runnerVars, loadVars
<1>2. op' \in [pc : {"inspect", "idle"}, action : {"start", "read", "stop"}, seen : Status, answer : Answer]
  <2>1. NoStatus \in Status /\ NoAnswer \in Answer
    BY DEF NoStatus, Status, NoAnswer, Answer, State
  <2> QED BY <2>1 DEF Store
<1>3. answer \in Answer /\ row.offset \in 0..Size /\ size \in 0..Size /\ faults \in 0..MaxFaults
      /\ copies \in [1..Size -> 0..MaxFaults + 1]
  BY DEF TypeOK
<1>4. /\ row.offset <= upto /\ upto <= size /\ upto \in 0..Size
      /\ upto % 2 = 1 => Over
      /\ answer.confirmed => Over
      /\ answer.confirmed /\ answer.read /\ ~answer.more => upto = size
  BY <1>1, <1>3 DEF LogInv, RunnerInv, EndIsEnd, Answer
<1>5. /\ StateOf(answer) \in State \cup {"finishing"}
      /\ StateOf(answer) \in Terminal => answer.confirmed /\ answer.read /\ ~answer.more
  BY <1>3 DEF StateOf, Answer, State, Terminal
<1> HIDE DEF upto
<1>6. /\ row' \in [state : State \cup {"absent", "starting", "finishing"}, offset : 0..Size]
      /\ row'.offset = upto /\ row'.state # "absent"
      /\ Settled' => Over /\ upto = size
  BY <1>1, <1>4, <1>5 DEF Settled, State, Terminal
<1>7. ASSUME NEW b \in 1..Size
      PROVE  IF b <= upto THEN 1 <= copies'[b] /\ copies'[b] <= 1 + faults ELSE copies'[b] <= faults
  <2>1. /\ copies[b] \in Nat
        /\ IF b <= row.offset THEN 1 <= copies[b] /\ copies[b] <= 1 + faults ELSE copies[b] <= faults
    BY <1>3 DEF LogInv
  <2>2. copies'[b] = IF row.offset < b /\ b <= upto THEN copies[b] + 1 ELSE copies[b]
    <3>1. copies'[b] = IF answer.read /\ row.offset < b /\ b <= answer.upto
                       THEN copies[b] + 1 ELSE copies[b]
      BY <1>1 DEF Appended
    <3> QED BY <1>3, <3>1 DEF upto
  <2> QED BY <1>3, <1>4, <2>1, <2>2
<1>8. copies' \in [1..Size -> 0..MaxFaults + 1]
  <2>1. \A b \in 1..Size : copies'[b] \in 0..MaxFaults + 1
    <3>1. ASSUME NEW b \in 1..Size PROVE copies'[b] \in Nat
      BY <1>1, <1>3 DEF Appended
    <3> QED BY <1>3, <1>7, <3>1
  <2> QED BY <1>1, <2>1 DEF Appended
<1>9. TypeOK'
  BY <1>1, <1>2, <1>6, <1>8 DEF TypeOK
<1>10. BeginsClean' /\ LaunchesOnce' /\ KnowsGroup' /\ RunsAStage'
  BY <1>1, <1>6 DEF RunnerInv, BeginsClean, LaunchesOnce, KnowsGroup, RunsAStage
<1>11. StopHolds'
  BY <1>1 DEF StopHolds
<1>12. EndIsEnd'
  BY <1>1, <1>6 DEF RunnerInv, EndIsEnd, NoMoreStages, Over
<1>13. LogInv'
  BY <1>1, <1>4, <1>6, <1>7 DEF LogInv, Over
<1> QED BY <1>9, <1>10, <1>11, <1>12, <1>13 DEF RunnerInv

\* A lost call forgets what was read; a crash may leave it in the log, which costs a fault.
LEMMA LossKeepsInv ==
  ASSUME Scope, LoadInv, Lose \/ Crash
  PROVE  LoadInv'
<1> USE DEF LoadInv, Scope
<1>1. /\ op.pc # "idle" /\ op' = Idle
      /\ UNCHANGED <<placed, runner, memory, file, stage, stopping, group, tool, size>>
      /\ row' \in {row, [row EXCEPT !.state = "unknown"]}
      /\ faults' \in {faults, faults + 1} /\ faults' \in 0..MaxFaults
  BY DEF Lose, Crash, TypeOK, runnerVars, loadVars
<1>2. /\ copies \in [1..Size -> 0..MaxFaults + 1] /\ faults \in 0..MaxFaults
      /\ row.offset \in 0..Size /\ size \in 0..Size /\ op.answer \in Answer
  BY DEF TypeOK
<1>3. \/ UNCHANGED copies
      \/ op.pc = "store" /\ copies' = Appended(op.answer) /\ faults' = faults + 1
  BY DEF Lose, Crash
<1>4. ASSUME NEW b \in 1..Size
      PROVE  /\ copies'[b] \in Nat
             /\ IF b <= row.offset THEN 1 <= copies'[b] /\ copies'[b] <= 1 + faults'
                ELSE copies'[b] <= faults'
  <2>1. /\ copies[b] \in Nat
        /\ IF b <= row.offset THEN 1 <= copies[b] /\ copies[b] <= 1 + faults ELSE copies[b] <= faults
    BY <1>2 DEF LogInv
  <2>2. \/ copies'[b] = copies[b]
        \/ copies'[b] = copies[b] + 1 /\ row.offset < b /\ faults' = faults + 1
    BY <1>3 DEF Appended
  <2> QED BY <1>1, <1>2, <2>1, <2>2
<1>5. copies' \in [1..Size -> 0..MaxFaults + 1]
  <2>1. \A b \in 1..Size : copies'[b] \in 0..MaxFaults + 1
    BY <1>1, <1>2, <1>4
  <2>2. copies' = [b \in 1..Size |-> copies'[b]]
    BY <1>2, <1>3 DEF Appended
  <2> QED BY <2>1, <2>2
<1>6. /\ row' \in [state : State \cup {"absent", "starting", "finishing"}, offset : 0..Size]
      /\ row'.offset = row.offset /\ row'.state \in {row.state, "unknown"} /\ row.state # "absent"
  BY <1>1 DEF TypeOK, State, RunnerInv, LaunchesOnce
<1>7. op' \in [pc : {"idle"}, action : {"start", "read", "stop"}, seen : Status, answer : Answer]
      /\ op'.pc = "idle"
  BY <1>1, <1>2 DEF Idle, NoStatus, Status, NoAnswer, Answer, State
<1>8. TypeOK'
  BY <1>1, <1>5, <1>6, <1>7 DEF TypeOK
<1>9. BeginsClean' /\ LaunchesOnce' /\ KnowsGroup' /\ RunsAStage'
  BY <1>1, <1>6, <1>7 DEF RunnerInv, BeginsClean, LaunchesOnce, KnowsGroup, RunsAStage
<1>10. StopHolds'
  BY <1>7 DEF StopHolds
<1>11. (Settled' => Settled) /\ (Over' <=> Over)
  BY <1>1, <1>6 DEF Settled, Terminal, Over
<1>12. EndIsEnd'
  BY <1>1, <1>7, <1>11 DEF RunnerInv, EndIsEnd, NoMoreStages
<1>13. LogInv'
  BY <1>1, <1>4, <1>6, <1>7, <1>11 DEF LogInv
<1> QED BY <1>8, <1>9, <1>10, <1>12, <1>13 DEF RunnerInv
-----------------------------------------------------------------------------
(* The theorems.                                                             *)

\* Every step keeps the invariant.
LEMMA LoadInvStep ==
  ASSUME Scope, LoadInv, [Next]_vars
  PROVE  LoadInv'
<1>1. CASE UNCHANGED vars
  <2>1. UNCHANGED <<row, copies, op, placed, runner, memory, file, stage, stopping, group, tool,
                    size, faults>>
    BY <1>1 DEF vars, platformVars, runnerVars, loadVars
  <2>2. TypeOK'
    BY <2>1 DEF LoadInv, TypeOK
  <2>3. (BeginsClean /\ LaunchesOnce /\ KnowsGroup /\ RunsAStage)'
    BY <2>1 DEF LoadInv, RunnerInv, BeginsClean, LaunchesOnce, KnowsGroup, RunsAStage
  <2>4. StopHolds'
    BY <2>1 DEF LoadInv, RunnerInv, StopHolds
  <2>5. EndIsEnd' /\ LogInv'
    BY <2>1 DEF LoadInv, RunnerInv, EndIsEnd, LogInv, NoMoreStages, Over, Settled
  <2> QED BY <2>2, <2>3, <2>4, <2>5 DEF LoadInv, RunnerInv
<1> QED
  BY <1>1, RunnerKeepsInv, LoadKeepsInv, StartKeepsInv, LookKeepsInv, OrphansKeepInv,
     StoreKeepsInv, LossKeepsInv
     DEF Next, OpStep

\* What a load's supervisor, its platform and its row know of each other, for any number
\* of stages and any interleaving of lost calls, crashes and kills in Scope.
THEOREM LoadInvariant ==
  ASSUME Scope
  PROVE  Spec => []LoadInv
<1>1. Init => LoadInv
  <2> SUFFICES ASSUME Init PROVE LoadInv
    OBVIOUS
  <2> USE DEF Init, Scope, Idle
  <2>1. NoStatus \in Status /\ NoAnswer \in Answer
    BY DEF NoStatus, Status, NoAnswer, Answer, State
  <2>2. TypeOK
    <3>1. /\ row \in [state : State \cup {"absent", "starting", "finishing"}, offset : 0..Size]
          /\ copies \in [1..Size -> 0..MaxFaults + 1]
      OBVIOUS
    <3>2. op \in [pc : {"idle"}, action : {"start", "read", "stop"}, seen : Status, answer : Answer]
      BY <2>1
    <3>3. placed \in BOOLEAN /\ stopping \in BOOLEAN /\ tool \in BOOLEAN
      OBVIOUS
    <3> QED BY <2>1, <3>1, <3>2, <3>3 DEF TypeOK
  <2>3. RunnerInv
    BY DEF RunnerInv, BeginsClean, LaunchesOnce, KnowsGroup, RunsAStage, StopHolds, EndIsEnd,
           Settled, Terminal, NoStatus
  <2>4. LogInv
    BY DEF LogInv, Settled, Terminal
  <2> QED BY <2>2, <2>3, <2>4 DEF LoadInv
<1>2. LoadInv /\ [Next]_vars => LoadInv'
  BY LoadInvStep
<1> QED BY <1>1, <1>2, PTL DEF Spec

\* A load whose row is terminal has no process left and its whole output in the local log,
\* where no byte is repeated unless the platform died while storing it, and no line is cut
\* that its writer may still complete (Workloads.store, load_runner.inspect).
THEOREM LogIsAlwaysExact ==
  ASSUME Scope
  PROVE  Spec => []LogIsExact
<1>1. LoadInv => LogIsExact
  <2> SUFFICES ASSUME LoadInv PROVE LogIsExact
    OBVIOUS
  <2> USE DEF LoadInv
  <2>1. TypeOK /\ TerminalMeansGone /\ LinesAreWhole
    BY DEF RunnerInv, EndIsEnd, LogInv, Over, TerminalMeansGone, LinesAreWhole, Alive
  <2>2. row.offset \in 0..Size /\ size \in 0..Size /\ faults \in 0..MaxFaults
        /\ copies \in [1..Size -> 0..MaxFaults + 1]
    BY DEF TypeOK
  <2>3. NothingLost /\ NoExtraCopies
    BY <2>2 DEF Scope, LogInv, NothingLost, NoExtraCopies
  <2> QED BY <2>1, <2>3 DEF LogIsExact
<1> QED BY <1>1, LoadInvariant, PTL

\* The phase of a load, as LoadLedger sees it.
Phase == IF runner = "absent" THEN "new"
         ELSE IF Alive \/ group # "none" THEN "live" ELSE "over"

\* Every step is one of the ledger, or none.
LEMMA LedgerStep ==
  ASSUME Scope, LoadInv, [Next]_vars
  PROVE  [Ledger!Next]_<<Phase, Settled>>
<1> USE DEF LoadInv, RunnerInv, Scope
<1>0. LoadInv'
  BY LoadInvStep
<1> DEFINE Ledgered == [Ledger!Next]_<<Phase, Settled>>
\* A report is made of a load that is over, or withdrawn.
<1>1. ASSUME UNCHANGED <<runner, group>> PROVE Ledgered
  <2>1. Phase' = Phase
    BY <1>1 DEF Phase, Alive
  <2>2. Settled' => Phase = "over"
    BY <1>0, <1>1 DEF EndIsEnd, Over, Phase, Alive
  <2>3. CASE Settled'
    BY <2>1, <2>2, <2>3 DEF Ledger!Next, Ledger!Settle, Phase
  <2>4. CASE ~Settled'
    BY <2>1, <2>4 DEF Ledger!Next, Ledger!Withdraw, Phase
  <2> QED BY <2>3, <2>4
\* A load that lives goes on or ends.
<1>2. ASSUME Phase = "live", runner' # "absent", UNCHANGED row PROVE Ledgered
  <2>1. Phase' \in {"live", "over"} /\ Settled' = Settled
    BY <1>2 DEF Phase, Settled
  <2> QED BY <1>2, <2>1 DEF Ledger!Next, Ledger!End, Phase
<1>3. ASSUME RunnerStep PROVE Ledgered
  <2>1. runner \notin {"absent", "dead"} /\ runner' # "absent" /\ UNCHANGED row
    BY <1>3, RunnerMoves
  <2> QED BY <1>2, <2>1 DEF Phase, Alive
<1>4. ASSUME LeaderExits PROVE Ledgered
  <2>1. group # "none" /\ runner # "absent" /\ UNCHANGED <<row, runner>>
    BY <1>4 DEF LeaderExits, BeginsClean, platformVars, runnerVars
  <2> QED BY <1>2, <2>1 DEF Phase, Alive
<1>5. ASSUME Kill PROVE Ledgered
  BY <1>2, <1>5 DEF Kill, Phase, Alive, platformVars
<1>6. ASSUME StopOrphans PROVE Ledgered
  <2>1. /\ runner # "absent" /\ UNCHANGED <<row, runner>>
        /\ group = "none" => group' = "none"
    BY <1>6 DEF StopOrphans, StopHolds, BeginsClean, NoStatus, GroupStops, GroupSurvives
  <2>2. CASE Phase = "live"
    BY <1>2, <2>1, <2>2
  <2>3. CASE Phase # "live"
    BY <1>1, <2>1, <2>3 DEF Phase
  <2> QED BY <2>2, <2>3
<1>7. ASSUME Launch PROVE Ledgered
  <2>1. Phase = "new" /\ Phase' = "live" /\ Settled' = Settled
    BY <1>7 DEF Launch, LaunchesOnce, Phase, Alive, Settled
  <2> QED BY <2>1 DEF Ledger!Next, Ledger!Launch, Phase
<1> QED
  BY <1>1, <1>3, <1>4, <1>5, <1>6, <1>7
     DEF Next, OpStep, Write, ToolChanges, StartRow, Monitor, Request, Refresh, MakeDirectory,
         WriteFiles, Inspect, Reread, Judge, Store, Uncertain, Lose, Crash, vars, runnerVars,
         loadVars

\* The platform and the supervisor do what LoadLedger promises: a load is launched once, and
\* reported as settled only when nothing of it is left (Workloads.start and refresh).
THEOREM LedgerIsKept ==
  ASSUME Scope
  PROVE  Spec => KeepsLedger
<1>1. Init => Ledger!Init
  BY DEF Init, Ledger!Init, Settled, Terminal
<1>2. LoadInv /\ [Next]_vars => [Ledger!Next]_<<Phase, Settled>>
  BY LedgerStep
<1> QED BY <1>1, <1>2, LoadInvariant, PTL DEF Spec, KeepsLedger, Ledger!Spec, Phase

\* A settled load is over, which is what finish and release_scene rely on when they look at
\* its row only (Workloads.settled, Core.finish).
THEOREM SettledLoadIsOver ==
  ASSUME Scope
  PROVE  Spec => []Ledger!SettledIsOver
<1>1. LoadInv => Ledger!SettledIsOver
  BY DEF LoadInv, RunnerInv, EndIsEnd, Over, Ledger!SettledIsOver, Alive
<1> QED BY <1>1, LoadInvariant, PTL

\* A load that is over does not come back, so it is launched once (Workloads.start: the
\* row is unique and the runner refuses a directory that has been used).
THEOREM LoadRunsOnce ==
  ASSUME Scope
  PROVE  Spec => [][Phase = "over" => Phase' = "over"]_vars
<1>1. [Ledger!Next]_<<Phase, Settled>> => [Phase = "over" => Phase' = "over"]_vars
  BY DEF Ledger!Next, Ledger!Launch, Ledger!End, Ledger!Settle, Ledger!Withdraw, Phase
<1>2. LoadInv /\ [Next]_vars => [Phase = "over" => Phase' = "over"]_vars
  BY <1>1, LedgerStep
<1> QED BY <1>2, LoadInvariant, PTL DEF Spec
=============================================================================
