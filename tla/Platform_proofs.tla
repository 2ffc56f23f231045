---------------------------- MODULE Platform_proofs ----------------------------
(****************************************************************************)
(* A device never has two workers, for every number of starts and tasks,    *)
(* where a bound port keeps others from binding it; and what is deployed    *)
(* from the library has been read whole, for any number of imports.         *)
(****************************************************************************)
EXTENDS ServerInstances, ToolLibrary, UpdateHandoff, TLAPS

-----------------------------------------------------------------------------
(* Starts of the platform (ServerInstances). A worker belongs to the one     *)
(* server that has the port, and its task holds the device, which one task   *)
(* does.                                                                     *)

TypeInv ==
  /\ server \in [Server -> {"none", "spawned", "bound", "serving", "closing", "down"}]
  /\ status \in [Task -> {"none", "queued", "running", "interrupted", "ended"}]
  /\ worker \in [Task -> Server \cup {None}] /\ parent \in [Task -> Task \cup {None}]

OnePort     == \A s, r \in Bound : s = r
WorkerLives == \A t \in Task : worker[t] # None => server[worker[t]] \in {"serving", "closing"}
\* A task with a worker has not been handed over.
WorkerHolds ==
  \A t \in Task : worker[t] # None =>
    /\ status[t] \in {"running", "interrupted"} /\ \A c \in Task : parent[c] # t
OnlyInterruptedHandedOver ==
  \A c \in Task : parent[c] # None => status[parent[c]] = "interrupted" /\ status[c] # "none"
OneHolder == \A t, u \in Task : Holds(t) /\ Holds(u) => t = u

Inv == TypeInv /\ OnePort /\ WorkerLives /\ WorkerHolds /\ OnlyInterruptedHandedOver /\ OneHolder

ServerStep(s) == Launch(s) \/ Bind(s) \/ Serve(s) \/ Close(s) \/ Down(s) \/ Crash(s)

\* Initially no server is there and no task runs.
LEMMA InitInv == Init => Inv
  BY InstancesAssumption
     DEF Init, Inv, TypeInv, OnePort, Bound, WorkerLives, WorkerHolds, OnlyInterruptedHandedOver,
         OneHolder, Holds

\* Servers come and go: the port has one at most, and one that ends takes its workers along.
LEMMA ServerKeeps ==
  ASSUME Exclusive, Inv, NEW s \in Server, ServerStep(s)
  PROVE  Inv'
<1> USE InstancesAssumption DEF Inv, TypeInv, At
<1>1. TypeInv'
  BY DEF ServerStep, Launch, Bind, Serve, Close, Down, Crash, Interrupt, WithoutWorkers
<1>2. OnePort'
  BY DEF ServerStep, Launch, Bind, Serve, Close, Down, Crash, OnePort, Bound
<1>3. WorkerLives'
  BY DEF ServerStep, Launch, Bind, Serve, Close, Down, Crash, WorkerLives, WithoutWorkers
<1>4. \/ UNCHANGED <<status, parent>>
      \/ Interrupt /\ UNCHANGED <<worker, parent>>
  BY DEF ServerStep, Launch, Bind, Serve, Close, Down, Crash
<1>5. \A t \in Task : worker'[t] \in {worker[t], None}
  BY DEF ServerStep, Launch, Bind, Serve, Close, Down, Crash, WithoutWorkers
<1>6. \A t \in Task : status[t] \in {"running", "interrupted"} /\ (\A c \in Task : parent[c] # t)
                        => status'[t] \in {"running", "interrupted"}
  BY <1>4 DEF Interrupt, Holds
<1>7. WorkerHolds'
  <2> SUFFICES ASSUME NEW t \in Task, worker'[t] # None
               PROVE  /\ status'[t] \in {"running", "interrupted"}
                      /\ \A c \in Task : parent'[c] # t
    BY DEF WorkerHolds
  <2>1. worker[t] # None
    BY <1>5
  <2>2. status[t] \in {"running", "interrupted"} /\ \A c \in Task : parent[c] # t
    BY <2>1 DEF WorkerHolds
  <2>3. UNCHANGED parent
    BY <1>4
  <2> QED
    BY <2>2, <2>3, <1>6
<1>8. OnlyInterruptedHandedOver'
  BY <1>4 DEF OnlyInterruptedHandedOver, Interrupt, Holds
<1>9. OneHolder'
  BY <1>4 DEF OneHolder, Interrupt, Holds
<1> QED
  BY <1>1, <1>2, <1>3, <1>7, <1>8, <1>9

\* A claim finds no other holder; an end and a worker that leaves give something up.
LEMMA TaskKeeps ==
  ASSUME Inv, NEW t \in Task, Create(t) \/ End(t) \/ Leave(t) \/ \E s \in Server : Claim(s, t)
  PROVE  Inv'
<1> USE InstancesAssumption DEF Inv, TypeInv
<1>1. TypeInv' /\ UNCHANGED <<server, parent>>
  BY DEF Create, End, Leave, Claim, Serving
<1>2. OnePort'
  BY <1>1 DEF OnePort, Bound
<1>3. WorkerLives'
  BY <1>1 DEF Create, End, Leave, Claim, Serving, WorkerLives
<1>4. OnlyInterruptedHandedOver'
  BY <1>1 DEF Create, End, Leave, Claim, OnlyInterruptedHandedOver
<1>5. WorkerHolds'
  BY <1>1 DEF Create, End, Leave, Claim, WorkerHolds, OnlyInterruptedHandedOver
<1>6. OneHolder'
  <2>1. CASE Create(t) \/ End(t) \/ Leave(t)
    BY <1>1, <2>1 DEF Create, End, Leave, OneHolder, Holds, OnlyInterruptedHandedOver
  <2>2. ASSUME NEW s \in Server, Claim(s, t)  PROVE OneHolder'
    BY <1>1, <2>2 DEF Claim, OneHolder, Holds
  <2> QED
    BY <2>1, <2>2
<1> QED
  BY <1>1, <1>2, <1>3, <1>4, <1>5, <1>6

\* A task that is handed over has no worker: it would be one of the server that approves.
LEMMA ApproveKeeps ==
  ASSUME Inv, NEW s \in Server, NEW t \in Task, Approve(s, t)
  PROVE  Inv'
<1> USE InstancesAssumption DEF Inv, TypeInv
<1>1. PICK c \in Task : /\ status[c] = "none"
                        /\ status' = [status EXCEPT ![c] = "queued"]
                        /\ parent' = [parent EXCEPT ![c] = t]
  BY DEF Approve
<1>2. status[t] = "interrupted" /\ UNCHANGED <<server, worker>> /\ c # t
  BY <1>1 DEF Approve
<1>3. TypeInv' /\ OnePort' /\ WorkerLives'
  BY <1>1, <1>2 DEF OnePort, Bound, WorkerLives
<1>4. worker[t] = None
  <2> SUFFICES ASSUME worker[t] # None  PROVE FALSE
    OBVIOUS
  <2>1. worker[t] \in Bound /\ s \in Bound
    BY DEF WorkerLives, Bound, Approve, Serving
  <2> QED
    BY <2>1 DEF OnePort, Approve
<1>5. parent[c] = None
  BY <1>1 DEF OnlyInterruptedHandedOver
<1>6. WorkerHolds'
  BY <1>1, <1>2, <1>4 DEF WorkerHolds
<1>7. OnlyInterruptedHandedOver'
  BY <1>1, <1>2 DEF OnlyInterruptedHandedOver
<1>8. OneHolder'
  <2>1. Holds(t)
    BY <1>2 DEF Holds, Approve
  <2>2. ASSUME NEW u \in Task, Holds(u)'  PROVE u = c
    <3> SUFFICES ASSUME u # c  PROVE FALSE
      OBVIOUS
    <3>1. u # t
      BY <1>1, <2>2 DEF Holds
    <3>2. Holds(u)
      BY <1>1, <1>5, <2>2 DEF Holds
    <3> QED
      BY <2>1, <3>1, <3>2 DEF OneHolder
  <2> QED
    BY <2>2 DEF OneHolder
<1> QED
  BY <1>3, <1>6, <1>7, <1>8

\* The server that takes tasks for interrupted is the only one that has the port: a worker it
\* finds is its own, and then it is closing.
LEMMA InterruptsOwn ==
  ASSUME Inv, NEW s \in Server, Serve(s) \/ Close(s), NEW t \in Task, worker[t] # None
  PROVE  server'[worker[t]] # "serving"
<1> USE InstancesAssumption DEF Inv, TypeInv
<1>1. server[worker[t]] \in {"serving", "closing"} /\ worker[t] \in Bound /\ s \in Bound
  BY DEF WorkerLives, Bound, Serve, Close
<1>2. worker[t] = s
  BY <1>1 DEF OnePort
<1> QED
  BY <1>1, <1>2 DEF Serve, Close, At

\* A task and the recovery that took its device over never both have a worker, in one server
\* or in two, and no task of a living server is taken for interrupted, however starts,
\* shutdowns and crashes interleave, if a bound port is exclusive.
THEOREM OneServerAtATime == Exclusive => (Spec => ServersTakeTurns)
<1> SUFFICES ASSUME Exclusive  PROVE Spec => ServersTakeTurns
  OBVIOUS
<1>1. Inv /\ [Next]_vars => Inv'
  <2> SUFFICES ASSUME Inv, [Next]_vars  PROVE Inv'
    OBVIOUS
  <2>1. CASE UNCHANGED vars
    BY <2>1 DEF vars, Inv, TypeInv, OnePort, Bound, WorkerLives, WorkerHolds,
                OnlyInterruptedHandedOver, OneHolder, Holds
  <2> QED
    BY <2>1, ServerKeeps, TaskKeeps, ApproveKeeps DEF Next, ServerStep
<1>2. Inv => OneExecutor
  BY DEF Inv, WorkerHolds, OneHolder, Holds, OneExecutor
<1> DEFINE Orphaned ==
      \A t \in Task :
        (status[t] = "running" /\ status'[t] = "interrupted" /\ worker[t] # None)
          => server'[worker[t]] # "serving"
<1>3. Inv /\ [Next]_vars => [Orphaned]_vars
  <2> SUFFICES ASSUME Inv, Next, NEW t \in Task, status[t] = "running",
                      status'[t] = "interrupted", worker[t] # None
               PROVE  server'[worker[t]] # "serving"
    OBVIOUS
  <2>1. ASSUME NEW s \in Server, Serve(s) \/ Close(s)  PROVE server'[worker[t]] # "serving"
    BY <2>1, InterruptsOwn
  <2>2. ASSUME NEW s \in Server, Launch(s) \/ Bind(s) \/ Down(s) \/ Crash(s)  PROVE FALSE
    BY <2>2 DEF Launch, Bind, Down, Crash
  <2>3. ASSUME NEW u \in Task, Create(u) \/ End(u) \/ Leave(u)  PROVE FALSE
    BY <2>3 DEF Create, End, Leave, Inv, TypeInv
  <2>4. ASSUME NEW s \in Server, NEW u \in Task, Claim(s, u) \/ Approve(s, u)  PROVE FALSE
    BY <2>4 DEF Claim, Approve, Inv, TypeInv
  <2> QED
    BY <2>1, <2>2, <2>3, <2>4 DEF Next
<1>4. Spec => []OneExecutor
  BY InitInv, <1>1, <1>2, PTL DEF Spec
<1>5. Spec => [][Orphaned]_vars
  BY InitInv, <1>1, <1>3, PTL DEF Spec
<1> QED
  BY <1>4, <1>5, PTL DEF ServersTakeTurns, OnlyOrphansInterrupted

-----------------------------------------------------------------------------
(* The library of tools (ToolLibrary). Any number of imports write to inodes *)
(* a deployment may be reading; what it takes it has inspected.              *)

\* An import writes while parts of the package are missing.
WritesAreMissing == \A r \in Request : request[r].pc = "write" => request[r].written < PackageWrites

LibraryInv == DeployedIsWhole /\ WritesAreMissing

ImportRow == [pc : {"idle", "open", "write", "replace"},
              inode : Inode \cup {NoFile}, written : 0..PackageWrites]

\* The steps of an import keep the types, and write no more than the package.
LEMMA ImportKeepsLibrary ==
  ASSUME LibraryInv, NEW r \in Request,
         Begin(r) \/ Open(r) \/ Write(r) \/ Fails(r) \/ Replace(r)
  PROVE  LibraryInv'
<1> USE LibraryAssumption
<1>0. /\ request \in [Request -> ImportRow] /\ name \in [{"tmp", "zip"} -> Inode \cup {NoFile}]
      /\ data \in [Inode -> SUBSET Whole] /\ PackageWrites \in Nat \ {0}
      /\ request[r].written \in 0..PackageWrites
  BY DEF LibraryInv, DeployedIsWhole, LibraryTypeOK, ImportRow
<1>1. PICK new \in ImportRow :
        /\ request' = [request EXCEPT ![r] = new]
        /\ new.pc = "write" => new.written < PackageWrites
  <2>1. CASE Begin(r)
    <3>1. /\ request' = [request EXCEPT ![r] = [request[r] EXCEPT !.pc = "open"]]
          /\ [request[r] EXCEPT !.pc = "open"] \in ImportRow
      BY <1>0, <2>1 DEF Begin, ImportRow
    <3>2. QED
      BY <1>0, <3>1 DEF ImportRow
  <2>0. CASE Fails(r) \/ Replace(r)
    <3>1. Idle \in ImportRow /\ Idle.pc = "idle" /\ request' = [request EXCEPT ![r] = Idle]
      BY <1>0, <2>0 DEF Fails, Replace, Idle, ImportRow
    <3>2. QED
      BY <3>1
  <2>2. CASE Open(r)
    <3>1. PICK i \in Inode : request' = [request EXCEPT ![r] = [pc |-> "write", inode |-> i, written |-> 0]]
      BY <2>2 DEF Open
    <3>2. /\ [pc |-> "write", inode |-> i, written |-> 0] \in ImportRow
          /\ 0 < PackageWrites
      BY <1>0 DEF ImportRow
    <3>3. QED
      BY <3>1, <3>2
  <2>3. CASE Write(r)
    <3> DEFINE next == request[r].written + 1
               new == [request[r] EXCEPT !.written = next,
                                         !.pc = IF next = PackageWrites THEN "replace" ELSE "write"]
    <3>1. request[r].written < PackageWrites
      BY <2>3 DEF Write, LibraryInv, WritesAreMissing
    <3>2. next \in 0..PackageWrites /\ (next # PackageWrites => next < PackageWrites)
      BY <1>0, <3>1
    <3>3. request' = [request EXCEPT ![r] = new]
      BY <1>0, <2>3 DEF Write, ImportRow
    <3>4. new \in ImportRow /\ new.written = next
      BY <1>0, <3>2 DEF ImportRow
    <3> QED
      BY <3>2, <3>3, <3>4, <1>0 DEF ImportRow
  <2> QED
    BY <2>0, <2>1, <2>2, <2>3
<1>2. request' \in [Request -> ImportRow] /\ WritesAreMissing'
  BY <1>0, <1>1 DEF LibraryInv, WritesAreMissing
<1>3. name' \in [{"tmp", "zip"} -> Inode \cup {NoFile}]
  BY <1>0 DEF Begin, Open, Write, Fails, Replace
<1>4. data' \in [Inode -> SUBSET Whole]
  <2>1. CASE Write(r)
    <3>1. request[r].written + 1 \in Whole
      BY <1>0, <2>1 DEF Write, LibraryInv, WritesAreMissing, Whole
    <3>2. QED
      BY <1>0, <2>1, <3>1 DEF Write
  <2>2. QED
    BY <1>0, <2>1 DEF Begin, Open, Fails, Replace
<1>5. deploy' = deploy
  BY DEF Begin, Open, Write, Fails, Replace
<1> QED
  BY <1>2, <1>3, <1>4, <1>5 DEF LibraryInv, DeployedIsWhole, LibraryTypeOK, ImportRow, Whole

\* A deployment takes what it has read whole, and a platform that stops has taken nothing.
LEMMA DeploymentKeepsLibrary ==
  ASSUME LibraryInv, Match \/ Take \/ DeployEnds \/ StopPlatform
  PROVE  LibraryInv'
<1> USE LibraryAssumption
<1>1. request' = request \/ request' = [r \in Request |-> Idle]
  BY DEF Match, Take, DeployEnds, StopPlatform
<1>2. request' \in [Request -> ImportRow] /\ WritesAreMissing'
  <2>1. Idle \in ImportRow /\ Idle.pc # "write"
    BY DEF Idle, ImportRow
  <2>2. QED
    BY <1>1, <2>1 DEF LibraryInv, DeployedIsWhole, LibraryTypeOK, ImportRow, WritesAreMissing
<1>3. UNCHANGED <<name, data>>
  BY DEF Match, Take, DeployEnds, StopPlatform
<1>4. /\ deploy' \in [pc : {"idle", "matched", "taken"}, parts : SUBSET Whole]
      /\ deploy'.pc = "taken" => deploy'.parts = Whole
  BY DEF LibraryInv, DeployedIsWhole, LibraryTypeOK, Match, Take, DeployEnds, StopPlatform, Whole
<1> QED
  BY <1>2, <1>3, <1>4 DEF LibraryInv, DeployedIsWhole, LibraryTypeOK, ImportRow, Whole

\* What goes to a device has been read whole, however many pages import the package, whatever
\* fails on the way, and whenever the platform stops.
THEOREM DeployedIsAlwaysWhole == LibrarySpec => []DeployedIsWhole
<1>1. LibraryInit => LibraryInv
  BY LibraryAssumption
     DEF LibraryInit, LibraryInv, DeployedIsWhole, LibraryTypeOK, WritesAreMissing, Idle, Whole
<1>2. LibraryInv /\ [LibraryNext]_libraryVars => LibraryInv'
  <2> SUFFICES ASSUME LibraryInv, [LibraryNext]_libraryVars PROVE LibraryInv'
    OBVIOUS
  <2>1. CASE UNCHANGED libraryVars
    BY <2>1 DEF libraryVars, LibraryInv, DeployedIsWhole, LibraryTypeOK, WritesAreMissing, Whole
  <2> QED
    BY <2>1, ImportKeepsLibrary, DeploymentKeepsLibrary DEF LibraryNext
<1>3. LibraryInv => DeployedIsWhole
  BY DEF LibraryInv
<1> QED
  BY <1>1, <1>2, <1>3, PTL DEF LibrarySpec
-----------------------------------------------------------------------------
(* An update in place (UpdateHandoff), handed over once or twice, from       *)
(* packages that are imported one after the other and not while a helper     *)
(* waits: what goes wrong otherwise is in the README.                        *)

UpdateScope ==
  /\ ~Late /\ \A i, j \in Importer : i = j
  /\ \A update \in Trials : \A h, k, l \in update.helpers : h = k \/ k = l \/ h = l

HelperPc  == {"none", "wait", "copy", "backup", "aside", "place", "start",
              "health", "catch", "updated", "failed"}
HelperRow == [pc : HelperPc, version : Update \cup {Nothing}, process : Nat,
              next : Program \cup {Nothing}, old : Program \cup {Nothing},
              backup : 0..MaxCommits, launched : Nat]
ImportPc  == [pc : {"idle", "clear", "write"}, version : Update \cup {Nothing}]

\* The type invariant, in the parts that steps touch together.
TrialOK    == trial \in Trials
PlatformOK == /\ platform \in {"serving", "stopping", "down"} /\ running \in Update \cup {Old, Nothing}
              /\ process \in Nat
AppOK      == app \in Program \cup {Nothing}
CommitsOK  == db \in 0..MaxCommits
ActiveOK   == active \in BOOLEAN /\ interrupted \in BOOLEAN
ImportsOK  == imports \in [Importer -> ImportPc]
StageOK    == pending \in Update \cup {Nothing} /\ stage \in [Update -> {"none", "part", "whole"}]
HelpersOK  == helper \in [Helper -> HelperRow]
UpdateTypeInv ==
  /\ TrialOK /\ PlatformOK /\ AppOK /\ CommitsOK
  /\ ActiveOK /\ ImportsOK /\ StageOK /\ HelpersOK

\* These parts are the type invariant.
LEMMA UpdateTypes == UpdateTypeOK <=> UpdateTypeInv
BY DEF UpdateTypeOK, UpdateTypeInv, TrialOK, PlatformOK, AppOK, CommitsOK, ActiveOK, ImportsOK,
       StageOK, HelpersOK, HelperRow, HelperPc, ImportPc

Only(v)   == [w \in Update |-> IF w = v THEN "whole" ELSE "none"]
NoImports == \A i \in Importer : imports[i] = NoImport

\* What may be applied is all there is in the staging directory, and nobody writes there; an
\* import that writes has emptied it.
PendingIsStaged == pending # Nothing => NoImports /\ stage = Only(pending)
WritesAreAlone ==
  \A i \in Importer : /\ imports[i].pc # "idle" => imports[i].version \in Update
                      /\ imports[i].pc = "write"
                           => \A w \in Update : w # imports[i].version => stage[w] = "none"

\* A helper under way is one of the hand-overs, for a version; before, the old application serves.
OneHelper == \A h \in Helper : helper[h].pc # "none" => h \in trial.helpers /\ helper[h].version \in Update
Before ==
  (\A h \in Helper : helper[h].pc = "none") => platform = "serving" /\ process = 1 /\ app = Old

\* A helper that waits does so for the process that handed over to it, in which nothing is
\* active or imported any more.
WaitingIsQuiet ==
  \A h \in Helper : helper[h].pc = "wait" =>
    /\ helper[h].process = process /\ ~active /\ NoImports /\ stage = Only(helper[h].version)

\* The platform stops for a helper that waits, and nothing is active while it is down.
StoppedIsQuiet ==
  /\ ~interrupted /\ (platform = "stopping" => \E h \in Helper : helper[h].pc = "wait")
  /\ platform = "down" => ~active /\ NoImports /\ pending = Nothing

\* A helper works while the platform is down; what it copies is the version it was started for,
\* and the database does not change before the new application serves.
WorkIsUndisturbed ==
  \A h \in Helper :
    /\ helper[h].pc \in {"copy", "backup", "aside", "place", "start", "catch"} => platform = "down"
    /\ helper[h].pc = "copy" => stage = Only(helper[h].version)
    /\ helper[h].pc \in {"backup", "aside", "place"} => helper[h].next = helper[h].version
    /\ helper[h].pc \in {"aside", "place", "start"} => helper[h].backup = db
    /\ helper[h].pc = "health" => \/ platform = "down" /\ helper[h].backup = db
                                  \/ platform = "serving" /\ running = helper[h].version
    /\ helper[h].pc = "catch" /\ helper[h].old # Nothing => helper[h].backup = db

\* Where the old application is, and which one is in its place.
PlaceOfOld ==
  \A h \in Helper :
    /\ helper[h].pc \in {"wait", "copy", "backup", "aside"} => app = Old /\ helper[h].old = Nothing
    /\ helper[h].pc = "place" => app = Nothing /\ helper[h].old = Old
    /\ helper[h].pc \in {"start", "health", "updated"} => app = helper[h].version /\ helper[h].old = Old
    /\ helper[h].pc = "catch" => helper[h].old = Old \/ (helper[h].old = Nothing /\ app = Old)
    /\ helper[h].pc = "failed" => app = Old

UpdateInv ==
  /\ UpdateTypeInv /\ PendingIsStaged /\ WritesAreAlone /\ OneHelper /\ Before
  /\ WaitingIsQuiet /\ StoppedIsQuiet /\ WorkIsUndisturbed /\ PlaceOfOld

\* What is staged is the version that is pending.
LEMMA StagedVersion ==
  ASSUME NEW v \in Update, stage = Only(v)
  PROVE  Staged = v
<1>1. \A w \in Update : stage[w] = "whole" <=> w = v
  BY DEF Only
<1>2. \E w \in Update : stage = [u \in Update |-> IF u = w THEN "whole" ELSE "none"]
  BY DEF Only
<1>3. (CHOOSE w \in Update : stage[w] = "whole") = v
  BY <1>1
<1> QED
  BY <1>2, <1>3 DEF Staged

\* The properties follow.
LEMMA UpdateInvIsEnough ==
  UpdateInv => /\ UpdateTypeOK /\ AppSurvives /\ FailedUpdateKeepsOld
               /\ StagedIsWhole /\ UpdateInterruptsNothing
<1> SUFFICES ASSUME UpdateInv
             PROVE  /\ UpdateTypeOK /\ AppSurvives /\ FailedUpdateKeepsOld
                    /\ StagedIsWhole /\ UpdateInterruptsNothing
  OBVIOUS
<1>1. UpdateTypeOK
  BY UpdateTypes DEF UpdateInv
<1>2. AppSurvives
  <2>1. CASE \A h \in Helper : helper[h].pc = "none"
    BY <2>1, VersionsAssumption DEF UpdateInv, Before, AppSurvives
  <2>2. CASE \E h \in Helper : helper[h].pc # "none"
    <3>1. PICK h \in Helper : helper[h].pc # "none"
      BY <2>2
    <3>2. /\ helper[h].version \in Update /\ Old \notin {Nothing, Mixed}
          /\ Nothing \notin Update /\ Mixed \notin Update
      BY <3>1, VersionsAssumption DEF UpdateInv, OneHelper
    <3>3. helper[h].pc \in HelperPc
      BY DEF UpdateInv, UpdateTypeInv, HelpersOK, HelperRow
    <3>4. /\ helper[h].pc \in {"wait", "copy", "backup", "aside", "failed"} => app = Old
          /\ helper[h].pc = "place" => helper[h].old = Old
          /\ helper[h].pc \in {"start", "health", "updated"} => app = helper[h].version
          /\ helper[h].pc = "catch" => helper[h].old = Old \/ app = Old
      BY DEF UpdateInv, PlaceOfOld
    <3> QED
      BY <3>1, <3>2, <3>3, <3>4 DEF AppSurvives, HelperPc
  <2> QED
    BY <2>1, <2>2
<1>3. FailedUpdateKeepsOld
  BY DEF UpdateInv, PlaceOfOld, FailedUpdateKeepsOld
<1>4. StagedIsWhole
  BY StagedVersion DEF UpdateInv, UpdateTypeInv, StageOK, PendingIsStaged, StagedIsWhole
<1>5. UpdateInterruptsNothing
  BY DEF UpdateInv, StoppedIsQuiet, UpdateInterruptsNothing
<1> QED
  BY <1>1, <1>2, <1>3, <1>4, <1>5

\* An import writes the staging directory alone, and what may be applied is all there is in it.
LEMMA ImportKeepsStage ==
  ASSUME UpdateScope, ImportsOK, StageOK, PendingIsStaged, WritesAreAlone,
         NEW i \in Importer, BeginImport(i) \/ ClearStage(i) \/ Stage(i)
  PROVE  ImportsOK' /\ StageOK' /\ PendingIsStaged' /\ WritesAreAlone'
<1> USE DEF ImportsOK, StageOK
<1> DEFINE v == imports[i].version
<1>0. /\ imports \in [Importer -> ImportPc] /\ stage \in [Update -> {"none", "part", "whole"}]
      /\ pending \in Update \cup {Nothing} /\ Nothing \notin Update
      /\ \A j \in Importer : j = i
  BY VersionsAssumption DEF UpdateScope
<1>1. CASE BeginImport(i)
  <2>1. PICK w \in Update : imports' = [imports EXCEPT ![i] = [pc |-> "clear", version |-> w]]
    BY <1>1 DEF BeginImport
  <2>2. pending' = Nothing /\ stage' = stage
    BY <1>1 DEF BeginImport
  <2>3. imports' \in [Importer -> ImportPc]
    BY <1>0, <2>1 DEF ImportPc
  <2>4. WritesAreAlone'
    BY <1>0, <2>1, <2>2 DEF WritesAreAlone
  <2> QED
    BY <1>0, <2>2, <2>3, <2>4 DEF PendingIsStaged
<1>2. CASE ClearStage(i)
  <2>1. /\ imports[i].pc = "clear" /\ imports' = [imports EXCEPT ![i].pc = "write"]
        /\ stage' = [w \in Update |-> "none"] /\ pending' = pending
    BY <1>2 DEF ClearStage
  <2>2. pending = Nothing
    BY <2>1 DEF PendingIsStaged, NoImports, NoImport
  <2>3. /\ imports' \in [Importer -> ImportPc] /\ imports'[i].version = v /\ v \in Update
    BY <1>0, <2>1 DEF ImportPc, WritesAreAlone
  <2>4. WritesAreAlone'
    BY <1>0, <2>1, <2>3 DEF WritesAreAlone
  <2> QED
    BY <1>0, <2>1, <2>2, <2>3, <2>4 DEF PendingIsStaged
<1>3. CASE Stage(i)
  <2>1. /\ imports[i].pc = "write" /\ v \in Update
        /\ \A w \in Update : w # v => stage[w] = "none"
    BY <1>3 DEF Stage, WritesAreAlone
  <2>2. CASE stage' = [stage EXCEPT ![v] = "part"] /\ UNCHANGED <<imports, pending>>
    <3>1. stage' \in [Update -> {"none", "part", "whole"}] /\ \A w \in Update : w # v => stage'[w] = "none"
      BY <1>0, <2>1, <2>2
    <3>2. pending = Nothing
      BY <2>1 DEF PendingIsStaged, NoImports, NoImport
    <3> QED
      BY <1>0, <2>1, <2>2, <3>1, <3>2 DEF PendingIsStaged, WritesAreAlone
  <2>3. CASE /\ stage' = [stage EXCEPT ![v] = "whole"]
             /\ imports' = [imports EXCEPT ![i] = NoImport] /\ pending' = v
    <3>1. stage' = Only(v)
      BY <1>0, <2>1, <2>3 DEF Only
    <3>2. imports'[i] = NoImport /\ imports' \in [Importer -> ImportPc] /\ NoImport.pc = "idle"
      BY <1>0, <2>3 DEF NoImport, ImportPc
    <3>3. PendingIsStaged'
      BY <1>0, <2>3, <3>1, <3>2 DEF PendingIsStaged, NoImports, Only
    <3>4. WritesAreAlone'
      BY <1>0, <3>2 DEF WritesAreAlone
    <3> QED
      BY <2>1, <2>3, <3>1, <3>2, <3>3, <3>4 DEF Only
  <2> QED
    BY <1>3, <2>2, <2>3 DEF Stage
<1> QED
  BY <1>1, <1>2, <1>3

\* Imports are the business of one thread, while no helper waits or works.
LEMMA ImportKeepsUpdate ==
  ASSUME UpdateScope, UpdateInv, NEW i \in Importer, BeginImport(i) \/ ClearStage(i) \/ Stage(i)
  PROVE  UpdateInv'
<1>1. /\ UNCHANGED <<trial, platformVars, app, db, taskVars, helper>>
      /\ UNCHANGED <<platform, running, process, active, interrupted>>
  BY DEF BeginImport, ClearStage, Stage, platformVars, taskVars
<1>2. ImportsOK' /\ StageOK' /\ PendingIsStaged' /\ WritesAreAlone'
  BY ImportKeepsStage DEF UpdateInv, UpdateTypeInv

\* Whoever imports finds a platform that serves, and no helper that waits or copies.
<1>3. platform # "down" /\ \A h \in Helper : helper[h].pc \notin {"wait", "copy"}
  <2>1. CASE BeginImport(i)
    BY <2>1 DEF BeginImport, HandedOver, UpdateScope, UpdateInv, WorkIsUndisturbed
  <2>2. CASE ClearStage(i) \/ Stage(i)
    <3>1. ~NoImports
      BY <2>2 DEF ClearStage, Stage, NoImports, NoImport
    <3> QED
      BY <3>1 DEF UpdateInv, WaitingIsQuiet, StoppedIsQuiet, WorkIsUndisturbed
  <2> QED
    BY <2>1, <2>2
<1>4. UpdateTypeInv'
  BY <1>1, <1>2 DEF UpdateInv, UpdateTypeInv, TrialOK, PlatformOK, AppOK, CommitsOK, ActiveOK,
     ImportsOK, StageOK, HelpersOK
<1>5. OneHelper' /\ Before' /\ PlaceOfOld'
  BY <1>1 DEF UpdateInv, OneHelper, Before, PlaceOfOld
<1>6. WaitingIsQuiet' /\ StoppedIsQuiet' /\ WorkIsUndisturbed'
  <2>1. WaitingIsQuiet' /\ WorkIsUndisturbed'
    BY <1>1, <1>3 DEF UpdateInv, WaitingIsQuiet, WorkIsUndisturbed
  <2>2. StoppedIsQuiet'
    BY <1>1, <1>3 DEF UpdateInv, StoppedIsQuiet
  <2> QED
    BY <2>1, <2>2
<1> QED
  BY <1>2, <1>4, <1>5, <1>6 DEF UpdateInv

\* Users change the database while the platform serves, and while no helper waits.
LEMMA TasksKeepUpdate ==
  ASSUME UpdateScope, UpdateInv, CreateTask \/ EndTask
  PROVE  UpdateInv'
<1>1. /\ UNCHANGED <<trial, platform, running, process, app, interrupted, imports, pending, stage, helper>>
      /\ platform = "serving" /\ active' \in BOOLEAN
  BY DEF CreateTask, EndTask, platformVars, stageVars
<1>2. db' \in 0..MaxCommits
  <2>1. CASE CreateTask
    <3>1. db \in 0..MaxCommits /\ db < MaxCommits /\ db' = db + 1 /\ MaxCommits \in Nat
      BY <2>1, TrialsAssumption DEF CreateTask, UpdateInv, UpdateTypeInv, CommitsOK
    <3> QED
      BY <3>1
  <2>2. CASE EndTask
    BY <2>2 DEF EndTask, UpdateInv, UpdateTypeInv, CommitsOK
  <2> QED
    BY <2>1, <2>2
<1>3. \A h \in Helper : helper[h].pc = "wait" => ~active'
  BY DEF CreateTask, EndTask, HandedOver, UpdateScope
<1>4. UpdateTypeInv'
  BY <1>1, <1>2 DEF UpdateInv, UpdateTypeInv, TrialOK, PlatformOK, AppOK, CommitsOK, ActiveOK,
     ImportsOK, StageOK, HelpersOK
<1>5. OneHelper' /\ Before' /\ PlaceOfOld' /\ PendingIsStaged' /\ WritesAreAlone'
  BY <1>1 DEF UpdateInv, OneHelper, Before, PlaceOfOld, PendingIsStaged, WritesAreAlone, NoImports
<1>6. WaitingIsQuiet' /\ StoppedIsQuiet'
  BY <1>1, <1>3 DEF UpdateInv, WaitingIsQuiet, StoppedIsQuiet, NoImports
<1>7. WorkIsUndisturbed'
  BY <1>1 DEF UpdateInv, WorkIsUndisturbed
<1> QED
  BY <1>4, <1>5, <1>6, <1>7 DEF UpdateInv

\* The platform that goes down for a helper has nothing to end.
LEMMA DownKeepsUpdate ==
  ASSUME Alone, UpdateInv, ShutDown \/ ExitPlatform
  PROVE  UpdateInv'
<1>1. UNCHANGED <<trial, process, app, db, stage, helper>>
  BY DEF ShutDown, ExitPlatform, stageVars
<1>2. PICK h \in Helper : helper[h].pc = "wait"
  BY DEF ShutDown, ExitPlatform, UpdateInv, StoppedIsQuiet
<1>3. /\ ~active /\ ~interrupted /\ NoImports
      /\ \A k \in Helper : helper[k].pc # "none" => k = h
  <2>1. h \in trial.helpers /\ \A k \in Helper : helper[k].pc # "none" => k \in trial.helpers
    BY <1>2 DEF UpdateInv, OneHelper
  <2>2. \A k \in trial.helpers : k = h
    BY <2>1 DEF Alone
  <2> QED
    BY <1>2, <2>1, <2>2 DEF UpdateInv, WaitingIsQuiet, StoppedIsQuiet
<1>4. /\ active' = FALSE /\ interrupted' = FALSE
      /\ platform' \in {"stopping", "down"} /\ running' \in {running, Nothing}
      /\ platform' = "down" => pending' = Nothing
      /\ pending' \in {pending, Nothing}
  BY <1>3 DEF ShutDown, ExitPlatform, Ended, taskVars, stageVars, UpdateInv, UpdateTypeInv, ActiveOK
<1>5. imports' = imports
  <2>1. CASE ShutDown
    BY <2>1 DEF ShutDown, stageVars
  <2>2. CASE ExitPlatform
    <3>1. imports' = [i \in Importer |-> NoImport] /\ imports \in [Importer -> ImportPc]
      BY <2>2 DEF ExitPlatform, Ended, UpdateInv, UpdateTypeInv, ImportsOK
    <3> QED
      BY <1>3, <3>1 DEF NoImports
  <2> QED
    BY <2>1, <2>2
<1>6. UpdateTypeInv'
  BY <1>1, <1>4, <1>5 DEF UpdateInv, UpdateTypeInv, TrialOK, PlatformOK, AppOK, CommitsOK, ActiveOK,
     ImportsOK, StageOK, HelpersOK
<1>7. OneHelper' /\ Before' /\ PlaceOfOld' /\ PendingIsStaged' /\ WritesAreAlone'
  <2>1. ~\A k \in Helper : helper[k].pc = "none"
    BY <1>2
  <2> QED
    BY <1>1, <1>4, <1>5, <2>1
       DEF UpdateInv, OneHelper, Before, PlaceOfOld, PendingIsStaged, WritesAreAlone, NoImports
<1>8. WaitingIsQuiet' /\ StoppedIsQuiet'
  BY <1>1, <1>2, <1>3, <1>4, <1>5 DEF UpdateInv, WaitingIsQuiet, StoppedIsQuiet, NoImports
<1>9. WorkIsUndisturbed'
  BY <1>1, <1>2, <1>3 DEF WorkIsUndisturbed
<1> QED
  BY <1>6, <1>7, <1>8, <1>9 DEF UpdateInv

\* What must hold of the one helper that is under way.
Waits(r) ==
  r.pc = "wait" => r.process = process /\ ~active /\ NoImports /\ stage = Only(r.version)
Works(r) ==
  /\ r.pc \in {"copy", "backup", "aside", "place", "start", "catch"} => platform = "down"
  /\ r.pc = "copy" => stage = Only(r.version)
  /\ r.pc \in {"backup", "aside", "place"} => r.next = r.version
  /\ r.pc \in {"aside", "place", "start"} => r.backup = db
  /\ r.pc = "health" => \/ platform = "down" /\ r.backup = db
                        \/ platform = "serving" /\ running = r.version
  /\ r.pc = "catch" /\ r.old # Nothing => r.backup = db
Keeps(r) ==
  /\ r.pc \in {"wait", "copy", "backup", "aside"} => app = Old /\ r.old = Nothing
  /\ r.pc = "place" => app = Nothing /\ r.old = Old
  /\ r.pc \in {"start", "health", "updated"} => app = r.version /\ r.old = Old
  /\ r.pc = "catch" => r.old = Old \/ (r.old = Nothing /\ app = Old)
  /\ r.pc = "failed" => app = Old

\* The helper that moves is the only one.
LEMMA HelperRows ==
  ASSUME Alone, UpdateInv, NEW h \in trial.helpers,
         NEW new \in HelperRow, new.version \in Update, new.pc # "none",
         helper' = [helper EXCEPT ![h] = new], trial' = trial,
         Waits(new)', Works(new)', Keeps(new)'
  PROVE  HelpersOK' /\ OneHelper' /\ Before' /\ WaitingIsQuiet' /\ WorkIsUndisturbed' /\ PlaceOfOld'
<1>1. trial \in Trials /\ helper \in [Helper -> HelperRow] /\ trial.helpers \subseteq Helper
  BY TrialsAssumption DEF UpdateInv, UpdateTypeInv, TrialOK, HelpersOK
<1>2. h \in Helper /\ \A k \in Helper : k # h => helper[k].pc = "none"
  BY <1>1 DEF UpdateInv, OneHelper, Alone
<1>3. /\ helper' \in [Helper -> HelperRow] /\ helper'[h] = new
      /\ \A k \in Helper : k # h => helper'[k].pc = "none"
  BY <1>1, <1>2
<1>4. HelpersOK' /\ OneHelper' /\ Before'
  BY <1>2, <1>3 DEF HelpersOK, OneHelper, Before
<1>5. WaitingIsQuiet'
  BY <1>3 DEF WaitingIsQuiet, Waits
<1>6. WorkIsUndisturbed'
  BY <1>3 DEF WorkIsUndisturbed, Works
<1>7. PlaceOfOld'
  BY <1>3 DEF PlaceOfOld, Keeps
<1> QED
  BY <1>4, <1>5, <1>6, <1>7

\* The helper that is started waits, and the old application still serves.
LEMMA ApplyKeepsUpdate ==
  ASSUME Alone, UpdateInv, NEW h \in trial.helpers, Apply(h)
  PROVE  UpdateInv'
<1>1. /\ platform = "serving" /\ pending # Nothing /\ ~active /\ helper[h].pc = "none"
      /\ helper' = [helper EXCEPT ![h] = [NoHelper EXCEPT !.pc = "wait", !.version = pending,
                                                         !.process = process]]
      /\ UNCHANGED <<trial, platform, running, process, app, db, active, interrupted, imports, pending, stage>>
  BY DEF Apply, platformVars, taskVars, stageVars
<1>2. /\ pending \in Update /\ NoImports /\ stage = Only(pending) /\ process \in Nat
      /\ 0 \in 0..MaxCommits
  BY <1>1, TrialsAssumption DEF UpdateInv, UpdateTypeInv, StageOK, PlatformOK, PendingIsStaged
<1>3. app = Old
  <2>1. trial \in Trials /\ trial.helpers \subseteq Helper
    BY TrialsAssumption DEF UpdateInv, UpdateTypeInv, TrialOK
  <2>2. \A k \in Helper : helper[k].pc = "none"
    BY <1>1, <2>1 DEF UpdateInv, OneHelper, Alone
  <2> QED
    BY <2>2 DEF UpdateInv, Before
<1>4. PICK new \in HelperRow :
        /\ helper' = [helper EXCEPT ![h] = new]
        /\ new.pc = "wait" /\ new.version = pending /\ new.process = process /\ new.old = Nothing
  <2>1. [NoHelper EXCEPT !.pc = "wait", !.version = pending, !.process = process] \in HelperRow
    BY <1>2 DEF NoHelper, HelperRow, HelperPc
  <2>2. PICK row \in HelperRow : row = [NoHelper EXCEPT !.pc = "wait", !.version = pending, !.process = process]
    BY <2>1
  <2> QED
    BY <1>1, <2>2, <1>2 DEF NoHelper, HelperRow
<1>5. Waits(new)' /\ Works(new)' /\ Keeps(new)'
  BY <1>1, <1>2, <1>3, <1>4 DEF Waits, Works, Keeps, NoImports
<1>6. HelpersOK' /\ OneHelper' /\ Before' /\ WaitingIsQuiet' /\ WorkIsUndisturbed' /\ PlaceOfOld'
  BY <1>1, <1>2, <1>4, <1>5, HelperRows
<1>7. UpdateTypeInv'
  BY <1>1, <1>6 DEF UpdateInv, UpdateTypeInv, TrialOK, PlatformOK, AppOK, CommitsOK, ActiveOK,
     ImportsOK, StageOK
<1>8. PendingIsStaged' /\ WritesAreAlone' /\ StoppedIsQuiet'
  BY <1>1 DEF UpdateInv, PendingIsStaged, WritesAreAlone, StoppedIsQuiet, NoImports
<1> QED
  BY <1>6, <1>7, <1>8 DEF UpdateInv

\* Up to where the new application is started, a helper moves the application and nothing else;
\* an error leads to its catch block.
LEMMA MovesKeepUpdate ==
  ASSUME Alone, UpdateInv, NEW h \in trial.helpers,
         \/ WaitForExit(h) \/ CopyStage(h) \/ BackUp(h)
         \/ MoveAside(h) \/ MoveInPlace(h) \/ Health(h)
  PROVE  UpdateInv'
<1>1. /\ UNCHANGED <<trial, platform, running, process, db, active, interrupted, imports, pending, stage>>
      /\ helper[h].pc \in {"wait", "copy", "backup", "aside", "place", "health"}
  BY DEF WaitForExit, CopyStage, BackUp, MoveAside, MoveInPlace, Health, HelperAt, platformVars,
     taskVars, stageVars
<1>2. /\ h \in Helper /\ helper \in [Helper -> HelperRow] /\ helper[h] \in HelperRow
      /\ helper[h].version \in Update /\ db \in 0..MaxCommits /\ app \in Program \cup {Nothing}
  BY <1>1, TrialsAssumption
     DEF UpdateInv, UpdateTypeInv, TrialOK, HelpersOK, CommitsOK, AppOK, OneHelper
<1>3. Waits(helper[h]) /\ Works(helper[h]) /\ Keeps(helper[h])
  BY <1>2 DEF UpdateInv, WaitingIsQuiet, WorkIsUndisturbed, PlaceOfOld, Waits, Works, Keeps

\* The rows a step may leave: the helper in its catch block, or one step further.
<1>4. PICK failed \in HelperRow :
        /\ failed = [helper[h] EXCEPT !.pc = "catch"] /\ failed.pc = "catch"
        /\ failed.version = helper[h].version /\ failed.old = helper[h].old
        /\ failed.backup = helper[h].backup
  <2>1. [helper[h] EXCEPT !.pc = "catch"] \in HelperRow
    BY <1>2 DEF HelperRow, HelperPc
  <2>2. PICK row \in HelperRow : row = [helper[h] EXCEPT !.pc = "catch"]
    BY <2>1
  <2> QED
    BY <2>2, <1>2 DEF HelperRow
<1>5. Goto(h, "catch") => helper' = [helper EXCEPT ![h] = failed]
  BY <1>2, <1>4 DEF Goto
<1>6. PICK new \in HelperRow :
        /\ helper' = [helper EXCEPT ![h] = new] /\ new.version = helper[h].version
        /\ new.pc \notin {"none", "wait"} /\ Works(new)' /\ Keeps(new)'
        /\ app' \in Program \cup {Nothing}
  <2>1. CASE WaitForExit(h)
    <3>1. PICK copies \in HelperRow :
            /\ copies = [helper[h] EXCEPT !.pc = "copy"] /\ copies.pc = "copy"
            /\ copies.version = helper[h].version /\ copies.old = helper[h].old
      <4>1. [helper[h] EXCEPT !.pc = "copy"] \in HelperRow
        BY <1>2 DEF HelperRow, HelperPc
      <4>2. PICK row \in HelperRow : row = [helper[h] EXCEPT !.pc = "copy"]
        BY <4>1
      <4> QED
        BY <4>2, <1>2 DEF HelperRow
    <3>2. helper[h].pc = "wait" /\ helper' = [helper EXCEPT ![h] = copies] /\ app' = app
      BY <2>1, <1>2, <3>1 DEF WaitForExit, HelperAt, Goto
    <3>3. platform = "down"
      BY <2>1, <1>3, <3>2 DEF WaitForExit, Waits
    <3>4. Works(copies)' /\ Keeps(copies)'
      BY <1>1, <1>3, <3>1, <3>2, <3>3 DEF Waits, Works, Keeps
    <3> QED
      BY <1>2, <3>1, <3>2, <3>4
  <2>2. CASE CopyStage(h)
    <3>1. helper[h].pc = "copy" /\ app' = app
      BY <2>2 DEF CopyStage, HelperAt
    <3>2. Staged = helper[h].version
      BY <1>2, <1>3, <3>1, StagedVersion DEF Works
    <3>3. PICK copied \in HelperRow :
            /\ copied = [[helper[h] EXCEPT !.pc = "backup"] EXCEPT !.next = Staged]
            /\ copied.pc = "backup" /\ copied.version = helper[h].version
            /\ copied.old = helper[h].old /\ copied.next = helper[h].version
      <4>1. [[helper[h] EXCEPT !.pc = "backup"] EXCEPT !.next = Staged] \in HelperRow
        BY <1>2, <3>2 DEF HelperRow, HelperPc, Program
      <4>2. PICK row \in HelperRow : row = [[helper[h] EXCEPT !.pc = "backup"] EXCEPT !.next = Staged]
        BY <4>1
      <4> QED
        BY <4>2, <1>2, <3>2 DEF HelperRow
    <3>4. helper' = [helper EXCEPT ![h] = failed] \/ helper' = [helper EXCEPT ![h] = copied]
      BY <2>2, <1>2, <1>5, <3>3 DEF CopyStage, Throw
    <3>5. Works(failed)' /\ Keeps(failed)'
      BY <1>1, <1>3, <1>4, <3>1 DEF Works, Keeps
    <3>6. Works(copied)' /\ Keeps(copied)'
      BY <1>1, <1>3, <3>1, <3>3 DEF Works, Keeps
    <3> QED
      BY <1>2, <1>4, <3>1, <3>3, <3>4, <3>5, <3>6
  <2>3. CASE BackUp(h)
    <3>1. helper[h].pc = "backup" /\ app' = app
      BY <2>3 DEF BackUp, HelperAt
    <3>2. PICK copied \in HelperRow :
            /\ copied = [[helper[h] EXCEPT !.pc = "aside"] EXCEPT !.backup = db]
            /\ copied.pc = "aside" /\ copied.version = helper[h].version
            /\ copied.old = helper[h].old /\ copied.next = helper[h].next /\ copied.backup = db
      <4>1. [[helper[h] EXCEPT !.pc = "aside"] EXCEPT !.backup = db] \in HelperRow
        BY <1>2 DEF HelperRow, HelperPc
      <4>2. PICK row \in HelperRow : row = [[helper[h] EXCEPT !.pc = "aside"] EXCEPT !.backup = db]
        BY <4>1
      <4> QED
        BY <4>2, <1>2 DEF HelperRow
    <3>3. helper' = [helper EXCEPT ![h] = failed] \/ helper' = [helper EXCEPT ![h] = copied]
      BY <2>3, <1>2, <1>5, <3>2 DEF BackUp, Throw
    <3>4. Works(failed)' /\ Keeps(failed)'
      BY <1>1, <1>3, <1>4, <3>1 DEF Works, Keeps
    <3>5. Works(copied)' /\ Keeps(copied)'
      BY <1>1, <1>3, <3>1, <3>2 DEF Works, Keeps
    <3> QED
      BY <1>2, <1>4, <3>1, <3>2, <3>3, <3>4, <3>5
  <2>4. CASE MoveAside(h)
    <3>1. helper[h].pc = "aside" /\ app = Old
      BY <2>4, <1>3 DEF MoveAside, HelperAt, Keeps
    <3>2. PICK moved \in HelperRow :
            /\ moved = [[helper[h] EXCEPT !.pc = "place"] EXCEPT !.old = app]
            /\ moved.pc = "place" /\ moved.version = helper[h].version /\ moved.old = Old
            /\ moved.next = helper[h].next /\ moved.backup = helper[h].backup
      <4>1. [[helper[h] EXCEPT !.pc = "place"] EXCEPT !.old = app] \in HelperRow
        BY <1>2, <3>1 DEF HelperRow, HelperPc
      <4>2. PICK row \in HelperRow : row = [[helper[h] EXCEPT !.pc = "place"] EXCEPT !.old = app]
        BY <4>1
      <4> QED
        BY <4>2, <1>2, <3>1 DEF HelperRow
    <3>3. \/ helper' = [helper EXCEPT ![h] = failed] /\ app' = app
          \/ helper' = [helper EXCEPT ![h] = moved] /\ app' = Nothing
      BY <2>4, <1>2, <1>5, <3>2 DEF MoveAside, Throw
    <3>4. CASE helper' = [helper EXCEPT ![h] = failed] /\ app' = app
      <4>1. Works(failed)' /\ Keeps(failed)'
        BY <1>1, <1>3, <1>4, <3>1, <3>4 DEF Works, Keeps
      <4> QED
        BY <1>2, <1>4, <3>4, <4>1
    <3>5. CASE helper' = [helper EXCEPT ![h] = moved] /\ app' = Nothing
      <4>1. Works(moved)' /\ Keeps(moved)'
        BY <1>1, <1>3, <3>1, <3>2, <3>5 DEF Works, Keeps
      <4> QED
        BY <1>2, <3>2, <3>5, <4>1
    <3> QED
      BY <3>3, <3>4, <3>5
  <2>5. CASE MoveInPlace(h)
    <3>1. /\ helper[h].pc = "place" /\ app = Nothing /\ helper[h].old = Old
          /\ helper[h].next = helper[h].version
      BY <2>5, <1>3 DEF MoveInPlace, HelperAt, Works, Keeps
    <3>2. PICK moved \in HelperRow :
            /\ moved = [helper[h] EXCEPT !.pc = "start"]
            /\ moved.pc = "start" /\ moved.version = helper[h].version
            /\ moved.old = helper[h].old /\ moved.backup = helper[h].backup
      <4>1. [helper[h] EXCEPT !.pc = "start"] \in HelperRow
        BY <1>2 DEF HelperRow, HelperPc
      <4>2. PICK row \in HelperRow : row = [helper[h] EXCEPT !.pc = "start"]
        BY <4>1
      <4> QED
        BY <4>2, <1>2 DEF HelperRow
    <3>3. \/ helper' = [helper EXCEPT ![h] = failed] /\ app' = app
          \/ helper' = [helper EXCEPT ![h] = moved] /\ app' = helper[h].version
      BY <2>5, <1>2, <1>5, <3>1, <3>2 DEF MoveInPlace, Throw, Goto
    <3>4. CASE helper' = [helper EXCEPT ![h] = failed] /\ app' = app
      <4>1. Works(failed)' /\ Keeps(failed)'
        BY <1>1, <1>3, <1>4, <3>1, <3>4 DEF Works, Keeps
      <4> QED
        BY <1>2, <1>4, <3>4, <4>1
    <3>5. CASE helper' = [helper EXCEPT ![h] = moved] /\ app' = helper[h].version
      <4>1. Works(moved)' /\ Keeps(moved)'
        BY <1>1, <1>3, <3>1, <3>2, <3>5 DEF Works, Keeps
      <4>2. app' \in Program
        BY <1>2, <3>5 DEF Program
      <4> QED
        BY <1>2, <3>2, <3>5, <4>1, <4>2
    <3> QED
      BY <3>3, <3>4, <3>5
  <2>6. CASE Health(h)
    <3>1. helper[h].pc = "health" /\ app' = app /\ app = helper[h].version /\ helper[h].old = Old
      BY <2>6, <1>3 DEF Health, HelperAt, Keeps
    <3>2. PICK updated \in HelperRow :
            /\ updated = [helper[h] EXCEPT !.pc = "updated"]
            /\ updated.pc = "updated" /\ updated.version = helper[h].version
            /\ updated.old = helper[h].old
      <4>1. [helper[h] EXCEPT !.pc = "updated"] \in HelperRow
        BY <1>2 DEF HelperRow, HelperPc
      <4>2. PICK row \in HelperRow : row = [helper[h] EXCEPT !.pc = "updated"]
        BY <4>1
      <4> QED
        BY <4>2, <1>2 DEF HelperRow
    <3>3. \/ /\ platform # "serving" \/ running # helper[h].version
             /\ helper' = [helper EXCEPT ![h] = failed]
          \/ helper' = [helper EXCEPT ![h] = updated]
      BY <2>6, <1>2, <1>5, <3>2 DEF Health, Goto
    <3>4. CASE helper' = [helper EXCEPT ![h] = updated]
      <4>1. Works(updated)' /\ Keeps(updated)'
        BY <1>1, <1>3, <3>1, <3>2, <3>4 DEF Works, Keeps
      <4> QED
        BY <1>2, <3>1, <3>2, <3>4, <4>1
    <3>5. CASE /\ platform # "serving" \/ running # helper[h].version
               /\ helper' = [helper EXCEPT ![h] = failed]
      <4>1. platform = "down" /\ helper[h].backup = db
        BY <1>3, <3>1, <3>5 DEF Works
      <4>2. Works(failed)' /\ Keeps(failed)'
        BY <1>1, <1>3, <1>4, <3>1, <3>5, <4>1 DEF Works, Keeps
      <4> QED
        BY <1>2, <1>4, <3>1, <3>5, <4>2
    <3> QED
      BY <3>3, <3>4, <3>5
  <2> QED
    BY <2>1, <2>2, <2>3, <2>4, <2>5, <2>6
<1>7. Waits(new)'
  BY <1>6 DEF Waits
<1>8. HelpersOK' /\ OneHelper' /\ Before' /\ WaitingIsQuiet' /\ WorkIsUndisturbed' /\ PlaceOfOld'
  BY <1>1, <1>2, <1>6, <1>7, HelperRows
<1>9. UpdateTypeInv'
  BY <1>1, <1>6, <1>8 DEF UpdateInv, UpdateTypeInv, TrialOK, PlatformOK, AppOK, CommitsOK, ActiveOK,
     ImportsOK, StageOK
<1>10. PendingIsStaged' /\ WritesAreAlone'
  BY <1>1 DEF UpdateInv, PendingIsStaged, WritesAreAlone, NoImports
<1>11. StoppedIsQuiet'
  <2>1. CASE helper[h].pc = "wait"
    <3>1. WaitForExit(h)
      BY <2>1 DEF CopyStage, BackUp, MoveAside, MoveInPlace, Health, HelperAt
    <3>2. platform = "down"
      BY <2>1, <3>1, <1>3 DEF WaitForExit, Waits
    <3> QED
      BY <1>1, <3>2 DEF UpdateInv, StoppedIsQuiet, NoImports
  <2>2. CASE helper[h].pc # "wait"
    <3>1. platform # "stopping"
      BY <1>1, <1>3, <2>2 DEF Works
    <3> QED
      BY <1>1, <3>1 DEF UpdateInv, StoppedIsQuiet, NoImports
  <2> QED
    BY <2>1, <2>2
<1> QED
  BY <1>8, <1>9, <1>10, <1>11 DEF UpdateInv

\* A program is started while the platform is down: the new one, or the old one once it and its
\* database are back. Nothing is active then, and the database is the one that was copied.
LEMMA StartsKeepUpdate ==
  ASSUME Alone, UpdateInv, NEW h \in trial.helpers, StartApp(h) \/ RollBack(h)
  PROVE  UpdateInv' /\ db' = db
<1>1. trial' = trial /\ stage' = stage /\ helper[h].pc \in {"start", "catch"}
  BY DEF StartApp, RollBack, HelperAt
<1>2. /\ h \in Helper /\ helper \in [Helper -> HelperRow] /\ helper[h] \in HelperRow
      /\ helper[h].version \in Update /\ db \in 0..MaxCommits /\ app \in Program \cup {Nothing}
      /\ process \in Nat /\ running \in Update \cup {Old, Nothing}
      /\ interrupted = FALSE /\ active = FALSE /\ imports \in [Importer -> ImportPc] /\ NoImports
      /\ platform = "down" /\ pending = Nothing
  <2>1. /\ h \in Helper /\ helper \in [Helper -> HelperRow] /\ helper[h] \in HelperRow
        /\ helper[h].version \in Update
    BY <1>1, TrialsAssumption DEF UpdateInv, UpdateTypeInv, TrialOK, HelpersOK, OneHelper
  <2>2. platform = "down"
    BY <1>1, <2>1 DEF UpdateInv, WorkIsUndisturbed
  <2>3. /\ interrupted = FALSE /\ active = FALSE /\ NoImports /\ pending = Nothing
    BY <2>2 DEF UpdateInv, UpdateTypeInv, ActiveOK, StoppedIsQuiet
  <2> QED
    BY <2>1, <2>2, <2>3 DEF UpdateInv, UpdateTypeInv, PlatformOK, CommitsOK, AppOK, ImportsOK
<1>3. Works(helper[h]) /\ Keeps(helper[h])
  BY <1>2 DEF UpdateInv, WorkIsUndisturbed, PlaceOfOld, Works, Keeps
<1>4. Ended => active' = FALSE /\ interrupted' = FALSE /\ imports' = imports /\ pending' = Nothing
  BY <1>2 DEF Ended, NoImports

\* What changes of the platform: nothing, or a program that serves.
<1>5. PICK new \in HelperRow :
        /\ helper' = [helper EXCEPT ![h] = new] /\ new.version = helper[h].version
        /\ new.pc \in {"health", "catch", "failed"} /\ Works(new)' /\ Keeps(new)'
        /\ app' \in Program \cup {Nothing} /\ db' = db
        /\ \/ UNCHANGED <<platform, running, process, active, interrupted, imports, pending>>
           \/ /\ platform' = "serving" /\ running' \in Update \cup {Old} /\ process' = process + 1
              /\ active' = FALSE /\ interrupted' = FALSE /\ imports' = imports /\ pending' = Nothing
  <2>1. CASE StartApp(h)
    <3>1. /\ helper[h].pc = "start" /\ app' = app /\ app = helper[h].version
          /\ helper[h].old = Old /\ helper[h].backup = db /\ db' = db /\ app \notin {Nothing, Mixed}
      BY <2>1, <1>2, <1>3, VersionsAssumption DEF StartApp, HelperAt, Works, Keeps
    <3>2. CASE Throw(h, "launch") /\ UNCHANGED <<platformVars, taskVars, imports, pending>>
      <4>1. PICK failed \in HelperRow :
              /\ failed = [helper[h] EXCEPT !.pc = "catch"] /\ failed.pc = "catch"
              /\ failed.version = helper[h].version /\ failed.old = helper[h].old
              /\ failed.backup = helper[h].backup
        <5>1. [helper[h] EXCEPT !.pc = "catch"] \in HelperRow
          BY <1>2 DEF HelperRow, HelperPc
        <5>2. PICK row \in HelperRow : row = [helper[h] EXCEPT !.pc = "catch"]
          BY <5>1
        <5> QED
          BY <5>2, <1>2 DEF HelperRow
      <4>2. helper' = [helper EXCEPT ![h] = failed]
        BY <3>2, <1>2, <4>1 DEF Throw, Goto
      <4>3. UNCHANGED <<platform, running, process, active, interrupted, imports, pending>>
        BY <3>2 DEF platformVars, taskVars
      <4>4. Works(failed)' /\ Keeps(failed)'
        BY <1>2, <3>1, <4>1, <4>3 DEF Works, Keeps
      <4> QED
        BY <1>2, <3>1, <4>1, <4>2, <4>3, <4>4
    <3>3. CASE /\ ServeProgram(app)
               /\ helper' = [helper EXCEPT ![h].pc = "health", ![h].launched = process + 1]
      <4>1. PICK starts \in HelperRow :
              /\ starts = [[helper[h] EXCEPT !.pc = "health"] EXCEPT !.launched = process + 1]
              /\ starts.pc = "health" /\ starts.version = helper[h].version
              /\ starts.old = helper[h].old
        <5>1. process + 1 \in Nat
          BY <1>2
        <5>2. [[helper[h] EXCEPT !.pc = "health"] EXCEPT !.launched = process + 1] \in HelperRow
          BY <1>2, <5>1 DEF HelperRow, HelperPc
        <5>3. PICK row \in HelperRow :
                row = [[helper[h] EXCEPT !.pc = "health"] EXCEPT !.launched = process + 1]
          BY <5>2
        <5> QED
          BY <5>3, <1>2 DEF HelperRow
      <4>2. helper' = [helper EXCEPT ![h] = starts]
        BY <3>3, <1>2, <4>1
      <4>3. /\ platform' = "serving" /\ running' = app /\ process' = process + 1
            /\ active' = FALSE /\ interrupted' = FALSE /\ imports' = imports /\ pending' = Nothing
        BY <3>3, <1>4 DEF ServeProgram
      <4>4. Works(starts)' /\ Keeps(starts)'
        BY <3>1, <4>1, <4>3 DEF Works, Keeps
      <4> QED
        BY <1>2, <3>1, <4>1, <4>2, <4>3, <4>4
    <3>4. CASE /\ helper' = [helper EXCEPT ![h].pc = "health"]
               /\ UNCHANGED <<platformVars, taskVars, imports, pending>>
      <4>1. PICK unstarted \in HelperRow :
              /\ unstarted = [helper[h] EXCEPT !.pc = "health"] /\ unstarted.pc = "health"
              /\ unstarted.version = helper[h].version /\ unstarted.old = helper[h].old
              /\ unstarted.backup = helper[h].backup
        <5>1. [helper[h] EXCEPT !.pc = "health"] \in HelperRow
          BY <1>2 DEF HelperRow, HelperPc
        <5>2. PICK row \in HelperRow : row = [helper[h] EXCEPT !.pc = "health"]
          BY <5>1
        <5> QED
          BY <5>2, <1>2 DEF HelperRow
      <4>2. helper' = [helper EXCEPT ![h] = unstarted]
        BY <3>4, <1>2, <4>1
      <4>3. UNCHANGED <<platform, running, process, active, interrupted, imports, pending>>
        BY <3>4 DEF platformVars, taskVars
      <4>4. Works(unstarted)' /\ Keeps(unstarted)'
        BY <1>2, <3>1, <4>1, <4>3 DEF Works, Keeps
      <4> QED
        BY <1>2, <3>1, <4>1, <4>2, <4>3, <4>4
    <3> QED
      BY <2>1, <3>2, <3>3, <3>4 DEF StartApp
  <2>2. CASE RollBack(h)
    <3>1. helper[h].pc = "catch"
      BY <2>2 DEF RollBack, HelperAt
    <3>2. PICK failed \in HelperRow :
            /\ failed = [helper[h] EXCEPT !.pc = "failed"] /\ failed.pc = "failed"
            /\ failed.version = helper[h].version /\ failed.old = helper[h].old
      <4>1. [helper[h] EXCEPT !.pc = "failed"] \in HelperRow
        BY <1>2 DEF HelperRow, HelperPc
      <4>2. PICK row \in HelperRow : row = [helper[h] EXCEPT !.pc = "failed"]
        BY <4>1
      <4> QED
        BY <4>2, <1>2 DEF HelperRow
    <3>3. helper' = [helper EXCEPT ![h] = failed]
      BY <2>2, <1>2, <3>2 DEF RollBack, Goto
    <3>4. CASE helper[h].old = Nothing
      <4>1. /\ UNCHANGED <<platform, running, process, active, interrupted, imports, pending>>
            /\ app' = app /\ db' = db
        BY <2>2, <3>4 DEF RollBack, platformVars, taskVars
      <4>2. app = Old
        BY <1>3, <3>1, <3>4, VersionsAssumption DEF Keeps
      <4>3. Works(failed)' /\ Keeps(failed)'
        BY <3>2, <4>1, <4>2 DEF Works, Keeps
      <4> QED
        BY <1>2, <3>2, <3>3, <4>1, <4>3
    <3>5. CASE helper[h].old # Nothing
      <4>1. helper[h].old = Old /\ helper[h].backup = db
        BY <1>3, <3>1, <3>5 DEF Works, Keeps
      <4>2. app' = Old /\ db' = db
        BY <2>2, <3>5, <4>1 DEF RollBack
      <4>3. /\ platform' = "serving" /\ process' = process + 1 /\ running' = Old
            /\ active' = FALSE /\ interrupted' = FALSE /\ imports' = imports /\ pending' = Nothing
        BY <2>2, <1>2, <1>4, <3>5, <4>1 DEF RollBack
      <4>4. Works(failed)' /\ Keeps(failed)'
        BY <3>2, <4>2 DEF Works, Keeps
      <4> QED
        BY <1>2, <3>2, <3>3, <4>2, <4>3, <4>4 DEF Program
    <3> QED
      BY <3>4, <3>5
  <2> QED
    BY <2>1, <2>2
<1>6. Waits(new)'
  BY <1>5 DEF Waits
<1>7. HelpersOK' /\ OneHelper' /\ Before' /\ WaitingIsQuiet' /\ WorkIsUndisturbed' /\ PlaceOfOld'
  BY <1>1, <1>2, <1>5, <1>6, HelperRows
<1>8. PlatformOK' /\ ActiveOK' /\ ImportsOK' /\ StageOK'
  <2>1. process + 1 \in Nat
    BY <1>2
  <2>2. PlatformOK'
    BY <1>2, <1>5, <2>1 DEF PlatformOK
  <2>3. ActiveOK' /\ ImportsOK' /\ StageOK'
    BY <1>1, <1>2, <1>5 DEF ActiveOK, ImportsOK, StageOK, UpdateInv, UpdateTypeInv
  <2> QED
    BY <2>2, <2>3
<1>9. UpdateTypeInv'
  BY <1>1, <1>5, <1>7, <1>8 DEF UpdateInv, UpdateTypeInv, TrialOK, AppOK, CommitsOK
<1>10. PendingIsStaged' /\ WritesAreAlone' /\ StoppedIsQuiet'
  <2>1. pending' = Nothing /\ imports' = imports
    BY <1>2, <1>5
  <2>2. PendingIsStaged' /\ WritesAreAlone'
    BY <1>1, <2>1 DEF UpdateInv, PendingIsStaged, WritesAreAlone
  <2>3. interrupted' = FALSE /\ active' = FALSE /\ platform' # "stopping"
    BY <1>2, <1>5
  <2> QED
    BY <1>2, <2>1, <2>2, <2>3 DEF StoppedIsQuiet, NoImports
<1> QED
  BY <1>5, <1>7, <1>9, <1>10 DEF UpdateInv

\* At first the old application serves, and no update has begun.
LEMMA InitUpdate ==
  UpdateInit => UpdateInv
<1> SUFFICES ASSUME UpdateInit
             PROVE  UpdateInv
  OBVIOUS
<1> USE DEF UpdateInit
<1>1. 0 \in 0..MaxCommits /\ 1 \in Nat /\ 0 \in Nat
  BY TrialsAssumption
<1>2. NoHelper \in HelperRow /\ NoHelper.pc = "none"
  BY <1>1 DEF NoHelper, HelperRow, HelperPc
<1>3. NoImport \in ImportPc /\ NoImport.pc = "idle"
  BY DEF NoImport, ImportPc
<1>4. HelpersOK /\ ImportsOK /\ NoImports
  BY <1>2, <1>3 DEF HelpersOK, ImportsOK, NoImports
<1>5. TrialOK /\ PlatformOK /\ AppOK /\ CommitsOK /\ ActiveOK /\ StageOK
  BY <1>1 DEF TrialOK, PlatformOK, AppOK, CommitsOK, ActiveOK, StageOK, Program
<1>6. \A h \in Helper : helper[h].pc = "none"
  BY <1>2
<1>7. PendingIsStaged /\ WritesAreAlone
  BY <1>3 DEF PendingIsStaged, WritesAreAlone
<1>8. OneHelper /\ Before /\ WaitingIsQuiet /\ StoppedIsQuiet /\ WorkIsUndisturbed /\ PlaceOfOld
  BY <1>6 DEF OneHelper, Before, WaitingIsQuiet, StoppedIsQuiet, WorkIsUndisturbed, PlaceOfOld
<1> QED
  BY <1>4, <1>5, <1>7, <1>8 DEF UpdateInv, UpdateTypeInv

\* Every step keeps the invariant, and none takes back what users have changed: the database
\* that comes back is the one that was there.
LEMMA UpdateStep ==
  ASSUME UpdateScope, Alone, UpdateInv, [UpdateNext]_updateVars
  PROVE  UpdateInv' /\ CommitsStay
<1>1. db \in Nat
  BY TrialsAssumption DEF UpdateInv, UpdateTypeInv, CommitsOK
<1>2. db' = db \/ db' = db + 1 => CommitsStay
  BY <1>1 DEF CommitsStay
<1>3. ASSUME NEW i \in Importer, BeginImport(i) \/ ClearStage(i) \/ Stage(i)
      PROVE  UpdateInv' /\ db' = db
  BY <1>3, ImportKeepsUpdate DEF BeginImport, ClearStage, Stage
<1>4. ASSUME CreateTask \/ EndTask
      PROVE  UpdateInv' /\ (db' = db \/ db' = db + 1)
  BY <1>4, TasksKeepUpdate DEF CreateTask, EndTask
<1>5. ASSUME ShutDown \/ ExitPlatform
      PROVE  UpdateInv' /\ db' = db
  BY <1>5, DownKeepsUpdate DEF ShutDown, ExitPlatform
<1>6. ASSUME NEW h \in trial.helpers, Apply(h) \/ HelperStep(h)
      PROVE  UpdateInv' /\ db' = db
  <2>1. CASE Apply(h)
    BY <2>1, ApplyKeepsUpdate DEF Apply
  <2>2. CASE \/ WaitForExit(h) \/ CopyStage(h) \/ BackUp(h)
             \/ MoveAside(h) \/ MoveInPlace(h) \/ Health(h)
    <3>1. UpdateInv'
      BY <2>2, MovesKeepUpdate
    <3>2. db' = db
      BY <2>2 DEF WaitForExit, CopyStage, BackUp, MoveAside, MoveInPlace, Health
    <3> QED
      BY <3>1, <3>2
  <2>3. CASE StartApp(h) \/ RollBack(h)
    BY <2>3, StartsKeepUpdate
  <2> QED
    BY <1>6, <2>1, <2>2, <2>3 DEF HelperStep
<1>7. ASSUME UNCHANGED updateVars
      PROVE  UpdateInv' /\ db' = db
  <2>1. UNCHANGED <<trial, platform, running, process, app, db, active, interrupted, imports,
                    pending, stage, helper>>
    BY <1>7 DEF updateVars, platformVars, taskVars, stageVars
  <2>2. UpdateTypeInv'
    BY <2>1 DEF UpdateInv, UpdateTypeInv, TrialOK, PlatformOK, AppOK, CommitsOK, ActiveOK,
       ImportsOK, StageOK, HelpersOK
  <2>3. PendingIsStaged' /\ WritesAreAlone' /\ OneHelper' /\ Before'
    BY <2>1 DEF UpdateInv, PendingIsStaged, WritesAreAlone, OneHelper, Before, NoImports
  <2>4. WaitingIsQuiet' /\ StoppedIsQuiet' /\ PlaceOfOld'
    BY <2>1 DEF UpdateInv, WaitingIsQuiet, StoppedIsQuiet, PlaceOfOld, NoImports
  <2>5. WorkIsUndisturbed'
    BY <2>1 DEF UpdateInv, WorkIsUndisturbed
  <2> QED
    BY <2>1, <2>2, <2>3, <2>4, <2>5 DEF UpdateInv
<1> QED
  BY <1>2, <1>3, <1>4, <1>5, <1>6, <1>7 DEF UpdateNext

-----------------------------------------------------------------------------
(* Two hand-overs that meet: an application that can be started is left.     *)

\* No helper will find the platform down any more: it serves, every helper has been started,
\* and none waits for the server there is.
Final ==
  /\ platform = "serving" /\ \A h \in trial.helpers : helper[h].pc # "none"
  /\ \A h \in Helper : helper[h].pc = "wait" => helper[h].process # process
StageIsWhole == \E v \in Update : stage = Only(v)
Lone(h)      == \A k \in Helper : k # h => helper[k].pc = "none"
Moving       == {"copy", "backup", "aside", "place", "start"}

\* Nobody imports once a helper waits, until it is gone; so what it waits for is staged whole.
ImportsAreQuiet == ~NoImports => platform = "serving" /\ \A h \in Helper : helper[h].pc # "wait"
WaitingIsWhole ==
  \A h \in Helper : helper[h].pc = "wait" => helper[h].process <= process /\ StageIsWhole

\* A helper at work finds the platform down, unless another one has started it again.
LoneHelper ==
  \A h \in Helper : Lone(h) => /\ helper[h].pc \in Moving => platform = "down"
                               /\ helper[h].pc = "wait" => helper[h].process = process

NeverMixedAside ==
  \A h \in Helper : helper[h].old # Mixed /\ (helper[h].pc = "none" => helper[h].old = Nothing)
NeverMixed == app # Mixed /\ NeverMixedAside

\* A helper that may still move the application away has a whole one to put in its place; one
\* whose copy may be mixed comes too late for that.
CopyIsWhole ==
  \A h \in Helper :
    /\ helper[h].pc = "copy" => StageIsWhole \/ Final
    /\ helper[h].pc \in {"backup", "aside"} => helper[h].next \in Update \/ Final
    /\ helper[h].pc = "place" => helper[h].next \in Update

AppInv ==
  /\ UpdateTypeInv /\ PendingIsStaged /\ WritesAreAlone /\ OneHelper /\ ImportsAreQuiet
  /\ WaitingIsWhole /\ LoneHelper /\ CopyIsWhole /\ NeverMixed /\ AppSurvives

\* Whoever imports finds no helper that waits; one that copies at that time comes too late, for
\* it has not been the last.
LEMMA ImportKeepsApp ==
  ASSUME UpdateScope, AppInv, NEW i \in Importer, BeginImport(i) \/ ClearStage(i) \/ Stage(i)
  PROVE  AppInv'
<1>1. UNCHANGED <<trial, platform, running, process, app, db, active, interrupted, helper>>
  BY DEF BeginImport, ClearStage, Stage, platformVars, taskVars
<1>2. ImportsOK' /\ StageOK' /\ PendingIsStaged' /\ WritesAreAlone'
  BY ImportKeepsStage DEF AppInv, UpdateTypeInv
<1>3. platform = "serving" /\ \A h \in Helper : helper[h].pc # "wait"
  <2>1. CASE BeginImport(i)
    BY <2>1 DEF BeginImport, HandedOver, UpdateScope
  <2>2. CASE ClearStage(i) \/ Stage(i)
    <3>1. ~NoImports
      BY <2>2 DEF ClearStage, Stage, NoImports, NoImport
    <3> QED
      BY <3>1 DEF AppInv, ImportsAreQuiet
  <2> QED
    BY <2>1, <2>2
<1>4. ASSUME NEW h \in Helper, helper[h].pc = "copy"
      PROVE  Final
  <2>1. PICK k \in Helper : k # h /\ helper[k].pc # "none"
    BY <1>3, <1>4 DEF AppInv, LoneHelper, Lone, Moving
  <2>2. h \in trial.helpers /\ k \in trial.helpers
    BY <1>4, <2>1 DEF AppInv, OneHelper
  <2>3. \A l \in trial.helpers : l = h \/ l = k
    BY <2>1, <2>2 DEF UpdateScope, AppInv, UpdateTypeInv, TrialOK
  <2> QED
    BY <1>3, <1>4, <2>1, <2>3 DEF Final
<1>5. UpdateTypeInv'
  BY <1>1, <1>2 DEF AppInv, UpdateTypeInv, TrialOK, PlatformOK, AppOK, CommitsOK, ActiveOK, HelpersOK
<1>6. OneHelper' /\ NeverMixed' /\ AppSurvives' /\ LoneHelper'
  BY <1>1 DEF AppInv, OneHelper, NeverMixed, NeverMixedAside, AppSurvives, LoneHelper, Lone
<1>7. ImportsAreQuiet' /\ WaitingIsWhole'
  BY <1>1, <1>3 DEF ImportsAreQuiet, WaitingIsWhole
<1>8. CopyIsWhole'
  BY <1>1, <1>4 DEF AppInv, CopyIsWhole, Final
<1> QED
  BY <1>2, <1>5, <1>6, <1>7, <1>8 DEF AppInv

\* Tasks, and a platform that goes down for a helper that waits for it.
LEMMA PlatformKeepsApp ==
  ASSUME AppInv, CreateTask \/ EndTask \/ ShutDown \/ ExitPlatform
  PROVE  AppInv'
<1>1. UNCHANGED <<trial, process, app, stage, helper>> /\ (ExitPlatform \/ imports' = imports)
  BY DEF CreateTask, EndTask, ShutDown, ExitPlatform, platformVars, stageVars
<1>2. \/ (CreateTask \/ EndTask) /\ UNCHANGED <<platform, running, imports, pending, interrupted>>
      \/ /\ ShutDown /\ platform' = "stopping" /\ platform = "serving"
         /\ UNCHANGED <<running, imports, pending, active, interrupted, db>>
      \/ /\ ExitPlatform /\ platform' = "down" /\ platform = "stopping" /\ running' = Nothing
         /\ imports' = [i \in Importer |-> NoImport] /\ pending' = Nothing /\ db' = db
         /\ active' = FALSE /\ interrupted' = (interrupted \/ active)
  BY DEF CreateTask, EndTask, ShutDown, ExitPlatform, Ended, platformVars, stageVars, taskVars
<1>3. CommitsOK'
  <2>1. CASE CreateTask
    <3>1. db \in 0..MaxCommits /\ db < MaxCommits /\ db' = db + 1 /\ MaxCommits \in Nat
      BY <2>1, TrialsAssumption DEF CreateTask, AppInv, UpdateTypeInv, CommitsOK
    <3> QED
      BY <3>1 DEF CommitsOK
  <2>2. CASE EndTask \/ ShutDown \/ ExitPlatform
    BY <2>2 DEF EndTask, ShutDown, ExitPlatform, AppInv, UpdateTypeInv, CommitsOK
  <2> QED
    BY <2>1, <2>2
<1>4. ActiveOK'
  BY <1>2 DEF CreateTask, EndTask, AppInv, UpdateTypeInv, ActiveOK
<1>5. NoImport \in ImportPc /\ NoImport.pc = "idle"
  BY DEF NoImport, ImportPc
<1>6. ImportsOK' /\ PlatformOK' /\ StageOK'
  BY <1>1, <1>2, <1>5 DEF AppInv, UpdateTypeInv, ImportsOK, PlatformOK, StageOK
<1>7. UpdateTypeInv'
  BY <1>1, <1>3, <1>4, <1>6 DEF AppInv, UpdateTypeInv, TrialOK, AppOK, HelpersOK
<1>8. PendingIsStaged' /\ WritesAreAlone'
  <2>1. \/ imports' = imports /\ pending' = pending
        \/ pending' = Nothing /\ NoImports'
    BY <1>2 DEF NoImports
  <2>2. NoImports' => WritesAreAlone'
    BY <1>5 DEF NoImports, WritesAreAlone
  <2>3. imports' = imports => WritesAreAlone'
    BY <1>1 DEF AppInv, WritesAreAlone
  <2>4. PendingIsStaged'
    BY <1>1, <2>1 DEF AppInv, PendingIsStaged, NoImports
  <2> QED
    BY <2>1, <2>2, <2>3, <2>4
<1>9. OneHelper' /\ NeverMixed' /\ AppSurvives' /\ WaitingIsWhole'
  BY <1>1 DEF AppInv, OneHelper, NeverMixed, NeverMixedAside, AppSurvives, WaitingIsWhole,
              StageIsWhole
<1>10. ImportsAreQuiet'
  <2>1. CASE ShutDown
    <3>1. NoImports
      BY <2>1 DEF ShutDown, AppInv, ImportsAreQuiet
    <3> QED
      BY <1>1, <2>1, <3>1 DEF ImportsAreQuiet, NoImports, ShutDown, stageVars
  <2>2. CASE ExitPlatform
    <3>1. NoImports'
      BY <2>2 DEF ExitPlatform, Ended, NoImports
    <3> QED
      BY <3>1 DEF ImportsAreQuiet
  <2>3. CASE CreateTask \/ EndTask
    BY <1>1, <2>3 DEF CreateTask, EndTask, AppInv, ImportsAreQuiet, NoImports, platformVars, stageVars
  <2> QED
    BY <2>1, <2>2, <2>3
<1>11. LoneHelper'
  <2>1. platform = "down" => platform' = "down"
    BY <1>2 DEF CreateTask, EndTask
  <2> QED
    BY <1>1, <2>1 DEF AppInv, LoneHelper, Lone
<1>12. CopyIsWhole'
  <2>1. Final => Final'
    <3>1. Final => ~ShutDown /\ ~ExitPlatform
      BY DEF Final, ShutDown, ExitPlatform
    <3>2. Final => platform' = platform
      BY <1>2, <3>1
    <3> QED
      BY <1>1, <3>2 DEF Final
  <2> QED
    BY <1>1, <2>1 DEF AppInv, CopyIsWhole, StageIsWhole
<1> QED
  BY <1>7, <1>8, <1>9, <1>10, <1>11, <1>12 DEF AppInv

\* What must hold of the row that a helper leaves.
RowFits(h, new) ==
  /\ new.pc # "none" /\ new.version \in Update /\ new.old # Mixed
  /\ new.pc = "wait" => /\ helper[h].pc = "none" /\ new.process = process
                        /\ NoImports /\ StageIsWhole
  /\ new.pc \in Moving /\ Lone(h) => platform = "down"
  /\ new.pc = "copy" => StageIsWhole \/ Final
  /\ new.pc \in {"backup", "aside"} => new.next \in Update \/ Final
  /\ new.pc = "place" => new.next \in Update

\* It is enough while the platform stays as it is.
LEMMA AppRows ==
  ASSUME AppInv, NEW h \in trial.helpers, NEW new \in HelperRow,
         helper' = [helper EXCEPT ![h] = new], RowFits(h, new),
         UNCHANGED <<trial, platform, process, imports, pending, stage>>
  PROVE  /\ HelpersOK' /\ OneHelper' /\ ImportsAreQuiet' /\ WaitingIsWhole'
         /\ LoneHelper' /\ CopyIsWhole' /\ NeverMixedAside'
<1> USE DEF RowFits
<1>1. /\ trial \in Trials /\ helper \in [Helper -> HelperRow] /\ trial.helpers \subseteq Helper
      /\ process \in Nat
  BY TrialsAssumption DEF AppInv, UpdateTypeInv, TrialOK, HelpersOK, PlatformOK
<1>2. /\ h \in Helper /\ helper' \in [Helper -> HelperRow] /\ helper'[h] = new
      /\ \A k \in Helper : k # h => helper'[k] = helper[k]
  BY <1>1
<1>3. HelpersOK' /\ OneHelper'
  BY <1>2 DEF HelpersOK, OneHelper, AppInv
<1>4. ImportsAreQuiet'
  BY <1>2 DEF ImportsAreQuiet, AppInv, NoImports
<1>5. WaitingIsWhole'
  <2>1. process <= process
    BY <1>1
  <2> QED
    BY <1>2, <2>1 DEF WaitingIsWhole, AppInv, StageIsWhole
<1>6. LoneHelper'
  <2>1. ASSUME NEW k \in Helper, k # h
        PROVE  ~Lone(k)'
    BY <1>2, <2>1 DEF Lone
  <2>2. Lone(h)' => Lone(h)
    BY <1>2 DEF Lone
  <2> QED
    BY <1>2, <2>1, <2>2 DEF LoneHelper
<1>7. CopyIsWhole'
  <2>1. Final => Final'
    BY <1>1, <1>2 DEF Final
  <2>2. StageIsWhole' = StageIsWhole
    BY DEF StageIsWhole
  <2> QED
    BY <1>2, <2>1, <2>2 DEF AppInv, CopyIsWhole
<1>8. NeverMixedAside'
  BY <1>2 DEF AppInv, NeverMixed, NeverMixedAside
<1> QED
  BY <1>3, <1>4, <1>5, <1>6, <1>7, <1>8

\* A helper that is started, or moves the application while it leaves the platform alone.
LEMMA MovesKeepApp ==
  ASSUME AppInv, NEW h \in trial.helpers,
         \/ Apply(h) \/ WaitForExit(h) \/ CopyStage(h) \/ BackUp(h)
         \/ MoveAside(h) \/ MoveInPlace(h) \/ Health(h)
  PROVE  AppInv'
<1>1. UNCHANGED <<trial, platform, running, process, db, active, interrupted, imports, pending, stage>>
  BY DEF Apply, WaitForExit, CopyStage, BackUp, MoveAside, MoveInPlace, Health, platformVars,
     taskVars, stageVars
<1>2. /\ h \in Helper /\ helper \in [Helper -> HelperRow] /\ helper[h] \in HelperRow
      /\ db \in 0..MaxCommits /\ 0 \in 0..MaxCommits /\ app \in Program \cup {Nothing}
      /\ process \in Nat /\ app # Mixed /\ helper[h].old # Mixed
      /\ helper[h].pc # "none" => helper[h].version \in Update
      /\ helper[h].pc = "none" => helper[h].old = Nothing
  BY TrialsAssumption
     DEF AppInv, UpdateTypeInv, TrialOK, HelpersOK, CommitsOK, AppOK, PlatformOK, NeverMixed,
         NeverMixedAside, OneHelper
<1>3. Goto(h, "catch") => /\ helper' = [helper EXCEPT ![h] = helper'[h]] /\ helper'[h] \in HelperRow
                          /\ helper'[h].pc = "catch" /\ helper'[h].version = helper[h].version
                          /\ helper'[h].old = helper[h].old
  BY <1>2 DEF Goto, HelperRow, HelperPc

\* A row that fits is enough where the application stays where it was.
<1>4. ASSUME NEW new \in HelperRow, helper' = [helper EXCEPT ![h] = new], RowFits(h, new),
             app' \in Program \cup {Nothing}, app' # Mixed,
             \/ app' # Nothing
             \/ new.old # Nothing /\ new.pc # "failed"
             \/ app' = app /\ helper[h].old \in {new.old, Nothing} /\ new.pc # "failed"
      PROVE  AppInv'
  <2>1. /\ HelpersOK' /\ OneHelper' /\ ImportsAreQuiet' /\ WaitingIsWhole'
        /\ LoneHelper' /\ CopyIsWhole' /\ NeverMixedAside'
    BY <1>1, <1>4, AppRows
  <2>2. UpdateTypeInv'
    BY <1>1, <1>4, <2>1 DEF AppInv, UpdateTypeInv, TrialOK, PlatformOK, AppOK, CommitsOK, ActiveOK,
       ImportsOK, StageOK
  <2>3. PendingIsStaged' /\ WritesAreAlone'
    BY <1>1 DEF AppInv, PendingIsStaged, WritesAreAlone, NoImports
  <2>4. helper'[h] = new /\ \A k \in Helper : k # h => helper'[k] = helper[k]
    BY <1>2, <1>4
  <2>5. AppSurvives'
    BY <1>2, <1>4, <2>4 DEF AppInv, AppSurvives
  <2> QED
    BY <1>4, <2>1, <2>2, <2>3, <2>5 DEF AppInv, NeverMixed

\* An error leads to the catch block.
<1>5. ASSUME Goto(h, "catch"), app' = app, helper[h].pc # "none"
      PROVE  AppInv'
  <2>1. PICK new \in HelperRow : new = helper'[h]
    BY <1>3, <1>5
  <2>2. new.pc = "catch" /\ new.version = helper[h].version /\ new.old = helper[h].old
    BY <1>3, <1>5, <2>1
  <2>3. RowFits(h, new)
    BY <1>2, <1>5, <2>2 DEF RowFits, Moving
  <2> QED
    BY <1>2, <1>3, <1>4, <1>5, <2>1, <2>2, <2>3
<1>6. CASE Apply(h)
  <2>1. /\ helper' = [helper EXCEPT ![h] = [NoHelper EXCEPT !.pc = "wait", !.version = pending,
                                                           !.process = process]]
        /\ helper[h].pc = "none" /\ pending # Nothing /\ app' = app /\ pending \in Update
    BY <1>6 DEF Apply, AppInv, UpdateTypeInv, StageOK
  <2>2. [NoHelper EXCEPT !.pc = "wait", !.version = pending, !.process = process] \in HelperRow
    BY <1>2, <2>1 DEF NoHelper, HelperRow, HelperPc
  <2>3. PICK new \in HelperRow :
          new = [NoHelper EXCEPT !.pc = "wait", !.version = pending, !.process = process]
    BY <2>2
  <2>4. new.pc = "wait" /\ new.version = pending /\ new.process = process /\ new.old = Nothing
    BY <2>3 DEF NoHelper
  <2>5. NoImports /\ StageIsWhole
    BY <2>1 DEF AppInv, PendingIsStaged, StageIsWhole
  <2>6. RowFits(h, new)
    BY <2>1, <2>4, <2>5, VersionsAssumption DEF RowFits, Moving
  <2> QED
    BY <1>2, <1>4, <2>1, <2>3, <2>4, <2>6
<1>7. CASE WaitForExit(h)
  <2>1. /\ helper[h].pc = "wait" /\ app' = app
        /\ (platform = "down" \/ process # helper[h].process)
        /\ helper' = [helper EXCEPT ![h].pc = "copy"]
    BY <1>7 DEF WaitForExit, HelperAt, Goto
  <2>2. [helper[h] EXCEPT !.pc = "copy"] \in HelperRow
    BY <1>2 DEF HelperRow, HelperPc
  <2>3. PICK new \in HelperRow : new = [helper[h] EXCEPT !.pc = "copy"]
    BY <2>2
  <2>4. new.pc = "copy" /\ new.version = helper[h].version /\ new.old = helper[h].old
    BY <1>2, <2>3 DEF HelperRow
  <2>5. StageIsWhole /\ (Lone(h) => process = helper[h].process)
    BY <1>2, <2>1 DEF AppInv, WaitingIsWhole, LoneHelper
  <2>6. RowFits(h, new)
    BY <1>2, <2>1, <2>4, <2>5 DEF RowFits
  <2>7. helper' = [helper EXCEPT ![h] = new]
    BY <1>2, <2>1, <2>3
  <2> QED
    BY <1>2, <1>4, <2>1, <2>4, <2>6, <2>7
<1>8. CASE CopyStage(h)
  <2>1. helper[h].pc = "copy" /\ app' = app
    BY <1>8 DEF CopyStage, HelperAt
  <2>2. CASE Throw(h, "copy")
    BY <1>5, <2>1, <2>2 DEF Throw
  <2>3. CASE helper' = [helper EXCEPT ![h].pc = "backup", ![h].next = Staged]
    <3>1. StageIsWhole => Staged \in Update
      BY StagedVersion DEF StageIsWhole
    <3>2. Staged \in Program
      BY DEF Staged, Program
    <3>3. [[helper[h] EXCEPT !.pc = "backup"] EXCEPT !.next = Staged] \in HelperRow
      BY <1>2, <3>2 DEF HelperRow, HelperPc
    <3>4. PICK new \in HelperRow : new = [[helper[h] EXCEPT !.pc = "backup"] EXCEPT !.next = Staged]
      BY <3>3
    <3>5. /\ new.pc = "backup" /\ new.version = helper[h].version /\ new.old = helper[h].old
          /\ new.next = Staged
      BY <1>2, <3>4 DEF HelperRow
    <3>6. StageIsWhole \/ Final
      BY <1>2, <2>1 DEF AppInv, CopyIsWhole
    <3>7. Lone(h) => platform = "down"
      BY <1>2, <2>1 DEF AppInv, LoneHelper, Moving
    <3>8. RowFits(h, new)
      BY <1>2, <2>1, <3>1, <3>5, <3>6, <3>7 DEF RowFits
    <3>9. helper' = [helper EXCEPT ![h] = new]
      BY <1>2, <2>3, <3>4
    <3> QED
      BY <1>2, <1>4, <2>1, <3>5, <3>8, <3>9
  <2> QED
    BY <1>8, <2>2, <2>3 DEF CopyStage
<1>9. CASE BackUp(h)
  <2>1. helper[h].pc = "backup" /\ app' = app
    BY <1>9 DEF BackUp, HelperAt
  <2>2. CASE Throw(h, "copy")
    BY <1>5, <2>1, <2>2 DEF Throw
  <2>3. CASE helper' = [helper EXCEPT ![h].pc = "aside", ![h].backup = db]
    <3>1. [[helper[h] EXCEPT !.pc = "aside"] EXCEPT !.backup = db] \in HelperRow
      BY <1>2 DEF HelperRow, HelperPc
    <3>2. PICK new \in HelperRow : new = [[helper[h] EXCEPT !.pc = "aside"] EXCEPT !.backup = db]
      BY <3>1
    <3>3. /\ new.pc = "aside" /\ new.version = helper[h].version /\ new.old = helper[h].old
          /\ new.next = helper[h].next
      BY <1>2, <3>2 DEF HelperRow
    <3>4. /\ helper[h].next \in Update \/ Final
          /\ Lone(h) => platform = "down"
      BY <1>2, <2>1 DEF AppInv, CopyIsWhole, LoneHelper, Moving
    <3>5. RowFits(h, new)
      BY <1>2, <2>1, <3>3, <3>4 DEF RowFits
    <3>6. helper' = [helper EXCEPT ![h] = new]
      BY <1>2, <2>3, <3>2
    <3> QED
      BY <1>2, <1>4, <2>1, <3>3, <3>5, <3>6
  <2> QED
    BY <1>9, <2>2, <2>3 DEF BackUp

\* The platform is down, so the copy was whole.
<1>10. CASE MoveAside(h)
  <2>1. helper[h].pc = "aside"
    BY <1>10 DEF MoveAside, HelperAt
  <2>2. CASE Goto(h, "catch") /\ app' = app
    BY <1>5, <2>1, <2>2
  <2>3. CASE /\ app # Nothing /\ platform = "down" /\ app' = Nothing
             /\ helper' = [helper EXCEPT ![h].pc = "place", ![h].old = app]
    <3>1. [[helper[h] EXCEPT !.pc = "place"] EXCEPT !.old = app] \in HelperRow
      BY <1>2 DEF HelperRow, HelperPc
    <3>2. PICK new \in HelperRow : new = [[helper[h] EXCEPT !.pc = "place"] EXCEPT !.old = app]
      BY <3>1
    <3>3. /\ new.pc = "place" /\ new.version = helper[h].version /\ new.old = app
          /\ new.next = helper[h].next
      BY <1>2, <3>2 DEF HelperRow
    <3>4. helper[h].next \in Update
      BY <1>2, <2>1, <2>3 DEF AppInv, CopyIsWhole, Final
    <3>5. RowFits(h, new)
      BY <1>2, <2>1, <2>3, <3>3, <3>4 DEF RowFits
    <3>6. helper' = [helper EXCEPT ![h] = new]
      BY <1>2, <2>3, <3>2
    <3> QED
      BY <1>2, <1>4, <2>3, <3>3, <3>5, <3>6, VersionsAssumption
  <2> QED
    BY <1>10, <2>2, <2>3 DEF MoveAside, Throw
<1>11. CASE MoveInPlace(h)
  <2>1. helper[h].pc = "place" /\ helper[h].next \in Update
    BY <1>2, <1>11 DEF MoveInPlace, HelperAt, AppInv, CopyIsWhole
  <2>2. CASE Throw(h, "place") /\ UNCHANGED app
    BY <1>5, <2>1, <2>2 DEF Throw
  <2>3. CASE app' = (IF app = Nothing THEN helper[h].next ELSE app) /\ Goto(h, "start")
    <3>1. [helper[h] EXCEPT !.pc = "start"] \in HelperRow
      BY <1>2 DEF HelperRow, HelperPc
    <3>2. PICK new \in HelperRow : new = [helper[h] EXCEPT !.pc = "start"]
      BY <3>1
    <3>3. new.pc = "start" /\ new.version = helper[h].version /\ new.old = helper[h].old
      BY <1>2, <3>2 DEF HelperRow
    <3>4. app' \in Program /\ app' \notin {Nothing, Mixed}
      BY <1>2, <2>1, <2>3, VersionsAssumption DEF Program
    <3>5. Lone(h) => platform = "down"
      BY <1>2, <2>1 DEF AppInv, LoneHelper, Moving
    <3>6. RowFits(h, new)
      BY <1>2, <2>1, <3>3, <3>5 DEF RowFits
    <3>7. helper' = [helper EXCEPT ![h] = new]
      BY <1>2, <2>3, <3>2 DEF Goto
    <3> QED
      BY <1>4, <3>4, <3>6, <3>7
  <2> QED
    BY <1>11, <2>2, <2>3 DEF MoveInPlace
<1>12. CASE Health(h)
  <2>1. helper[h].pc = "health" /\ app' = app
    BY <1>12 DEF Health, HelperAt
  <2>2. CASE Goto(h, "catch")
    BY <1>5, <2>1, <2>2
  <2>3. CASE Goto(h, "updated")
    <3>1. [helper[h] EXCEPT !.pc = "updated"] \in HelperRow
      BY <1>2 DEF HelperRow, HelperPc
    <3>2. PICK new \in HelperRow : new = [helper[h] EXCEPT !.pc = "updated"]
      BY <3>1
    <3>3. new.pc = "updated" /\ new.version = helper[h].version /\ new.old = helper[h].old
      BY <1>2, <3>2 DEF HelperRow
    <3>4. RowFits(h, new)
      BY <1>2, <2>1, <3>3 DEF RowFits, Moving
    <3>5. helper' = [helper EXCEPT ![h] = new]
      BY <1>2, <2>3, <3>2 DEF Goto
    <3> QED
      BY <1>2, <1>4, <2>1, <3>3, <3>4, <3>5
  <2> QED
    BY <1>12, <2>2, <2>3 DEF Health
<1> QED
  BY <1>6, <1>7, <1>8, <1>9, <1>10, <1>11, <1>12

\* A program is started, or the old application comes back: no helper waits for the server there
\* is then, so one that still copies comes too late.
LEMMA StartsKeepApp ==
  ASSUME AppInv, NEW h \in trial.helpers, StartApp(h) \/ RollBack(h)
  PROVE  AppInv'
<1>1. trial' = trial /\ stage' = stage /\ helper[h].pc \in {"start", "catch"}
  BY DEF StartApp, RollBack, HelperAt
<1>2. /\ h \in Helper /\ helper \in [Helper -> HelperRow] /\ helper[h] \in HelperRow
      /\ helper[h].version \in Update /\ db \in 0..MaxCommits /\ app \in Program \cup {Nothing}
      /\ process \in Nat /\ process + 1 \in Nat /\ app # Mixed /\ helper[h].old # Mixed
      /\ helper[h].backup \in 0..MaxCommits /\ helper[h].old \in Program \cup {Nothing}
  <2>1. h \in Helper /\ helper \in [Helper -> HelperRow] /\ helper[h] \in HelperRow
    BY TrialsAssumption DEF AppInv, UpdateTypeInv, TrialOK, HelpersOK
  <2>2. helper[h].backup \in 0..MaxCommits /\ helper[h].old \in Program \cup {Nothing}
    BY <2>1 DEF HelperRow
  <2> QED
    BY <1>1, <2>1, <2>2
       DEF AppInv, UpdateTypeInv, OneHelper, CommitsOK, AppOK, PlatformOK, NeverMixed, NeverMixedAside

\* What changes of the platform: nothing, or a program that serves.
<1>3. PICK new \in HelperRow :
        /\ helper' = [helper EXCEPT ![h] = new] /\ new.version = helper[h].version
        /\ new.old = helper[h].old /\ new.pc \in {"health", "catch", "failed"}
        /\ app' \in Program \cup {Nothing} /\ app' # Mixed /\ db' \in 0..MaxCommits
        /\ app' # Nothing \/ (app' = app /\ (new.pc # "failed" \/ new.old = Nothing))
        /\ \/ UNCHANGED <<platform, running, process, active, interrupted, imports, pending>>
           \/ /\ platform' = "serving" /\ running' \in Update \cup {Old} /\ process' = process + 1
              /\ app' # Nothing /\ Ended
  <2>1. CASE StartApp(h)
    <3>1. app' = app /\ db' = db
      BY <2>1 DEF StartApp
    <3>2. CASE Throw(h, "launch") /\ UNCHANGED <<platformVars, taskVars, imports, pending>>
      <4>1. [helper[h] EXCEPT !.pc = "catch"] \in HelperRow
        BY <1>2 DEF HelperRow, HelperPc
      <4>2. PICK new \in HelperRow : new = [helper[h] EXCEPT !.pc = "catch"]
        BY <4>1
      <4>3. new.pc = "catch" /\ new.version = helper[h].version /\ new.old = helper[h].old
        BY <1>2, <4>2 DEF HelperRow
      <4>4. helper' = [helper EXCEPT ![h] = new]
        BY <3>2, <1>2, <4>2 DEF Throw, Goto
      <4>5. UNCHANGED <<platform, running, process, active, interrupted, imports, pending>>
        BY <3>2 DEF platformVars, taskVars
      <4> QED
        BY <1>2, <3>1, <4>3, <4>4, <4>5
    <3>3. CASE /\ app \notin {Nothing, Mixed} /\ ServeProgram(app)
               /\ helper' = [helper EXCEPT ![h].pc = "health", ![h].launched = process + 1]
      <4>1. [[helper[h] EXCEPT !.pc = "health"] EXCEPT !.launched = process + 1] \in HelperRow
        BY <1>2 DEF HelperRow, HelperPc
      <4>2. PICK new \in HelperRow :
              new = [[helper[h] EXCEPT !.pc = "health"] EXCEPT !.launched = process + 1]
        BY <4>1
      <4>3. new.pc = "health" /\ new.version = helper[h].version /\ new.old = helper[h].old
        BY <1>2, <4>2 DEF HelperRow
      <4>4. helper' = [helper EXCEPT ![h] = new]
        BY <3>3, <1>2, <4>2
      <4>5. /\ platform' = "serving" /\ process' = process + 1 /\ Ended
            /\ running' \in Update \cup {Old}
        BY <1>2, <3>3 DEF ServeProgram, Program
      <4> QED
        BY <1>2, <3>1, <3>3, <4>3, <4>4, <4>5
    <3>4. CASE /\ helper' = [helper EXCEPT ![h].pc = "health"]
               /\ UNCHANGED <<platformVars, taskVars, imports, pending>>
      <4>1. [helper[h] EXCEPT !.pc = "health"] \in HelperRow
        BY <1>2 DEF HelperRow, HelperPc
      <4>2. PICK new \in HelperRow : new = [helper[h] EXCEPT !.pc = "health"]
        BY <4>1
      <4>3. new.pc = "health" /\ new.version = helper[h].version /\ new.old = helper[h].old
        BY <1>2, <4>2 DEF HelperRow
      <4>4. helper' = [helper EXCEPT ![h] = new]
        BY <3>4, <1>2, <4>2
      <4>5. UNCHANGED <<platform, running, process, active, interrupted, imports, pending>>
        BY <3>4 DEF platformVars, taskVars
      <4> QED
        BY <1>2, <3>1, <4>3, <4>4, <4>5
    <3> QED
      BY <2>1, <3>2, <3>3, <3>4 DEF StartApp
  <2>2. CASE RollBack(h)
    <3>1. [helper[h] EXCEPT !.pc = "failed"] \in HelperRow
      BY <1>2 DEF HelperRow, HelperPc
    <3>2. PICK new \in HelperRow : new = [helper[h] EXCEPT !.pc = "failed"]
      BY <3>1
    <3>3. new.pc = "failed" /\ new.version = helper[h].version /\ new.old = helper[h].old
      BY <1>2, <3>2 DEF HelperRow
    <3>4. helper' = [helper EXCEPT ![h] = new]
      BY <2>2, <1>2, <3>2 DEF RollBack, Goto
    <3>5. CASE helper[h].old = Nothing
      <4>1. /\ UNCHANGED <<platform, running, process, active, interrupted, imports, pending>>
            /\ app' = app /\ db' = db
        BY <2>2, <3>5 DEF RollBack, platformVars, taskVars
      <4> QED
        BY <1>2, <3>3, <3>4, <3>5, <4>1
    <3>6. CASE helper[h].old # Nothing
      <4>1. app' = helper[h].old /\ db' = helper[h].backup
        BY <2>2, <3>6 DEF RollBack
      <4>2. \/ UNCHANGED <<platform, running, process, active, interrupted, imports, pending>>
            \/ /\ platform' = "serving" /\ process' = process + 1 /\ running' = helper[h].old
               /\ Ended
        BY <2>2, <3>6 DEF RollBack, platformVars, taskVars
      <4>3. helper[h].old \in Update \cup {Old}
        BY <1>2, <3>6 DEF Program
      <4> QED
        BY <1>2, <3>3, <3>4, <3>6, <4>1, <4>2, <4>3
    <3> QED
      BY <3>5, <3>6
  <2> QED
    BY <2>1, <2>2
<1>4. helper'[h] = new /\ \A k \in Helper : k # h => helper'[k] = helper[k]
  BY <1>2, <1>3
<1>5. AppSurvives'
  BY <1>2, <1>3, <1>4 DEF AppInv, AppSurvives
<1>6. CASE UNCHANGED <<platform, running, process, active, interrupted, imports, pending>>
  <2>1. RowFits(h, new)
    BY <1>2, <1>3 DEF RowFits, Moving
  <2>2. /\ HelpersOK' /\ OneHelper' /\ ImportsAreQuiet' /\ WaitingIsWhole'
        /\ LoneHelper' /\ CopyIsWhole' /\ NeverMixedAside'
    BY <1>1, <1>3, <1>6, <2>1, AppRows
  <2>3. UpdateTypeInv'
    BY <1>1, <1>3, <1>6, <2>2 DEF AppInv, UpdateTypeInv, TrialOK, PlatformOK, AppOK, CommitsOK,
       ActiveOK, ImportsOK, StageOK
  <2>4. PendingIsStaged' /\ WritesAreAlone'
    BY <1>1, <1>6 DEF AppInv, PendingIsStaged, WritesAreAlone, NoImports
  <2> QED
    BY <1>3, <1>5, <2>2, <2>3, <2>4 DEF AppInv, NeverMixed
<1>7. CASE /\ platform' = "serving" /\ running' \in Update \cup {Old} /\ process' = process + 1
           /\ app' # Nothing /\ Ended
  <2>1. /\ imports' = [i \in Importer |-> NoImport] /\ pending' = Nothing /\ active' = FALSE
        /\ interrupted' = (interrupted \/ active)
    BY <1>7 DEF Ended
  <2>2. NoImport \in ImportPc /\ NoImport.pc = "idle"
    BY DEF NoImport, ImportPc
  <2>3. NoImports' /\ ImportsAreQuiet' /\ WritesAreAlone' /\ PendingIsStaged'
    BY <2>1, <2>2 DEF NoImports, ImportsAreQuiet, WritesAreAlone, PendingIsStaged
  <2>4. HelpersOK' /\ OneHelper' /\ NeverMixed'
    BY <1>1, <1>2, <1>3, <1>4 DEF AppInv, HelpersOK, OneHelper, NeverMixed, NeverMixedAside
  <2>5. /\ ImportsOK' /\ PlatformOK' /\ ActiveOK'
    BY <1>2, <1>7, <2>1, <2>2 DEF AppInv, UpdateTypeInv, ImportsOK, PlatformOK, ActiveOK
  <2>6. UpdateTypeInv'
    BY <1>1, <1>3, <2>1, <2>4, <2>5 DEF AppInv, UpdateTypeInv, TrialOK, AppOK, CommitsOK, StageOK
  <2>7. /\ \A k \in Helper : helper'[k].pc = "wait" => helper'[k].process <= process /\ StageIsWhole
        /\ \A k \in Helper : helper'[k].process \in Nat
    BY <1>2, <1>3, <1>4 DEF AppInv, WaitingIsWhole, HelperRow
  <2>8. \A k \in Helper : helper'[k].pc = "wait" => helper'[k].process <= process' /\ helper'[k].process # process'
    BY <1>2, <1>7, <2>7
  <2>9. WaitingIsWhole'
    BY <1>1, <2>7, <2>8 DEF WaitingIsWhole, StageIsWhole
  <2>10. LoneHelper'
    BY <1>2, <1>3, <1>4 DEF LoneHelper, Lone, Moving
  <2>11. CopyIsWhole'
    <3>1. Final => Final'
      BY <1>1, <1>3, <1>4, <1>7, <2>8 DEF Final
    <3> QED
      BY <1>1, <1>3, <1>4, <3>1 DEF AppInv, CopyIsWhole, StageIsWhole
  <2> QED
    BY <1>5, <2>3, <2>4, <2>6, <2>9, <2>10, <2>11 DEF AppInv
<1> QED
  BY <1>3, <1>6, <1>7

LEMMA InitApp ==
  UpdateInit => AppInv
<1> SUFFICES ASSUME UpdateInit
             PROVE  AppInv
  OBVIOUS
<1>1. UpdateTypeInv /\ PendingIsStaged /\ WritesAreAlone /\ OneHelper
  BY InitUpdate DEF UpdateInv
<1>2. \A h \in Helper : helper[h] = NoHelper /\ NoHelper.pc = "none" /\ NoHelper.old = Nothing
  BY DEF UpdateInit, NoHelper
<1>3. app = Old /\ NoImports
  BY DEF UpdateInit, NoImports
<1>4. ImportsAreQuiet /\ WaitingIsWhole /\ LoneHelper /\ CopyIsWhole
  BY <1>2, <1>3 DEF ImportsAreQuiet, WaitingIsWhole, LoneHelper, CopyIsWhole, Moving
<1>5. NeverMixed /\ AppSurvives
  BY <1>2, <1>3, VersionsAssumption DEF NeverMixed, NeverMixedAside, AppSurvives
<1> QED
  BY <1>1, <1>4, <1>5 DEF AppInv

LEMMA AppStep ==
  ASSUME UpdateScope, AppInv, [UpdateNext]_updateVars
  PROVE  AppInv' /\ trial' = trial
<1>1. ASSUME NEW i \in Importer, BeginImport(i) \/ ClearStage(i) \/ Stage(i)
      PROVE  AppInv' /\ trial' = trial
  BY <1>1, ImportKeepsApp DEF BeginImport, ClearStage, Stage
<1>2. ASSUME CreateTask \/ EndTask \/ ShutDown \/ ExitPlatform
      PROVE  AppInv' /\ trial' = trial
  BY <1>2, PlatformKeepsApp DEF CreateTask, EndTask, ShutDown, ExitPlatform
<1>3. ASSUME NEW h \in trial.helpers, Apply(h) \/ HelperStep(h)
      PROVE  AppInv' /\ trial' = trial
  <2>1. CASE \/ Apply(h) \/ WaitForExit(h) \/ CopyStage(h) \/ BackUp(h)
             \/ MoveAside(h) \/ MoveInPlace(h) \/ Health(h)
    <3>1. AppInv'
      BY <2>1, MovesKeepApp
    <3>2. trial' = trial
      BY <2>1 DEF Apply, WaitForExit, CopyStage, BackUp, MoveAside, MoveInPlace, Health
    <3> QED
      BY <3>1, <3>2
  <2>2. CASE StartApp(h) \/ RollBack(h)
    <3>1. AppInv'
      BY <2>2, StartsKeepApp
    <3>2. trial' = trial
      BY <2>2 DEF StartApp, RollBack
    <3> QED
      BY <3>1, <3>2
  <2> QED
    BY <1>3, <2>1, <2>2 DEF HelperStep
<1>4. ASSUME UNCHANGED updateVars
      PROVE  AppInv' /\ trial' = trial
  <2>1. UNCHANGED <<trial, platform, running, process, app, db, active, interrupted, imports,
                    pending, stage, helper>>
    BY <1>4 DEF updateVars, platformVars, taskVars, stageVars
  <2>2. UpdateTypeInv'
    BY <2>1 DEF AppInv, UpdateTypeInv, TrialOK, PlatformOK, AppOK, CommitsOK, ActiveOK,
       ImportsOK, StageOK, HelpersOK
  <2>3. PendingIsStaged' /\ WritesAreAlone' /\ OneHelper' /\ ImportsAreQuiet'
    BY <2>1 DEF AppInv, PendingIsStaged, WritesAreAlone, OneHelper, NoImports, ImportsAreQuiet
  <2>4. WaitingIsWhole' /\ LoneHelper' /\ NeverMixed' /\ AppSurvives'
    BY <2>1 DEF AppInv, WaitingIsWhole, StageIsWhole, LoneHelper, Lone, NeverMixed,
       NeverMixedAside, AppSurvives
  <2>5. CopyIsWhole'
    BY <2>1 DEF AppInv, CopyIsWhole, StageIsWhole, Final
  <2> QED
    BY <2>1, <2>2, <2>3, <2>4, <2>5 DEF AppInv
<1> QED
  BY <1>1, <1>2, <1>3, <1>4 DEF UpdateNext

\* Updates.apply and apply-update.ps1, for one or two hand-overs and imports one after the other
\* that end before a helper waits: an application that can be started exists at any moment. Of
\* one hand-over alone, a failed update leaves the old one in its place, what may be applied was
\* staged whole, the update ends no task, and what users have changed stays changed.
THEOREM UpdateAlwaysKeepsApp ==
  ASSUME UpdateScope
  PROVE  UpdateSpec => UpdateKeepsApp
<1> DEFINE Safe == AppInv /\ (Alone => UpdateInv)
           Kept == /\ UpdateTypeOK /\ AppSurvives
                   /\ Alone => FailedUpdateKeepsOld /\ StagedIsWhole /\ UpdateInterruptsNothing
           Stays == Alone => CommitsStay
<1>1. UpdateInit => Safe
  BY InitUpdate, InitApp
<1>2. Safe /\ [UpdateNext]_updateVars => Safe' /\ Stays
  <2> SUFFICES ASSUME Safe, [UpdateNext]_updateVars
               PROVE  Safe' /\ Stays
    OBVIOUS
  <2>1. AppInv' /\ trial' = trial
    BY AppStep
  <2>2. Alone' = Alone
    BY <2>1 DEF Alone
  <2>3. Alone => UpdateInv' /\ CommitsStay
    BY UpdateStep
  <2> QED
    BY <2>1, <2>2, <2>3
<1>3. Safe => Kept
  BY UpdateInvIsEnough, UpdateTypes DEF AppInv
<1> HIDE DEF Safe, Kept, Stays
<1>4. Safe /\ [UpdateNext]_updateVars => Safe' /\ [Stays]_updateVars
  BY <1>2
<1>5. UpdateSpec => []Kept /\ [][Stays]_updateVars
  BY <1>1, <1>3, <1>4, PTL DEF UpdateSpec
<1> QED
  BY <1>5 DEF UpdateKeepsApp, Kept, Stays
=============================================================================
