----------------------------- MODULE UpdateHandoff -----------------------------
(****************************************************************************)
(* An update in place: packages imported into the staging directory, the    *)
(* hand-over to a helper process that waits for the platform to end, and    *)
(* what the helper does to the application directory and the database, back *)
(* to the old application if the new one does not answer.                   *)
(****************************************************************************)
EXTENDS Naturals

CONSTANTS
  Update,      \* versions that may be imported
  Old, Nothing, Mixed,
  Importer,    \* HTTP threads that may import at the same time
  Helper,      \* helper processes
  Trials,      \* updates to look at: the helpers that may be started, and what may fail, of
               \* "copy", "aside", "place", "launch"
  Late,        \* are tasks created and packages imported after the hand-over?
  MaxCommits   \* bound on the changes users make

ASSUME VersionsAssumption ==
  {Old, Nothing, Mixed} \cap Update = {} /\ Old # Nothing /\ Mixed # Nothing /\ Old # Mixed
ASSUME TrialsAssumption ==
  /\ Trials \subseteq [helpers : SUBSET Helper, failing : SUBSET {"copy", "aside", "place", "launch"}]
  /\ Late \in BOOLEAN /\ MaxCommits \in Nat

VARIABLES
  trial,       \* the update of this run
  platform,    \* "serving", "stopping" or "down"
  running,     \* the program that serves
  process,     \* how many servers have been started
  app,         \* the application directory
  db,          \* changes in the database
  active,      \* a task is queued, runs or holds devices
  interrupted, \* an active task was ended by a shutdown
  imports,     \* Updates.inspect of each thread
  pending,     \* Updates.pending
  stage,       \* how much of each version is in the staging directory
  helper       \* the helpers, with what they have moved aside and copied

platformVars == <<platform, running, process>>
taskVars   == <<active, interrupted>>
stageVars  == <<imports, pending, stage>>
updateVars == <<trial, platformVars, app, db, taskVars, stageVars, helper>>

Program  == Update \cup {Old, Mixed}
NoImport == [pc |-> "idle", version |-> Nothing]
NoHelper == [pc |-> "none", version |-> Nothing, process |-> 0, next |-> Nothing, old |-> Nothing,
             backup |-> 0, launched |-> 0]
\* What a copy of the staging directory is.
Staged == IF \E v \in Update : stage = [w \in Update |-> IF w = v THEN "whole" ELSE "none"]
          THEN CHOOSE v \in Update : stage[v] = "whole" ELSE Mixed

UpdateTypeOK ==
  /\ trial \in Trials
  /\ platform \in {"serving", "stopping", "down"} /\ running \in Update \cup {Old, Nothing}
  /\ process \in Nat /\ app \in Program \cup {Nothing} /\ db \in 0..MaxCommits
  /\ active \in BOOLEAN /\ interrupted \in BOOLEAN
  /\ imports \in [Importer -> [pc : {"idle", "clear", "write"}, version : Update \cup {Nothing}]]
  /\ pending \in Update \cup {Nothing} /\ stage \in [Update -> {"none", "part", "whole"}]
  /\ helper \in [Helper -> [pc : {"none", "wait", "copy", "backup", "aside", "place", "start",
                                  "health", "catch", "updated", "failed"},
                            version : Update \cup {Nothing}, process : Nat,
                            next : Program \cup {Nothing}, old : Program \cup {Nothing},
                            backup : 0..MaxCommits, launched : Nat]]

UpdateInit ==
  /\ trial \in Trials
  /\ platform = "serving" /\ running = Old /\ process = 1 /\ app = Old /\ db = 0
  /\ active = FALSE /\ interrupted = FALSE
  /\ imports = [i \in Importer |-> NoImport] /\ pending = Nothing
  /\ stage = [v \in Update |-> "none"] /\ helper = [h \in Helper |-> NoHelper]

-----------------------------------------------------------------------------
(* The platform.                                                             *)

HandedOver == \E h \in Helper : helper[h].pc = "wait"

\* inspect forgets the pending update, verifies the package, and then stages it.
BeginImport(i) ==
  /\ platform = "serving" /\ imports[i] = NoImport /\ (Late \/ ~HandedOver)
  /\ \E v \in Update \ {running} : imports' = [imports EXCEPT ![i] = [pc |-> "clear", version |-> v]]
  /\ pending' = Nothing
  /\ UNCHANGED <<trial, platformVars, app, db, taskVars, stage, helper>>

\* Mutant: the staging directory is not emptied.
ClearNothing(i) ==
  /\ imports[i].pc = "clear" /\ imports' = [imports EXCEPT ![i].pc = "write"]
  /\ UNCHANGED <<trial, platformVars, app, db, taskVars, pending, stage, helper>>

ClearStage(i) ==
  /\ imports[i].pc = "clear" /\ imports' = [imports EXCEPT ![i].pc = "write"]
  /\ stage' = [v \in Update |-> "none"]
  /\ UNCHANGED <<trial, platformVars, app, db, taskVars, pending, helper>>

\* Files are written one by one: some, and then the rest.
Stage(i) ==
  LET v == imports[i].version IN
  /\ imports[i].pc = "write"
  /\ \/ stage[v] = "none" /\ stage' = [stage EXCEPT ![v] = "part"] /\ UNCHANGED <<imports, pending>>
     \/ /\ stage[v] # "none" /\ stage' = [stage EXCEPT ![v] = "whole"]
        /\ imports' = [imports EXCEPT ![i] = NoImport] /\ pending' = v
  /\ UNCHANGED <<trial, platformVars, app, db, taskVars, helper>>

CreateTask ==
  /\ platform = "serving" /\ ~active /\ (Late \/ ~HandedOver) /\ db < MaxCommits
  /\ active' = TRUE /\ db' = db + 1
  /\ UNCHANGED <<trial, platformVars, app, interrupted, stageVars, helper>>

EndTask ==
  /\ platform = "serving" /\ active /\ active' = FALSE
  /\ UNCHANGED <<trial, platformVars, app, db, interrupted, stageVars, helper>>

\* Mutant: active tasks are not looked at.
ApplyAnyway(h) ==
  /\ platform = "serving" /\ pending # Nothing /\ helper[h].pc = "none"
  /\ helper' = [helper EXCEPT ![h] = [NoHelper EXCEPT !.pc = "wait", !.version = pending,
                                                      !.process = process]]
  /\ UNCHANGED <<trial, platformVars, app, db, taskVars, stageVars>>

\* apply looks once whether anything is active, and starts the helper with its plan.
Apply(h) ==
  /\ platform = "serving" /\ pending # Nothing /\ ~active /\ helper[h].pc = "none"
  /\ helper' = [helper EXCEPT ![h] = [NoHelper EXCEPT !.pc = "wait", !.version = pending,
                                                      !.process = process]]
  /\ UNCHANGED <<trial, platformVars, app, db, taskVars, stageVars>>

\* server.shutdown, of a thread of its own; then main ends what is active.
ShutDown ==
  /\ platform = "serving" /\ \E h \in Helper : helper[h].pc = "wait" /\ helper[h].process = process
  /\ platform' = "stopping"
  /\ UNCHANGED <<trial, running, process, app, db, taskVars, stageVars, helper>>

Ended ==
  /\ interrupted' = (interrupted \/ active) /\ active' = FALSE
  /\ imports' = [i \in Importer |-> NoImport] /\ pending' = Nothing

ExitPlatform ==
  /\ platform = "stopping" /\ platform' = "down" /\ running' = Nothing /\ Ended
  /\ UNCHANGED <<trial, process, app, db, stage, helper>>

-----------------------------------------------------------------------------
(* The helper. An error goes to its catch block.                             *)

HelperAt(h, pc) == helper[h].pc = pc
Goto(h, pc) == helper' = [helper EXCEPT ![h].pc = pc]
Throw(h, what) == what \in trial.failing /\ Goto(h, "catch")

\* The process of the plan has ended, or not within 90 s, which is not modelled.
WaitForExit(h) ==
  /\ HelperAt(h, "wait") /\ (platform = "down" \/ process # helper[h].process)
  /\ Goto(h, "copy")
  /\ UNCHANGED <<trial, platformVars, app, db, taskVars, stageVars>>

CopyStage(h) ==
  /\ HelperAt(h, "copy")
  /\ \/ helper' = [helper EXCEPT ![h].pc = "backup", ![h].next = Staged]
     \/ Throw(h, "copy")
  /\ UNCHANGED <<trial, platformVars, app, db, taskVars, stageVars>>

\* Mutant: the database is not copied.
BackupNothing(h) ==
  /\ HelperAt(h, "backup") /\ Goto(h, "aside")
  /\ UNCHANGED <<trial, platformVars, app, db, taskVars, stageVars>>

BackUp(h) ==
  /\ HelperAt(h, "backup")
  /\ \/ helper' = [helper EXCEPT ![h].pc = "aside", ![h].backup = db]
     \/ Throw(h, "copy")
  /\ UNCHANGED <<trial, platformVars, app, db, taskVars, stageVars>>

\* Mutant: the old application is deleted.
RemoveOld(h) ==
  /\ HelperAt(h, "aside") /\ app # Nothing /\ Goto(h, "place") /\ app' = Nothing
  /\ UNCHANGED <<trial, platformVars, db, taskVars, stageVars>>

\* The directory of a running program cannot be moved, a missing one neither.
MoveAside(h) ==
  /\ HelperAt(h, "aside")
  /\ \/ /\ app # Nothing /\ platform = "down" /\ app' = Nothing
        /\ helper' = [helper EXCEPT ![h].pc = "place", ![h].old = app]
     \/ (Throw(h, "aside") \/ ((app = Nothing \/ platform # "down") /\ Goto(h, "catch"))) /\ UNCHANGED app
  /\ UNCHANGED <<trial, platformVars, db, taskVars, stageVars>>

\* A directory moved to an existing one ends up inside it.
MoveInPlace(h) ==
  /\ HelperAt(h, "place")
  /\ \/ app' = (IF app = Nothing THEN helper[h].next ELSE app) /\ Goto(h, "start")
     \/ Throw(h, "place") /\ UNCHANGED app
  /\ UNCHANGED <<trial, platformVars, db, taskVars, stageVars>>

\* A program that serves, if none does; main fails what a database says is active.
ServeProgram(program) ==
  /\ platform = "down" /\ platform' = "serving" /\ process' = process + 1
  /\ running' = program /\ Ended

\* What is not one whole version is taken not to start.
StartApp(h) ==
  /\ HelperAt(h, "start")
  /\ \/ Throw(h, "launch") /\ UNCHANGED <<platformVars, taskVars, imports, pending>>
     \/ /\ app \notin {Nothing, Mixed} /\ ServeProgram(app)
        /\ helper' = [helper EXCEPT ![h].pc = "health", ![h].launched = process + 1]
     \/ /\ app \in {Nothing, Mixed} \/ platform # "down" \/ "launch" \in trial.failing
        /\ helper' = [helper EXCEPT ![h].pc = "health"]
        /\ UNCHANGED <<platformVars, taskVars, imports, pending>>
  /\ UNCHANGED <<trial, app, db, stage>>

\* /api/health of whatever serves at the port: the version of the plan, or no answer.
Health(h) ==
  /\ HelperAt(h, "health")
  /\ \/ platform = "serving" /\ running = helper[h].version /\ Goto(h, "updated")
     \/ (platform # "serving" \/ running # helper[h].version) /\ Goto(h, "catch")
  /\ UNCHANGED <<trial, platformVars, app, db, taskVars, stageVars>>

\* Mutant: the old application comes back, nobody starts it.
RollBackOnly(h) ==
  LET back == helper[h].old # Nothing IN
  /\ HelperAt(h, "catch") /\ Goto(h, "failed")
  /\ app' = (IF back THEN helper[h].old ELSE app) /\ db' = (IF back THEN helper[h].backup ELSE db)
  /\ UNCHANGED <<trial, platformVars, taskVars, stageVars>>

\* The catch block: what was launched is stopped; if the old application was moved aside,
\* it and the database come back and it is started.
RollBack(h) ==
  LET back == helper[h].old # Nothing
      stopped == platform = "down" \/ (helper[h].launched = process /\ helper[h].launched # 0) IN
  /\ HelperAt(h, "catch") /\ Goto(h, "failed")
  /\ IF ~back
     THEN UNCHANGED <<platformVars, app, db, taskVars, imports, pending>>
     ELSE /\ app' = helper[h].old /\ db' = helper[h].backup
          /\ IF stopped
             THEN /\ platform' = "serving" /\ process' = process + 1 /\ running' = helper[h].old
                  /\ Ended
             ELSE UNCHANGED <<platformVars, taskVars, imports, pending>>
  /\ UNCHANGED <<trial, stage>>

HelperStep(h) ==
  WaitForExit(h) \/ CopyStage(h) \/ BackUp(h) \/ MoveAside(h) \/ MoveInPlace(h) \/ StartApp(h) \/ Health(h) \/ RollBack(h)

UpdateNext ==
  \/ \E i \in Importer : BeginImport(i) \/ ClearStage(i) \/ Stage(i)
  \/ CreateTask \/ EndTask \/ ShutDown \/ ExitPlatform
  \/ \E h \in trial.helpers : Apply(h) \/ HelperStep(h)

UpdateSpec == UpdateInit /\ [][UpdateNext]_updateVars
FairUpdateSpec == UpdateSpec /\ WF_updateVars(ShutDown) /\ WF_updateVars(ExitPlatform) /\ \A h \in Helper : WF_updateVars(HelperStep(h))

-----------------------------------------------------------------------------
(* Properties. Alone: no second hand-over is made while one is under way.    *)

Alone == \A h, k \in trial.helpers : h = k

\* An application that can be started exists at any moment, in its place or moved aside,
\* however the helpers of two hand-overs interleave (apply-update.ps1 39-41, 60-62).
AppSurvives ==
  app \notin {Nothing, Mixed} \/ \E h \in Helper : helper[h].old # Nothing /\ helper[h].pc # "failed"

\* An update that fails leaves the old application in its place (apply-update.ps1, catch).
FailedUpdateKeepsOld ==
  \A h \in Helper : helper[h].pc = "failed" /\ helper[h].process = 1 => app = Old

\* What may be applied has been staged as it was verified (Updates.inspect, the staging directory).
StagedIsWhole == pending # Nothing => Staged = pending

\* An update ends no task: nothing is active when the platform goes down for it
\* (Updates.apply's check, server.py's shutdown thread, main's recover_startup).
UpdateInterruptsNothing == ~interrupted

\* What users have changed stays changed, whichever application they are served by next
\* (the database backup the catch block brings back).
CommitsStay == db' >= db
CommitsSurvive == [][CommitsStay]_updateVars

\* Through an update, an application that can be started exists at any moment, also when two
\* hand-overs meet; one that fails leaves the old one, what is applied was staged whole, no
\* task is ended by it, and what users have changed stays changed (updates.py,
\* apply-update.ps1).
UpdateKeepsApp ==
  /\ [](/\ UpdateTypeOK /\ AppSurvives
        /\ Alone => FailedUpdateKeepsOld /\ StagedIsWhole /\ UpdateInterruptsNothing)
  /\ [][Alone => CommitsStay]_updateVars

\* The platform comes back after an update, with the new or with the old application, when it
\* got as far as moving the old one (apply-update.ps1 as a whole).
PlatformReturns ==
  (Alone /\ trial.failing \subseteq {"place", "launch"}) => []<>(platform = "serving")
=============================================================================
