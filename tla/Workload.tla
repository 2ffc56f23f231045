------------------------------- MODULE Workload -------------------------------
(****************************************************************************)
(* One load: its row in the platform's database, the start and the refreshes*)
(* that hold Workloads.lock, and on the device the detached runner with its *)
(* state file, the process group of the stage, the output, and an external  *)
(* tool it may control. Only the platform's side takes turns; the runner,   *)
(* the load and faults interleave with every remote call.                   *)
(*                                                                          *)
(* The output is a number of bytes, two to a line: an odd position is in    *)
(* the middle of a line.                                                    *)
(****************************************************************************)
EXTENDS Naturals, FiniteSetsExt

CONSTANTS
  Stages,    \* number of stages of the compiled load
  External,  \* does the load control an external tool?
  Size,      \* bound on the bytes of output
  Chunk,     \* bytes one read returns at most
  Faults,    \* what may go wrong, of "drop", "crash", "kill", "stubborn", "control"
  MaxFaults  \* bound on the calls dropped, platform crashes and kills

\* Stages >= 1, and one stage when an external tool is controlled.

VARIABLES
  row,      \* the row of workloads: state and offset
  copies,   \* how often each byte is in the local log
  op,       \* the operation that holds Workloads.lock, with what it has read
  placed,   \* runner.py and config.json are on the device
  runner,   \* where the supervisor is
  memory,   \* its status dictionary
  file,     \* status.json
  stopping, \* its SIGTERM handler has run
  stage,    \* stages done
  group,    \* process group of the stage: "none", "leader" (and children), "children"
  tool,     \* is the external tool running?
  size,     \* bytes written to output.log
  faults    \* calls dropped, crashes and kills so far

platformVars == <<row, copies, op>>
runnerVars   == <<runner, memory, file, stage>>
loadVars     == <<group, tool, size>>
vars == <<platformVars, placed, runnerVars, stopping, loadVars, faults>>

Terminal == {"succeeded", "failed", "stopped"}
State    == Terminal \cup {"running", "unknown"}
Status   == [state : State \cup {"absent"}, group : BOOLEAN, stopped : BOOLEAN]
NoStatus == [state |-> "absent", group |-> FALSE, stopped |-> FALSE]
Answer   == [state : State, confirmed : BOOLEAN, read : BOOLEAN, upto : 0..Size, more : BOOLEAN]
NoAnswer == [state |-> "unknown", confirmed |-> FALSE, read |-> FALSE, upto |-> 0, more |-> FALSE]
Idle     == [pc |-> "idle", action |-> "read", seen |-> NoStatus, answer |-> NoAnswer]

TypeOK ==
  /\ row \in [state : State \cup {"absent", "starting", "finishing"}, offset : 0..Size]
  /\ copies \in [1..Size -> 0..MaxFaults + 1]
  /\ op \in [pc : {"idle", "row", "directory", "files", "inspect", "waiting", "reread",
                   "orphans", "judge", "store"},
             action : {"start", "read", "stop"}, seen : Status, answer : Answer]
  /\ runner \in {"absent", "launched", "loop", "spawned", "watch", "external", "closing", "dead"}
  /\ memory \in Status /\ file \in Status
  /\ stage \in 0..Stages /\ size \in 0..Size /\ faults \in 0..MaxFaults
  /\ group \in {"none", "leader", "children"}
  /\ placed \in BOOLEAN /\ stopping \in BOOLEAN /\ tool \in BOOLEAN

Alive   == runner \notin {"absent", "dead"}
Settled == row.state \in Terminal

Init ==
  /\ row = [state |-> "absent", offset |-> 0] /\ copies = [b \in 1..Size |-> 0]
  /\ op = Idle /\ placed = FALSE
  /\ runner = "absent" /\ memory = NoStatus /\ file = NoStatus /\ stage = 0
  /\ stopping = FALSE /\ group = "none" /\ tool = FALSE /\ size = 0 /\ faults = 0

-----------------------------------------------------------------------------
(* The runner (load_runner.run). It saves its status at every change.        *)

Save(status) == memory' = status /\ file' = status
\* stop_group: SIGTERM, then SIGKILL, to the group; a stubborn child survives both.
GroupStops    == group' = "none"
GroupSurvives == "stubborn" \in Faults /\ group # "none" /\ group' = "children"

Begin ==
  /\ runner = "launched" /\ runner' = "loop"
  /\ Save([NoStatus EXCEPT !.state = "running"])
  /\ UNCHANGED <<platformVars, placed, stage, stopping, loadVars, faults>>

Spawn ==
  /\ runner = "loop" /\ ~stopping /\ stage < Stages
  /\ runner' = "spawned" /\ group' = "leader"
  /\ UNCHANGED <<platformVars, placed, memory, file, stage, stopping, tool, size, faults>>

RecordGroup ==
  /\ runner = "spawned" /\ runner' = "watch"
  /\ Save([memory EXCEPT !.group = TRUE])
  /\ UNCHANGED <<platformVars, placed, stage, stopping, loadVars, faults>>

\* An exception while the stage is running, such as a group that cannot be stopped.
Raise ==
  /\ runner = "watch" /\ runner' = "closing"
  /\ memory' = [memory EXCEPT !.state = "failed"]
  /\ UNCHANGED group \/ GroupSurvives
  /\ UNCHANGED <<platformVars, placed, file, stage, stopping, tool, size, faults>>

\* The stage is over: its leader exited, it is stopped or it takes too long. What is
\* left of the group is stopped and the status forgets the group, then an exit code,
\* a time-out or a surviving child ends the load.
Reap ==
  LET reaped == [memory EXCEPT !.group = FALSE] IN
  /\ runner = "watch"
  /\ stage' = stage + 1 /\ file' = reaped
  /\ \/ /\ GroupStops /\ (group = "leader" => stopping)
        /\ runner' = IF External /\ ~stopping THEN "external" ELSE "loop"
        /\ memory' = reaped
     \/ /\ (GroupStops /\ ~stopping) \/ (GroupSurvives /\ group = "children")
        /\ runner' = "closing"
        /\ memory' = [reaped EXCEPT !.state = "failed"]
  /\ UNCHANGED <<platformVars, placed, stopping, tool, size, faults>>

\* Polls of the status command until the duration is over, a stop or an early end.
LeaveExternal ==
  /\ runner = "external"
  /\ \/ runner' = "loop" /\ UNCHANGED memory
     \/ /\ ~tool \/ "control" \in Faults
        /\ runner' = "closing" /\ memory' = [memory EXCEPT !.state = "failed"]
  /\ UNCHANGED <<platformVars, placed, file, stage, stopping, loadVars, faults>>

LeaveLoop ==
  /\ runner = "loop" /\ (stopping \/ stage = Stages)
  /\ runner' = "closing"
  /\ memory' = [memory EXCEPT !.state = IF stopping THEN "stopped" ELSE "succeeded"]
  /\ UNCHANGED <<platformVars, placed, file, stage, stopping, loadVars, faults>>

\* Mutant: the group is waited for instead of stopped.
CloseWaits ==
  /\ runner = "closing" /\ group = "none" /\ runner' = "dead"
  /\ tool' = FALSE /\ Save([memory EXCEPT !.stopped = External, !.group = FALSE])
  /\ UNCHANGED <<platformVars, placed, stage, stopping, group, size, faults>>

\* The finally block: the external tool is stopped and seen stopped, then the group;
\* the status is saved and the process ends.
Close ==
  /\ runner = "closing" /\ runner' = "dead"
  /\ \/ /\ tool' = FALSE
        /\ IF memory.group
           THEN \/ GroupStops /\ Save([memory EXCEPT !.stopped = External, !.group = FALSE])
                \/ GroupSurvives /\ Save([memory EXCEPT !.stopped = External])
           ELSE UNCHANGED group /\ Save([memory EXCEPT !.stopped = External])
     \/ /\ External /\ "control" \in Faults
        /\ UNCHANGED <<tool, group>>
        /\ Save([memory EXCEPT !.state = "unknown"])
  /\ UNCHANGED <<platformVars, placed, stage, stopping, size, faults>>

RunnerStep == Begin \/ Spawn \/ RecordGroup \/ Raise \/ Reap \/ LeaveExternal \/ LeaveLoop \/ Close

-----------------------------------------------------------------------------
(* The load itself.                                                          *)

Write ==
  /\ group # "none" \/ runner = "external"
  /\ size < Size /\ size' = size + 1
  /\ UNCHANGED <<platformVars, placed, runnerVars, stopping, group, tool, faults>>

LeaderExits ==
  /\ group = "leader" /\ group' \in {"none", "children"}
  /\ UNCHANGED <<platformVars, placed, runnerVars, stopping, tool, size, faults>>

ToolChanges ==
  /\ tool \/ (External /\ group = "leader")
  /\ tool' = ~tool
  /\ UNCHANGED <<platformVars, placed, runnerVars, stopping, group, size, faults>>

\* The supervisor is killed (it does not clean up), or the device restarts.
Kill ==
  /\ "kill" \in Faults /\ faults < MaxFaults /\ Alive
  /\ runner' = "dead" /\ faults' = faults + 1
  /\ UNCHANGED <<tool, group>> \/ (tool' = FALSE /\ group' = "none")
  /\ UNCHANGED <<platformVars, placed, memory, file, stage, stopping, size>>

-----------------------------------------------------------------------------
(* Starting (Workloads.start, and the runner's start action).                *)

StartRow ==
  /\ op.pc = "idle" /\ row.state = "absent"
  /\ row' = [row EXCEPT !.state = "starting"]
  /\ op' = [Idle EXCEPT !.pc = "row", !.action = "start"]
  /\ UNCHANGED <<copies, placed, runnerVars, stopping, loadVars, faults>>

MakeDirectory ==
  /\ op.pc = "row" /\ op' = [op EXCEPT !.pc = "directory"]
  /\ UNCHANGED <<row, copies, placed, runnerVars, stopping, loadVars, faults>>

WriteFiles ==
  /\ op.pc = "directory" /\ op' = [op EXCEPT !.pc = "files"]
  /\ placed' = TRUE
  /\ UNCHANGED <<row, copies, runnerVars, stopping, loadVars, faults>>

Launch ==
  /\ op.pc = "files" /\ op' = [op EXCEPT !.pc = "inspect"]
  /\ runner' = "launched"
  /\ UNCHANGED <<row, copies, placed, memory, file, stage, stopping, loadVars, faults>>

-----------------------------------------------------------------------------
(* Refreshing (Workloads.refresh and store, and the runner's inspect).       *)

Refresh(action) ==
  /\ op.pc = "idle" /\ row.state # "absent"
  /\ op' = [Idle EXCEPT !.pc = "inspect", !.action = action]
  /\ UNCHANGED <<row, copies, placed, runnerVars, stopping, loadVars, faults>>

\* Mutant: only loads known to run are looked at.
MonitorRunning == row.state = "running" /\ Refresh("read")

\* The monitor, stop_all and settled look at loads that are not terminal.
Monitor == ~Settled /\ Refresh("read")
\* load_status, load_stop and the requests of the task page take any load.
Request == \E action \in {"read", "stop"} : Refresh(action)

\* Without a state file there is nothing to see; a stop signals a live runner.
Inspect ==
  /\ op.pc = "inspect" /\ placed
  /\ IF file = NoStatus
     THEN /\ op' = [op EXCEPT !.pc = "store",
                    !.answer = [NoAnswer EXCEPT !.read = op.action = "read", !.upto = row.offset]]
          /\ UNCHANGED stopping
     ELSE IF op.action = "stop" /\ Alive
     THEN op' = [op EXCEPT !.pc = "waiting"] /\ stopping' = TRUE
     ELSE op' = [op EXCEPT !.pc = "reread"] /\ UNCHANGED stopping
  /\ UNCHANGED <<row, copies, placed, runnerVars, loadVars, faults>>

\* It waits five seconds at most for the runner to clean up (who is not that long
\* between two statements, but may be in calls), then it reads the file again.
Reread ==
  /\ op.pc \in {"waiting", "reread"}
  /\ op.pc = "waiting" => runner \notin {"loop", "spawned"}
  /\ op' = [op EXCEPT !.pc = IF op.action = "stop" THEN "orphans" ELSE "judge", !.seen = file]
  /\ UNCHANGED <<row, copies, placed, runnerVars, stopping, loadVars, faults>>

\* A stop ends a group that the file still names and, once the runner is gone, the
\* external tool.
StopOrphans ==
  LET stopTool == External /\ ~Alive /\ ~op.seen.stopped
      Judging(status) == op' = [op EXCEPT !.pc = "judge", !.seen = status]
      Ended(status) == file' = status /\ Judging(status)
  IN
  /\ op.pc = "orphans"
  /\ tool' = (tool /\ ~stopTool)
  /\ \/ /\ op.seen.group /\ GroupStops
        /\ Ended([state |-> "stopped", group |-> FALSE, stopped |-> op.seen.stopped \/ stopTool])
     \/ /\ IF op.seen.group THEN GroupSurvives ELSE UNCHANGED group
        /\ IF stopTool THEN Ended([op.seen EXCEPT !.state = "stopped", !.stopped = TRUE])
           ELSE UNCHANGED file /\ Judging(op.seen)
  /\ UNCHANGED <<row, copies, placed, runner, memory, stage, stopping, size, faults>>

\* An exception inside inspect is an answer, too; then nothing is confirmed.
Uncertain ==
  /\ op.pc = "orphans" /\ External /\ "control" \in Faults
  /\ op' = [op EXCEPT !.pc = "store", !.answer = NoAnswer]
  /\ UNCHANGED <<row, copies, placed, runnerVars, stopping, loadVars, faults>>

\* Mutant: the supervisor is not looked for.
GoneGroup(status) == ~(status.group /\ group # "none")
\* Mutant: the last piece of a line is taken as it is.
WholeAny(end) == end

\* Are the runner and the group of the status gone?
Gone(status) == ~Alive /\ ~(status.group /\ group # "none")
\* The end of the next chunk: whole lines only, while somebody may still write.
Whole(end) == IF end % 2 = 1 /\ end > row.offset THEN end - 1 ELSE end

Judge ==
  LET state     == IF op.seen.state = "running" /\ ~Alive THEN "unknown" ELSE op.seen.state
      confirmed == Gone(op.seen) /\ state \in Terminal
      end       == Min({row.offset + Chunk, size})
      upto      == IF confirmed THEN end ELSE Whole(end)
      reading   == op.action = "read"
  IN
  /\ op.pc = "judge"
  /\ op' = [op EXCEPT !.pc = "store",
            !.answer = [state |-> state, confirmed |-> confirmed, read |-> reading,
                        upto |-> IF reading THEN upto ELSE 0, more |-> reading /\ upto < size]]
  /\ UNCHANGED <<row, copies, placed, runnerVars, stopping, loadVars, faults>>

Appended(answer) ==
  [b \in 1..Size |-> IF answer.read /\ row.offset < b /\ b <= answer.upto
                     THEN copies[b] + 1 ELSE copies[b]]

\* Mutant: the drained log is not waited for.
StateOfConfirmed(answer) ==
  IF answer.state \in Terminal /\ ~answer.confirmed THEN "finishing" ELSE answer.state
\* Mutant: the confirmation is not waited for.
StateOfDrained(answer) ==
  IF answer.state \in Terminal /\ (~answer.read \/ answer.more) THEN "finishing" ELSE answer.state

\* A load is only as terminal as its exit is confirmed and its output read.
StateOf(answer) ==
  IF answer.state \in Terminal /\ (~answer.confirmed \/ ~answer.read \/ answer.more)
  THEN "finishing" ELSE answer.state

\* Mutant: the offset stays.
StoredState(answer) == row' = [row EXCEPT !.state = StateOf(answer)]

Stored(answer) ==
  row' = [state |-> StateOf(answer), offset |-> IF answer.read THEN answer.upto ELSE row.offset]

\* After a stop the output is read.
Store ==
  /\ op.pc = "store"
  /\ Stored(op.answer)
  /\ copies' = Appended(op.answer)
  /\ op' = IF op.action = "stop" THEN [Idle EXCEPT !.pc = "inspect"] ELSE Idle
  /\ UNCHANGED <<placed, runnerVars, stopping, loadVars, faults>>

\* A call fails or its answer is lost. A start gives up as it is, a refresh stores
\* that it knows nothing. Without the runner's files every call fails.
Lose ==
  /\ op.pc # "idle"
  /\ \/ op.pc = "inspect" /\ ~placed /\ UNCHANGED faults
     \/ "drop" \in Faults /\ faults < MaxFaults /\ faults' = faults + 1
  /\ op' = Idle
  /\ row' = IF op.action = "start" THEN row ELSE [row EXCEPT !.state = "unknown"]
  /\ UNCHANGED <<copies, placed, runnerVars, stopping, loadVars>>

\* The platform dies; the local log is appended before the transaction commits.
Crash ==
  /\ "crash" \in Faults /\ faults < MaxFaults /\ op.pc # "idle"
  /\ faults' = faults + 1
  /\ op' = Idle
  /\ \/ UNCHANGED copies
     \/ op.pc = "store" /\ copies' = Appended(op.answer)
  /\ UNCHANGED <<row, placed, runnerVars, stopping, loadVars>>

-----------------------------------------------------------------------------
OpStep == MakeDirectory \/ WriteFiles \/ Launch \/ Inspect \/ Reread \/ StopOrphans \/ Judge \/ Store

Next ==
  \/ RunnerStep \/ Write \/ LeaderExits \/ ToolChanges \/ Kill
  \/ StartRow \/ Monitor \/ Request \/ OpStep \/ Uncertain \/ Lose \/ Crash

Spec == Init /\ [][Next]_vars

\* The runner is scheduled and its stages have deadlines; the platform's threads are
\* scheduled and remote calls time out; the monitor never ends. The loads that fail
\* because the runner's files are missing are the platform's steps, too.
FairSpec ==
  /\ Spec /\ WF_vars(RunnerStep) /\ WF_vars(OpStep) /\ WF_vars(Lose /\ ~placed)
  /\ WF_vars(Monitor)

-----------------------------------------------------------------------------
(* Properties.                                                               *)

\* A load whose row is terminal has no process left on the device: the runner and the
\* group are gone. finish and release_scene free the devices on the strength of that
\* row (core.py, catalog.py); README: what is not confirmed stays unknown and occupied.
TerminalMeansGone == Settled => ~Alive /\ group = "none"

\* The same for the external tool: load_runner.py refuses to report a load whose stop it
\* has not seen ("the stop of the external load has not been verified").
SettledToolIsStopped == Settled => ~tool

\* A load becomes terminal only after its whole output is in the local log.
NothingLost == Settled => \A b \in 1..size : copies[b] >= 1

\* A byte is appended twice only when the platform died while storing it.
NoExtraCopies == \A b \in 1..Size : copies[b] <= 1 + faults

\* A line is cut in two between reads only when its writers are gone.
LinesAreWhole == row.offset % 2 = 1 => ~Alive /\ group = "none"

\* A load whose row is terminal has no process left and its whole output in the local log,
\* where no byte is repeated unless the platform died while storing it, and no line is cut
\* that its writer may still complete (Workloads.store, load_runner.inspect).
LogIsExact == TypeOK /\ TerminalMeansGone /\ NothingLost /\ NoExtraCopies /\ LinesAreWhole

Ledger == INSTANCE LoadLedger WITH
  phase   <- IF runner = "absent" THEN "new"
             ELSE IF Alive \/ group # "none" THEN "live" ELSE "over",
  settled <- Settled

\* The platform implements LoadLedger: launched once, settled only when it is over.
KeepsLedger == Ledger!Spec

\* A load whose runner has left evidence settles, whatever calls are lost, however
\* often the platform dies and even after its terminal row was overwritten.
StartedLoadSettles == (file # NoStatus) ~> Settled

\* A stop that reached the runner ends it: nothing hangs on the device.
SignalledRunnerEnds == stopping ~> ~Alive

\* workloads.py: "Persist before any remote mutation; interrupted startup is
\* reconciled, never relaunched": a start that was interrupted settles.
InterruptedStartIsReconciled == (row.state = "starting" /\ op.pc = "idle") ~> Settled

\* README: a load in an unknown state keeps its devices and "can be queried or stopped
\* on the task page": a load that is stopped over and over settles some time.
UnknownLoadCanBeStopped ==
  []<>(op.action = "stop" /\ op.pc = "judge") => <>Settled
=============================================================================
