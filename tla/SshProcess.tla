------------------------------ MODULE SshProcess ------------------------------
(****************************************************************************)
(* SSHExecutor of one task and one device: the call the agent has in flight,*)
(* the process handles in the database, the process groups on the device,   *)
(* and the two threads that may stop the executor, of Runtime.stop and of   *)
(* the worker's clean-up. The call is of an ACP backend: it runs on a thread*)
(* of its own and the worker may end while it is in flight.                 *)
(*                                                                          *)
(* A group is alone identified by its pid file and the marker in its        *)
(* leader's environment. "starting" has written no pid file yet, "vanished" *)
(* is gone without one.                                                     *)
(****************************************************************************)
EXTENDS Naturals, FiniteSets

CONSTANTS
  Calls,     \* what the agent uses, of "exec", "write", "shell", "reconnect"
  MaxExecs,  \* bound on the commands executed
  MaxSshFaults  \* bound on the lost connections and reboots

ASSUME SshAssumption ==
  /\ Calls \subseteq {"exec", "write", "shell", "reconnect"}
  /\ MaxExecs \in Nat /\ MaxSshFaults \in Nat

VARIABLES
  status, scene,  \* of the task
  cancelled,      \* run['cancel']
  finished,       \* Gateway.finished
  worker,         \* "run", "checked", "cleanup", "closing", "done"
  call,           \* the call in flight
  client,         \* a connection is kept in clients
  handle,            \* process_handles of each command
  group,          \* its process group on the device
  stop,           \* the two calls of SSHExecutor.stop
  session,        \* the interactive channel: "none", "open", "closed"
  used,           \* interactive_used
  program,        \* a program started in an interactive shell is running
  content, temp, backup,  \* the file on the device, its temporary copy, the saved original
  sshFaults

runVars  == <<status, scene, cancelled, finished, worker>>
shellVars == <<session, used, program>>
fileVars  == <<content, temp, backup>>
sshVars == <<runVars, call, client, handle, group, stop, shellVars, fileVars, sshFaults>>

Op      == 1..MaxExecs
Stopper == {"user", "worker"}
Running == {"starting", "leader", "children", "dying"}
Quiet   == [pc |-> "idle", kind |-> "none", live |-> FALSE]
Executed == Cardinality({op \in Op : handle[op] # "none"})

SshTypeOK ==
  /\ status \in {"running", "stopping", "failed", "stopped", "succeeded"}
  /\ scene \in {"active", "unknown", "needs_recovery", "clean"}
  /\ worker \in {"run", "checked", "cleanup", "closing", "done"}
  /\ call \in [pc : {"idle", "connecting", "connected", "sending", "collect", "verify",
                     "backed", "temp", "rename", "reread", "shown", "send"},
               kind : Calls \cup {"none"}, live : BOOLEAN]
  /\ handle \in [Op -> {"none", "active", "inactive"}]
  /\ group \in [Op -> Running \cup {"none", "gone", "vanished"}]
  /\ stop \in [Stopper -> [pc : {"idle", "read", "control", "recheck", "done"},
                           todo : SUBSET Op, ok : BOOLEAN]]
  /\ session \in {"none", "open", "closed"}
  /\ content \in {"old", "partial", "new"} /\ temp \in {"none", "partial", "whole"}
  /\ cancelled \in BOOLEAN /\ finished \in BOOLEAN /\ client \in BOOLEAN
  /\ used \in BOOLEAN /\ program \in BOOLEAN /\ backup \in BOOLEAN /\ sshFaults \in 0..MaxSshFaults

SshInit ==
  /\ status = "running" /\ scene = "active" /\ cancelled = FALSE /\ finished = FALSE
  /\ worker = "run" /\ call = Quiet /\ client = FALSE
  /\ handle = [op \in Op |-> "none"] /\ group = [op \in Op |-> "none"]
  /\ stop = [s \in Stopper |-> [pc |-> "idle", todo |-> {}, ok |-> TRUE]]
  /\ session = "none" /\ used = FALSE /\ program = FALSE
  /\ content = "old" /\ temp = "none" /\ backup = FALSE /\ sshFaults = 0

SshFault == sshFaults < MaxSshFaults /\ sshFaults' = sshFaults + 1
Fails == status' = IF status \in {"succeeded", "failed", "stopped"} THEN status ELSE "failed"
FailsScene == scene' = IF status \in {"succeeded", "failed", "stopped"} THEN scene ELSE "unknown"
\* close: every session and every kept connection, also under the call in flight.
Close ==
  /\ client' = FALSE /\ session' = (IF session = "open" THEN "closed" ELSE session)
  /\ call' = IF call.pc = "connecting" THEN call ELSE [call EXCEPT !.live = FALSE]

-----------------------------------------------------------------------------
(* The call in flight.                                                       *)

GoOn(pc) == call' = [call EXCEPT !.pc = pc]
ReturnCall == call' = Quiet /\ UNCHANGED runVars
\* An error fails the task and cancels the run; Cancelled is raised as it is.
RaiseError == call' = Quiet /\ Fails /\ FailsScene /\ cancelled' = TRUE /\ UNCHANGED <<finished, worker>>
Doing(pc, kind) == call.pc = pc /\ call.kind = kind
Exec == CHOOSE op \in Op : handle[op] # "none" /\ \A later \in Op : later > op => handle[later] = "none"
Next1 == Executed + 1

\* The call takes the kept connection or makes one. wait_connected drops what is kept.
BeginCall ==
  /\ call.pc = "idle" /\ ~cancelled /\ status = "running" /\ ~finished
  /\ \E kind \in Calls :
       /\ kind = "exec" => Executed < MaxExecs
       /\ call' = [pc |-> IF kind = "shell" /\ session = "open" THEN "send"
                          ELSE IF client /\ kind # "reconnect" THEN "connected" ELSE "connecting",
                   kind |-> kind, live |-> client /\ kind # "reconnect"]
       /\ IF kind = "reconnect"
          THEN client' = FALSE /\ session' = (IF session = "open" THEN "closed" ELSE session)
          ELSE UNCHANGED <<client, session>>
  /\ UNCHANGED <<runVars, handle, group, stop, used, program, fileVars, sshFaults>>

Connect ==
  /\ call.pc = "connecting"
  /\ \/ /\ client' = TRUE /\ UNCHANGED <<runVars, sshFaults>>
        /\ call' = IF call.kind = "reconnect" THEN Quiet
                   ELSE [call EXCEPT !.pc = "connected", !.live = TRUE]
     \/ SshFault /\ call.kind # "reconnect" /\ RaiseError /\ UNCHANGED client
  /\ UNCHANGED <<handle, group, stop, shellVars, fileVars>>

\* wait_connected tries once a second until the run is cancelled or its time is over.
GiveUpConnecting ==
  /\ Doing("connecting", "reconnect")
  /\ IF cancelled THEN ReturnCall ELSE RaiseError
  /\ UNCHANGED <<client, handle, group, stop, shellVars, fileVars, sshFaults>>

StoreHandle ==
  /\ Doing("connected", "exec") /\ GoOn("sending")
  /\ handle' = [handle EXCEPT ![Next1] = "active"]
  /\ UNCHANGED <<runVars, client, group, stop, shellVars, fileVars, sshFaults>>

\* exec_command: the command starts, unless the connection is closed; when it is lost
\* the command may or may not have started.
Send ==
  /\ Doing("sending", "exec")
  /\ \/ /\ call.live /\ GoOn("collect")
        /\ group' = [group EXCEPT ![Exec] = "starting"] /\ UNCHANGED <<runVars, sshFaults>>
     \/ ~call.live /\ RaiseError /\ UNCHANGED <<group, sshFaults>>
     \/ /\ SshFault /\ RaiseError
        /\ group' \in {group, [group EXCEPT ![Exec] = "starting"]}
  /\ UNCHANGED <<client, handle, stop, shellVars, fileVars>>

\* Mutant: the output is collected to its end, stopped or not.
CollectAll ==
  /\ Doing("collect", "exec")
  /\ group[Exec] \notin {"starting", "leader"} \/ ~call.live
  /\ GoOn("verify")
  /\ UNCHANGED <<runVars, client, handle, group, stop, shellVars, fileVars, sshFaults>>

\* _collect ends by a stop, by the exit status or the end of the channel, or by time.
Collect ==
  /\ Doing("collect", "exec")
  /\ \/ cancelled /\ ReturnCall
     \/ /\ group[Exec] \notin {"starting", "leader"} \/ ~call.live
        /\ GoOn("verify") /\ UNCHANGED runVars
     \/ ~cancelled /\ RaiseError
  /\ UNCHANGED <<client, handle, group, stop, shellVars, fileVars, sshFaults>>

\* Mutant: the exit status counts as the end of the process group.
VerifyExit ==
  /\ Doing("verify", "exec")
  /\ handle' = [handle EXCEPT ![Exec] = "inactive"]
  /\ (ReturnCall \/ RaiseError)
  /\ UNCHANGED <<client, group, stop, shellVars, fileVars, sshFaults>>

\* The group must be gone, which a fresh connection asks; then the exit code counts.
VerifyGone ==
  /\ Doing("verify", "exec")
  /\ \/ /\ group[Exec] = "gone" /\ handle' = [handle EXCEPT ![Exec] = "inactive"]
        /\ (ReturnCall \/ RaiseError) /\ UNCHANGED sshFaults
     \/ group[Exec] # "gone" /\ RaiseError /\ UNCHANGED <<handle, sshFaults>>
     \/ SshFault /\ RaiseError /\ UNCHANGED handle
  /\ UNCHANGED <<client, group, stop, shellVars, fileVars>>

-----------------------------------------------------------------------------
(* write_file and the interactive shell.                                     *)

\* A failing step of write_file removes the temporary file if it still can.
WriteFails ==
  /\ call.kind = "write" /\ call.pc \in {"connected", "backed", "temp", "rename", "reread"}
  /\ (~call.live /\ UNCHANGED sshFaults) \/ SshFault
  /\ RaiseError /\ (temp' = "none" \/ UNCHANGED temp)
  /\ UNCHANGED <<client, handle, group, stop, shellVars, content, backup>>

BackUp ==
  /\ Doing("connected", "write") /\ call.live /\ GoOn("backed")
  /\ backup' = TRUE
  /\ UNCHANGED <<runVars, client, handle, group, stop, shellVars, content, temp, sshFaults>>

\* Mutant: the file is written in place.
OpenTarget ==
  /\ Doing("backed", "write") /\ call.live /\ GoOn("temp")
  /\ temp' = "partial" /\ content' = "partial"
  /\ UNCHANGED <<runVars, client, handle, group, stop, shellVars, backup, sshFaults>>

OpenTemp ==
  /\ Doing("backed", "write") /\ call.live /\ GoOn("temp")
  /\ temp' = "partial"
  /\ UNCHANGED <<runVars, client, handle, group, stop, shellVars, content, backup, sshFaults>>

\* The last look at the stop before the file is replaced.
WriteTemp ==
  /\ Doing("temp", "write") /\ call.live
  /\ IF cancelled THEN ReturnCall /\ temp' = "none"
     ELSE GoOn("rename") /\ temp' = "whole" /\ UNCHANGED runVars
  /\ UNCHANGED <<client, handle, group, stop, shellVars, content, backup, sshFaults>>

\* Mutant: the rename opens a connection of its own.
RenameAgain ==
  /\ Doing("rename", "write") /\ temp' = "none"
  /\ GoOn("reread") /\ content' = "new" /\ UNCHANGED runVars
  /\ UNCHANGED <<client, handle, group, stop, shellVars, backup, sshFaults>>

\* posix_rename replaces the file at once, or fails; a lost answer does not tell which.
Rename ==
  /\ Doing("rename", "write") /\ call.live /\ temp' = "none"
  /\ \/ GoOn("reread") /\ content' = "new" /\ UNCHANGED runVars
     \/ RaiseError /\ content' \in {content, "new"}
  /\ UNCHANGED <<client, handle, group, stop, shellVars, backup, sshFaults>>

\* The file is read back over the kept connection, which a stop refuses.
ReadBack ==
  /\ Doing("reread", "write") /\ call.live
  /\ ReturnCall
  /\ UNCHANGED <<client, handle, group, stop, shellVars, fileVars, sshFaults>>

OpenShell ==
  /\ Doing("connected", "shell")
  /\ IF call.live THEN GoOn("shown") /\ session' = "open" /\ UNCHANGED runVars
     ELSE RaiseError /\ UNCHANGED session
  /\ UNCHANGED <<client, handle, group, stop, used, program, fileVars, sshFaults>>

MarkInteractive ==
  /\ Doing("shown", "shell") /\ used' = TRUE
  /\ IF session = "open" THEN ReturnCall ELSE RaiseError
  /\ UNCHANGED <<client, handle, group, stop, session, program, fileVars, sshFaults>>

\* shell_send on a session that is still registered; the agent may then close it.
SendText ==
  /\ Doing("send", "shell")
  /\ \/ session # "open" /\ RaiseError /\ UNCHANGED <<session, program>>
     \/ /\ session = "open" /\ program' = TRUE
        /\ \/ ReturnCall /\ (session' = "closed" \/ UNCHANGED session)
           \/ ~cancelled /\ RaiseError /\ UNCHANGED session
  /\ UNCHANGED <<client, handle, group, stop, used, fileVars, sshFaults>>

-----------------------------------------------------------------------------
(* Stopping.                                                                 *)

StopAt(s, pc, todo, ok) == stop' = [stop EXCEPT ![s] = [pc |-> pc, todo |-> todo, ok |-> ok]]

\* Runtime.stop, then the terminate thread.
UserStop ==
  /\ status = "running" /\ stop["user"].pc = "idle"
  /\ status' = "stopping" /\ cancelled' = TRUE
  /\ stop' = [stop EXCEPT !["user"].pc = "read"]
  /\ UNCHANGED <<scene, finished, worker, call, client, handle, group, shellVars, fileVars, sshFaults>>

ReadHandles(s) ==
  /\ stop[s].pc = "read"
  /\ StopAt(s, "control", {op \in Op : handle[op] = "active"}, TRUE)
  /\ UNCHANGED <<runVars, call, client, handle, group, shellVars, fileVars, sshFaults>>

\* Mutant: every answer but "active" counts as an end.
LearnKnown(s, op, stopped) ==
  /\ StopAt(s, "control", stop[s].todo \ {op}, stop[s].ok)
  /\ handle' = [handle EXCEPT ![op] = "inactive"]

\* What a thread learns of a group: it is gone for good or it is not.
Learn(s, op, stopped) ==
  /\ StopAt(s, "control", stop[s].todo \ {op}, stop[s].ok /\ stopped)
  /\ handle' = IF stopped THEN [handle EXCEPT ![op] = "inactive"] ELSE handle

\* Mutant: the group is only looked at.
ControlLooks(s) ==
  /\ stop[s].pc = "control"
  /\ \E op \in stop[s].todo : Learn(s, op, group[op] = "gone")
  /\ UNCHANGED <<runVars, call, client, group, shellVars, fileVars, sshFaults>>

\* _group_control(kill=True): only a group whose leader carries the marker is killed, and
\* a killed group may take its time. A lost connection says nothing of what was done.
Control(s) ==
  /\ stop[s].pc = "control"
  /\ \E op \in stop[s].todo :
       \/ group[op] = "gone" /\ Learn(s, op, TRUE) /\ UNCHANGED <<group, sshFaults>>
       \/ group[op] \notin {"gone", "leader"} /\ Learn(s, op, FALSE) /\ UNCHANGED <<group, sshFaults>>
       \/ /\ group[op] = "leader" /\ group' = [group EXCEPT ![op] = "gone"]
          /\ Learn(s, op, TRUE) /\ UNCHANGED sshFaults
       \/ /\ group[op] = "leader" /\ group' = [group EXCEPT ![op] = "dying"]
          /\ StopAt(s, "recheck", stop[s].todo, stop[s].ok)
          /\ UNCHANGED <<handle, sshFaults>>
       \/ /\ SshFault /\ Learn(s, op, FALSE)
          /\ group' \in {group, [group EXCEPT ![op] = IF @ = "leader" THEN "dying" ELSE @]}
  /\ UNCHANGED <<runVars, call, client, shellVars, fileVars>>

\* The second look, without killing, a moment after a kill that was not confirmed.
Recheck(s) ==
  /\ stop[s].pc = "recheck"
  /\ \E op \in stop[s].todo : group[op] \in {"dying", "gone", "vanished"} /\ Learn(s, op, group[op] = "gone")
  /\ UNCHANGED <<runVars, call, client, group, shellVars, fileVars, sshFaults>>

\* The end of SSHExecutor.stop: a stop after an interactive shell is never confirmed.
CloseAll(s) ==
  /\ stop[s].pc = "control" /\ stop[s].todo = {}
  /\ StopAt(s, "done", {}, stop[s].ok /\ ~used)
  /\ Close
  /\ UNCHANGED <<runVars, handle, group, used, program, fileVars, sshFaults>>

Terminated ==
  /\ stop["user"].pc = "done" /\ status # "stopped"
  /\ status' = "stopped" /\ scene' = IF stop["user"].ok THEN "needs_recovery" ELSE "unknown"
  /\ UNCHANGED <<cancelled, finished, worker, call, client, handle, group, stop, shellVars, fileVars, sshFaults>>

-----------------------------------------------------------------------------
(* The worker of the task.                                                   *)

AgentFinishes ==
  /\ call.pc = "idle" /\ ~cancelled /\ status = "running" /\ ~finished
  /\ finished' = TRUE
  /\ UNCHANGED <<status, scene, cancelled, worker, call, client, handle, group, stop, shellVars, fileVars, sshFaults>>

CleanUp ==
  /\ worker' = "cleanup"
  /\ stop' = [stop EXCEPT !["worker"].pc = "read"]

\* The worker's except Exception: the task fails unless the run is cancelled.
WorkerRaises ==
  /\ (IF cancelled THEN UNCHANGED <<status, scene>> ELSE Fails /\ FailsScene)
  /\ CleanUp

BackendFails ==
  /\ worker = "run" /\ WorkerRaises
  /\ UNCHANGED <<cancelled, finished, call, client, handle, group, shellVars, fileVars, sshFaults>>

\* The backend returns to a cancelled run: only a failed task is cleaned up.
WorkerCancelled ==
  /\ worker = "run" /\ cancelled
  /\ IF status = "failed" THEN CleanUp ELSE worker' = "closing" /\ UNCHANGED stop
  /\ UNCHANGED <<status, scene, cancelled, finished, call, client, handle, group, shellVars, fileVars, sshFaults>>

CheckHandles ==
  /\ worker = "run" /\ finished /\ ~cancelled
  /\ IF \A op \in Op : handle[op] # "active"
     THEN worker' = "checked" /\ UNCHANGED <<status, scene, stop>>
     ELSE WorkerRaises
  /\ UNCHANGED <<cancelled, finished, call, client, handle, group, shellVars, fileVars, sshFaults>>

\* The executor is closed, then Core.finish: the task may have been stopped meanwhile.
FinishTask ==
  /\ worker = "checked" /\ Close
  /\ IF status = "running"
     THEN status' = "succeeded" /\ scene' = "clean" /\ worker' = "closing" /\ UNCHANGED stop
     ELSE WorkerRaises
  /\ UNCHANGED <<cancelled, finished, handle, group, used, program, fileVars, sshFaults>>

WorkerCloses ==
  /\ \/ worker = "closing" /\ worker' = "done" /\ Close
     \/ /\ worker = "cleanup" /\ stop["worker"].pc = "done"
        /\ worker' = "done" /\ Close
  /\ UNCHANGED <<status, scene, cancelled, finished, handle, group, stop, used, program, fileVars, sshFaults>>

-----------------------------------------------------------------------------
(* The device.                                                               *)

\* A command starts (or cannot, without setsid), its leader and its children end.
GroupStep(op) ==
  /\ \/ group[op] = "starting" /\ group' = [group EXCEPT ![op] = "leader"]
     \/ group[op] = "starting" /\ group' = [group EXCEPT ![op] = "vanished"]
     \/ group[op] = "leader"   /\ group' = [group EXCEPT ![op] = "children"]
     \/ group[op] \in {"leader", "children", "dying"} /\ group' = [group EXCEPT ![op] = "gone"]
  /\ UNCHANGED <<runVars, call, client, handle, stop, shellVars, fileVars, sshFaults>>

ProgramEnds ==
  /\ program /\ program' = FALSE
  /\ UNCHANGED <<runVars, call, client, handle, group, stop, session, used, fileVars, sshFaults>>

\* A reboot ends every group and may clear /tmp; the connections end.
RebootDevice ==
  /\ SshFault
  /\ \E left \in {"gone", "vanished"} :
       group' = [op \in Op |-> CASE group[op] = "none" -> "none"
                                 [] group[op] \in {"starting", "vanished"} -> "vanished"
                                 [] OTHER -> left]
  /\ Close /\ program' = FALSE
  /\ UNCHANGED <<runVars, handle, stop, used, fileVars>>

CallStep ==
  \/ BeginCall \/ Connect \/ GiveUpConnecting
  \/ StoreHandle \/ Send \/ Collect \/ VerifyGone
  \/ WriteFails \/ BackUp \/ OpenTemp \/ WriteTemp \/ Rename \/ ReadBack
  \/ OpenShell \/ MarkInteractive \/ SendText
StopStep(s) == ReadHandles(s) \/ Control(s) \/ Recheck(s) \/ CloseAll(s)
WorkerStep  == BackendFails \/ WorkerCancelled \/ CheckHandles \/ FinishTask \/ WorkerCloses

SshNext ==
  \/ CallStep \/ AgentFinishes \/ UserStop \/ Terminated \/ WorkerStep
  \/ \E s \in Stopper : StopStep(s)
  \/ \E op \in Op : GroupStep(op)
  \/ ProgramEnds \/ RebootDevice

SshSpec == SshInit /\ [][SshNext]_sshVars

\* Calls, threads and killed processes proceed; commands and users need not.
FairSpec ==
  /\ SshSpec
  /\ WF_sshVars(CallStep) /\ WF_sshVars(Terminated)
  /\ \A s \in Stopper : WF_sshVars(StopStep(s))
  /\ \A op \in Op : WF_sshVars(group[op] = "dying" /\ GroupStep(op))

-----------------------------------------------------------------------------
\* Whatever is running on the device, a handle in the database says so: through lost
\* connections, two stops at once and reboots, no group outlives its active handle.
GroupsAreTracked == \A op \in Op : group[op] \in Running => handle[op] = "active"

\* No command of a task that succeeded is running: the worker looks at the handles before it
\* gives the devices back. (A program in an interactive shell has no handle.)
SuccessLeavesNothing == status = "succeeded" => \A op \in Op : group[op] \notin Running

\* Both, which is what Runtime relies on when it looks at the handles instead of the device.
NothingRunsUntracked == SshTypeOK /\ GroupsAreTracked /\ SuccessLeavesNothing

\* A file of the device is replaced whole or not at all, and never without a copy of the
\* original in the task's files.
ReplacedWithBackup == content # "partial" /\ (content = "new" => backup)

\* Once the user's stop is through, the call it interrupted replaces no file.
StoppedFilesStay == [][(stop["user"].pc = "done") => UNCHANGED content]_sshVars

\* A cancelled call returns, wherever the cancellation finds it.
CancelledCallEnds == cancelled ~> call.pc = "idle"

\* A stop that can reach the device ends the command it finds running.
StoppedCommandEnds ==
  \A op \in Op :
    (stop["user"].pc = "read" /\ handle[op] = "active" /\ group[op] = "leader") ~> group[op] # "leader"
=============================================================================
