# Verification of pangea-testagent

TLA+ models of the platform that lets an AI agent run test tasks on real devices under
a user's control, with TLC configurations that check them on small instances and
TLAPS proofs of theorems that hold for every instance. Paths are relative to the
repository; `core.py` and the like are under `src/testagent/`.

## 1. The system

One Python process serves a local web interface. Its state is a SQLite database behind
one re-entrant lock: `Core.tx()` is a transaction, so everything inside one `with
self.core.tx()` block happens at once, and nothing that spans two of them does. The
threads that interleave between transactions are the scheduler, one worker per task,
HTTP request threads (the user's requests, and the tool calls of an ACP agent's bridge),
the terminate thread of every stop, the thread of every recovery plan, and the workload monitor.

| Component (source) | State | Operations | What makes it correct |
|---|---|---|---|
| Preview and operation gate (`core.py`, `tools.py`, `catalog.py`) | previews, approvals, messages, checks, steps, task status; the call in flight, `Gateway.finished`, the run's cancel event | `propose_preview`, `approve_preview`, `reject_preview`, `request_operation`, `approve`, `consume_operation`, `record_result`, `ask`, `check`, `complete_step`, `finish`, `message`, `drain_messages` | only what the user confirmed runs, in order, once, and never after a newer request or an error; a task completes only when it did everything; cancelled calls return |
| Task store and reservations (`core.py`, `catalog.py`) | tasks, reservations | `create_task`, `claim`, `finish`, `fail`, `stop_simulation`, `release_scene`, `delete_task`, `recover_startup` | a device belongs to one task at a time and changes hands only on purpose |
| Runtime (`runtime.py`, requests in `server.py`) | `runs`, `tokens`, `dispatch_lock`, recovery rows | scheduler loop, worker, `stop`, `release_scene`, `propose/approve/reject_recovery`, `close` | queued tasks are claimed, stops end, a recovery takes over all devices at once while its parent is idle |
| Workloads (`workloads.py`, `remote/load_runner.py`, `remote/block_guard.py`) | workload rows with state and offset; the runner's state file and processes on the device | `start`, `refresh`, `stop_all`, `settled`, monitor loop; runner `start`, `read`, `stop` | a load is terminal only when its exit is confirmed and its output stored; it settles in the end; it keeps its device |
| Load plans, metrics (`load_plans.py`, `load_schema.py`, `metrics.py`) | none | `stages`, `compile_load`, `parse_line` | the stages are the plan: no gap, no overlap, the surge where it should be |
| Tuning (`tuning.py`, `remote/tune.py`) | tuning rows, backups on the platform and the device | `apply`, `restore`, the check of `finish` | what was changed is restored before a task succeeds |
| SSH executor (`ssh.py`) | connections, terminal sessions, process handles | `exec`, `shell_*`, `write_file`, `wait_connected`, `stop`, `close` | nothing runs without a handle; files are whole; a stopped call returns |
| Catalog (`catalog.py`) | devices, environments, captures, pinned host keys | save, delete, import, `capture` | a reserved device keeps its target; environments name devices that exist; evidence is output |
| Execution rules (`execution.py`) | none | `validate_operation`, `canonical`, `comparisons` | an operation equals the previewed one iff it does the same |
| Simulated execution (`simulation.py`) | the rows of its task | `prepare`, `execute` | executes at most once, and a task that succeeds has executed; a restart between two commits leaves the task failed with its devices |
| Back ends (`acp.py`, `openai_backend.py`, `bridge.py`, `backends.py`) | the agent's process and pipes, pending calls; the model's request and stream | `run`, `call`, `cancel`, `close` | calls come from whole answers, responses reach their calls; a run ends, and its process with it |
| Updates (`updates.py`, `patching.py`, `scripts/apply-update.ps1`) | pending update, staging directory, application directory | `inspect`, `apply`, the helper script | there is always an application to go back to, and it comes back |
| Servers (`server.py`, `launcher.py`) | the port, the process's runs | launch, bind, serve, close | one server works on the database at a time |
| Tool library (`tool_library.py`) | packages on the platform | `import_zip`, `deploy` | what is deployed has been read whole |
| Skills, packages, scenarios; vault; notifications; web interface; build scripts | documents, files, secrets | validation and I/O | not state machines worth a model (section 6) |

Interactions: the agent's tool calls enter `Gateway.__call__`, which waits in loops that poll
the database until a request of the user (HTTP) changes a row, and then runs the operation
through the executor (`ssh.py`), which starts loads and tunings on the device. A failure
anywhere ends in `Core.fail`, whose caller sets the run's cancel event *after* the transaction.
The worker finishes the task, and its clean-up reports to the recovery row. The scheduler and
recoveries exchange reservations under `dispatch_lock`.

What is hard to test here is listed, each at its line, under `hazards` in
`PROJECT.json`: statuses read in one transaction and used in another (`stop`, `ask`,
`approve_preview`), messages that cross an approval or an operation's start, a worker
that ends while its agent's call goes on, hand-over of devices, restarts between two
steps, and remote processes and loads whose exit is not confirmed.

## 2. The modules

| Module | Role | Implements, proofs |
|---|---|---|
| `OperationGate` | one claimed task between the user and its devices | `OperationGate_proofs` |
| `TaskLifecycle` | several tasks, recoveries and the scheduler competing for devices | implements `DeviceLease` (`TaskLifecycle_proofs`, `DeviceLease_proofs`) |
| `LoadCustody` | which task keeps the device a load runs on | `Loads_proofs` |
| `Workload` | one load: its row, the monitor, the detached runner, its processes | implements `LoadLedger` (`Loads_proofs`) |
| `LoadStages` | how a plan becomes stages | `Loads_proofs` |
| `IrqTuning` | tunings of a task and of the recoveries after it | `Devices_proofs` |
| `SshProcess` | one task's commands, files and shells on a device against its stop | `Devices_proofs` |
| `DeviceCatalog` | devices and environments edited under tasks that use them | `Catalog_proofs` |
| `ConfigCapture` | captures of a configuration and their comparison | `Catalog_proofs` |
| `AcpClient`, `OpenAIBackend`, `SimulatedRun` | the three back ends of a task | `Backends_proofs` |
| `ServerInstances` | several starts of the platform on one database | `Platform_proofs` |
| `UpdateHandoff` | imports, the hand-over to the helper, and the helper | `Platform_proofs` |
| `ToolLibrary` | imports of a package while it is deployed | `Platform_proofs` |
| `MCOperationGate`, `MCTaskLifecycle`, `MCLoads`, `MCDevices`, `MCBackends`, `MCPlatform`, `MCCatalog` | the instances TLC checks | `Devices_proofs` and `Catalog_proofs` extend two of them |

How they fit together. `OperationGate` and `TaskLifecycle` see the same code from two sides:
the first has one task and every step of a tool call; the second has many tasks and reduces
a run to running, waiting, asking, ending. The actions they share (`StopCheck` to
`Terminate`, `ReleaseScene`, `Restart`, the ends of the worker) are translated from the same
lines. `LoadCustody` composes the tasks of a device with loads of which it knows only what
`LoadLedger` promises, and `Workload` is shown to keep that promise. The back ends and
`SshProcess` are what `OperationGate` leaves open as "the call comes back, or fails":
`AcpClient` and `OpenAIBackend` end when they are cancelled because, as
`CancelledCallReturns` and `StoppedCallReturns` say, the calls under them do.

### OperationGate

State: the task row (`status`, `scene`), `held` (its reservations), the rows of
`previews`, `approvals`, `messages` (only how many are unread), `checks`, `steps`; the
place of the call in flight (`pc`, `subject`: the identity the call's loop polls for);
`finished`, `cancelled`, where the worker and the stop request are, and whether a reject
request still has to set the cancel event. The events the properties are about are
fields of the rows: `confirmed` (`preview.approved`), `granted` (`approval.granted`),
`output` (`tool.finished`).

One action is one transaction, or the step of a thread between two of them:

- `BeginCall` is `Gateway.execute` up to the branch on the action (cancelled, status,
  finished); `InvalidCall` is every refusal of arguments.
- A preview call is `ProposePreview`, then rounds of `AwaitPreview`; a question is `Ask`,
  `AwaitAnswer`, `Answered`; an operation is `RequestOperation`, `AwaitGrant`,
  `DrainBeforeStart`, `Displace` or `ConsumeOperation`, `RecordResult`.
- An exception goes through `FailCall` (`core.fail`) and `CancelCall` (`cancelled.set()`):
  two steps, because they are two in the code. For an ACP backend, whose calls come in on
  HTTP threads, the handler in `server.py` repeats both; for an OpenAI backend the
  exception unwinds the worker's own thread.
- `Message` is `Catalog.message` with everything it voids, in one transaction.
- The worker's `BackendReturns`, `BackendFails`, `BackendCancelled`, `Finish`,
  `WorkerEnds` are the paths through `Runtime.worker`.
- `StopCheck`, `StopMark`, `StopSignal`, `Terminate` are the separate steps of
  `Runtime.stop`.

Abstractions: an operation is a model value (its canonical form; `canonical` is equality),
a message is its being unread, results are ok or an error, checks and steps are those the
contract requires. `kind = "acp"` stands for the profiles `nga`, `opencode` and
`codeagent`. The bridge reads its requests in a sequential loop, so a task has one call
in flight. Refusals of `finish` because of processes, loads or tuning are the second
disjunct of `Finish`, always possible. Reservations that move to a recovery task look
like a release from here. Simulated tasks have no calls and are left to `TaskLifecycle`.

### TaskLifecycle and DeviceLease

State: `status`, `scene`, the devices a task is bound to, `owner` (reservations), the
task claimed but not yet in `Runtime.runs`, the phase of every worker, the set cancel
events, the stop request of every task, the pending cancel signals, recovery rows.
`dispatching # None` is the scheduler holding `dispatch_lock`; `Create`, `ReleaseScene`
and `ApproveRecovery`, which take that lock, wait for it. A pass of the scheduler over
several tasks is one task at a time, since the lock is only observable between `claim`
and the registration of the run. The first, unlocked check of `propose_recovery` is one step with its
transaction: `approve_recovery` looks at everything again.

`DeviceLease` knows owners and users only: `Acquire`, `GiveBack`, `Cease`, `HandOver`.
`TaskLifecycle` implements it with `using` mapped to the devices of the runs on real
devices from their claim until their worker starts cleaning up (`Using`).

### Loads: LoadCustody, Workload, LoadLedger, LoadStages

`Workload` has the row of one load (`row.state`, `row.offset`), the local log (`copies` says
how often each byte is in it), the one operation that holds `Workloads.lock` (`op`), and on
the device the supervisor (`runner`, its dictionary `memory` and its `file`), the process
group of the stage, an external tool, and the output. `StartRow` to `Launch` are the steps of
`start`; `Begin` to `Close` those of `load_runner.run`, with `Raise` wherever a stage may
fail; `Inspect`, `Reread`, `StopOrphans`, `Judge` are `inspect` and `read`; `Store` is
`Workloads.store`. Every remote call is one step between two of the runner's. `Faults` chooses
what may go wrong: a call is lost (`drop`: with or without its effect), the platform dies
(`crash`, also between the log and the row), the supervisor is killed (`kill`), a child
survives the kill (`stubborn`), the commands of the tool fail (`control`). Output is a number of bytes,
two to a line. The rotation of sample files and the parsing of samples are left out.

`LoadLedger` promises that a load is launched once and reported as settled only when it is
over; a report may be withdrawn, a load never comes back. `Workload` implements it under a
mapping of its runner and group to `phase`.

`LoadCustody` has the tasks of one device, one load each, and recoveries: `Finish`,
`Release`, `Delete` with the looks they take at loads, `Recover`, which takes none, and
`Restart`.

`LoadStages` makes an iteration of the loop of `stages()` an action (`Expand`); rates are
whole numbers, and which one a random plan draws is left open. Its variables have names of
their own so that a module can extend it together with others.

### Devices: IrqTuning and SshProcess

`IrqTuning`: a chain of tasks, each the recovery of the one before (`now`), tuning rows,
the call in flight, and on the device the script, the records of `capture`, the values of the IRQs
("boot", "moved" by irqbalance, "tuned") and irqbalance. `BeginApply`, `WriteScript`,
`Capture`, `SaveBackup`, `Apply` are the order of `Tuning.apply` with `remote/tune.py`;
`PartlyApplied` and `PartlyRestored` leave any subset of IRQs written. `Lose` and `Raise` are
lost calls and crashes; `Reboot` puts the device back and changes `boot_id`.

`SshProcess`: one call of an ACP agent, the handle of each command, its process group
("starting" has written no pid file yet, "vanished" is gone without one), and two threads
that may stop the executor: of `Runtime.stop` and of the worker's clean-up. A command goes
through `Connect`, `StoreHandle`, `Send`, `Collect`, `VerifyGone`; a write through `BackUp`,
`OpenTemp`, `WriteTemp`, `Rename`, `ReadBack`; a stop reads the handles it then learns about
and controls one by one (`ReadHandles`, `Learn`, `Control`, `Recheck`, `CloseAll`).

### Catalog: DeviceCatalog and ConfigCapture

`DeviceCatalog`: rows of devices and environments, tasks with the address and fingerprint of their
snapshot, the form a user has open, an import with its transactions, the hosts and their
keys. `Connect` and `Pin` are the host-key policy of `SSHExecutor.connect`. `Claim` of a task
whose device is gone ends the scheduler, as the foreign key does. `Users` are the users a run
may have (`users` is the one it has): the addresses of the file they import, the hosts they
replace and the fingerprints they change (`changes` in all), and what they do at inconvenient
times (`allowed`): edit or remove the device a queued task names, or save a form of a device in
use that shows an older fingerprint than the pinned one. The field of the fingerprint may be
typed in or cleared at any time, for a device in use as well (`SaveForm`); the refusal of a key
tells the user to do so (`ssh.py:54`). `revised`, which only observes, keeps the tasks whose
fingerprint was changed so since they last connected. An import looks (`ImportDevice`) and saves
(`ImportSave`) in two steps.

`ConfigCapture`: the operations of a task of kind "before", "change" or "after", the device's
configuration (a body and a password), the vault, and the rows of `config_captures`. `Execute`
asks the device, `Record` stores `tool.finished`, `Capture` saves the text with the
passwords hidden that the vault knows at that moment.

### Back ends: AcpClient, OpenAIBackend, SimulatedRun

`AcpClient`: the worker's calls and their numbers, the reader thread, the thread of a stop, one
lock around the agent's standard input, and pipes that hold `Room` messages; a prompt may be
larger than that (`Large`), so that a write needs the agent to read. The agent (external)
reads, answers, asks for permissions, tells, finishes through the gateway, and exits at any
point; with `Twice` it may answer twice and with `Slow` a call may be given up before its
answer.

`OpenAIBackend`: turns of one request each. An answer is a stream of lines or one piece,
with calls and a reason to end; it may break off or never end. The worker looks at the event
at `Turn`, `Look`, `Check` and between calls.

`SimulatedRun`: the simulator's worker with `prepare` and `execute`, and the user who confirms,
writes, rejects and stops, with or without a policy that confirms the operation. `execute`
holds the core's lock from its first read to its end, but commits at every call: it is the
steps `Execute` (up to the first commit, which is `Consume`, `ReadMessages` or `Request`),
`RunCommands`, `RecordResult`, `CompleteStep`, `RecordCheck`, `Finish`, or `PrepareAgain`. While it
is `Inside`, calls of the user wait (`Locked`); the signal of a stop does not, and a `Restart` may
come between any two steps. It forgets the worker and the lock, keeps what is committed, and fails
the task (`restarted`). What a user does with the devices of a failed task is in `TaskLifecycle`.

### Platform: ServerInstances, UpdateHandoff, ToolLibrary

`ServerInstances`: processes that are launched, bind the port (`Exclusive`: does a bound port
exclude others?), interrupt what they find active, serve, close and go down, or crash; the
schedulers share the task table, `Runtime.runs` belongs to one process.

`UpdateHandoff`: `BeginImport`, `ClearStage`, `Stage` are `Updates.inspect`; `Apply` the check
and the start of the helper, `ShutDown` and `ExitPlatform` the server's end; the helper's
`WaitForExit`, `CopyStage`, `BackUp`, `MoveAside`, `MoveInPlace`, `StartApp`, `Health` and
`RollBack` are the commands of `apply-update.ps1`. A member of `Trials` (`trial` is the one of
the run) says which helpers are started and which commands may fail. `Late` allows tasks and
imports between the hand-over and the end of the server.

`ToolLibrary`: a file is a name for an inode, so that an importer goes on writing to the
inode it opened whatever name that has by then; `Match` and `Take` are the two reads of
`deploy`.

## 3. The runs

| Run | Instance | Shows |
|---|---|---|
| `gate` | 2 previews, 3 operations (one critical), plans of 0 to 2 operations, 1 required check, 1 unread message, both kinds of back end | consent and order of what runs, freshness, honest completion, waiting with a reason (2.3 million states) |
| `gate_live` | 1 preview, 1 operation, 1 step | cancelled calls return, stops end, voided previews go back to the agent |
| `lifecycle` | 2 tasks, 2 devices, overlapping bindings, real and simulated, 1 recovery | the refinement of `DeviceLease`, devices change hands on purpose only (1.7 million states) |
| `recovery` | 3 tasks, 1 device, 1 recovery | nobody gets between a parent and its recovery task (1.9 million states) |
| `lifecycle_live` | 2 tasks, 2 devices, each task binds one | queued tasks are claimed, stops end, cancelled runs are cleaned up |
| `loads` | custody: 3 tasks, 2 recoveries; stages: plans of up to 7 units, 5 stages; loads of 2 stages, or 1 with a tool, with 2 faults | the load keeps its device, the log is exact, `Workload` implements `LoadLedger`, loads settle, stages are the plan |
| `devices` | 2 tunings, 1 recovery, 2 faults; 2 commands, or files and shells, 2 faults | tunings are owed and backed up, nothing runs without a handle, files are whole, stopped calls return |
| `backends` | 2 prompts over pipes of 1 message; 3 turns of 3 calls; 3 messages and restarts between commits | calls from whole answers, one execution at most, responses to their calls, runs end |
| `platform` | 3 processes and 3 tasks; 2 versions, 1 helper or 2 that meet; 3 imports and a deployment | one server at a time, an update keeps an application and the users' changes, the platform returns, deployed packages are whole |
| `catalog` | 2 devices, addresses, keys and tasks, an import of 2 addresses, or 2 changes of hosts and fingerprints; 4 operations, 1 password saved | the catalog is consistent, a task keeps to its host, evidence is output and stays (3 million states) |
| `ended_task`, `removed_device` | small | each shows that the code does not keep a statement of its own |

The runs `loads`, `devices`, `backends`, `platform` and `catalog` each check several
components that share no state: the first state chooses the part that moves (`part`), the
other parts stay in an initial state, and so the states of a run are the sum of those of its
parts, not the product. A property that speaks of one part is therefore checked over all its
behaviours, and true of the initial state of the others; a property that joins the promises of a
component (`LogIsExact`, `UpdateKeepsApp`, ...) is the conjunction of the named formulas of
its module. Where a part has several instances of one module (a load that may lose calls,
one whose runner may be killed, one with a tool), they share its variables. What differs
between the behaviours of one module and is no constant of its code (the users of a run, the
faults of an update) is a variable that its first state chooses.

Bounds and why they suffice. Two previews let one be superseded by its successor; three
operations let one run, one be displaced and one run again, with two in one plan; one unread
message is enough, since the code only asks whether there are any. Identities are used up,
never reused, which is how `new_id` behaves; symmetry is used where no liveness is checked. In
`TaskLifecycle` two tasks already exhibit every conflict over devices; the third appears only
where a task has to come between two others. `MaxStopping` and `MaxAsking` bound the requests
under way at the same time: their races are between one request and the run. Two faults let a
second one hit the recovery from the first; two reads cover output of three bytes in chunks
of two, with a line cut by the chunk; two commands let a stop find one that has ended and one
that runs; a pipe of one message is full after one write; two helpers are the first hand-over
and one that meets it; five inodes are more than names and requests can hold.

Deadlock is checked in the runs of `MCOperationGate` and `MCTaskLifecycle` (`Restart` is
always possible there, so the liveness properties are what shows that nothing hangs). In the
others the chosen part really comes to its end: a load that has settled, a run that is over,
identities and faults that are used up.

Fairness. Threads that have something to do are scheduled (weak fairness of the calls', the
worker's, the stop's, the scheduler's and the monitor's steps); a lock that is free again and
again is got in the end (strong fairness of `AcpClient`'s lock steps). Executor calls and
remote calls have timeouts, so a step that waits for one is among them; every read of a model's
answer returns by its timeout or by the close. The supervisor's stages have deadlines, a killed
process group dies. Users promise nothing, except in the part of the simulation whose question
is what becomes of a task whose user confirms. Agents promise nothing in `gate_live` and
`lifecycle_live`; `RunsEnd` speaks of an agent that keeps reading its pipe and answers every
call once, because without reading no write ends and a prompt has no timeout (`acp.py:66-80`).
Each fairness condition is guarded by the part it belongs to, so it says nothing of the others.

## 4. Where the promises stop

Two runs of the project show statements of the repository that the code does not keep; they
are the `findings` of `PROJECT.json`. The others met while modelling are listed here with
the formula that states them and how to see TLC refute it: a configuration kept beside the
runs, or the constants of the module (a fair specification where it is a temporal formula).

| Formula | How | What the code does |
|---|---|---|
| `OperationGate.EndedTaskStaysEnded` | run `ended_task` | the writes of `ask` (`tools.py:117`) and `stop` (`runtime.py:147`) do not look at the status again and revive an ended task |
| `DeviceCatalog.FreeDeviceIsClaimed` | run `removed_device` | a device deleted under a queued task makes its claim violate a foreign key in the scheduler's thread, which ends (`core.py:189`) |
| `OperationGate.RefusedPreviewIsUpdated` | `OperationGateRefusedPreview.cfg` | `core.py:291` tells the user to wait for the agent's update, but the agent is in the preview call, which reads messages only when the preview is superseded |
| `OperationGate.ChangedRequestIsReplanned` | `OperationGateChangedRequest.cfg` | a message between `drain_messages` and `consume_operation` fails the task, where the interface promises a new preview (`task-view.js:82`) |
| `OperationGate.FailedTaskCallReturns` | `OperationGateFailedCall.cfg` | when the worker fails the task (`runtime.py:113`) nobody sets the cancel event, and an ACP agent's question waits for ever |
| `OperationGate.AnyExecutionIsHeld` | `OperationGateHeldExecution.cfg` | such a call may also be executing: its devices can be released while it runs |
| `TaskLifecycle.UnsettledSceneKeepsDevices` | `TaskLifecycleScene.cfg` | a stop racing a completion leaves a task `needs_recovery` without its devices |
| `TaskLifecycle.RunningRecoveryHasTask` | `TaskLifecycleRecovery.cfg` | a recovery task rejected or stopped while queued leaves its recovery `running` |
| `IrqTuning.CleanMeansOriginal` | `DevicesOverlap.cfg` | two tunings with an IRQ in common, restored in the order they were made, leave it tuned (`tuning.py:16` compares names) |
| `IrqTuning.CleanMeansOriginal` | `DevicesChain.cfg` | the recovery of a recovery looks for the tunings of its parent only (`core.py:349`, `runtime.py:259`) |
| `IrqTuning.OwnTuningIsFound` | a recovery that tunes (`MaxRecoveries` 1) | `tuning.py:31-34` looks under the parent alone: a recovery task cannot restore its own tuning, and so not finish |
| `DeviceCatalog.OneTaskPerHost` | `CatalogMoved.cfg` | a device moved to another address under a queued task, and the old address registered again: two tasks work on one host |
| `DeviceCatalog.HostStaysTheSame` | `CatalogStale.cfg` | a device form opened before the first connection and saved after it, its fingerprint untouched, unpins the host under the task (`catalog.py:51`, `app.js:52`); one in which the user changes or clears the fingerprint does so too, which the formula leaves to the user (`revised`) |
| `ServerInstances.ServersTakeTurns` | `PlatformSharedPort.cfg` | where a bound port may be bound again (`allow_reuse_address` on Windows), a second start interrupts the tasks of the first server |
| `Workload.InterruptedStartIsReconciled` | `Faults` with `drop`, fair | a start that fails before the runner's files are there is never reconciled (`workloads.py:58` says it is) |
| `Workload.UnknownLoadCanBeStopped` | `Faults` with `kill`, fair | a supervisor killed before its state file names the group stays unknown, however often it is stopped (`load_runner.py:155-160`) |
| `Workload.TerminalMeansGone` | `Faults` with `stubborn` | a child that survives the kill is dropped from the state file before the failure is raised (`load_runner.py:99-101`) |
| `Workload.SettledToolIsStopped` | `External`, `Faults` with `control` | a stop that runs out of patience confirms a load whose tool did not stop (`load_runner.py:143-154`) |
| `LoadCustody`: `owner = t` while the load of `t` lives | with recoveries | `approve_recovery` takes the device over without a look at loads, and the recovery's finish or release gives it back with the load on it; the parent can then be deleted with the load's row (`catalog.py:239`) |
| `SshProcess`: a confirmed stop leaves nothing running | `Calls` with `exec` | a stop while `exec` connects finds no handle and is confirmed; the command starts afterwards (`ssh.py:105`) |
| `SshProcess`: a success leaves nothing running | `Calls` with `shell` | a program left in an interactive shell has no handle and outlives the success (`runtime.py:103`) |
| `AcpClient.StopEnds` | an agent without fairness | a prompt that blocks because the agent does not read holds the lock the stop needs before it would kill the agent (`acp.py:136`) |
| `OpenAIBackend`: `finish_reason` of any answer | `Streaming` with `FALSE` | only the streamed branch looks at it (`openai_backend.py:53`); `CallsAreWhole` is about streams |
| `SimulatedRun.MessageIsRead` | `Early`, fair | a message written before the first preview is never read and keeps it from being confirmed |
| `UpdateHandoff.StagedIsWhole` | two importers | two imports write the one staging directory |
| `UpdateHandoff.UpdateInterruptsNothing`, `CommitsSurvive` | `Late` | a task created after the check of `apply` is ended by the update; a package imported after it is installed, and the database of before is restored over its users' changes |
| `UpdateHandoff.PlatformReturns` | `Trials` with `copy` or `aside`, fair | a failure before the application was moved aside leaves nothing running |
| `ToolLibrary.StoredIsWhole` | two requests | one import renames the temporary file another has just truncated |
| `ConfigCapture.AgreementIsReal`, `DifferenceIsReal` | one password saved | captures hide the passwords known at their own time, so a comparison may hide a change or show one that is none |

## 5. The proofs

Each proof module assumes the named assumptions of its component, and what the theorem
itself names. Every inductive invariant was checked by TLC on small instances before it was
proved.

- `OperationGate_proofs`: the type invariant and all safety properties of the `gate` run.
  - `TypeCorrect`: one step per action; the rows updated in place rest on `SetPreviewsType`,
    `SetApprovalsType`, `AdvanceType`, `FailType`.
  - `ApprovalsAreUpToDate`: an approved preview never coexists with an unread message,
    inductive on top of the types (`NoNewApproval`). `ExecutingConsumed`: an executing call's
    operation is consumed, though messages and approvals rewrite operations meanwhile.
    `StartsAreUpToDate` follows from the two.
  - `RequestsHaveConsent`: what is inductive (`ConsentInv`) is about every request, started or
    not: the preview behind it is confirmed, confirmations are never undone (`PreviewsStep`),
    and a call that waits for a grant waits for its own request. `StartsHaveConsent` follows.
  - `ApprovalMoves` and `PreviewMoves` say in how many ways a step changes one row (a request,
    a decision, a consumption, a result). The proofs below split on these, not on the actions
    again.
  - `LiveRequestIsSingle`: the property says nothing of calls, and the code never counts
    requests. `OneRequestInv` adds who owns them: an open operation or pending preview belongs
    to the call at work, and a run that raised is `Halted` and opens none.
  - `PlanIsExecuted`: on top of `ResultInv` (what waits or is prepared has not run) and
    `ConsentInv`, an absent preview has position 0 (`AbsentIsFresh`); `consume_operation` is the
    only step that starts anything, and it advances the counter with it.
  - `ExecutionIsHeld`: because an `openai` call runs on the worker's thread (`OwnThread`).
    `WaitingIsForSomething`: the operation a call prepares or executes waits for nobody
    (`SubjectDecided`). `FirstErrorStops`: an error halts the run (`ErrorInv`).
    `CompletionIsHonest`: a worker returns only behind `finish`, and evidence is of
    operations that ran (`CompletionInv`).
- `DeviceLease_proofs`. `LeaseIsExclusive`, from `None \notin Task`: two tasks never work on
  one device, because a task that works on one is its owner (`WorksOnItsOwn`).
- `TaskLifecycle_proofs`: the type invariant and all safety properties of the `lifecycle` and
  `recovery` runs.
  - `TypesHold` needs that a recovery row names a task (`RecoveryNamesTask`).
  - `LeaseIsKept`: the refinement, step by step: every step of the scheduler, a worker, a
    request, a recovery or a restart is a step of `DeviceLease` or a stutter. It needs `RunInv`:
    nothing runs for a task that does not exist (`AbsentIsIdle`), and what the scheduler has
    claimed but not registered has no worker yet (`DispatchIsFresh`). `WorkIsExclusive` is then
    the lease's own theorem under the mapping.
  - `RecoveryIsAlone` needs `RecoveryInv`: an owner is bound to its devices (`OwnerIsBound`),
    children exist, and the parent of a running recovery is idle (`ParentIdle`).
    `HandsChangeOnPurpose` follows from how a step changes an owner (`OwnerMoves`).
- `Loads_proofs`, about the three modules of loads.
  - `LoadCustody`. `DeviceOutlivesLoad`: a live load's row is open, or its task is deleted and
    can never hold the device again (`LiveIsOpen`), and `finish` and `release` refuse while a
    row is open. `LoadKeepsDevice` needs more (`HoldInv`): a worker's task still owns the device
    unless it ended without a load, a settled row means the load is over, and children exist
    before they are parents.
  - `LoadStages`. `StagesAlwaysFollowPlan`, for every set of valid plans and every limit. The
    invariant of the loop (`LoopInv`) adds that what has elapsed never exceeds the duration;
    `LengthBounds` is the arithmetic of one stage.
  - `Workload`, for any number of stages, bytes and faults within `Scope`: no child survives
    the kill of its group ("stubborn"), and a supervisor that controls an external tool is not
    killed. Outside `Scope` the code does not keep the promise (`TerminalMeansGone` in section
    4; a killed supervisor leaves a tool whose group nobody knows). The invariant `LoadInv` is
    about knowledge: a supervisor at work has a state file, the file names the group once the
    supervisor does (`KnowsGroup`), a stop has told the supervisor or found it gone before it
    touches the group (`StopHolds`), and a terminal state, wherever it is written, read or on
    its way to the row, means that no stage will follow (`EndIsEnd`). From it:
    `LogIsAlwaysExact`, the refinement `LedgerIsKept`, and what the ledger promises
    (`SettledLoadIsOver`, `LoadRunsOnce`).
- `Devices_proofs`, about `IrqTuning` and `SshProcess`, and `DeviceWritesAreSafe`, which joins the two.
  - `TunedHasBackupAlways`. That a tuned IRQ has its original value in a backup is not
    inductive: a step before, `apply` runs only behind a stored backup (`ApplyIsBacked`), and a
    value captured as "tuned" was tuned by another tuning that has one (`CapturedIsBacked`).
  - `TunedIsAlwaysOwed`, where the tunings of a chain have IRQs of their own
    (`TuningsAreSeparate`; without it `DevicesOverlap.cfg` refutes it). `OwedInv` says what a
    row owes on the device (`Owes`): what is not as the boot left it belongs to an open row
    whose record is in phase "applying", no tuning has captured its own value
    (`CapturedIsOriginal`), and a restore about to mark its row has put everything back
    (`RestoredIsOriginal`). `irqbalance`, which tunings share, is owed by the one that found it
    running (`BalanceIsOwed`): a restore of another does not mark its row while it is stopped
    and its own record says otherwise.
  - `SuccessRestoresDevice` adds that a recovery is not recovered itself
    (`MaxRecoveries <= 1`; `DevicesChain.cfg` shows why): then the rows `finish` looks at, of the
    task and its parent, are all there are (`OwnerIsPast`).
  - `BootsAreKeptApart`: the part of `WritesAreSafe` about tunings, from the types alone.
  - `SshProcess`, for any kinds of calls and any number of commands and faults. The
    proofs split on how one step moves the call (`CallMoves`), one command (`CommandMoves`), the
    worker (`WorkerMoves`) and a stop (`StopMoves`), not on the actions again.
    - `RunningIsTracked`: that a running group has an active handle is not inductive, because a
      stop may close a handle while its command is being sent. `CallAt` says why it never does:
      the handles are those of the first n commands, and the command being sent is the last of
      them, active, and not on the device, where neither a stop nor a reboot finds anything to
      learn. That nothing runs after a success needs that the agent's finish is the end of its
      calls (`SuccessInv`): the worker's look at the handles stays true until `finish`.
    - `FilesAreReplacedSafely`: `WriteInv` adds that a write has its backup from the copy on, that a
      stop begins by cancelling the run, and that a stop that is through finds no write before
      its rename with a connection: a later one would meet `cancelled` before the rename.
- `Backends_proofs`, one theorem per back end, with the type invariant of each.
  - `SimulationExecutesOnce`: `SimInv` adds to the property which requests fit which plan
    (`RequestFitsPlan`: an approved one belongs to a task that runs under an approved plan), that
    a call of the worker is refused only once the task has ended (`WorkerFitsTask`), and what
    is committed at each place under the lock (`CommitsSoFar`): an operation is consumed for as
    long as its task goes on only while the worker is there, so a restart in between leaves a
    task that has failed, and no task that goes on consumes twice (`RunsCounted`).
  - `ModelCallsAreWhole`: an answer is there for as long as it is read and carried out
    (`AnswerIsThere`), and how a run ended is not changed afterwards (`EndIsLast`).
  - `AgentServes`: that a response reaches the call it answers is about everything on its way.
    Every call on the pipes, and every response, is the worker's own under its method or an
    earlier one (`TravellersFit`), the reader has taken one of them, and so what it finds is
    the worker's. Prompts are counted against what users wrote, those on the way included
    (`MessagesFit`), and a stop that is through has left no process, whichever of the two
    came first (`StopFits`). `WorkerGoesOn` says in how many ways a step moves the worker.
- `Platform_proofs`.
  - `OneServerAtATime`, where a bound port is exclusive (`PlatformSharedPort.cfg` shows why). The
    invariant: one process has the port (`OnePort`), workers belong to a process that has it
    (`WorkerLives`), a task with a worker runs or was interrupted and has no child
    (`WorkerHolds`), and only interrupted tasks are handed over.
  - `DeployedIsAlwaysWhole`, for any number of pages and of writes. That every importer's inode
    lacks what it has still to write (`WritesAreMissing`) is all it needs besides the types.
  - `UpdateAlwaysKeepsApp`, within `UpdateScope`: one page imports at a time, nobody creates a task
    or imports after a hand-over, and one or two helpers are started. Beyond that section 4 has
    the counterexamples. There are two invariants, for what holds of two hand-overs is less.
    - `AppInv`, of one or two: an application that can be started is left. A helper at work finds
      the platform down, unless the other one has started it again (`LoneHelper`); an import runs
      only while none waits (`ImportsAreQuiet`), so whoever still copies while it writes, and may
      copy a mixture, has a platform before it that serves until the end of the trial (`Final`),
      and fails at moving the application aside (`CopyIsWhole`). Therefore nothing mixed is ever in
      its place (`NeverMixed`).
    - `UpdateInv`, of one: what the platform owes the helper and the helper the application. What
      may be applied is all there is in the staging directory (`PendingIsStaged`), a helper waits
      for the very process that handed over to it, in which nothing is active
      (`WaitingIsQuiet`), it works while the platform is down, so the database is still the one
      it copied (`WorkIsUndisturbed`), and at each place the old application is in its directory
      or aside (`PlaceOfOld`). Therefore a roll-back takes no change of a user back, although it
      does restore a database.
    - A step of a helper is reduced to what must hold of the row it leaves (`HelperRows`, `AppRows`).
- `Catalog_proofs`, about `ConfigCapture` and `DeviceCatalog`.
  - `EvidenceIsAlwaysOutput`: `CaptureInv` adds that every output of a phase is saved or about to
    be, by the call in flight (`OutputsAreSaved`, `CallInFlight`): the result and the capture
    are two transactions, and a failure between them ends the task. `EvidenceIsAlwaysKept`
    follows: a capture is saved where none is.
  - `CatalogIsAlwaysConsistent`: two tasks that hold devices hold different ones, whose addresses
    differ (`AddressesAreUnique`, `HeldAreKnown`); that they are the addresses of the tasks'
    snapshots (`AddressesAgree`) needs that nobody edits the device of a queued task, which the
    property says itself (`CatalogMoved.cfg` shows why).
  - `SeenIsAlwaysKept`, where no user saves a stale form (`CatalogStale.cfg` shows why): the key a
    running task has met is pinned to its device unless its user has changed it by hand since
    (`TrustIsPinned`): only a form writes the pin of a device in use, because an import
    registers a new one and a connection pins where nothing is pinned.

Every safety property of the passing runs has a theorem. Only model-checked: liveness, because
fairness and ENABLED are out of the prover's reach (every property of `gate_live` and
`lifecycle_live`, and `LoadSettles`, `StoppedCallReturns`, `RunsEnd`, `PlatformReturns`), and the
counterexamples of section 4. No module declares a recursive operator; `stages()` is a loop and
is proved as one.

## 6. Not modelled

- `notifications.py`: one daemon thread shows events from a queue; failures are swallowed and
  nothing depends on it.
- `skills.py`, `packages.py`, `scenarios.py`: validation of documents and archives, and a
  table of immutable versions written in one transaction.
- The validation rules of `execution.py`, `load_schema.py` and `block_guard.py`: each checks
  one document and keeps no state. A canonical operation is a model value, `canonical` its equality.
- `compile_load`'s command lines, `metrics.py`: text. `remote/load_runner.py`'s rotation of
  samples.
- `vault.py`'s encryption, `patching.py`'s reconstruction of archives, archive hashes, the
  unpacking of tools on the device: sequential I/O and bytes.
- `bridge.py` forwards one request at a time; HTTP transport, tokens, pages, discovery of models,
  profiles and artifacts in `catalog.py`, `read_file` in `ssh.py`: single reads or writes.
- `src/web`, `src/scripts/build-portable.py`: presentation and packaging.
- Two writers of the runner's temporary state file at once, and the order of renames on its
  file system: `Workload` saves atomically.

Next, if the project grows: `Workload` with several loads of one task.
