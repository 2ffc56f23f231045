------------------------------ MODULE LoadCustody ------------------------------
(****************************************************************************)
(* Who keeps the device a load runs on: tasks of one device, one load each, *)
(* and recoveries, composed with loads that do what LoadLedger promises (a  *)
(* load is launched once, and settled only when it is over; Workload is     *)
(* shown to implement it).                                                  *)
(****************************************************************************)
EXTENDS Naturals, FiniteSets

CONSTANTS
  Task, None,
  MaxRecoveries  \* bound on the recovery tasks

ASSUME NoneAssumption == None \notin Task
ASSUME RecoveriesAssumption == MaxRecoveries \in Nat

VARIABLES
  status,   \* "none" before the task is created, "deleted" after
  running,  \* Runtime.runs: tasks with a worker
  owner,    \* the reservation of the device
  parent,   \* snapshot.parent_task
  recovery, \* the tasks with a recovery that is running
  phase,    \* the load of each task on the device, as in LoadLedger
  rows       \* its row: "none", "open" or, with a terminal state, "settled"

custodyVars == <<status, running, owner, parent, recovery, phase, rows>>

Ended == {"succeeded", "failed"}
Children == {t \in Task : parent[t] # None}

CustodyTypeOK ==
  /\ status \in [Task -> {"none", "queued", "active", "succeeded", "failed", "deleted"}]
  /\ running \subseteq Task /\ owner \in Task \cup {None}
  /\ parent \in [Task -> Task \cup {None}] /\ recovery \subseteq Task
  /\ phase \in [Task -> {"new", "live", "over"}] /\ rows \in [Task -> {"none", "open", "settled"}]

CustodyInit ==
  /\ status = [t \in Task |-> "none"] /\ running = {} /\ owner = None
  /\ parent = [t \in Task |-> None] /\ recovery = {}
  /\ phase = [t \in Task |-> "new"] /\ rows = [t \in Task |-> "none"]

taskLoadVars == <<phase, rows>>
SetStatus(t, value) == status' = [status EXCEPT ![t] = value]
GiveBack(t) == owner' = IF owner = t THEN None ELSE owner
\* No load of the task is stored in a state that is not terminal.
NoOpenLoad(t) == rows[t] # "open"

-----------------------------------------------------------------------------
(* Tasks.                                                                    *)

Create(t) ==
  /\ status[t] = "none" /\ SetStatus(t, "queued")
  /\ UNCHANGED <<running, owner, parent, recovery, taskLoadVars>>

Claim(t) ==
  /\ status[t] = "queued" /\ owner \in {None, t}
  /\ SetStatus(t, "active") /\ owner' = t /\ running' = running \cup {t}
  /\ UNCHANGED <<parent, recovery, taskLoadVars>>

\* Mutant: loads are not looked at.
FinishAnyway(t) ==
  /\ status[t] = "active" /\ SetStatus(t, "succeeded") /\ GiveBack(t)
  /\ UNCHANGED <<running, parent, recovery, taskLoadVars>>
\* finish looks at the loads of the task itself.
Finish(t) ==
  /\ status[t] = "active" /\ NoOpenLoad(t)
  /\ SetStatus(t, "succeeded") /\ GiveBack(t)
  /\ UNCHANGED <<running, parent, recovery, taskLoadVars>>

\* A failure or a stop, whatever stop_all says of the loads: the device stays reserved.
Fail(t) ==
  /\ status[t] \in {"queued", "active"} /\ SetStatus(t, "failed")
  /\ UNCHANGED <<running, owner, parent, recovery, taskLoadVars>>

\* The worker leaves, and closes the recovery its task belongs to.
Leave(t) ==
  /\ t \in running /\ status[t] # "active"
  /\ running' = running \ {t} /\ recovery' = recovery \ {parent[t]}
  /\ UNCHANGED <<status, owner, parent, taskLoadVars>>

\* Mutant: loads are not looked at.
ReleaseAnyway(t) ==
  /\ status[t] \in Ended /\ t \notin running /\ GiveBack(t)
  /\ UNCHANGED <<status, running, parent, recovery, taskLoadVars>>
\* release_scene, which waits for the worker to leave.
Release(t) ==
  /\ status[t] \in Ended /\ t \notin running /\ NoOpenLoad(t) /\ GiveBack(t)
  /\ UNCHANGED <<status, running, parent, recovery, taskLoadVars>>

\* propose_recovery and approve_recovery: the device goes to the child; nobody looks at
\* the loads of the parent.
Recover(t) ==
  /\ status[t] = "failed" /\ t \notin running /\ t \notin recovery /\ owner \in {None, t}
  /\ \E c \in Task :
       /\ status[c] = "none" /\ Cardinality(Children) < MaxRecoveries
       /\ SetStatus(c, "queued") /\ parent' = [parent EXCEPT ![c] = t] /\ owner' = c
  /\ recovery' = recovery \cup {t}
  /\ UNCHANGED <<running, taskLoadVars>>

\* delete_task, with the row of the load.
Delete(t) ==
  /\ status[t] \in Ended /\ owner # t /\ t \notin recovery
  /\ SetStatus(t, "deleted") /\ rows' = [rows EXCEPT ![t] = "none"]
  /\ UNCHANGED <<running, owner, parent, recovery, phase>>

\* recover_startup: loads run on, and so do their rows.
Restart ==
  /\ status' = [t \in Task |-> IF status[t] \in {"queued", "active"} THEN "failed" ELSE status[t]]
  /\ running' = {} /\ recovery' = {}
  /\ UNCHANGED <<owner, parent, taskLoadVars>>

-----------------------------------------------------------------------------
(* Loads.                                                                    *)

\* start, of a call made while the task was active: the row first, then the load, which
\* may fail to appear.
StoreLoad(t) ==
  /\ t \in running /\ status[t] \in {"active", "failed"} /\ rows[t] = "none"
  /\ rows' = [rows EXCEPT ![t] = "open"]
  /\ UNCHANGED <<status, running, owner, parent, recovery, phase>>
LaunchLoad(t) ==
  /\ t \in running /\ rows[t] = "open" /\ phase[t] = "new" /\ phase' = [phase EXCEPT ![t] = "live"]
  /\ UNCHANGED <<status, running, owner, parent, recovery, rows>>

LoadEnds(t) ==
  /\ phase[t] = "live" /\ phase' = [phase EXCEPT ![t] = "over"]
  /\ UNCHANGED <<status, running, owner, parent, recovery, rows>>

\* A refresh by the monitor, the worker, a stop or the user; one that fails, on a row that
\* a stop takes up again, makes the load unknown.
RefreshRow(t) ==
  /\ rows[t] # "none"
  /\ rows' \in {[rows EXCEPT ![t] = "open"]} \cup
              (IF phase[t] = "over" THEN {[rows EXCEPT ![t] = "settled"]} ELSE {})
  /\ UNCHANGED <<status, running, owner, parent, recovery, phase>>

CustodyNext ==
  \/ Restart
  \/ \E t \in Task :
       \/ Create(t) \/ Claim(t) \/ Finish(t) \/ Fail(t) \/ Leave(t) \/ Release(t)
       \/ Recover(t) \/ Delete(t) \/ StoreLoad(t) \/ LaunchLoad(t) \/ LoadEnds(t) \/ RefreshRow(t)

CustodySpec == CustodyInit /\ [][CustodyNext]_custodyVars

-----------------------------------------------------------------------------
(* Properties.                                                               *)

\* A task is not settled by a finish or a release while its own load runs: whatever
\* gives the device back to nobody, the load of the task that held it is not live.
GivesBackAfterLoad ==
  [][\A t \in Task : (owner = t /\ owner' = None) => phase[t] # "live"]_custodyVars

\* A load that runs, known or not, keeps its device reserved for its task, unless a
\* recovery took the device over (approve_recovery, which does not look at loads).
LiveLoadKeepsDevice ==
  \A t \in Task : phase[t] = "live" => owner = t \/ \E c \in Task : parent[c] = t
=============================================================================
