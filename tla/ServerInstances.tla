---------------------------- MODULE ServerInstances ----------------------------
(****************************************************************************)
(* Several starts of the platform on one data directory: the launcher that  *)
(* looks for a server before it starts one, the port every server binds     *)
(* before it takes the tasks it finds for interrupted, the schedulers that   *)
(* share the task table, and the ends of servers. Runtime.runs is a matter  *)
(* of one process.                                                          *)
(****************************************************************************)
EXTENDS Naturals, FiniteSets

CONSTANTS
  Server,    \* processes that may be started
  Task, None,
  Exclusive  \* does a bound port keep others from binding it?

ASSUME InstancesAssumption == None \notin Server \cup Task /\ Exclusive \in BOOLEAN

VARIABLES
  server, \* how far each process is
  status, \* tasks.status
  worker, \* the process whose thread executes the task
  parent  \* snapshot.parent_task: the task whose devices a recovery has taken over

vars == <<server, status, worker, parent>>

Bound   == {s \in Server : server[s] \in {"bound", "serving", "closing"}}
Serving == {s \in Server : server[s] = "serving"}

Init ==
  /\ server = [s \in Server |-> "none"] /\ status = [t \in Task |-> "none"]
  /\ worker = [t \in Task |-> None] /\ parent = [t \in Task |-> None]

At(s, place) == server' = [server EXCEPT ![s] = place]
\* The reservation of the device, which the approval of a recovery passes on.
Holds(u) ==
  /\ status[u] \in {"running", "interrupted"} \/ (status[u] = "queued" /\ parent[u] # None)
  /\ \A c \in Task : parent[c] # u

\* recover_startup: whatever is active has been interrupted; what held no device is over.
Interrupt ==
  status' = [t \in Task |-> CASE Holds(t) -> "interrupted"
                              [] status[t] = "queued" /\ ~Holds(t) -> "ended"
                              [] OTHER -> status[t]]
WithoutWorkers(s) == [t \in Task |-> IF worker[t] = s THEN None ELSE worker[t]]

-----------------------------------------------------------------------------
(* Servers.                                                                  *)

\* Nobody answers the launcher.
Launch(s) ==
  /\ server[s] = "none" /\ Serving = {} /\ At(s, "spawned")
  /\ UNCHANGED <<status, worker, parent>>

\* make_server; a process whose port is taken ends.
Bind(s) ==
  /\ server[s] = "spawned"
  /\ At(s, IF Exclusive /\ Bound # {} THEN "down" ELSE "bound")
  /\ UNCHANGED <<status, worker, parent>>

\* Mutant: the tasks are looked at before the port is bound.
ServeUnbound(s) ==
  /\ server[s] \in {"spawned", "bound"}
  /\ At(s, IF server[s] = "bound" THEN "serving" ELSE "spawned") /\ Interrupt
  /\ UNCHANGED <<worker, parent>>

Serve(s) ==
  /\ server[s] = "bound" /\ At(s, "serving") /\ Interrupt
  /\ UNCHANGED <<worker, parent>>

\* Mutant: the port is given up before the workers are gone.
CloseEarly(s) ==
  /\ server[s] = "serving" /\ At(s, "down") /\ Interrupt
  /\ UNCHANGED <<worker, parent>>

\* A shutdown closes the runtime and looks at the tasks once more, then gives up the port.
Close(s) ==
  /\ server[s] = "serving" /\ At(s, "closing") /\ Interrupt
  /\ UNCHANGED <<worker, parent>>

Down(s) ==
  /\ server[s] = "closing" /\ At(s, "down")
  /\ worker' = WithoutWorkers(s) /\ UNCHANGED <<status, parent>>

Crash(s) ==
  /\ server[s] \in {"spawned", "bound", "serving", "closing"} /\ At(s, "down")
  /\ worker' = WithoutWorkers(s) /\ UNCHANGED <<status, parent>>

-----------------------------------------------------------------------------
(* Tasks of one device.                                                      *)

Create(t) ==
  /\ Serving # {} /\ status[t] = "none" /\ \A u \in Task : status[u] # "queued"
  /\ status' = [status EXCEPT ![t] = "queued"]
  /\ UNCHANGED <<server, worker, parent>>

Claim(s, t) ==
  /\ s \in Serving /\ status[t] = "queued" /\ \A u \in Task \ {t} : ~Holds(u)
  /\ status' = [status EXCEPT ![t] = "running"] /\ worker' = [worker EXCEPT ![t] = s]
  /\ UNCHANGED <<server, parent>>

\* The task ends of its own accord, and so does its worker.
End(t) ==
  /\ worker[t] # None /\ status[t] = "running"
  /\ status' = [status EXCEPT ![t] = "ended"] /\ worker' = [worker EXCEPT ![t] = None]
  /\ UNCHANGED <<server, parent>>

\* The worker of an interrupted task notices at its next call.
Leave(t) ==
  /\ worker[t] # None /\ status[t] = "interrupted" /\ worker' = [worker EXCEPT ![t] = None]
  /\ UNCHANGED <<server, status, parent>>

\* The recovery of an interrupted task, unless this process still has its run.
Approve(s, t) ==
  /\ s \in Serving /\ status[t] = "interrupted" /\ worker[t] # s /\ \A u \in Task : parent[u] # t
  /\ \E c \in Task :
       /\ status[c] = "none"
       /\ status' = [status EXCEPT ![c] = "queued"] /\ parent' = [parent EXCEPT ![c] = t]
  /\ UNCHANGED <<server, worker>>

Next ==
  \/ \E s \in Server : Launch(s) \/ Bind(s) \/ Serve(s) \/ Close(s) \/ Down(s) \/ Crash(s)
  \/ \E t \in Task : Create(t) \/ End(t) \/ Leave(t)
  \/ \E s \in Server, t \in Task : Claim(s, t) \/ Approve(s, t)

Spec == Init /\ [][Next]_vars

-----------------------------------------------------------------------------
(* Properties.                                                               *)

\* A task is taken for interrupted ('the background service was interrupted', recover_startup)
\* only if the process that executes it no longer serves.
OnlyOrphansInterrupted ==
  [][\A t \in Task :
       (status[t] = "running" /\ status'[t] = "interrupted" /\ worker[t] # None)
         => server'[worker[t]] # "serving"]_vars

\* Two workers never share a device: a task and the recovery that took it over
\* (approve_recovery, the look at Runtime.runs).
OneExecutor ==
  \A t, u \in Task : worker[t] # None /\ worker[u] # None => t = u

\* However starts of the platform overlap, one server at a time answers for the tasks: a
\* device has one worker, and only the tasks of a server that is gone are interrupted.
ServersTakeTurns == []OneExecutor /\ OnlyOrphansInterrupted
=============================================================================
