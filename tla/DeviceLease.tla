----------------------------- MODULE DeviceLease -----------------------------
(****************************************************************************)
(* What the reservations promise, without the platform around them: a task  *)
(* gets all its devices at once, works on them only while it holds them, and*)
(* they go back to the pool or to a successor all at once and not while the *)
(* task is at work on them.                                                 *)
(****************************************************************************)
CONSTANTS Task, Device, None

VARIABLES
  owner,   \* the task that holds a device, or None
  using    \* the devices a task is at work on

vars == <<owner, using>>

Init ==
  /\ owner = [d \in Device |-> None]
  /\ using = [t \in Task |-> {}]

Idle(t) == using[t] = {}
FreeFor(t, devices) == \A d \in devices : owner[d] \in {t, None}
Released(t) == [d \in Device |-> IF owner[d] = t THEN None ELSE owner[d]]

\* A task takes all the devices it needs; it may start working on them.
Acquire(t, devices) ==
  /\ Idle(t)
  /\ FreeFor(t, devices)
  /\ owner' = [d \in Device |-> IF d \in devices THEN t ELSE owner[d]]
  /\ \E used \in {devices, {}} : using' = [using EXCEPT ![t] = used]

\* A task stops working and gives everything back.
GiveBack(t) ==
  /\ owner' = Released(t)
  /\ using' = [using EXCEPT ![t] = {}]

\* A task stops working and keeps what it holds; a crash stops all of them.
Cease(tasks) ==
  /\ using' = [t \in Task |-> IF t \in tasks THEN {} ELSE using[t]]
  /\ UNCHANGED owner

\* A successor takes over the devices of a task that is not working.
HandOver(t, successor, devices) ==
  /\ Idle(t) /\ Idle(successor)
  /\ FreeFor(t, devices)
  /\ owner' = [d \in Device |-> IF d \in devices THEN successor ELSE Released(t)[d]]
  /\ UNCHANGED using

Next ==
  \/ \E t \in Task : GiveBack(t)
  \/ \E t \in Task, devices \in SUBSET Device : Acquire(t, devices)
  \/ \E tasks \in SUBSET Task : Cease(tasks)
  \/ \E t, u \in Task, devices \in SUBSET Device : HandOver(t, u, devices)

Spec == Init /\ [][Next]_vars

\* Two tasks are never at work on the same device.
UseIsExclusive == \A t, u \in Task : t # u => using[t] \cap using[u] = {}
=============================================================================
