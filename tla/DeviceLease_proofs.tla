-------------------------- MODULE DeviceLease_proofs --------------------------
(* What the lease guarantees, for any tasks and devices. *)
EXTENDS DeviceLease, TLAPS

\* A task works only on devices that are leased to it.
WorksOnItsOwn ==
  /\ owner \in [Device -> Task \cup {None}]
  /\ using \in [Task -> SUBSET Device]
  /\ \A t \in Task : \A d \in using[t] : owner[d] = t

\* No step lets a task work on a device that is not its own.
LEMMA WorksOnItsOwnKept ==
  ASSUME None \notin Task, WorksOnItsOwn, [Next]_vars
  PROVE  WorksOnItsOwn'
<1> USE DEF WorksOnItsOwn
<1>1. ASSUME NEW t \in Task, GiveBack(t) PROVE WorksOnItsOwn'
  BY <1>1 DEF GiveBack, Released
<1>2. ASSUME NEW t \in Task, NEW devices \in SUBSET Device, Acquire(t, devices)
      PROVE  WorksOnItsOwn'
  <2>1. PICK used \in {devices, {}} : using' = [using EXCEPT ![t] = used]
    BY <1>2 DEF Acquire
  <2>2. owner' = [d \in Device |-> IF d \in devices THEN t ELSE owner[d]]
    BY <1>2 DEF Acquire
  <2>3. ASSUME NEW u \in Task, NEW d \in using'[u] PROVE owner'[d] = u
    <3>1. CASE u = t
      BY <2>1, <2>2, <2>3, <3>1
    <3>2. CASE u # t
      <4>1. d \in using[u] /\ d \in Device /\ owner[d] = u
        BY <2>1, <2>3, <3>2
      <4> QED BY <1>2, <2>2, <3>2, <4>1 DEF Acquire, FreeFor
    <3> QED BY <3>1, <3>2
  <2> QED BY <2>1, <2>2, <2>3
<1>3. ASSUME NEW tasks \in SUBSET Task, Cease(tasks) PROVE WorksOnItsOwn'
  BY <1>3 DEF Cease
<1>4. ASSUME NEW t \in Task, NEW u \in Task, NEW devices \in SUBSET Device,
             HandOver(t, u, devices)
      PROVE  WorksOnItsOwn'
  <2>1. owner' = [d \in Device |-> IF d \in devices THEN u ELSE Released(t)[d]]
    BY <1>4 DEF HandOver
  <2>2. owner' \in [Device -> Task \cup {None}]
    BY <2>1 DEF Released
  <2>3. ASSUME NEW v \in Task, NEW d \in using[v] PROVE owner'[d] = v
    <3>1. owner[d] = v /\ v # t /\ d \in Device
      BY <1>4, <2>3 DEF HandOver, Idle
    <3>2. d \notin devices
      BY <1>4, <3>1 DEF HandOver, FreeFor
    <3> QED BY <2>1, <3>1, <3>2 DEF Released
  <2> QED BY <1>4, <2>2, <2>3 DEF HandOver
<1>5. CASE UNCHANGED vars
  BY <1>5 DEF vars
<1> QED BY <1>1, <1>2, <1>3, <1>4, <1>5 DEF Next

\* Two tasks are never at work on the same device, whatever takes devices, gives
\* them back, hands them over or crashes (Core.claim, Runtime.approve_recovery).
THEOREM LeaseIsExclusive ==
  ASSUME None \notin Task
  PROVE  Spec => []UseIsExclusive
<1>1. Init => WorksOnItsOwn
  BY DEF Init, WorksOnItsOwn
<1>2. WorksOnItsOwn => UseIsExclusive
  BY DEF WorksOnItsOwn, UseIsExclusive
<1>3. WorksOnItsOwn /\ [Next]_vars => WorksOnItsOwn'
  BY WorksOnItsOwnKept
<1> QED BY <1>1, <1>2, <1>3, PTL DEF Spec
=============================================================================
