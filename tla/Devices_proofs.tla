----------------------------- MODULE Devices_proofs -----------------------------
(****************************************************************************)
(* What a task does to a device, by tunings and by its SSH executor.        *)
(*                                                                          *)
(* For any IRQs, tunings and faults: an IRQ is never set by a tuning whose  *)
(* original values are not in the task's files, a tuned IRQ is owed by an   *)
(* open row, and a task that succeeds leaves the device as the boot set it. *)
(*                                                                          *)
(* For any kinds of calls, commands and faults: no command runs without an  *)
(* active handle, none of a task that succeeded runs at all, and a file is  *)
(* replaced with a backup and not after a stop.                             *)
(****************************************************************************)
EXTENDS MCDevices, FiniteSetTheorems, TLAPS

-----------------------------------------------------------------------------
(* Tunings (IrqTuning).                                                      *)

Step == {"write", "capture", "save", "apply", "find", "restore", "record"}
Operation == [pc : Step, tuning : Tuning, pause : BOOLEAN]
Record == [phase : {"none", "captured", "applying"}, before : [Irq -> Value],
           balance : BOOLEAN, boot : 0..MaxFaults]
Row == [owner : Task \cup {NoTask}, restored : BOOLEAN, backup : BOOLEAN]

\* The type invariant, with the sets of its rows named. It is inductive with what bounds
\* the boots: each is a fault.
TypeInv ==
  /\ now \in Task /\ state \in {"running", "failed", "succeeded"}
  /\ row \in [Tuning -> Row] /\ op \in {Idle} \cup Operation
  /\ script \subseteq Tuning /\ record \in [Tuning -> Record]
  /\ irq \in [Irq -> Value] /\ balancing \in BOOLEAN
  /\ boot \in 0..MaxFaults /\ faults \in 0..MaxFaults /\ boot <= faults

\* What an apply writes, and what a restore writes back, has a backup: the operation that
\* applies has saved it, and a value captured as tuned is one that a tuning has set.
Backed(i) == \E n \in Tuning : i \in Irqs[n] /\ row[n].backup
ApplyIsBacked   == op.pc = "apply" => row[op.tuning].backup
CapturedIsBacked == \A n \in Tuning : \A i \in Irq : record[n].before[i] = "tuned" => Backed(i)
TunedIsBacked   == \A i \in Irq : irq[i] = "tuned" => Backed(i)
BackupInv == TypeInv /\ ApplyIsBacked /\ CapturedIsBacked /\ TunedIsBacked

-----------------------------------------------------------------------------
(* The types.                                                                *)

\* TypeInv says more than the type invariant of the runs.
LEMMA TypesAreOK == TypeInv => TypeOK
BY DEF TypeInv, TypeOK, Row, Operation, Step, Record

\* Initially the types hold and there has been no boot (Init).
LEMMA InitTypes == Init => TypeInv
BY BoundsAssumption DEF Init, TypeInv, Row, Record, Task, NoTask, NoRow, NoRecord, Value

\* While an operation is in flight, op is a record of one.
LEMMA InFlight ==
  ASSUME TypeInv, op # Idle
  PROVE  /\ op \in Operation /\ op.tuning \in Tuning /\ op.pc \in Step
         /\ \A pc \in Step : [op EXCEPT !.pc = pc] \in Operation
BY DEF TypeInv, Operation

\* A row stays a row when a task takes it, when it is restored or when it gets a backup.
LEMMA RowUpdates ==
  ASSUME TypeInv, NEW n \in Tuning
  PROVE  /\ [row EXCEPT ![n].owner = now] \in [Tuning -> Row]
         /\ [row EXCEPT ![n].restored = TRUE] \in [Tuning -> Row]
         /\ [row EXCEPT ![n].backup = TRUE] \in [Tuning -> Row]
BY DEF TypeInv, Row

\* What capture and apply write is a record.
LEMMA RecordUpdates ==
  ASSUME TypeInv, op \in Operation
  PROVE  /\ Captured \in [Tuning -> Record]
         /\ [record EXCEPT ![op.tuning].phase = "applying"] \in [Tuning -> Record]
<1>1. op.tuning \in Tuning
  BY DEF Operation
<1>2. [phase |-> "captured", before |-> irq, balance |-> balancing, boot |-> boot] \in Record
  BY DEF TypeInv, Record
<1>3. Captured \in [Tuning -> Record]
  BY <1>1, <1>2 DEF TypeInv, Captured
<1>4. [record[op.tuning] EXCEPT !.phase = "applying"] \in Record
  BY <1>1 DEF TypeInv, Record
<1>5. [record EXCEPT ![op.tuning].phase = "applying"] \in [Tuning -> Record]
  BY <1>1, <1>4 DEF TypeInv
<1> QED
  BY <1>3, <1>5

\* What apply and restore write are values of the IRQs.
LEMMA IrqUpdates ==
  ASSUME TypeInv, NEW n \in Tuning, NEW written
  PROVE  Tuned(written) \in [Irq -> Value] /\ Restored(n, written) \in [Irq -> Value]
<1>1. record[n].before \in [Irq -> Value]
  BY DEF TypeInv, Record
<1> QED
  BY <1>1 DEF TypeInv, Tuned, Restored, Value

\* What an interrupted apply or restore leaves behind keeps the types.
LEMMA PartialTypes ==
  ASSUME TypeInv, op \in Operation
  PROVE  /\ PartlyApplied => /\ record' \in [Tuning -> Record]
                             /\ irq' \in [Irq -> Value] /\ balancing' \in BOOLEAN
         /\ PartlyRestored => irq' \in [Irq -> Value] /\ balancing' \in BOOLEAN
<1>1. op.tuning \in Tuning
  BY DEF Operation
<1>2. record[op.tuning].balance \in BOOLEAN
  BY <1>1 DEF TypeInv, Record
<1>3. ASSUME PartlyApplied
      PROVE  record' \in [Tuning -> Record] /\ irq' \in [Irq -> Value] /\ balancing' \in BOOLEAN
  <2>1. record' \in {record, [record EXCEPT ![op.tuning].phase = "applying"]}
    BY <1>3 DEF PartlyApplied
  <2>2. irq' = irq \/ \E written : irq' = Tuned(written)
    BY <1>3 DEF PartlyApplied
  <2>3. balancing' \in {balancing, FALSE}
    BY <1>3 DEF PartlyApplied
  <2>4. record' \in [Tuning -> Record]
    BY <2>1, RecordUpdates DEF TypeInv
  <2>5. irq' \in [Irq -> Value]
    BY <1>1, <2>2, IrqUpdates DEF TypeInv
  <2> QED
    BY <2>3, <2>4, <2>5 DEF TypeInv
<1>4. ASSUME PartlyRestored
      PROVE  irq' \in [Irq -> Value] /\ balancing' \in BOOLEAN
  BY <1>1, <1>2, <1>4, IrqUpdates DEF TypeInv, PartlyRestored
<1> QED
  BY <1>3, <1>4

\* A step of tune_apply keeps the types.
LEMMA ApplyTypes ==
  ASSUME TypeInv, BeginApply \/ WriteScript \/ Capture \/ SaveBackup \/ Apply
  PROVE  TypeInv'
<1>1. CASE BeginApply
  <2>1. PICK n \in Tuning, pause \in BOOLEAN :
          row' = [row EXCEPT ![n].owner = now] /\ op' = [pc |-> "write", tuning |-> n, pause |-> pause]
    BY <1>1 DEF BeginApply
  <2>2. op' \in Operation
    BY <2>1 DEF Operation, Step
  <2> QED
    BY <1>1, <2>1, <2>2, RowUpdates DEF BeginApply, TypeInv, taskVars, deviceVars
<1>2. CASE WriteScript
  <2>1. op # Idle
    BY <1>2 DEF WriteScript, Idle
  <2> QED
    BY <1>2, <2>1, InFlight DEF WriteScript, Goto, TypeInv, Step, taskVars
<1>3. CASE Capture
  <2>1. op # Idle
    BY <1>3 DEF Capture, Idle
  <2>2. /\ row' = row \/ row' = [row EXCEPT ![op.tuning].restored = TRUE]
        /\ record' \in {record, Captured}
        /\ op' = Idle \/ op' = [op EXCEPT !.pc = "save"]
        /\ faults' \in {faults, faults + 1} /\ (faults' # faults => faults < MaxFaults)
        /\ state' \in {state, "failed"} /\ now' = now
        /\ UNCHANGED <<script, irq, balancing, boot>>
    BY <1>3 DEF Capture, Goto, Raise, Fault, taskVars
  <2>3. row' \in [Tuning -> Row]
    <3>1. op.tuning \in Tuning
      BY <2>1, InFlight
    <3>2. row \in [Tuning -> Row] /\ [row EXCEPT ![op.tuning].restored = TRUE] \in [Tuning -> Row]
      BY <3>1, RowUpdates DEF TypeInv
    <3> QED
      BY <2>2, <3>2
  <2>4. record' \in [Tuning -> Record]
    BY <2>1, <2>2, InFlight, RecordUpdates DEF TypeInv
  <2>5. op' \in {Idle} \cup Operation
    BY <2>1, <2>2, InFlight DEF Step
  <2>6. faults' \in 0..MaxFaults /\ boot' <= faults'
    BY <2>2, BoundsAssumption DEF TypeInv
  <2> QED
    BY <2>2, <2>3, <2>4, <2>5, <2>6 DEF TypeInv
<1>4. CASE SaveBackup
  <2>1. op # Idle
    BY <1>4 DEF SaveBackup, Idle
  <2> QED
    BY <1>4, <2>1, InFlight, RowUpdates DEF SaveBackup, Goto, TypeInv, Step, taskVars, deviceVars
<1>5. CASE Apply
  <2>1. op # Idle
    BY <1>5 DEF Apply, Idle
  <2>2. /\ op' = Idle /\ state' \in {state, "failed"} /\ now' = now
        /\ faults' \in {faults, faults + 1} /\ (faults' # faults => faults < MaxFaults)
        /\ UNCHANGED <<row, script, boot>>
    BY <1>5 DEF Apply, Raise, Return, Fault, taskVars
  <2>3. record' \in [Tuning -> Record] /\ irq' \in [Irq -> Value] /\ balancing' \in BOOLEAN
    <3>1. CASE PartlyApplied
      BY <2>1, <3>1, InFlight, PartialTypes
    <3>2. CASE record' = [record EXCEPT ![op.tuning].phase = "applying"]
               /\ balancing' = FALSE /\ irq' = Tuned(Irqs[op.tuning])
      <4>1. record' \in [Tuning -> Record]
        BY <2>1, <3>2, InFlight, RecordUpdates
      <4>2. irq' \in [Irq -> Value]
        BY <2>1, <3>2, InFlight, IrqUpdates
      <4> QED
        BY <3>2, <4>1, <4>2
    <3>3. CASE UNCHANGED <<record, irq, balancing>>
      BY <3>3 DEF TypeInv
    <3> QED
      BY <1>5, <3>1, <3>2, <3>3 DEF Apply
  <2> QED
    BY <2>2, <2>3, BoundsAssumption DEF TypeInv
<1> QED
  BY <1>1, <1>2, <1>3, <1>4, <1>5

\* A step of tune_restore keeps the types.
LEMMA RestoreTypes ==
  ASSUME TypeInv, BeginRestore \/ Find \/ Restore \/ RecordRestored
  PROVE  TypeInv'
<1>1. CASE BeginRestore
  <2>1. PICK n \in Tuning : op' = [pc |-> "find", tuning |-> n, pause |-> FALSE]
    BY <1>1 DEF BeginRestore
  <2>2. op' \in Operation
    BY <2>1 DEF Operation, Step
  <2> QED
    BY <1>1, <2>2 DEF BeginRestore, TypeInv, taskVars, deviceVars
<1>2. CASE Find
  <2>1. op # Idle
    BY <1>2 DEF Find, Idle
  <2>2. /\ op' \in {Idle, [op EXCEPT !.pc = "restore"]}
        /\ state' \in {state, "failed"} /\ now' = now
        /\ UNCHANGED <<row, deviceVars, faults>>
    BY <1>2 DEF Find, Goto, Return, Raise, taskVars
  <2>3. op' \in {Idle} \cup Operation
    BY <2>1, <2>2, InFlight DEF Step
  <2> QED
    BY <2>2, <2>3 DEF TypeInv, deviceVars
<1>3. CASE Restore
  <2>1. op # Idle
    BY <1>3 DEF Restore, Idle
  <2>2. /\ op' \in {Idle, [op EXCEPT !.pc = "record"]}
        /\ state' \in {state, "failed"} /\ now' = now
        /\ faults' \in {faults, faults + 1} /\ (faults' # faults => faults < MaxFaults)
        /\ UNCHANGED <<row, script, record, boot>>
    BY <1>3 DEF Restore, Goto, Raise, Fault, taskVars
  <2>3. op' \in {Idle} \cup Operation
    BY <2>1, <2>2, InFlight DEF Step
  <2>4. irq' \in [Irq -> Value] /\ balancing' \in BOOLEAN
    <3>1. CASE PartlyRestored
      BY <2>1, <3>1, InFlight, PartialTypes
    <3>2. CASE /\ irq' = Restored(op.tuning, Irqs[op.tuning])
               /\ balancing' = (balancing \/ record[op.tuning].balance)
      <4>1. irq' \in [Irq -> Value]
        BY <2>1, <3>2, InFlight, IrqUpdates
      <4> QED
        BY <3>2, <4>1
    <3>3. CASE UNCHANGED <<irq, balancing>>
      BY <3>3 DEF TypeInv
    <3> QED
      BY <1>3, <3>1, <3>2, <3>3 DEF Restore
  <2>5. faults' \in 0..MaxFaults /\ boot' <= faults'
    BY <2>2, BoundsAssumption DEF TypeInv
  <2> QED
    BY <2>2, <2>3, <2>4, <2>5 DEF TypeInv
<1>4. CASE RecordRestored
  <2>1. op # Idle
    BY <1>4 DEF RecordRestored, Idle
  <2> QED
    BY <1>4, <2>1, InFlight, RowUpdates DEF RecordRestored, Return, TypeInv, taskVars, deviceVars
<1> QED
  BY <1>1, <1>2, <1>3, <1>4

\* A step of the tasks, a lost operation, irqbalance and a reboot keep the types.
LEMMA OtherTypes ==
  ASSUME TypeInv, Finish \/ Fail \/ Recover \/ Lose \/ Move \/ Reboot
  PROVE  TypeInv'
<1>1. CASE Finish \/ Fail
  BY <1>1 DEF Finish, Fail, Raise, TypeInv, taskVars, deviceVars
<1>2. CASE Recover
  BY <1>2, BoundsAssumption DEF Recover, TypeInv, Task, deviceVars
<1>3. CASE Lose
  <2>1. op # Idle
    BY <1>3 DEF Lose
  <2>2. /\ op' = Idle /\ state' \in {state, "failed"} /\ now' = now
        /\ faults' = faults + 1 /\ faults < MaxFaults
        /\ UNCHANGED <<row, script, boot>>
    BY <1>3 DEF Lose, Raise, Fault
  <2>3. record' \in [Tuning -> Record] /\ irq' \in [Irq -> Value] /\ balancing' \in BOOLEAN
    <3>1. CASE PartlyApplied
      BY <2>1, <3>1, InFlight, PartialTypes
    <3>2. CASE PartlyRestored /\ UNCHANGED record
      BY <2>1, <3>2, InFlight, PartialTypes DEF TypeInv
    <3>3. CASE record' \in {record, Captured} /\ UNCHANGED <<irq, balancing>>
      BY <2>1, <3>3, InFlight, RecordUpdates DEF TypeInv
    <3> QED
      BY <1>3, <3>1, <3>2, <3>3 DEF Lose
  <2>4. faults' \in 0..MaxFaults /\ boot' <= faults'
    BY <2>2, BoundsAssumption DEF TypeInv
  <2> QED
    BY <2>2, <2>3, <2>4 DEF TypeInv
<1>4. CASE Move
  <2>1. irq' \in [Irq -> Value]
    BY <1>4 DEF Move, TypeInv, Value
  <2> QED
    BY <1>4, <2>1 DEF Move, TypeInv, taskVars
<1>5. CASE Reboot
  <2>1. [n \in Tuning |-> NoRecord] \in [Tuning -> Record]
    BY BoundsAssumption DEF NoRecord, Record, Value
  <2>2. irq' \in [Irq -> Value] /\ balancing' \in BOOLEAN
    BY <1>5, BoundsAssumption DEF Reboot, Value
  <2>3. boot' = boot + 1 /\ faults' = faults + 1 /\ faults < MaxFaults
    BY <1>5 DEF Reboot, Fault
  <2>4. boot' \in 0..MaxFaults /\ faults' \in 0..MaxFaults /\ boot' <= faults'
    BY <2>3, BoundsAssumption DEF TypeInv
  <2> QED
    BY <1>5, <2>1, <2>2, <2>4 DEF Reboot, TypeInv, taskVars
<1> QED
  BY <1>1, <1>2, <1>3, <1>4, <1>5

\* Every step keeps the types.
LEMMA TypeStep == TypeInv /\ [Next]_vars => TypeInv'
<1> SUFFICES ASSUME TypeInv, [Next]_vars PROVE TypeInv'
  OBVIOUS
<1>1. CASE Next
  BY <1>1, ApplyTypes, RestoreTypes, OtherTypes DEF Next
<1>2. CASE UNCHANGED vars
  BY <1>2 DEF TypeInv, vars, taskVars, deviceVars
<1> QED
  BY <1>1, <1>2

\* The type invariant holds always, for any IRQs, tunings, recoveries and faults (tuning.py
\* and remote/tune.py: every operation, with what it may leave half done).
THEOREM TypeCorrect == Spec => []TypeOK
BY TypeStep, InitTypes, TypesAreOK, PTL DEF Spec

-----------------------------------------------------------------------------
(* The backups.                                                              *)

\* No step takes a backup away.
LEMMA BackupsStay ==
  ASSUME TypeInv, [Next]_vars, NEW n \in Tuning, row[n].backup
  PROVE  row'[n].backup
<1>1. CASE UNCHANGED row
  BY <1>1
<1>2. CASE \E m \in Tuning : row' = [row EXCEPT ![m].owner = now]
  BY <1>2 DEF TypeInv, Row
<1>3. CASE row' = [row EXCEPT ![op.tuning].restored = TRUE]
  BY <1>3 DEF TypeInv, Row
<1>4. CASE row' = [row EXCEPT ![op.tuning].backup = TRUE]
  BY <1>4 DEF TypeInv, Row
<1> QED
  BY <1>1, <1>2, <1>3, <1>4
     DEF Next, vars, taskVars, deviceVars, BeginApply, WriteScript, Capture, SaveBackup, Apply,
         BeginRestore, Find, Restore, RecordRestored, Finish, Fail, Recover, Lose, Move, Reboot

\* What is backed stays backed.
LEMMA BackedStays ==
  ASSUME TypeInv, [Next]_vars, NEW i, Backed(i)
  PROVE  Backed(i)'
BY BackupsStay DEF Backed

\* An operation gets to apply from save only, with its backup made.
LEMMA ApplyComesFromSave ==
  ASSUME TypeInv, [Next]_vars, ApplyIsBacked
  PROVE  ApplyIsBacked'
<1>1. CASE SaveBackup
  <2>1. op # Idle
    BY <1>1 DEF SaveBackup, Idle
  <2>2. op' = [op EXCEPT !.pc = "apply"] /\ row' = [row EXCEPT ![op.tuning].backup = TRUE]
    BY <1>1 DEF SaveBackup, Goto
  <2>3. op \in Operation /\ op.tuning \in Tuning
    BY <2>1, InFlight
  <2>4. op'.tuning = op.tuning
    BY <2>2, <2>3 DEF Operation
  <2> QED
    BY <2>2, <2>3, <2>4 DEF ApplyIsBacked, TypeInv, Row
<1>2. CASE op' = op
  <2> SUFFICES ASSUME op.pc = "apply" PROVE row'[op.tuning].backup
    BY <1>2 DEF ApplyIsBacked
  <2>1. op.tuning \in Tuning
    BY InFlight DEF Idle
  <2> QED
    BY <2>1, BackupsStay DEF ApplyIsBacked
<1>3. CASE op' = Idle
  BY <1>3 DEF ApplyIsBacked, Idle
<1>4. CASE op # Idle /\ \E pc \in {"capture", "save", "restore", "record"} : op' = [op EXCEPT !.pc = pc]
  <2>1. op \in Operation
    BY <1>4, InFlight
  <2> QED
    BY <1>4, <2>1 DEF ApplyIsBacked, Operation
<1>5. CASE BeginApply \/ BeginRestore
  BY <1>5 DEF BeginApply, BeginRestore, ApplyIsBacked
<1>6. CASE WriteScript \/ Capture \/ Apply
  BY <1>3, <1>4, <1>6 DEF WriteScript, Capture, Apply, Goto, Return, Raise, Idle
<1>7. CASE Find \/ Restore \/ RecordRestored \/ Lose
  BY <1>2, <1>3, <1>4, <1>7 DEF Find, Restore, RecordRestored, Lose, Goto, Return, Raise, Idle
<1>8. CASE Finish \/ Fail \/ Recover \/ Move \/ Reboot
  BY <1>2, <1>3, <1>8 DEF Finish, Fail, Recover, Move, Reboot, Raise
<1>9. CASE UNCHANGED vars
  BY <1>2, <1>9 DEF vars
<1> QED
  BY <1>1, <1>5, <1>6, <1>7, <1>8, <1>9 DEF Next

\* A value that is captured as tuned was captured so before, or is the value of the IRQ.
LEMMA CapturedComesFromIrq ==
  ASSUME TypeInv, [Next]_vars, NEW n \in Tuning, NEW i \in Irq, record'[n].before[i] = "tuned"
  PROVE  record[n].before[i] = "tuned" \/ irq[i] = "tuned"
<1>1. CASE UNCHANGED record
  BY <1>1
<1>2. CASE record' = Captured
  BY <1>2 DEF Captured, TypeInv, Record
<1>3. CASE record' = [record EXCEPT ![op.tuning].phase = "applying"]
  BY <1>3 DEF TypeInv, Record
<1>4. CASE record' = [m \in Tuning |-> NoRecord]
  BY <1>4 DEF NoRecord
<1> QED
  BY <1>1, <1>2, <1>3, <1>4
     DEF Next, vars, taskVars, deviceVars, BeginApply, WriteScript, Capture, SaveBackup, Apply, PartlyApplied,
         BeginRestore, Find, Restore, RecordRestored, Finish, Fail, Recover, Lose, Move, Reboot

\* An IRQ that is tuned was so before, is set by an apply, or gets back a captured value.
LEMMA TunedComesFrom ==
  ASSUME TypeInv, [Next]_vars, NEW i \in Irq, irq'[i] = "tuned"
  PROVE  \/ irq[i] = "tuned"
         \/ op.pc = "apply" /\ op.tuning \in Tuning /\ i \in Irqs[op.tuning]
         \/ op.tuning \in Tuning /\ record[op.tuning].before[i] = "tuned"
<1>1. CASE UNCHANGED irq
  BY <1>1
<1>2. ASSUME op.pc = "apply", NEW written \in SUBSET Irqs[op.tuning], irq' = Tuned(written)
      PROVE  irq[i] = "tuned" \/ (op.tuning \in Tuning /\ i \in Irqs[op.tuning])
  <2>1. op.tuning \in Tuning
    BY <1>2, InFlight DEF Idle
  <2> QED
    BY <1>2, <2>1 DEF Tuned
<1>3. ASSUME op.pc = "restore", NEW written, irq' = Restored(op.tuning, written)
      PROVE  irq[i] = "tuned" \/ (op.tuning \in Tuning /\ record[op.tuning].before[i] = "tuned")
  <2>1. op.tuning \in Tuning
    BY <1>3, InFlight DEF Idle
  <2> QED
    BY <1>3, <2>1 DEF Restored
<1>4. CASE Apply
  <2>1. \/ UNCHANGED irq
        \/ \E written \in SUBSET Irqs[op.tuning] : irq' = Tuned(written)
    BY <1>4 DEF Apply, PartlyApplied
  <2> QED
    BY <1>1, <1>2, <1>4, <2>1 DEF Apply
<1>5. CASE Restore
  <2>1. UNCHANGED irq \/ \E written : irq' = Restored(op.tuning, written)
    BY <1>5 DEF Restore, PartlyRestored
  <2> QED
    BY <1>1, <1>3, <1>5, <2>1 DEF Restore
<1>6. CASE Lose
  <2>1. \/ UNCHANGED irq
        \/ op.pc = "apply" /\ PartlyApplied
        \/ op.pc = "restore" /\ PartlyRestored
    BY <1>6 DEF Lose
  <2> QED
    BY <1>1, <1>2, <1>3, <2>1 DEF PartlyApplied, PartlyRestored
<1>7. CASE Move \/ Reboot
  BY <1>7 DEF Move, Reboot, TypeInv
<1> QED
  BY <1>1, <1>4, <1>5, <1>6, <1>7
     DEF Next, vars, deviceVars, BeginApply, WriteScript, Capture, SaveBackup,
         BeginRestore, Find, RecordRestored, Finish, Fail, Recover

\* A step keeps what is backed.
LEMMA BackupStep == BackupInv /\ [Next]_vars => BackupInv'
<1> SUFFICES ASSUME BackupInv, [Next]_vars PROVE BackupInv'
  OBVIOUS
<1>1. TypeInv /\ TypeInv'
  BY TypeStep DEF BackupInv
<1>2. ApplyIsBacked'
  BY ApplyComesFromSave DEF BackupInv
<1>3. CapturedIsBacked'
  <2> SUFFICES ASSUME NEW n \in Tuning, NEW i \in Irq, record'[n].before[i] = "tuned"
               PROVE  Backed(i)'
    BY DEF CapturedIsBacked
  <2>1. record[n].before[i] = "tuned" \/ irq[i] = "tuned"
    BY <1>1, CapturedComesFromIrq
  <2>2. Backed(i)
    BY <2>1 DEF BackupInv, CapturedIsBacked, TunedIsBacked
  <2> QED
    BY <1>1, <2>2, BackedStays
<1>4. TunedIsBacked'
  <2> SUFFICES ASSUME NEW i \in Irq, irq'[i] = "tuned"
               PROVE  Backed(i)'
    BY DEF TunedIsBacked
  <2>1. Backed(i)
    <3>1. CASE irq[i] = "tuned" \/ (op.tuning \in Tuning /\ record[op.tuning].before[i] = "tuned")
      BY <3>1 DEF BackupInv, CapturedIsBacked, TunedIsBacked
    <3>2. CASE op.pc = "apply" /\ op.tuning \in Tuning /\ i \in Irqs[op.tuning]
      BY <3>2 DEF BackupInv, ApplyIsBacked, Backed
    <3> QED
      BY <1>1, <3>1, <3>2, TunedComesFrom
  <2> QED
    BY <1>1, <2>1, BackedStays
<1> QED
  BY <1>1, <1>2, <1>3, <1>4 DEF BackupInv

\* An IRQ is never set by a tuning whose original values are not in the task's files: not
\* after a lost call, a crash or a reboot, and not by a restore to the values of another
\* tuning (tuning.py saves the backup before it applies).
THEOREM TunedHasBackupAlways == Spec => []TunedHasBackup
<1>1. Init => BackupInv
  <2> SUFFICES ASSUME Init PROVE BackupInv
    OBVIOUS
  <2>1. ApplyIsBacked /\ CapturedIsBacked /\ TunedIsBacked
    BY DEF Init, ApplyIsBacked, CapturedIsBacked, TunedIsBacked, Idle, NoRecord
  <2> QED
    BY <2>1, InitTypes DEF BackupInv
<1>2. BackupInv => TunedHasBackup
  BY DEF BackupInv, TunedIsBacked, TunedHasBackup, Backed
<1> QED
  BY <1>1, <1>2, BackupStep, PTL DEF Spec
-----------------------------------------------------------------------------
(* What is owed.                                                             *)

\* The tunings of a chain have IRQs of their own. Restored in another order than the reverse
\* of the applies, two tunings of one IRQ leave what the first has set (tuning.py compares
\* only names).
TuningsAreSeparate == \A m, n \in Tuning : m # n => Irqs[m] \cap Irqs[n] = {}

\* A row says that there is something to restore, of a tuning that has begun to write.
Owes(n) == row[n].owner # NoTask /\ ~row[n].restored /\ record[n].phase = "applying"

\* On the device. A tuning nobody has made is open and has captured nothing; what one has captured is not
\* what itself has set, and irqbalance only where the boot starts it. What is not as the boot
\* left it is owed, irqbalance by a tuning that has found it running.
UnownedIsBlank ==
  \A n \in Tuning : row[n].owner = NoTask => ~row[n].restored /\ record[n].phase = "none"
CapturedIsOriginal == \A n \in Tuning : \A i \in Irqs[n] : record[n].before[i] # "tuned"
BalanceIsOriginal  == (balancing => Balance) /\ \A n \in Tuning : record[n].balance => Balance
IrqIsOwed     == \A i \in Irq : irq[i] = "tuned" => \E n \in Tuning : i \in Irqs[n] /\ Owes(n)
BalanceIsOwed == balancing # Balance => \E n \in Tuning : Owes(n) /\ record[n].balance
DeviceInv == UnownedIsBlank /\ CapturedIsOriginal /\ BalanceIsOriginal /\ IrqIsOwed /\ BalanceIsOwed

\* In the operation in flight. It has a row, which is open while it applies; it captures before
\* it writes, and irqbalance is what it has captured when it does; a restore that is about to
\* mark its row has put everything back.
RowIsOwned     == op.pc # "idle" => row[op.tuning].owner # NoTask
ApplyIsOpen    == op.pc \in {"write", "capture", "save", "apply"} => ~row[op.tuning].restored
CaptureIsFirst == op.pc \in {"write", "capture"} => record[op.tuning].phase = "none"
CaptureIsFresh == op.pc \in {"save", "apply"} => record[op.tuning].balance = balancing
RestoredIsOriginal ==
  op.pc = "record" =>
    /\ \A i \in Irqs[op.tuning] : irq[i] # "tuned"
    /\ record[op.tuning].phase = "applying" /\ record[op.tuning].balance => balancing
OperationInv == RowIsOwned /\ ApplyIsOpen /\ CaptureIsFirst /\ CaptureIsFresh /\ RestoredIsOriginal

OwedInv == TypeInv /\ DeviceInv /\ OperationInv

\* Operations run in the running task, rows belong to tasks there have been, and a task that
\* has succeeded leaves no row open.
OperationRuns    == op # Idle => state = "running"
OwnerIsPast      == \A n \in Tuning : row[n].owner # NoTask => row[n].owner <= now
SuccessIsSettled == state = "succeeded" => \A n \in Tuning : row[n].owner = NoTask \/ row[n].restored
SettledInv == OperationRuns /\ OwnerIsPast /\ SuccessIsSettled

\* What is owed stays so in a step that leaves the rows and the records, tunes nothing and
\* may start irqbalance where the boot has started it.
LEMMA DeviceStays ==
  ASSUME OwedInv, UNCHANGED record, balancing' \in BOOLEAN,
         \A n \in Tuning : row'[n].owner = row[n].owner /\ row'[n].restored = row[n].restored,
         \A i \in Irq : irq'[i] = "tuned" => irq[i] = "tuned",
         balancing => balancing', balancing' => Balance
  PROVE  DeviceInv'
<1>1. \A n \in Tuning : Owes(n) => Owes(n)'
  BY DEF Owes
<1>2. UnownedIsBlank' /\ CapturedIsOriginal' /\ BalanceIsOriginal'
  BY DEF OwedInv, DeviceInv, UnownedIsBlank, CapturedIsOriginal, BalanceIsOriginal
<1>3. IrqIsOwed'
  BY <1>1 DEF OwedInv, DeviceInv, IrqIsOwed
<1>4. BalanceIsOwed'
  <2> SUFFICES ASSUME balancing' # Balance PROVE \E n \in Tuning : Owes(n)' /\ record[n].balance
    BY DEF BalanceIsOwed
  <2>1. balancing # Balance
    BY BoundsAssumption DEF OwedInv, TypeInv
  <2> QED
    BY <1>1, <2>1 DEF OwedInv, DeviceInv, BalanceIsOwed
<1> QED
  BY <1>2, <1>3, <1>4 DEF DeviceInv

\* So it does in a step that leaves the device and the rows' owners and marks alone.
LEMMA DeviceUntouched ==
  ASSUME OwedInv, UNCHANGED <<record, irq, balancing>>,
         \A n \in Tuning : row'[n].owner = row[n].owner /\ row'[n].restored = row[n].restored
  PROVE  DeviceInv'
<1>1. balancing' \in BOOLEAN /\ (balancing' => Balance)
  BY DEF OwedInv, TypeInv, DeviceInv, BalanceIsOriginal
<1> QED
  BY <1>1, DeviceStays

\* Nothing is asked of an operation that has returned.
LEMMA ReturnedOperation == op' = Idle => OperationInv'
BY DEF Idle, OperationInv, RowIsOwned, ApplyIsOpen, CaptureIsFirst, CaptureIsFresh, RestoredIsOriginal

\* What restore writes back, whole or in part, is no tuning's value.
LEMMA RestoredValues ==
  ASSUME OwedInv, NEW n \in Tuning, NEW written \in SUBSET Irqs[n], NEW i \in Irq,
         Restored(n, written)[i] = "tuned"
  PROVE  irq[i] = "tuned" /\ i \notin written
BY DEF OwedInv, DeviceInv, CapturedIsOriginal, Restored

\* So a restore that is cut off tunes nothing, and starts irqbalance where the boot has.
LEMMA PartlyRestoredDevice ==
  ASSUME OwedInv, op # Idle, PartlyRestored, UNCHANGED <<row, record>>
  PROVE  DeviceInv'
<1>1. op \in Operation /\ op.tuning \in Tuning
  BY InFlight DEF OwedInv
<1>2. PICK written \in SUBSET Irqs[op.tuning] : irq' = Restored(op.tuning, written)
  BY DEF PartlyRestored
<1>3. \A i \in Irq : irq'[i] = "tuned" => irq[i] = "tuned"
  BY <1>1, <1>2, RestoredValues
<1>4. balancing' \in BOOLEAN
  BY <1>1, PartialTypes DEF OwedInv
<1>5. record[op.tuning].balance \in BOOLEAN /\ balancing \in BOOLEAN
  BY <1>1 DEF OwedInv, TypeInv, Record
<1>6. (balancing => balancing') /\ (balancing' => Balance)
  BY <1>1, <1>5 DEF PartlyRestored, OwedInv, DeviceInv, BalanceIsOriginal
<1> QED
  BY <1>3, <1>4, <1>6, DeviceStays

\* A task takes a row of its own: nothing is owed for it yet, and all other rows stay.
LEMMA BeginApplyOwed ==
  ASSUME OwedInv, BeginApply
  PROVE  DeviceInv' /\ OperationInv'
<1> USE DEF OwedInv
<1>1. PICK n \in Tuning, pause \in BOOLEAN :
        /\ row[n].owner = NoTask /\ row' = [row EXCEPT ![n].owner = now]
        /\ op' = [pc |-> "write", tuning |-> n, pause |-> pause]
  BY DEF BeginApply
<1>2. now # NoTask /\ record[n].phase = "none" /\ UNCHANGED <<record, irq, balancing>>
  BY <1>1, BoundsAssumption
     DEF BeginApply, deviceVars, TypeInv, Task, NoTask, DeviceInv, UnownedIsBlank
<1>3. \A m \in Tuning : row'[m].restored = row[m].restored
                        /\ row'[m].owner = IF m = n THEN now ELSE row[m].owner
  BY <1>1 DEF TypeInv, Row
<1>4. \A m \in Tuning : Owes(m) => Owes(m)'
  BY <1>2, <1>3 DEF Owes
<1>5. UnownedIsBlank' /\ CapturedIsOriginal' /\ BalanceIsOriginal'
  BY <1>2, <1>3 DEF DeviceInv, UnownedIsBlank, CapturedIsOriginal, BalanceIsOriginal
<1>6. IrqIsOwed' /\ BalanceIsOwed'
  BY <1>2, <1>4 DEF DeviceInv, IrqIsOwed, BalanceIsOwed
<1>7. ~row[n].restored
  BY <1>1 DEF DeviceInv, UnownedIsBlank
<1>8. OperationInv'
  BY <1>1, <1>2, <1>3, <1>7
     DEF OperationInv, RowIsOwned, ApplyIsOpen, CaptureIsFirst, CaptureIsFresh, RestoredIsOriginal
<1> QED
  BY <1>5, <1>6, <1>8 DEF DeviceInv

\* The script and the backup change nothing that is owed.
LEMMA WriteAndSaveOwed ==
  ASSUME OwedInv, WriteScript \/ SaveBackup
  PROVE  DeviceInv' /\ OperationInv'
<1> USE DEF OwedInv
<1>1. op \in Operation /\ op.tuning \in Tuning /\ op.pc \in {"write", "save"}
  BY InFlight DEF WriteScript, SaveBackup, Idle
<1>2. /\ UNCHANGED <<record, irq, balancing>>
      /\ op' = [op EXCEPT !.pc = IF op.pc = "write" THEN "capture" ELSE "apply"]
      /\ row' = row \/ row' = [row EXCEPT ![op.tuning].backup = TRUE]
  BY DEF WriteScript, SaveBackup, Goto, deviceVars
<1>3. \A n \in Tuning : row'[n].owner = row[n].owner /\ row'[n].restored = row[n].restored
  BY <1>1, <1>2 DEF TypeInv, Row
<1>4. op'.tuning = op.tuning /\ op'.pc = IF op.pc = "write" THEN "capture" ELSE "apply"
  BY <1>1, <1>2 DEF Operation
<1>5. OperationInv'
  BY <1>1, <1>2, <1>3, <1>4
     DEF OperationInv, RowIsOwned, ApplyIsOpen, CaptureIsFirst, CaptureIsFresh, RestoredIsOriginal
<1> QED
  BY <1>2, <1>3, <1>5, DeviceUntouched

\* What capture writes into the record: no value of the tuning itself, which has set nothing.
LEMMA CapturedDevice ==
  ASSUME OwedInv, TuningsAreSeparate, op.pc = "capture", record' \in {record, Captured}, UNCHANGED <<irq, balancing>>,
         \A n \in Tuning : row'[n].owner = row[n].owner
                           /\ (n # op.tuning => row'[n].restored = row[n].restored)
  PROVE  DeviceInv'
<1> USE DEF OwedInv
<1>1. op \in Operation /\ op.tuning \in Tuning
  BY InFlight DEF Idle
<1>2. /\ row[op.tuning].owner # NoTask /\ ~Owes(op.tuning)
      /\ record[op.tuning].phase = "none"
  BY DEF OperationInv, RowIsOwned, ApplyIsOpen, CaptureIsFirst, Owes
<1>3. \A n \in Tuning : n # op.tuning => record'[n] = record[n]
  BY <1>1 DEF Captured, TypeInv
<1>4. \/ record'[op.tuning] = record[op.tuning]
      \/ record'[op.tuning] = [phase |-> "captured", before |-> irq,
                               balance |-> balancing, boot |-> boot]
  BY <1>1 DEF Captured, TypeInv
<1>5. \A n \in Tuning : Owes(n) => n # op.tuning /\ Owes(n)'
  BY <1>2, <1>3 DEF Owes
<1>6. \A i \in Irqs[op.tuning] : irq[i] # "tuned"
  <2> SUFFICES ASSUME NEW i \in Irqs[op.tuning], irq[i] = "tuned" PROVE FALSE
    OBVIOUS
  <2>1. PICK n \in Tuning : i \in Irqs[n] /\ Owes(n)
    BY <1>1, IrqsAssumption DEF DeviceInv, IrqIsOwed
  <2> QED
    BY <1>1, <1>5, <2>1 DEF TuningsAreSeparate
<1>7. UnownedIsBlank'
  BY <1>2, <1>3 DEF DeviceInv, UnownedIsBlank
<1>8. CapturedIsOriginal'
  BY <1>3, <1>4, <1>6 DEF DeviceInv, CapturedIsOriginal
<1>9. BalanceIsOriginal'
  BY <1>3, <1>4 DEF DeviceInv, BalanceIsOriginal
<1>10. IrqIsOwed' /\ BalanceIsOwed'
  BY <1>3, <1>5 DEF DeviceInv, IrqIsOwed, BalanceIsOwed
<1> QED
  BY <1>7, <1>8, <1>9, <1>10 DEF DeviceInv

\* A capture either leads to a save of what it has captured, or fails and owes nothing.
LEMMA CaptureOwed ==
  ASSUME OwedInv, TuningsAreSeparate, Capture
  PROVE  DeviceInv' /\ OperationInv'
<1> USE DEF OwedInv
<1>1. op.pc = "capture" /\ op \in Operation /\ op.tuning \in Tuning
  BY InFlight DEF Capture, Idle
<1>2. record' \in {record, Captured} /\ UNCHANGED <<irq, balancing>>
  BY DEF Capture
<1>3. row' \in {row, [row EXCEPT ![op.tuning].restored = TRUE]}
  BY DEF Capture
<1>4. \A n \in Tuning : row'[n].owner = row[n].owner
                        /\ (n # op.tuning => row'[n].restored = row[n].restored)
  BY <1>1, <1>3 DEF TypeInv, Row
<1>5. DeviceInv'
  BY <1>1, <1>2, <1>4, CapturedDevice
<1>6. CASE op' = Idle
  BY <1>5, <1>6, ReturnedOperation
<1>7. CASE op' = [op EXCEPT !.pc = "save"] /\ record' = Captured /\ UNCHANGED row
  <2>1. op'.pc = "save" /\ op'.tuning = op.tuning
    BY <1>1, <1>7 DEF Operation
  <2>2. record'[op.tuning].balance = balancing
    BY <1>1, <1>7 DEF Captured, TypeInv
  <2>3. OperationInv'
    BY <1>1, <1>2, <1>7, <2>1, <2>2
       DEF OperationInv, RowIsOwned, ApplyIsOpen, CaptureIsFirst, CaptureIsFresh, RestoredIsOriginal
  <2> QED
    BY <1>5, <2>3
<1> QED
  BY <1>6, <1>7 DEF Capture, Goto, Raise

\* What an apply writes is owed by its row, which is open: the IRQs are its own, and
\* irqbalance is stopped by the tuning that has found it running.
LEMMA AppliedDevice ==
  ASSUME OwedInv, op.pc = "apply", UNCHANGED row,
         record' = [record EXCEPT ![op.tuning].phase = "applying"],
         balancing' \in {balancing, FALSE},
         NEW written \in SUBSET Irqs[op.tuning], irq' = Tuned(written)
  PROVE  DeviceInv'
<1> USE DEF OwedInv
<1>1. op \in Operation /\ op.tuning \in Tuning
  BY InFlight DEF Idle
<1>2. /\ row[op.tuning].owner # NoTask /\ ~row[op.tuning].restored
      /\ record[op.tuning].balance = balancing
  BY DEF OperationInv, RowIsOwned, ApplyIsOpen, CaptureIsFresh
<1>3. \A n \in Tuning :
        /\ record'[n].before = record[n].before /\ record'[n].balance = record[n].balance
        /\ record'[n].phase = IF n = op.tuning THEN "applying" ELSE record[n].phase
  BY <1>1 DEF TypeInv, Record
<1>4. \A n \in Tuning : Owes(n) \/ n = op.tuning => Owes(n)'
  BY <1>1, <1>2, <1>3 DEF Owes
<1>5. UnownedIsBlank' /\ CapturedIsOriginal'
  BY <1>2, <1>3 DEF DeviceInv, UnownedIsBlank, CapturedIsOriginal
<1>6. BalanceIsOriginal'
  <2>1. balancing' => balancing
    BY DEF TypeInv
  <2> QED
    BY <1>3, <2>1 DEF DeviceInv, BalanceIsOriginal
<1>7. IrqIsOwed'
  <2> SUFFICES ASSUME NEW i \in Irq, irq'[i] = "tuned"
               PROVE  \E n \in Tuning : i \in Irqs[n] /\ Owes(n)'
    BY DEF IrqIsOwed
  <2>1. CASE i \in written
    BY <1>1, <1>4, <2>1
  <2>2. CASE i \notin written
    <3>1. irq[i] = "tuned"
      BY <2>2 DEF Tuned
    <3> QED
      BY <1>4, <3>1 DEF DeviceInv, IrqIsOwed
  <2> QED
    BY <2>1, <2>2
<1>8. BalanceIsOwed'
  <2> SUFFICES ASSUME balancing' # Balance
               PROVE  \E n \in Tuning : Owes(n)' /\ record'[n].balance
    BY DEF BalanceIsOwed
  <2>1. CASE balancing # Balance
    BY <1>3, <1>4, <2>1 DEF DeviceInv, BalanceIsOwed
  <2>2. CASE balancing = Balance
    <3>1. balancing
      BY <2>2, BoundsAssumption DEF TypeInv
    <3>2. record'[op.tuning].balance
      BY <1>1, <1>2, <1>3, <3>1
    <3> QED
      BY <1>1, <1>4, <3>2
  <2> QED
    BY <2>1, <2>2
<1> QED
  BY <1>5, <1>6, <1>7, <1>8 DEF DeviceInv

\* So it is when the apply is cut off.
LEMMA PartlyAppliedDevice ==
  ASSUME OwedInv, op.pc = "apply", PartlyApplied, UNCHANGED row
  PROVE  DeviceInv'
<1>1. CASE UNCHANGED <<record, irq, balancing>>
  BY <1>1, DeviceUntouched
<1>2. CASE ~UNCHANGED <<record, irq, balancing>>
  BY <1>2, AppliedDevice DEF PartlyApplied
<1> QED
  BY <1>1, <1>2

\* An apply returns or raises with what it has written owed.
LEMMA ApplyOwed ==
  ASSUME OwedInv, Apply
  PROVE  DeviceInv' /\ OperationInv'
<1>1. op.pc = "apply" /\ op' = Idle /\ UNCHANGED row
  BY DEF Apply, Return, Raise
<1>2. op \in Operation /\ op.tuning \in Tuning
  BY <1>1, InFlight DEF OwedInv, Apply, Idle
<1>3. CASE /\ record' = [record EXCEPT ![op.tuning].phase = "applying"]
           /\ balancing' = FALSE /\ irq' = Tuned(Irqs[op.tuning])
  <2>1. Irqs[op.tuning] \in SUBSET Irqs[op.tuning]
    OBVIOUS
  <2>2. DeviceInv'
    BY <1>1, <1>3, <2>1, AppliedDevice
  <2> QED
    BY <1>1, <2>2, ReturnedOperation
<1>4. CASE PartlyApplied
  BY <1>1, <1>4, PartlyAppliedDevice, ReturnedOperation
<1>5. CASE UNCHANGED <<record, irq, balancing>>
  BY <1>1, <1>5, DeviceUntouched, ReturnedOperation
<1> QED
  BY <1>3, <1>4, <1>5 DEF Apply

\* BeginRestore and Find change nothing on the device, and Find leads to a restore at most.
LEMMA FindOwed ==
  ASSUME OwedInv, BeginRestore \/ Find
  PROVE  DeviceInv' /\ OperationInv'
<1>1. UNCHANGED <<row, record, irq, balancing>>
  BY DEF BeginRestore, Find, deviceVars
<1>2. op' = Idle \/ (op'.pc \in {"find", "restore"} /\ row[op'.tuning].owner # NoTask)
  <2>1. CASE BeginRestore
    BY <2>1 DEF BeginRestore
  <2>2. CASE Find
    <3>1. op.pc = "find" /\ op \in Operation
      BY <2>2, InFlight DEF OwedInv, Find, Idle
    <3>2. op' = Idle \/ op' = [op EXCEPT !.pc = "restore"]
      BY <2>2 DEF Find, Goto, Return, Raise
    <3>3. row[op.tuning].owner # NoTask
      BY <3>1 DEF OwedInv, OperationInv, RowIsOwned
    <3> QED
      BY <3>1, <3>2, <3>3 DEF Operation
  <2> QED
    BY <2>1, <2>2
<1>3. OperationInv'
  BY <1>1, <1>2, ReturnedOperation
     DEF OperationInv, RowIsOwned, ApplyIsOpen, CaptureIsFirst, CaptureIsFresh, RestoredIsOriginal
<1> QED
  BY <1>1, <1>3, DeviceUntouched

\* A restore gets to its row with the IRQs of the tuning untuned: it has written them back,
\* or the tuning has written none.
LEMMA RestoreOwed ==
  ASSUME OwedInv, TuningsAreSeparate, Restore
  PROVE  DeviceInv' /\ OperationInv'
<1> USE DEF OwedInv
<1>1. op.pc = "restore" /\ op # Idle /\ op \in Operation /\ op.tuning \in Tuning
  BY InFlight DEF Restore, Idle
<1>2. UNCHANGED <<row, record>>
  BY DEF Restore
<1>3. op' = Idle \/ op' = [op EXCEPT !.pc = "record"]
  BY DEF Restore, Goto, Raise
<1>4. op' = [op EXCEPT !.pc = "record"] => op'.tuning = op.tuning
  BY <1>1 DEF Operation
<1>5. CASE PartlyRestored /\ op' = Idle
  BY <1>1, <1>2, <1>5, PartlyRestoredDevice, ReturnedOperation
<1>6. CASE UNCHANGED <<irq, balancing>> /\ op' = Idle
  BY <1>2, <1>6, DeviceUntouched, ReturnedOperation
<1>7. CASE /\ UNCHANGED <<irq, balancing>> /\ op' = [op EXCEPT !.pc = "record"]
           /\ record[op.tuning].phase = "captured"
  <2>1. \A i \in Irqs[op.tuning] : irq[i] # "tuned"
    <3> SUFFICES ASSUME NEW i \in Irqs[op.tuning], irq[i] = "tuned" PROVE FALSE
      OBVIOUS
    <3>1. PICK n \in Tuning : i \in Irqs[n] /\ Owes(n)
      BY <1>1, IrqsAssumption DEF DeviceInv, IrqIsOwed
    <3>2. n # op.tuning
      BY <1>7, <3>1 DEF Owes
    <3> QED
      BY <1>1, <3>1, <3>2 DEF TuningsAreSeparate
  <2>2. op'.pc = "record"
    BY <1>1, <1>7 DEF Operation
  <2>3. OperationInv'
    BY <1>1, <1>2, <1>4, <1>7, <2>1, <2>2
       DEF OperationInv, RowIsOwned, ApplyIsOpen, CaptureIsFirst, CaptureIsFresh, RestoredIsOriginal
  <2> QED
    BY <1>2, <1>7, <2>3, DeviceUntouched
<1>8. CASE /\ irq' = Restored(op.tuning, Irqs[op.tuning])
           /\ balancing' = (balancing \/ record[op.tuning].balance)
  <2>1. \E written \in SUBSET Irqs[op.tuning] : irq' = Restored(op.tuning, written)
    BY <1>8
  <2>2. PartlyRestored
    BY <1>8, <2>1 DEF PartlyRestored
  <2>3. DeviceInv'
    BY <1>1, <1>2, <2>2, PartlyRestoredDevice
  <2>4. CASE op' = Idle
    BY <2>3, <2>4, ReturnedOperation
  <2>5. CASE op' = [op EXCEPT !.pc = "record"]
    <3>1. op'.pc = "record"
      BY <1>1, <2>5 DEF Operation
    <3>2. Irqs[op.tuning] \in SUBSET Irqs[op.tuning] /\ Irqs[op.tuning] \in SUBSET Irq
      BY <1>1, IrqsAssumption
    <3>3. \A i \in Irqs[op.tuning] : irq'[i] # "tuned"
      BY <1>1, <1>8, <3>2, RestoredValues
    <3>4. record[op.tuning].balance => balancing'
      BY <1>8
    <3>5. OperationInv'
      BY <1>1, <1>2, <1>4, <2>5, <3>1, <3>3, <3>4
         DEF OperationInv, RowIsOwned, ApplyIsOpen, CaptureIsFirst, CaptureIsFresh, RestoredIsOriginal
    <3> QED
      BY <2>3, <3>5
  <2> QED
    BY <1>3, <2>4, <2>5
<1> QED
  BY <1>5, <1>6, <1>7, <1>8 DEF Restore, Goto, Raise

\* A row is marked when it owes nothing: the IRQs that are tuned belong to others, and
\* so does a stopped irqbalance.
LEMMA RecordRestoredOwed ==
  ASSUME OwedInv, TuningsAreSeparate, RecordRestored
  PROVE  DeviceInv' /\ OperationInv'
<1> USE DEF OwedInv
<1>1. op.pc = "record" /\ op.tuning \in Tuning /\ op' = Idle
  BY InFlight DEF RecordRestored, Return, Idle
<1>2. UNCHANGED <<record, irq, balancing>> /\ row' = [row EXCEPT ![op.tuning].restored = TRUE]
  BY DEF RecordRestored, deviceVars
<1>3. \A n \in Tuning : row'[n].owner = row[n].owner
                        /\ (n # op.tuning => row'[n].restored = row[n].restored)
  BY <1>1, <1>2 DEF TypeInv, Row
<1>4. \A n \in Tuning : Owes(n) /\ n # op.tuning => Owes(n)'
  BY <1>2, <1>3 DEF Owes
<1>5. UnownedIsBlank' /\ CapturedIsOriginal' /\ BalanceIsOriginal'
  <2>1. row[op.tuning].owner # NoTask
    BY <1>1 DEF OperationInv, RowIsOwned
  <2> QED
    BY <1>2, <1>3, <2>1 DEF DeviceInv, UnownedIsBlank, CapturedIsOriginal, BalanceIsOriginal
<1>6. IrqIsOwed'
  <2> SUFFICES ASSUME NEW i \in Irq, irq[i] = "tuned"
               PROVE  \E n \in Tuning : i \in Irqs[n] /\ Owes(n)'
    BY <1>2 DEF IrqIsOwed
  <2>1. PICK n \in Tuning : i \in Irqs[n] /\ Owes(n)
    BY DEF DeviceInv, IrqIsOwed
  <2>2. n # op.tuning
    BY <1>1, <2>1 DEF OperationInv, RestoredIsOriginal
  <2> QED
    BY <1>4, <2>1, <2>2
<1>7. BalanceIsOwed'
  <2> SUFFICES ASSUME balancing # Balance
               PROVE  \E n \in Tuning : Owes(n)' /\ record[n].balance
    BY <1>2 DEF BalanceIsOwed
  <2>1. PICK n \in Tuning : Owes(n) /\ record[n].balance
    BY DEF DeviceInv, BalanceIsOwed
  <2>2. CASE n = op.tuning
    <3>1. balancing
      BY <1>1, <2>1, <2>2 DEF OperationInv, RestoredIsOriginal, Owes
    <3> QED
      BY <3>1, BoundsAssumption DEF TypeInv, DeviceInv, BalanceIsOriginal
  <2>3. CASE n # op.tuning
    BY <1>4, <2>1, <2>3
  <2> QED
    BY <2>2, <2>3
<1> QED
  BY <1>1, <1>5, <1>6, <1>7, ReturnedOperation DEF DeviceInv

\* An operation that is lost leaves behind what its interrupted step may have done.
LEMMA LoseOwed ==
  ASSUME OwedInv, TuningsAreSeparate, Lose
  PROVE  DeviceInv' /\ OperationInv'
<1>1. op # Idle /\ op' = Idle /\ UNCHANGED row
  BY DEF Lose, Raise
<1>2. CASE op.pc = "apply" /\ PartlyApplied
  BY <1>1, <1>2, PartlyAppliedDevice, ReturnedOperation
<1>3. CASE op.pc = "capture" /\ record' \in {record, Captured} /\ UNCHANGED <<irq, balancing>>
  BY <1>1, <1>3, CapturedDevice, ReturnedOperation
<1>4. CASE PartlyRestored /\ UNCHANGED record
  BY <1>1, <1>4, PartlyRestoredDevice, ReturnedOperation
<1>5. CASE UNCHANGED <<record, irq, balancing>>
  BY <1>1, <1>5, DeviceUntouched, ReturnedOperation
<1> QED
  BY <1>2, <1>3, <1>4, <1>5 DEF Lose

\* A reboot sets every IRQ and irqbalance as a boot does, so that nothing is owed for.
LEMMA RebootOwed ==
  ASSUME OwedInv, Reboot
  PROVE  DeviceInv' /\ OperationInv'
<1>1. /\ op' = Idle /\ UNCHANGED row /\ balancing' = Balance
      /\ \A i \in Irq : irq'[i] = "boot"
  BY DEF Reboot, taskVars
<1>2. record' = record \/ record' = [n \in Tuning |-> NoRecord]
  BY DEF Reboot
<1>3. \A n \in Tuning : record'[n] \in {record[n], NoRecord}
  BY <1>2
<1>4. UnownedIsBlank' /\ BalanceIsOriginal'
  BY <1>1, <1>3 DEF OwedInv, DeviceInv, UnownedIsBlank, BalanceIsOriginal, NoRecord
<1>5. CapturedIsOriginal'
  <2> SUFFICES ASSUME NEW n \in Tuning, NEW i \in Irqs[n] PROVE record'[n].before[i] # "tuned"
    BY DEF CapturedIsOriginal
  <2>1. i \in Irq
    BY IrqsAssumption
  <2> QED
    BY <1>3, <2>1 DEF OwedInv, DeviceInv, CapturedIsOriginal, NoRecord
<1>6. IrqIsOwed' /\ BalanceIsOwed'
  BY <1>1 DEF IrqIsOwed, BalanceIsOwed
<1> QED
  BY <1>1, <1>4, <1>5, <1>6, ReturnedOperation DEF DeviceInv

\* A step that leaves the operation, the rows and the device keeps all.
LEMMA OtherOwed ==
  ASSUME OwedInv, Finish \/ Fail \/ Recover \/ Move \/ UNCHANGED vars
  PROVE  DeviceInv' /\ OperationInv'
<1> USE DEF OwedInv
<1>1. op' = op \/ op' = Idle
  BY DEF Finish, Fail, Recover, Move, Raise, vars
<1>2. UNCHANGED <<row, record, balancing>>
  BY DEF Finish, Fail, Recover, Move, deviceVars, vars
<1>3. \A i \in Irq : irq'[i] = "tuned" => irq[i] = "tuned"
  <2>1. CASE UNCHANGED irq
    BY <2>1
  <2>2. CASE Move
    BY <2>2 DEF Move, TypeInv
  <2> QED
    BY <2>1, <2>2 DEF Finish, Fail, Recover, deviceVars, vars
<1>4. balancing' \in BOOLEAN /\ (balancing' => Balance)
  BY <1>2 DEF TypeInv, DeviceInv, BalanceIsOriginal
<1>5. DeviceInv'
  BY <1>2, <1>3, <1>4, DeviceStays
<1>6. CASE op' = op
  <2>1. op.pc = "record" => op.tuning \in Tuning
    BY InFlight DEF Idle
  <2>2. OperationInv'
    BY <1>2, <1>3, <1>6, <2>1, IrqsAssumption
       DEF OperationInv, RowIsOwned, ApplyIsOpen, CaptureIsFirst, CaptureIsFresh, RestoredIsOriginal
  <2> QED
    BY <1>5, <2>2
<1> QED
  BY <1>1, <1>5, <1>6, ReturnedOperation

\* Where tunings have IRQs of their own, every step keeps what is owed.
LEMMA OwedStep ==
  ASSUME TuningsAreSeparate
  PROVE  OwedInv /\ [Next]_vars => OwedInv'
<1> SUFFICES ASSUME OwedInv, [Next]_vars PROVE DeviceInv' /\ OperationInv'
  BY TypeStep DEF OwedInv
<1> QED
  BY BeginApplyOwed, WriteAndSaveOwed, CaptureOwed, ApplyOwed, FindOwed, RestoreOwed,
     RecordRestoredOwed, LoseOwed, RebootOwed, OtherOwed DEF Next

-----------------------------------------------------------------------------
(* A finished task.                                                          *)

\* A step takes a row for the running task only, and only an operation marks one as restored.
LEMMA RowsOfStep ==
  ASSUME TypeInv, [Next]_vars, NEW n \in Tuning
  PROVE  /\ row'[n].owner = row[n].owner \/ (row'[n].owner = now /\ state = "running")
         /\ row[n].restored => row'[n].restored
<1>1. CASE UNCHANGED row
  BY <1>1
<1>2. CASE state = "running" /\ \E m \in Tuning : row' = [row EXCEPT ![m].owner = now]
  BY <1>2 DEF TypeInv, Row
<1>3. CASE \/ row' = [row EXCEPT ![op.tuning].restored = TRUE]
           \/ row' = [row EXCEPT ![op.tuning].backup = TRUE]
  BY <1>3 DEF TypeInv, Row
<1> QED
  BY <1>1, <1>2, <1>3
     DEF Next, vars, taskVars, deviceVars, BeginApply, WriteScript, Capture, SaveBackup, Apply,
         BeginRestore, Find, Restore, RecordRestored, Finish, Fail, Recover, Lose, Move, Reboot

\* A step succeeds only as a finish, and begins or goes on with an operation in a running task.
LEMMA StatesOfStep ==
  ASSUME TypeInv, OperationRuns, [Next]_vars
  PROVE  /\ OperationRuns'
         /\ now' = now \/ (now' = now + 1 /\ state' = "running")
         /\ state' = "succeeded" => state = "succeeded" \/ (Finish /\ ~Unrestored)
<1>1. CASE BeginApply \/ BeginRestore
  BY <1>1 DEF BeginApply, BeginRestore, OperationRuns, taskVars
<1>2. CASE WriteScript \/ Capture \/ SaveBackup \/ Apply
  BY <1>2 DEF WriteScript, Capture, SaveBackup, Apply, Goto, Return, Raise, OperationRuns,
              taskVars, Idle
<1>3. CASE Find \/ Restore \/ RecordRestored
  BY <1>3 DEF Find, Restore, RecordRestored, Goto, Return, Raise, OperationRuns, taskVars, Idle
<1>4. CASE Fail \/ Recover \/ Lose
  BY <1>4 DEF Fail, Recover, Lose, Raise, OperationRuns
<1>5. CASE Finish
  BY <1>5 DEF Finish, OperationRuns
<1>6. CASE Move \/ Reboot \/ UNCHANGED vars
  BY <1>6 DEF Move, Reboot, OperationRuns, vars, taskVars
<1> QED
  BY <1>1, <1>2, <1>3, <1>4, <1>5, <1>6 DEF Next

\* In a chain of a task and one recovery, the rows a finish looks at are all there are.
LEMMA SettledStep ==
  ASSUME MaxRecoveries <= 1
  PROVE  TypeInv /\ SettledInv /\ [Next]_vars => SettledInv'
<1> SUFFICES ASSUME TypeInv, SettledInv, [Next]_vars PROVE SettledInv'
  OBVIOUS
<1> USE DEF SettledInv
<1>1. now \in 0..MaxRecoveries /\ TypeInv'
  BY TypeStep DEF TypeInv, Task
<1>2. \A n \in Tuning : row[n].owner \in Task \cup {NoTask} /\ row'[n].owner \in Task \cup {NoTask}
  BY <1>1 DEF TypeInv, Row
<1>3. OwnerIsPast'
  BY <1>1, <1>2, RowsOfStep, StatesOfStep, BoundsAssumption DEF OwnerIsPast, Task, NoTask
<1>4. SuccessIsSettled'
  <2> SUFFICES ASSUME state' = "succeeded", NEW n \in Tuning
               PROVE  row'[n].owner = NoTask \/ row'[n].restored
    BY DEF SuccessIsSettled
  <2>1. CASE state = "succeeded"
    BY <2>1, RowsOfStep DEF SuccessIsSettled
  <2>2. CASE Finish /\ ~Unrestored
    <3>1. row' = row
      BY <2>2 DEF Finish
    <3>2. row[n].owner = NoTask \/ row[n].owner \in {now, Parent(now)}
      BY <1>1, <1>2, BoundsAssumption DEF OwnerIsPast, Parent, Task, NoTask
    <3> QED
      BY <2>2, <3>1, <3>2 DEF Unrestored
  <2> QED
    BY <2>1, <2>2, StatesOfStep
<1> QED
  BY <1>3, <1>4, StatesOfStep

-----------------------------------------------------------------------------
(* The theorems.                                                             *)

\* Initially nothing is tuned, captured or owed.
LEMMA InitOwed == Init => OwedInv /\ SettledInv
<1> SUFFICES ASSUME Init PROVE OwedInv /\ SettledInv
  OBVIOUS
<1>1. TypeInv /\ OperationInv
  BY InitTypes DEF Init, Idle, OperationInv, RowIsOwned, ApplyIsOpen, CaptureIsFirst,
                   CaptureIsFresh, RestoredIsOriginal
<1>2. DeviceInv
  BY IrqsAssumption DEF Init, NoRow, NoRecord, DeviceInv, UnownedIsBlank, CapturedIsOriginal,
                        BalanceIsOriginal, IrqIsOwed, BalanceIsOwed
<1>3. SettledInv
  BY DEF Init, NoRow, SettledInv, OperationRuns, OwnerIsPast, SuccessIsSettled
<1> QED
  BY <1>1, <1>2, <1>3 DEF OwedInv

\* Where tunings have IRQs of their own, an IRQ that is tuned is owed by a row that is not
\* marked restored, in every chain of recoveries: whatever is lost, cut off or rebooted, the
\* platform knows that there is something to restore (tuning.apply, tuning.restore).
THEOREM TunedIsAlwaysOwed ==
  ASSUME TuningsAreSeparate
  PROVE  Spec => []TunedIsOwed
<1>1. OwedInv => TunedIsOwed
  BY DEF OwedInv, DeviceInv, IrqIsOwed, Owes, TunedIsOwed
<1> QED
  BY <1>1, InitOwed, OwedStep, PTL DEF Spec

\* Where they have and a recovery is not recovered itself, a task that succeeds, and so gives
\* the device back as clean, leaves it tuned as it was: no IRQ as a tuning set it, irqbalance
\* as the boot started it (Core.finish and Runtime.worker look at the rows, not the device).
THEOREM SuccessRestoresDevice ==
  ASSUME TuningsAreSeparate, MaxRecoveries <= 1
  PROVE  Spec => []TuningsAreOwed
<1> DEFINE IInv == OwedInv /\ SettledInv
<1>1. IInv => TuningsAreOwed
  <2> SUFFICES ASSUME IInv PROVE TuningsAreOwed
    OBVIOUS
  <2>1. TypeOK
    BY TypesAreOK DEF OwedInv
  <2>2. state = "succeeded" => \A n \in Tuning : ~Owes(n)
    BY DEF SettledInv, SuccessIsSettled, Owes
  <2>3. CleanMeansOriginal
    BY <2>2 DEF OwedInv, DeviceInv, IrqIsOwed, BalanceIsOwed, CleanMeansOriginal
  <2>4. TunedIsOwed
    BY DEF OwedInv, DeviceInv, IrqIsOwed, Owes, TunedIsOwed
  <2> QED
    BY <2>1, <2>3, <2>4 DEF TuningsAreOwed
<1>2. IInv /\ [Next]_vars => IInv'
  BY OwedStep, SettledStep DEF OwedInv
<1>3. Init => IInv
  BY InitOwed
<1> QED
  BY <1>1, <1>2, <1>3, PTL DEF Spec

\* A restore that finds the device booted since the capture writes nothing, finished or cut
\* off: the numbers of one boot are not used in another (remote/tune.py compares boot_id).
THEOREM BootsAreKeptApart == Spec => NoValueOfAnotherBoot
<1> DEFINE Apart == op.pc = "restore" /\ op' # op /\ record[op.tuning].boot # boot
                      => UNCHANGED <<irq, balancing>>
<1>1. TypeInv /\ [Next]_vars => [Apart]_vars
  <2> SUFFICES ASSUME TypeInv, Next, op.pc = "restore", op' # op, record[op.tuning].boot # boot
               PROVE  UNCHANGED <<irq, balancing>>
    BY DEF vars
  <2>1. op # Idle /\ op.tuning \in Tuning
    BY InFlight DEF Idle
  <2>2. record[op.tuning].phase \in {"none", "captured", "applying"}
    BY <2>1 DEF TypeInv, Record
  <2>3. CASE Restore
    BY <2>1, <2>2, <2>3 DEF Restore
  <2>4. CASE Lose
    BY <2>4 DEF Lose
  <2>5. CASE Find \/ BeginApply \/ BeginRestore \/ Finish \/ Fail \/ Reboot
    BY <2>1, <2>5 DEF Find, BeginApply, BeginRestore, Finish, Fail, Reboot
  <2> QED
    BY <2>3, <2>4, <2>5
       DEF Next, WriteScript, Capture, SaveBackup, Apply, RecordRestored, Recover, Move
<1> QED
  BY <1>1, InitTypes, TypeStep, PTL DEF Spec, NoValueOfAnotherBoot

-----------------------------------------------------------------------------
(* The SSH executor (SshProcess).                                            *)

Pc == {"idle", "connecting", "connected", "sending", "collect", "verify",
       "backed", "temp", "rename", "reread", "shown", "send"}
CallRow == [pc : Pc, kind : Calls \cup {"none"}, live : BOOLEAN]
StopRow == [pc : {"idle", "read", "control", "recheck", "done"}, todo : SUBSET Op, ok : BOOLEAN]
Group   == Running \cup {"none", "gone", "vanished"}

-----------------------------------------------------------------------------
(* The handles.                                                              *)

\* Commands are numbered in the order of their handles: those with a handle are 1 to n.
Numbered(n) == \A o \in Op : handle[o] # "none" <=> o <= n

\* Then Executed is n, and Exec the last of them.
LEMMA NumbersOfHandles ==
  ASSUME NEW n \in 0..MaxExecs, Numbered(n)
  PROVE  Executed = n /\ (n > 0 => Exec = n)
<1>1. {o \in Op : handle[o] # "none"} = 1..n
  BY SshAssumption DEF Numbered, Op
<1>2. Cardinality(1..n) = n
  BY FS_Interval, SshAssumption
<1>3. ASSUME n > 0 PROVE Exec = n
  <2>1. /\ n \in Op /\ handle[n] # "none"
        /\ \A later \in Op : later > n => handle[later] = "none"
    BY <1>3, SshAssumption DEF Numbered, Op
  <2>2. ASSUME NEW o \in Op, handle[o] # "none",
               \A later \in Op : later > o => handle[later] = "none"
        PROVE  o = n
    BY <2>1, <2>2, SshAssumption DEF Numbered, Op
  <2> QED
    BY <2>1, <2>2 DEF Exec
<1> QED
  BY <1>1, <1>2, <1>3 DEF Executed

-----------------------------------------------------------------------------
(* The types.                                                                *)

CallOK == call \in CallRow
RunOK ==
  /\ status \in {"running", "stopping", "failed", "stopped", "succeeded"}
  /\ scene \in {"active", "unknown", "needs_recovery", "clean"}
  /\ worker \in {"run", "checked", "cleanup", "closing", "done"}
  /\ cancelled \in BOOLEAN /\ finished \in BOOLEAN
StopOK   == stop \in [Stopper -> StopRow]
DeviceOK == handle \in [Op -> {"none", "active", "inactive"}] /\ group \in [Op -> Group]
FileOK   == content \in {"old", "partial", "new"} /\ temp \in {"none", "partial", "whole"} /\ backup \in BOOLEAN
LinkOK ==
  /\ client \in BOOLEAN /\ session \in {"none", "open", "closed"}
  /\ used \in BOOLEAN /\ program \in BOOLEAN
FaultsOK == sshFaults \in 0..MaxSshFaults

\* The type invariant is these seven parts.
LEMMA CallParts == SshTypeOK <=> CallOK /\ RunOK /\ StopOK /\ DeviceOK /\ FileOK /\ LinkOK /\ FaultsOK
  BY DEF SshTypeOK, CallOK, RunOK, StopOK, DeviceOK, FileOK, LinkOK, FaultsOK,
         CallRow, StopRow, Group, Pc

\* Only the steps of a write touch the file.
LEMMA OnlyWrites ==
  ASSUME [SshNext]_sshVars
  PROVE  \/ WriteFails \/ BackUp \/ OpenTemp \/ WriteTemp \/ Rename \/ ReadBack
         \/ UNCHANGED fileVars
<1>1. CASE BeginCall \/ Connect \/ GiveUpConnecting \/ StoreHandle \/ Send \/ Collect \/ VerifyGone
  BY <1>1 DEF BeginCall, Connect, GiveUpConnecting, StoreHandle, Send, Collect, VerifyGone
<1>2. CASE OpenShell \/ MarkInteractive \/ SendText
  BY <1>2 DEF OpenShell, MarkInteractive, SendText
<1>3. CASE WorkerStep
  BY <1>3 DEF WorkerStep, BackendFails, WorkerCancelled, CheckHandles, FinishTask, WorkerCloses
<1>4. ASSUME NEW s \in Stopper, StopStep(s) PROVE UNCHANGED fileVars
  BY <1>4 DEF StopStep, ReadHandles, Control, Recheck, CloseAll
<1> QED
  BY <1>1, <1>2, <1>3, <1>4 DEF SshNext, CallStep, AgentFinishes, UserStop, Terminated, GroupStep,
                                ProgramEnds, RebootDevice, sshVars

\* What a call looks like, and what its steps make of it.
LEMMA CallRows ==
  ASSUME CallOK
  PROVE  /\ call.pc \in Pc /\ call.live \in BOOLEAN
         /\ Quiet \in CallRow
         /\ \A pc \in Pc : [call EXCEPT !.pc = pc] \in CallRow
         /\ [call EXCEPT !.live = FALSE] \in CallRow
         /\ [call EXCEPT !.pc = "connected", !.live = TRUE] \in CallRow
<1>1. PICK pc \in Pc, kind \in Calls \cup {"none"}, live \in BOOLEAN :
        call = [pc |-> pc, kind |-> kind, live |-> live]
  BY DEF CallOK, CallRow
<1> QED
  BY <1>1 DEF CallRow, Quiet, Pc

\* Every step keeps the type of the call.
LEMMA CallType ==
  ASSUME CallOK, LinkOK, [SshNext]_sshVars
  PROVE  CallOK'
<1> USE CallRows DEF CallOK
<1>1. ASSUME Close PROVE CallOK'
  BY <1>1 DEF Close
<1>2. ASSUME ReturnCall \/ RaiseError PROVE CallOK'
  BY <1>2 DEF ReturnCall, RaiseError
<1>3. ASSUME NEW pc \in Pc, GoOn(pc) PROVE CallOK'
  BY <1>3 DEF GoOn
<1>4. CASE BeginCall
  BY <1>4 DEF BeginCall, CallRow, Pc, LinkOK
<1>5. CASE Connect \/ GiveUpConnecting
  BY <1>2, <1>5 DEF Connect, GiveUpConnecting
<1>6. CASE StoreHandle \/ Send \/ Collect \/ VerifyGone
  BY <1>2, <1>3, <1>6 DEF StoreHandle, Send, Collect, VerifyGone, Pc
<1>7. CASE WriteFails \/ BackUp \/ OpenTemp \/ WriteTemp \/ Rename \/ ReadBack
  BY <1>2, <1>3, <1>7 DEF WriteFails, BackUp, OpenTemp, WriteTemp, Rename, ReadBack, Pc
<1>8. CASE OpenShell \/ MarkInteractive \/ SendText
  BY <1>2, <1>3, <1>8 DEF OpenShell, MarkInteractive, SendText, Pc
<1>9. CASE AgentFinishes \/ UserStop \/ Terminated \/ ProgramEnds
  BY <1>9 DEF AgentFinishes, UserStop, Terminated, ProgramEnds
<1>10. CASE WorkerStep
  BY <1>1, <1>10 DEF WorkerStep, BackendFails, WorkerCancelled, CheckHandles, FinishTask, WorkerCloses
<1>11. ASSUME NEW s \in Stopper, StopStep(s) PROVE CallOK'
  BY <1>1, <1>11 DEF StopStep, ReadHandles, Control, Recheck, CloseAll
<1>12. ASSUME NEW o \in Op, GroupStep(o) PROVE CallOK'
  BY <1>12 DEF GroupStep
<1>13. CASE RebootDevice
  BY <1>1, <1>13 DEF RebootDevice
<1>14. CASE UNCHANGED sshVars
  BY <1>14 DEF sshVars
<1> QED
  BY <1>4, <1>5, <1>6, <1>7, <1>8, <1>9, <1>10, <1>11, <1>12, <1>13, <1>14
  DEF SshNext, CallStep

\* Every step keeps the types of the task and its worker.
LEMMA RunType ==
  ASSUME RunOK, [SshNext]_sshVars
  PROVE  RunOK'
<1> USE DEF RunOK, runVars
<1>1. ASSUME RaiseError \/ ReturnCall PROVE RunOK'
  BY <1>1 DEF RaiseError, ReturnCall, Fails, FailsScene
<1>2. CASE BeginCall \/ Connect \/ GiveUpConnecting
  BY <1>1, <1>2 DEF BeginCall, Connect, GiveUpConnecting
<1>3. CASE StoreHandle \/ Send \/ Collect \/ VerifyGone
  BY <1>1, <1>3 DEF StoreHandle, Send, Collect, VerifyGone
<1>4. CASE WriteFails \/ BackUp \/ OpenTemp \/ WriteTemp \/ Rename \/ ReadBack
  BY <1>1, <1>4 DEF WriteFails, BackUp, OpenTemp, WriteTemp, Rename, ReadBack
<1>5. CASE OpenShell \/ MarkInteractive \/ SendText
  BY <1>1, <1>5 DEF OpenShell, MarkInteractive, SendText
<1>6. CASE AgentFinishes \/ UserStop \/ Terminated \/ ProgramEnds
  BY <1>6 DEF AgentFinishes, UserStop, Terminated, ProgramEnds
<1>7. CASE WorkerStep
  BY <1>7 DEF WorkerStep, BackendFails, WorkerCancelled, CheckHandles, FinishTask, WorkerCloses,
              WorkerRaises, CleanUp, Fails, FailsScene
<1>8. ASSUME NEW s \in Stopper, StopStep(s) PROVE RunOK'
  BY <1>8 DEF StopStep, ReadHandles, Control, Recheck, CloseAll
<1>9. ASSUME NEW o \in Op, GroupStep(o) PROVE RunOK'
  BY <1>9 DEF GroupStep
<1>10. CASE RebootDevice \/ UNCHANGED sshVars
  BY <1>10 DEF RebootDevice, sshVars
<1> QED
  BY <1>2, <1>3, <1>4, <1>5, <1>6, <1>7, <1>8, <1>9, <1>10 DEF SshNext, CallStep

\* What a thread's stop looks like, and what its steps make of it.
LEMMA StopRows ==
  ASSUME StopOK, NEW s \in Stopper
  PROVE  /\ stop[s].todo \subseteq Op /\ stop[s].ok \in BOOLEAN
         /\ [stop EXCEPT ![s].pc = "read"] \in [Stopper -> StopRow]
<1>1. PICK pc \in {"idle", "read", "control", "recheck", "done"}, todo \in SUBSET Op, ok \in BOOLEAN :
        stop[s] = [pc |-> pc, todo |-> todo, ok |-> ok]
  BY DEF StopOK, StopRow
<1>2. stop[s].todo \subseteq Op /\ stop[s].ok \in BOOLEAN
  BY <1>1
<1>3. [stop[s] EXCEPT !.pc = "read"] \in StopRow
  BY <1>1 DEF StopRow
<1> QED
  BY <1>2, <1>3 DEF StopOK

\* A stop that is moved on keeps its type.
LEMMA StopAtType ==
  ASSUME StopOK, NEW s \in Stopper,
         NEW pc \in {"idle", "read", "control", "recheck", "done"}, NEW todo \in SUBSET Op,
         NEW ok \in BOOLEAN, StopAt(s, pc, todo, ok)
  PROVE  StopOK'
<1>1. [pc |-> pc, todo |-> todo, ok |-> ok] \in StopRow
  BY DEF StopRow
<1> QED
  BY <1>1 DEF StopOK, StopAt

\* Every step keeps the type of the stops.
LEMMA StopType ==
  ASSUME StopOK, RunOK, DeviceOK, LinkOK, [SshNext]_sshVars
  PROVE  StopOK'
<1>1. ASSUME NEW s \in Stopper, NEW o \in Op, NEW stopped \in BOOLEAN, Learn(s, o, stopped)
      PROVE  StopOK'
  <2>1. stop[s].todo \ {o} \in SUBSET Op /\ (stop[s].ok /\ stopped) \in BOOLEAN
    BY StopRows
  <2> QED
    BY <1>1, <2>1, StopAtType DEF Learn
<1>2. CASE CallStep
  BY <1>2 DEF CallStep, BeginCall, Connect, GiveUpConnecting, StoreHandle, Send, Collect, VerifyGone,
              WriteFails, BackUp, OpenTemp, WriteTemp, Rename, ReadBack,
              OpenShell, MarkInteractive, SendText, StopOK
<1>3. CASE AgentFinishes \/ Terminated \/ ProgramEnds \/ RebootDevice \/ UNCHANGED sshVars
  BY <1>3 DEF AgentFinishes, Terminated, ProgramEnds, RebootDevice, sshVars, StopOK
<1>4. CASE UserStop
  BY <1>4, StopRows DEF UserStop, Stopper, StopOK
<1>5. CASE WorkerStep
  <2>1. ASSUME CleanUp PROVE StopOK'
    BY <2>1, StopRows DEF CleanUp, Stopper, StopOK
  <2> QED
    BY <1>5, <2>1 DEF WorkerStep, BackendFails, WorkerCancelled, CheckHandles, FinishTask,
                      WorkerCloses, WorkerRaises, StopOK
<1>6. ASSUME NEW s \in Stopper, StopStep(s) PROVE StopOK'
  <2>1. CASE ReadHandles(s)
    <3>1. {o \in Op : handle[o] = "active"} \in SUBSET Op
      OBVIOUS
    <3> QED
      BY <2>1, <3>1, StopAtType DEF ReadHandles
  <2>2. CASE Control(s)
    <3>1. \/ \E o \in Op, stopped \in BOOLEAN : Learn(s, o, stopped)
          \/ StopAt(s, "recheck", stop[s].todo, stop[s].ok)
      BY <2>2, StopRows DEF Control
    <3>2. ASSUME StopAt(s, "recheck", stop[s].todo, stop[s].ok) PROVE StopOK'
      BY <3>2, StopRows, StopAtType
    <3> QED
      BY <1>1, <3>1, <3>2
  <2>3. CASE Recheck(s)
    <3>1. PICK o \in Op : \E stopped \in BOOLEAN : Learn(s, o, stopped)
      BY <2>3, StopRows DEF Recheck
    <3> QED
      BY <1>1, <3>1
  <2>4. CASE CloseAll(s)
    <3>1. {} \in SUBSET Op /\ (stop[s].ok /\ ~used) \in BOOLEAN
      BY StopRows DEF LinkOK
    <3> QED
      BY <2>4, <3>1, StopAtType DEF CloseAll
  <2> QED
    BY <1>6, <2>1, <2>2, <2>3, <2>4 DEF StopStep
<1>7. ASSUME NEW o \in Op, GroupStep(o) PROVE StopOK'
  BY <1>7 DEF GroupStep, StopOK
<1> QED
  BY <1>2, <1>3, <1>4, <1>5, <1>6, <1>7 DEF SshNext

\* Every step keeps the types of the handles and the groups.
LEMMA DeviceType ==
  ASSUME DeviceOK, StopOK, [SshNext]_sshVars
  PROVE  DeviceOK'
<1> USE DEF DeviceOK, Group, Running
<1>1. CASE StoreHandle \/ Send \/ VerifyGone
  BY <1>1 DEF StoreHandle, Send, VerifyGone
<1>2. CASE BeginCall \/ Connect \/ GiveUpConnecting \/ Collect
  BY <1>2 DEF BeginCall, Connect, GiveUpConnecting, Collect
<1>3. CASE WriteFails \/ BackUp \/ OpenTemp \/ WriteTemp \/ Rename \/ ReadBack
  BY <1>3 DEF WriteFails, BackUp, OpenTemp, WriteTemp, Rename, ReadBack
<1>4. CASE OpenShell \/ MarkInteractive \/ SendText
  BY <1>4 DEF OpenShell, MarkInteractive, SendText
<1>5. CASE AgentFinishes \/ UserStop \/ Terminated \/ ProgramEnds \/ UNCHANGED sshVars
  BY <1>5 DEF AgentFinishes, UserStop, Terminated, ProgramEnds, sshVars
<1>6. CASE WorkerStep
  BY <1>6 DEF WorkerStep, BackendFails, WorkerCancelled, CheckHandles, FinishTask, WorkerCloses
<1>7. ASSUME NEW s \in Stopper, StopStep(s) PROVE DeviceOK'
  <2>1. stop[s].todo \subseteq Op
    BY StopRows
  <2> QED
    BY <1>7, <2>1 DEF StopStep, ReadHandles, Control, Recheck, CloseAll, Learn
<1>8. ASSUME NEW o \in Op, GroupStep(o) PROVE DeviceOK'
  BY <1>8 DEF GroupStep
<1>9. CASE RebootDevice
  BY <1>9 DEF RebootDevice
<1> QED
  BY <1>1, <1>2, <1>3, <1>4, <1>5, <1>6, <1>7, <1>8, <1>9 DEF SshNext, CallStep

\* Every step keeps the type of the file.
LEMMA FileType ==
  ASSUME FileOK, [SshNext]_sshVars
  PROVE  FileOK'
<1> USE DEF FileOK, fileVars
<1>1. CASE WriteFails \/ BackUp \/ OpenTemp \/ WriteTemp \/ Rename \/ ReadBack
  BY <1>1 DEF WriteFails, BackUp, OpenTemp, WriteTemp, Rename, ReadBack
<1>2. CASE UNCHANGED fileVars
  BY <1>2
<1> QED
  BY <1>1, <1>2, OnlyWrites

\* Every step keeps the types of the connection and the shell.
LEMMA LinkType ==
  ASSUME LinkOK, [SshNext]_sshVars
  PROVE  LinkOK'
<1> USE DEF LinkOK, shellVars
<1>1. CASE BeginCall \/ Connect \/ GiveUpConnecting
  BY <1>1 DEF BeginCall, Connect, GiveUpConnecting
<1>2. CASE StoreHandle \/ Send \/ Collect \/ VerifyGone
  BY <1>2 DEF StoreHandle, Send, Collect, VerifyGone
<1>3. CASE WriteFails \/ BackUp \/ OpenTemp \/ WriteTemp \/ Rename \/ ReadBack
  BY <1>3 DEF WriteFails, BackUp, OpenTemp, WriteTemp, Rename, ReadBack
<1>4. CASE OpenShell \/ MarkInteractive \/ SendText
  BY <1>4 DEF OpenShell, MarkInteractive, SendText
<1>5. CASE AgentFinishes \/ UserStop \/ Terminated \/ ProgramEnds \/ UNCHANGED sshVars
  BY <1>5 DEF AgentFinishes, UserStop, Terminated, ProgramEnds, sshVars
<1>6. CASE WorkerStep
  BY <1>6 DEF WorkerStep, BackendFails, WorkerCancelled, CheckHandles, FinishTask, WorkerCloses, Close
<1>7. ASSUME NEW s \in Stopper, StopStep(s) PROVE LinkOK'
  BY <1>7 DEF StopStep, ReadHandles, Control, Recheck, CloseAll, Close
<1>8. ASSUME NEW o \in Op, GroupStep(o) PROVE LinkOK'
  BY <1>8 DEF GroupStep
<1>9. CASE RebootDevice
  BY <1>9 DEF RebootDevice, Close
<1> QED
  BY <1>1, <1>2, <1>3, <1>4, <1>5, <1>6, <1>7, <1>8, <1>9 DEF SshNext, CallStep

\* Every step keeps the bound on the faults.
LEMMA FaultsType ==
  ASSUME FaultsOK, [SshNext]_sshVars
  PROVE  FaultsOK'
<1>1. SshFault \/ UNCHANGED sshFaults
  <2>1. CASE CallStep
    BY <2>1 DEF CallStep, BeginCall, Connect, GiveUpConnecting, StoreHandle, Send, Collect, VerifyGone,
                WriteFails, BackUp, OpenTemp, WriteTemp, Rename, ReadBack,
                OpenShell, MarkInteractive, SendText
  <2>2. CASE WorkerStep
    BY <2>2 DEF WorkerStep, BackendFails, WorkerCancelled, CheckHandles, FinishTask, WorkerCloses
  <2>3. ASSUME NEW s \in Stopper, StopStep(s) PROVE SshFault \/ UNCHANGED sshFaults
    BY <2>3 DEF StopStep, ReadHandles, Control, Recheck, CloseAll
  <2> QED
    BY <2>1, <2>2, <2>3 DEF SshNext, AgentFinishes, UserStop, Terminated, GroupStep, ProgramEnds,
                            RebootDevice, sshVars
<1> QED
  BY <1>1, SshAssumption DEF FaultsOK, SshFault

\* The first state has these types.
LEMMA InitType == SshInit => SshTypeOK
<1> SUFFICES ASSUME SshInit PROVE SshTypeOK
  OBVIOUS
<1>1. Quiet \in CallRow /\ [pc |-> "idle", todo |-> {}, ok |-> TRUE] \in StopRow
  BY DEF CallRow, StopRow, Quiet, Pc
<1>2. CallOK /\ StopOK
  BY <1>1 DEF SshInit, CallOK, StopOK
<1>3. RunOK /\ FileOK /\ LinkOK
  BY DEF SshInit, RunOK, FileOK, LinkOK
<1>4. DeviceOK
  BY DEF SshInit, DeviceOK, Group
<1>5. FaultsOK
  BY SshAssumption DEF SshInit, FaultsOK
<1> QED
  BY <1>2, <1>3, <1>4, <1>5, CallParts

\* The type invariant is inductive.
LEMMA TypeInvariant == SshTypeOK /\ [SshNext]_sshVars => SshTypeOK'
<1> SUFFICES ASSUME SshTypeOK, [SshNext]_sshVars PROVE SshTypeOK'
  OBVIOUS
<1>1. CallOK /\ RunOK /\ StopOK /\ DeviceOK /\ FileOK /\ LinkOK /\ FaultsOK
  BY CallParts
<1>2. CallOK' /\ RunOK' /\ StopOK' /\ DeviceOK' /\ FileOK' /\ LinkOK' /\ FaultsOK'
  BY <1>1, CallType, RunType, StopType, DeviceType, FileType, LinkType, FaultsType
<1>3. SshTypeOK' <=> (CallOK /\ RunOK /\ StopOK /\ DeviceOK /\ FileOK /\ LinkOK /\ FaultsOK)'
  BY DEF SshTypeOK, CallOK, RunOK, StopOK, DeviceOK, FileOK, LinkOK, FaultsOK,
         CallRow, StopRow, Group, Pc
<1> QED
  BY <1>2, <1>3

\* In every reachable state the variables have their types.
THEOREM SshTypeCorrect == SshSpec => []SshTypeOK
<1>1. SshTypeOK /\ [SshNext]_sshVars => SshTypeOK'
  BY TypeInvariant
<1> QED
  BY <1>1, InitType, PTL DEF SshSpec

-----------------------------------------------------------------------------
(* How a step moves the call, a command, the task and a stop. The proofs     *)
(* below split on these.                                                     *)

\* A call begins, connects, stores its handle, goes on or ends.
LEMMA CallMoves ==
  ASSUME SshTypeOK, [SshNext]_sshVars
  PROVE  \/ call'.pc = call.pc /\ call'.kind = call.kind /\ (call'.live => call.live)
         \/ BeginCall /\ (call'.kind = "exec" => Executed < MaxExecs)
              /\ call'.pc \in {"send", "connected", "connecting"}
         \/ call.pc = "connecting" /\ call'.pc = "connected" /\ call'.kind = call.kind
         \/ StoreHandle /\ Doing("connected", "exec") /\ call'.pc = "sending" /\ call'.kind = "exec"
         \/ call.pc # "idle" /\ call'.pc \notin {"connecting", "connected", "sending", "rename"}
              /\ (call'.pc \in {"backed", "temp", "reread"} =>
                    call'.kind = call.kind /\ (call.pc \in {"backed", "temp", "rename"} \/ BackUp))
         \/ WriteTemp /\ ~cancelled /\ Doing("temp", "write") /\ call'.pc = "rename" /\ call'.kind = "write"
<1>a. /\ call.pc \in Pc /\ call.live \in BOOLEAN /\ call \in CallRow
      /\ \A pc : [call EXCEPT !.pc = pc].pc = pc /\ [call EXCEPT !.pc = pc].kind = call.kind
  BY CallParts, CallRows DEF CallOK, CallRow
<1>b. call.live = TRUE \/ call.live = FALSE
  BY <1>a
<1>c. /\ [call EXCEPT !.live = FALSE].pc = call.pc
      /\ [call EXCEPT !.live = FALSE].kind = call.kind
      /\ [call EXCEPT !.live = FALSE].live = FALSE
      /\ [call EXCEPT !.pc = "connected", !.live = TRUE].pc = "connected"
      /\ [call EXCEPT !.pc = "connected", !.live = TRUE].kind = call.kind
  BY <1>a DEF CallRow
<1>d. Quiet.pc = "idle"
  BY DEF Quiet
<1>1. ASSUME Close PROVE call'.pc = call.pc /\ call'.kind = call.kind /\ (call'.live => call.live)
  BY <1>1, <1>c DEF Close
<1>2. ASSUME ReturnCall \/ RaiseError PROVE call'.pc = "idle"
  BY <1>2, <1>d DEF ReturnCall, RaiseError
<1>3. ASSUME NEW pc, GoOn(pc) PROVE call'.pc = pc /\ call'.kind = call.kind
  BY <1>3, <1>a DEF GoOn
<1>4. CASE BeginCall
  BY <1>4 DEF BeginCall
<1>5. CASE Connect \/ GiveUpConnecting
  BY <1>2, <1>5, <1>c, <1>d DEF Connect, GiveUpConnecting, Doing
<1>6. CASE StoreHandle
  BY <1>3, <1>6 DEF StoreHandle, Doing
<1>7. CASE Send \/ Collect \/ VerifyGone
  BY <1>2, <1>3, <1>7 DEF Send, Collect, VerifyGone, Doing
<1>8. CASE WriteFails \/ OpenTemp \/ Rename \/ ReadBack
  BY <1>2, <1>3, <1>8 DEF WriteFails, OpenTemp, Rename, ReadBack, Doing
<1>9. CASE BackUp
  BY <1>3, <1>9 DEF BackUp, Doing
<1>10. CASE WriteTemp
  BY <1>2, <1>3, <1>10 DEF WriteTemp, Doing
<1>11. CASE OpenShell \/ MarkInteractive \/ SendText
  BY <1>2, <1>3, <1>11 DEF OpenShell, MarkInteractive, SendText, Doing
<1>12. CASE AgentFinishes \/ UserStop \/ Terminated \/ ProgramEnds \/ UNCHANGED sshVars
  BY <1>12 DEF AgentFinishes, UserStop, Terminated, ProgramEnds, sshVars
<1>13. CASE WorkerStep
  BY <1>1, <1>13 DEF WorkerStep, BackendFails, WorkerCancelled, CheckHandles, FinishTask, WorkerCloses
<1>14. ASSUME NEW s \in Stopper, StopStep(s)
       PROVE  call'.pc = call.pc /\ call'.kind = call.kind /\ (call'.live => call.live)
  BY <1>1, <1>14 DEF StopStep, ReadHandles, Control, Recheck, CloseAll
<1>15. ASSUME NEW o \in Op, GroupStep(o) PROVE UNCHANGED call
  BY <1>15 DEF GroupStep
<1>16. CASE RebootDevice
  BY <1>1, <1>16 DEF RebootDevice
<1> QED
  BY <1>4, <1>5, <1>6, <1>7, <1>8, <1>9, <1>10, <1>11, <1>12, <1>13, <1>14, <1>15, <1>16
  DEF SshNext, CallStep

\* A command gets its handle, is sent, is found gone, or moves on by itself, by a kill or a
\* reboot.
Stored(o) == StoreHandle /\ o = Next1 /\ handle'[o] = "active" /\ group'[o] = group[o]
Sent(o)   == Send /\ o = Exec /\ handle'[o] = handle[o]
Learnt(o) == group[o] # "none" /\ handle'[o] = "inactive" /\ group'[o] = "gone"
Moved(o)  ==
  /\ group[o] # "none" /\ group'[o] # "none" /\ handle'[o] = handle[o]
  /\ group'[o] \in Running => group[o] \in Running

\* One step moves one command in one of these ways, or leaves it alone.
LEMMA CommandMoves ==
  ASSUME SshTypeOK, [SshNext]_sshVars, NEW o \in Op
  PROVE  \/ handle'[o] = handle[o] /\ group'[o] = group[o]
         \/ Stored(o) \/ Sent(o) \/ Learnt(o) \/ Moved(o)
<1>a. DeviceOK /\ StopOK
  BY CallParts
<1>1. CASE StoreHandle
  BY <1>a, <1>1 DEF StoreHandle, Stored, DeviceOK
<1>2. CASE Send
  BY <1>a, <1>2 DEF Send, Sent, DeviceOK
<1>3. CASE VerifyGone
  BY <1>a, <1>3 DEF VerifyGone, Learnt, DeviceOK
<1>4. CASE BeginCall \/ Connect \/ GiveUpConnecting \/ Collect
  BY <1>4 DEF BeginCall, Connect, GiveUpConnecting, Collect
<1>5. CASE WriteFails \/ BackUp \/ OpenTemp \/ WriteTemp \/ Rename \/ ReadBack
  BY <1>5 DEF WriteFails, BackUp, OpenTemp, WriteTemp, Rename, ReadBack
<1>6. CASE OpenShell \/ MarkInteractive \/ SendText
  BY <1>6 DEF OpenShell, MarkInteractive, SendText
<1>7. CASE AgentFinishes \/ UserStop \/ Terminated \/ ProgramEnds \/ UNCHANGED sshVars
  BY <1>7 DEF AgentFinishes, UserStop, Terminated, ProgramEnds, sshVars
<1>8. CASE WorkerStep
  BY <1>8 DEF WorkerStep, BackendFails, WorkerCancelled, CheckHandles, FinishTask, WorkerCloses
<1>9. ASSUME NEW s \in Stopper, StopStep(s)
      PROVE  (handle'[o] = handle[o] /\ group'[o] = group[o]) \/ Learnt(o) \/ Moved(o)
  <2>1. CASE ReadHandles(s) \/ CloseAll(s)
    BY <2>1 DEF ReadHandles, CloseAll
  <2>2. CASE Control(s)
    <3>1. PICK k \in stop[s].todo :
            \/ group[k] = "gone" /\ Learn(s, k, TRUE) /\ UNCHANGED group
            \/ Learn(s, k, FALSE) /\ UNCHANGED group
            \/ group[k] = "leader" /\ group' = [group EXCEPT ![k] = "gone"] /\ Learn(s, k, TRUE)
            \/ group[k] = "leader" /\ group' = [group EXCEPT ![k] = "dying"] /\ UNCHANGED handle
            \/ /\ Learn(s, k, FALSE)
               /\ group' \in {group, [group EXCEPT ![k] = IF @ = "leader" THEN "dying" ELSE @]}
      BY <2>2 DEF Control
    <3> QED
      BY <1>a, <3>1 DEF Learn, Learnt, Moved, DeviceOK, Running
  <2>3. CASE Recheck(s)
    BY <1>a, <2>3 DEF Recheck, Learn, Learnt, DeviceOK
  <2> QED
    BY <1>9, <2>1, <2>2, <2>3 DEF StopStep
<1>10. ASSUME NEW k \in Op, GroupStep(k)
       PROVE  (handle'[o] = handle[o] /\ group'[o] = group[o]) \/ Moved(o)
  BY <1>a, <1>10 DEF GroupStep, Moved, DeviceOK, Running
<1>11. CASE RebootDevice
  BY <1>a, <1>11 DEF RebootDevice, Moved, DeviceOK, Running
<1> QED
  BY <1>1, <1>2, <1>3, <1>4, <1>5, <1>6, <1>7, <1>8, <1>9, <1>10, <1>11 DEF SshNext, CallStep

-----------------------------------------------------------------------------
(* Every running group has an active handle.                                 *)

\* The n commands with a handle are the first n; there is room for the next while a call is
\* on its way to its command; and a command being sent is active and not there yet, which no
\* stop in between can change.
CallAt(n) ==
  /\ Numbered(n)
  /\ call.kind = "exec" /\ call.pc \in {"connecting", "connected"} => n < MaxExecs
  /\ call.kind = "exec" /\ call.pc = "sending" =>
       n > 0 /\ handle[n] = "active" /\ group[n] = "none"

Unhandled == \A o \in Op : handle[o] = "none" => group[o] = "none"

TrackInv ==
  /\ SshTypeOK
  /\ \E n \in 0..MaxExecs : CallAt(n)
  /\ Unhandled
  /\ GroupsAreTracked

\* A command is only stored and sent by the call it belongs to.
LEMMA CallKeepsPlace ==
  ASSUME SshTypeOK, [SshNext]_sshVars, NEW n \in 0..MaxExecs, CallAt(n), Unhandled
  PROVE  (\E m \in 0..MaxExecs : CallAt(m))'
<1>a. Executed = n /\ (n > 0 => Exec = n)
  BY NumbersOfHandles DEF CallAt
<1>b. DeviceOK
  BY CallParts
<1>1. CASE StoreHandle
  <2>1. Doing("connected", "exec") /\ call'.pc = "sending" /\ call'.kind = "exec"
    <3>1. call \in CallRow /\ call' = [call EXCEPT !.pc = "sending"]
      BY <1>1, CallParts DEF StoreHandle, GoOn, CallOK
    <3> QED
      BY <1>1, <3>1 DEF StoreHandle, Doing, CallRow
  <2>2. n < MaxExecs /\ n + 1 \in Op /\ n + 1 \in 0..MaxExecs /\ Next1 = n + 1
    BY <1>a, <2>1, SshAssumption DEF CallAt, Doing, Next1, Op
  <2>3. handle' = [handle EXCEPT ![n + 1] = "active"] /\ group' = group
    BY <1>1, <2>2 DEF StoreHandle
  <2>4. handle'[n + 1] = "active" /\ group'[n + 1] = "none"
    <3>1. handle[n + 1] = "none"
      BY <2>2, SshAssumption DEF CallAt, Numbered
    <3> QED
      BY <1>b, <2>2, <2>3, <3>1 DEF Unhandled, DeviceOK
  <2>5. \A o \in Op : handle'[o] # "none" <=> o <= n + 1
    BY <1>b, <2>2, <2>3, <2>4, SshAssumption DEF CallAt, Numbered, DeviceOK, Op
  <2>6. CallAt(n + 1)'
    BY <2>1, <2>2, <2>4, <2>5 DEF CallAt, Numbered
  <2> QED
    BY <2>2, <2>6
<1>2. CASE ~StoreHandle
  <2>1. \A o \in Op : handle'[o] # "none" <=> handle[o] # "none"
    <3> SUFFICES ASSUME NEW o \in Op PROVE handle'[o] # "none" <=> handle[o] # "none"
      OBVIOUS
    <3> QED
      BY <1>2, CommandMoves DEF Stored, Sent, Learnt, Moved, Unhandled
  <2>2. Numbered(n)'
    BY <2>1 DEF CallAt, Numbered
  <2>3. ASSUME call'.kind = "exec", call'.pc \in {"connecting", "connected"} PROVE n < MaxExecs
    BY <1>2, <1>a, <2>3, CallMoves DEF CallAt
  <2>4. ASSUME call'.kind = "exec", call'.pc = "sending"
        PROVE  n > 0 /\ handle'[n] = "active" /\ group'[n] = "none"
    <3>1. call.kind = "exec" /\ call.pc = "sending" /\ call'.pc = call.pc
      BY <1>2, <2>4, CallMoves
    <3>2. n \in Op /\ handle[n] = "active" /\ group[n] = "none"
      BY <3>1, SshAssumption DEF CallAt, Op
    <3>3. ~Send
      <4>1. SUFFICES ASSUME Send PROVE FALSE
        OBVIOUS
      <4>2. call' = Quiet \/ GoOn("collect")
        BY <4>1 DEF Send, RaiseError
      <4>3. call \in CallRow
        BY CallParts DEF CallOK
      <4> QED
        BY <2>4, <4>2, <4>3 DEF Quiet, GoOn, CallRow
    <3> QED
      BY <1>2, <3>2, <3>3, CommandMoves, SshAssumption DEF Stored, Sent, Learnt, Moved, Op
  <2> QED
    BY <2>2, <2>3, <2>4 DEF CallAt
<1> QED
  BY <1>1, <1>2

\* Every step keeps the invariant of the handles.
LEMMA TrackInvariant == TrackInv /\ [SshNext]_sshVars => TrackInv'
<1> SUFFICES ASSUME TrackInv, [SshNext]_sshVars PROVE TrackInv'
  OBVIOUS
<1> USE DEF TrackInv
<1>1. PICK n \in 0..MaxExecs : CallAt(n)
  OBVIOUS
<1>2. Executed = n /\ (n > 0 => Exec = n)
  BY <1>1, NumbersOfHandles DEF CallAt
<1>3. SshTypeOK' /\ (\E m \in 0..MaxExecs : CallAt(m))'
  BY <1>1, TypeInvariant, CallKeepsPlace
<1>4. ASSUME NEW o \in Op, Sent(o) PROVE handle'[o] = "active"
  <2>1. n > 0 => handle[n] = "active"
    BY <1>1, <1>4 DEF CallAt, Sent, Send, Doing
  <2>2. call.kind = "exec" /\ call.pc = "sending"
    BY <1>4 DEF Sent, Send, Doing
  <2>3. n > 0
    BY <1>1, <2>2 DEF CallAt
  <2> QED
    BY <1>2, <1>4, <2>1, <2>3 DEF Sent
<1>5. ASSUME NEW o \in Op
      PROVE  (handle'[o] = "none" => group'[o] = "none")
             /\ (group'[o] \in Running => handle'[o] = "active")
  BY <1>4, CommandMoves DEF Stored, Learnt, Moved, Unhandled, GroupsAreTracked, Running
<1>6. Unhandled' /\ GroupsAreTracked'
  BY <1>5 DEF Unhandled, GroupsAreTracked, Op
<1> QED
  BY <1>3, <1>6

\* It holds in the first state.
LEMMA InitTrack == SshInit => TrackInv
<1> SUFFICES ASSUME SshInit PROVE TrackInv
  OBVIOUS
<1>1. CallAt(0)
  BY DEF SshInit, CallAt, Numbered, Op, Quiet
<1> QED
  BY <1>1, InitType, SshAssumption DEF TrackInv, SshInit, Unhandled, GroupsAreTracked, Running

-----------------------------------------------------------------------------
(* A task that succeeded has left nothing running.                           *)

\* After the agent has finished no call begins, so the handles the worker has looked at stay
\* as they were until the task succeeds.
SuccessInv ==
  /\ TrackInv
  /\ finished => call.pc = "idle"
  /\ worker = "checked" \/ status = "succeeded" =>
       finished /\ \A o \in Op : handle[o] # "active"

\* The worker is through its look at the handles only when none is active, and a task
\* succeeds only behind it.
LEMMA WorkerMoves ==
  ASSUME SshTypeOK, [SshNext]_sshVars
  PROVE  /\ finished => finished'
         /\ finished' => finished \/ (call.pc = "idle" /\ UNCHANGED call)
         /\ worker' = "checked" => worker = "checked"
              \/ (finished /\ \A o \in Op : handle[o] # "active")
         /\ status' = "succeeded" => status = "succeeded" \/ worker = "checked"
<1> USE DEF runVars
<1>1. ASSUME ReturnCall \/ RaiseError
      PROVE  UNCHANGED <<finished, worker>> /\ (status' = "succeeded" => status = "succeeded")
  BY <1>1 DEF ReturnCall, RaiseError, Fails
<1>2. CASE CallStep
  <2>1. UNCHANGED <<finished, worker>> /\ (status' = "succeeded" => status = "succeeded")
    BY <1>1, <1>2 DEF CallStep, BeginCall, Connect, GiveUpConnecting, StoreHandle, Send, Collect,
      VerifyGone, WriteFails, BackUp, OpenTemp, WriteTemp, Rename, ReadBack,
      OpenShell, MarkInteractive, SendText
  <2> QED
    BY <2>1
<1>3. CASE AgentFinishes
  BY <1>3 DEF AgentFinishes
<1>4. CASE UserStop \/ Terminated \/ ProgramEnds \/ UNCHANGED sshVars
  BY <1>4 DEF UserStop, Terminated, ProgramEnds, sshVars
<1>5. CASE WorkerStep
  <2>1. UNCHANGED finished
    BY <1>5 DEF WorkerStep, BackendFails, WorkerCancelled, CheckHandles, FinishTask, WorkerCloses
  <2>2. worker' = "checked" => CheckHandles /\ \A o \in Op : handle[o] # "active"
    BY <1>5 DEF WorkerStep, BackendFails, WorkerCancelled, CheckHandles, FinishTask, WorkerCloses,
                WorkerRaises, CleanUp
  <2>3. status' = "succeeded" => status = "succeeded" \/ FinishTask
    BY <1>5 DEF WorkerStep, BackendFails, WorkerCancelled, CheckHandles, WorkerCloses,
                WorkerRaises, Fails
  <2> QED
    BY <2>1, <2>2, <2>3 DEF CheckHandles, FinishTask
<1>6. ASSUME NEW s \in Stopper, StopStep(s) PROVE UNCHANGED runVars
  BY <1>6 DEF StopStep, ReadHandles, Control, Recheck, CloseAll
<1>7. ASSUME NEW o \in Op, GroupStep(o) PROVE UNCHANGED runVars
  BY <1>7 DEF GroupStep
<1>8. CASE RebootDevice
  BY <1>8 DEF RebootDevice
<1> QED
  BY <1>2, <1>3, <1>4, <1>5, <1>6, <1>7, <1>8 DEF SshNext

\* Every step keeps what a success rests on.
LEMMA SuccessInvariant == SuccessInv /\ [SshNext]_sshVars => SuccessInv'
<1> SUFFICES ASSUME SuccessInv, [SshNext]_sshVars PROVE SuccessInv'
  OBVIOUS
<1>a. TrackInv' /\ SshTypeOK
  BY TrackInvariant DEF SuccessInv, TrackInv
<1>1. finished' => call'.pc = "idle"
  BY <1>a, WorkerMoves, CallMoves DEF SuccessInv, BeginCall, StoreHandle, Doing, WriteTemp
<1>2. ASSUME worker' = "checked" \/ status' = "succeeded"
      PROVE  finished' /\ \A o \in Op : handle'[o] # "active"
  <2>1. finished /\ finished' /\ \A o \in Op : handle[o] # "active"
    BY <1>a, <1>2, WorkerMoves DEF SuccessInv
  <2>2. ~StoreHandle
    BY <2>1 DEF SuccessInv, StoreHandle, Doing
  <2>3. ASSUME NEW o \in Op PROVE handle'[o] # "active"
    BY <1>a, <2>1, <2>2, CommandMoves DEF Stored, Sent, Learnt, Moved
  <2> QED
    BY <2>1, <2>3
<1> QED
  BY <1>a, <1>1, <1>2 DEF SuccessInv, Op

\* Whatever runs on the device has an active handle, and nothing runs for a task that
\* succeeded (exec, stop and the worker's look at process_handles).
THEOREM RunningIsTracked == SshSpec => []NothingRunsUntracked
<1>1. SshInit => SuccessInv
  BY InitTrack DEF SshInit, SuccessInv, Quiet
<1>2. SuccessInv /\ [SshNext]_sshVars => SuccessInv'
  BY SuccessInvariant
<1>3. SuccessInv => NothingRunsUntracked
  BY DEF SuccessInv, TrackInv, NothingRunsUntracked, SuccessLeavesNothing, GroupsAreTracked
<1> QED
  BY <1>1, <1>2, <1>3, PTL DEF SshSpec

-----------------------------------------------------------------------------
(* Files of the device.                                                      *)

\* From the copy to the rename a write has its backup, and a stop that is through with the
\* connections finds the call before the rename cancelled or without a connection.
WriteInv ==
  /\ SshTypeOK
  /\ ReplacedWithBackup
  /\ call.kind = "write" /\ call.pc \in {"backed", "temp", "rename", "reread"} => backup
  /\ stop["user"].pc # "idle" => cancelled
  /\ stop["user"].pc = "done" /\ Doing("rename", "write") => ~call.live

\* The user's stop begins by cancelling the run, is through when it has closed what is there,
\* and is never taken back.
LEMMA StopMoves ==
  ASSUME SshTypeOK, [SshNext]_sshVars
  PROVE  /\ cancelled => cancelled'
         /\ stop'["user"].pc # "idle" => stop["user"].pc # "idle" \/ cancelled'
         /\ stop'["user"].pc = "done" => stop["user"].pc = "done"
              \/ (stop["user"].pc # "idle" /\ Close)
<1>a. StopOK
  BY CallParts
<1> USE DEF runVars, Stopper
<1>1. ASSUME ReturnCall \/ RaiseError PROVE cancelled => cancelled'
  BY <1>1 DEF ReturnCall, RaiseError
<1>2. CASE CallStep
  <2>1. UNCHANGED stop
    BY <1>2 DEF CallStep, BeginCall, Connect, GiveUpConnecting, StoreHandle, Send, Collect,
      VerifyGone, WriteFails, BackUp, OpenTemp, WriteTemp, Rename, ReadBack,
      OpenShell, MarkInteractive, SendText
  <2>2. cancelled => cancelled'
    BY <1>1, <1>2 DEF CallStep, BeginCall, Connect, GiveUpConnecting, StoreHandle, Send, Collect,
      VerifyGone, WriteFails, BackUp, OpenTemp, WriteTemp, Rename, ReadBack,
      OpenShell, MarkInteractive, SendText
  <2> QED
    BY <2>1, <2>2
<1>3. CASE UserStop
  <2>1. stop'["user"].pc = "read" /\ cancelled'
    BY <1>a, <1>3 DEF UserStop, StopOK, StopRow
  <2> QED
    BY <2>1
<1>4. CASE AgentFinishes \/ Terminated \/ ProgramEnds \/ RebootDevice \/ UNCHANGED sshVars
  BY <1>4 DEF AgentFinishes, Terminated, ProgramEnds, RebootDevice, sshVars
<1>5. CASE WorkerStep
  <2>1. UNCHANGED cancelled /\ stop'["user"] = stop["user"]
    BY <1>a, <1>5 DEF WorkerStep, BackendFails, WorkerCancelled, CheckHandles, FinishTask,
                      WorkerCloses, WorkerRaises, CleanUp, StopOK
  <2> QED
    BY <2>1
<1>6. ASSUME NEW s \in Stopper, StopStep(s)
      PROVE  /\ UNCHANGED cancelled
             /\ stop'["user"] = stop["user"] \/ stop["user"].pc # "idle"
             /\ stop'["user"].pc = "done" => stop["user"].pc = "done"
                  \/ (stop["user"].pc # "idle" /\ Close)
  <2>1. ASSUME NEW pc, NEW todo, NEW ok, StopAt(s, pc, todo, ok)
        PROVE  IF s = "user" THEN stop'["user"].pc = pc ELSE stop'["user"] = stop["user"]
    BY <1>a, <2>1 DEF StopAt, StopOK
  <2>2. CASE ReadHandles(s)
    <3>1. stop[s].pc = "read" /\ UNCHANGED cancelled
      BY <2>2 DEF ReadHandles
    <3>2. IF s = "user" THEN stop'["user"].pc = "control" ELSE stop'["user"] = stop["user"]
      BY <2>1, <2>2 DEF ReadHandles
    <3> QED
      BY <3>1, <3>2
  <2>3. CASE Control(s) \/ Recheck(s)
    <3>1. stop[s].pc \in {"control", "recheck"} /\ UNCHANGED cancelled
      BY <2>3 DEF Control, Recheck
    <3>2. \E pc \in {"control", "recheck"} : \E todo, ok : StopAt(s, pc, todo, ok)
      BY <2>3 DEF Control, Recheck, Learn
    <3> QED
      BY <2>1, <3>1, <3>2
  <2>4. CASE CloseAll(s)
    BY <2>1, <2>4 DEF CloseAll
  <2> QED
    BY <1>6, <2>2, <2>3, <2>4 DEF StopStep
<1>7. ASSUME NEW o \in Op, GroupStep(o) PROVE UNCHANGED <<cancelled, stop>>
  BY <1>7 DEF GroupStep
<1> QED
  BY <1>2, <1>3, <1>4, <1>5, <1>6, <1>7 DEF SshNext

\* The file changes by the rename alone, and a backup stays.
LEMMA FileMoves ==
  ASSUME [SshNext]_sshVars
  PROVE  /\ backup => backup'
         /\ BackUp => backup'
         /\ content' = content \/ (content' = "new" /\ Doing("rename", "write") /\ call.live)
<1> USE DEF fileVars
<1>1. CASE WriteFails \/ BackUp \/ OpenTemp \/ WriteTemp \/ Rename \/ ReadBack
  BY <1>1 DEF WriteFails, BackUp, OpenTemp, WriteTemp, Rename, ReadBack
<1>2. CASE UNCHANGED fileVars
  BY <1>2 DEF BackUp
<1> QED
  BY <1>1, <1>2, OnlyWrites

\* Every step keeps the invariant of the files.
LEMMA WriteInvariant == WriteInv /\ [SshNext]_sshVars => WriteInv'
<1> SUFFICES ASSUME WriteInv, [SshNext]_sshVars PROVE WriteInv'
  OBVIOUS
<1>a. SshTypeOK /\ SshTypeOK' /\ RunOK /\ FileOK /\ FileOK'
  <2>1. SshTypeOK /\ SshTypeOK'
    BY TypeInvariant DEF WriteInv
  <2> QED
    BY <2>1, CallParts DEF SshTypeOK, FileOK
<1>1. ReplacedWithBackup'
  BY <1>a, FileMoves DEF WriteInv, ReplacedWithBackup, Doing
<1>2. ASSUME call'.kind = "write", call'.pc \in {"backed", "temp", "rename", "reread"}
      PROVE  backup'
  BY <1>a, <1>2, FileMoves, CallMoves DEF WriteInv, Doing
<1>3. stop'["user"].pc # "idle" => cancelled'
  BY <1>a, StopMoves DEF WriteInv
<1>4. ASSUME stop'["user"].pc = "done", call'.pc = "rename", call'.kind = "write"
      PROVE  ~call'.live
  <2>1. \/ call.pc = "rename" /\ call.kind = "write" /\ (call'.live => call.live)
        \/ WriteTemp /\ ~cancelled
    BY <1>a, <1>4, CallMoves
  <2>2. CASE stop["user"].pc = "done"
    BY <1>a, <2>1, <2>2 DEF WriteInv, Doing
  <2>3. CASE stop["user"].pc # "idle" /\ Close
    <3>1. ~WriteTemp \/ cancelled
      BY <2>3 DEF WriteInv
    <3>2. call.pc = "rename"
      BY <2>1, <3>1
    <3>3. call \in CallRow
      BY <1>a, CallParts DEF CallOK
    <3> QED
      BY <2>3, <3>2, <3>3 DEF Close, CallRow
  <2> QED
    BY <1>a, <1>4, <2>2, <2>3, StopMoves
<1> QED
  BY <1>a, <1>1, <1>2, <1>3, <1>4 DEF WriteInv, Doing

\* A file of the device is replaced whole, never without a copy of the original, and once the
\* user's stop is through the call it interrupted replaces none (write_file, stop).
THEOREM FilesAreReplacedSafely == SshSpec => []ReplacedWithBackup /\ StoppedFilesStay
<1>1. SshInit => WriteInv
  <2> SUFFICES ASSUME SshInit PROVE WriteInv
    OBVIOUS
  <2>1. SshTypeOK
    BY InitType
  <2> QED
    BY <2>1 DEF SshInit, WriteInv, ReplacedWithBackup, Quiet, Doing, Stopper
<1>2. WriteInv /\ [SshNext]_sshVars => WriteInv'
  BY WriteInvariant
<1>3. WriteInv => ReplacedWithBackup
  BY DEF WriteInv
<1>4. WriteInv /\ [SshNext]_sshVars => [(stop["user"].pc = "done") => UNCHANGED content]_sshVars
  BY FileMoves DEF WriteInv
<1> QED
  BY <1>1, <1>2, <1>3, <1>4, PTL DEF SshSpec, StoppedFilesStay

-----------------------------------------------------------------------------
(* Both.                                                                     *)

\* On a device that is tuned and written to, whatever is lost, restarted or stopped: a file
\* is replaced whole and with a copy of the original, none by a call that a stop is through
\* with, and no value saved before a reboot is written after it.
THEOREM DeviceWritesAreSafe == Spec /\ SshSpec => WritesAreSafe
BY BootsAreKeptApart, FilesAreReplacedSafely DEF WritesAreSafe
=============================================================================
