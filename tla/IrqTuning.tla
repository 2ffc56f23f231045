------------------------------- MODULE IrqTuning -------------------------------
(****************************************************************************)
(* The IRQ tunings of a task and of the recoveries that follow it on one    *)
(* device: the rows of tuning, the script and the record of original values *)
(* on the device, and what the network card's IRQs and irqbalance are set   *)
(* to. Recoveries form a chain: each has the one before as its parent.      *)
(****************************************************************************)
EXTENDS Naturals

CONSTANTS
  Irq, Tuning,
  Irqs,          \* the IRQs a tuning sets
  Balance,       \* does irqbalance run on a device that has just booted?
  MaxRecoveries, \* bound on the recoveries
  MaxFaults      \* bound on lost calls, platform crashes and reboots

ASSUME IrqsAssumption == Irqs \in [Tuning -> SUBSET Irq]
ASSUME BoundsAssumption ==
  Balance \in BOOLEAN /\ MaxRecoveries \in Nat /\ MaxFaults \in Nat

VARIABLES
  now,       \* the current task of the chain
  state,     \* "running", "failed" or "succeeded"
  row,       \* tuning: the task that made it, restored, the platform's backup
  op,        \* the tune_apply or tune_restore in flight
  script,    \* tunings whose script is on the device
  record,    \* the record capture saved on the device
  irq,       \* the value of each IRQ: "boot", "moved" by irqbalance, "tuned"
  balancing, \* does irqbalance run?
  boot,      \* boot_id
  faults

taskVars   == <<now, state>>
deviceVars == <<script, record, irq, balancing, boot>>
vars == <<taskVars, row, op, deviceVars, faults>>

Task   == 0..MaxRecoveries
NoTask == MaxRecoveries + 1
Value  == {"boot", "moved", "tuned"}
NoRow  == [owner |-> NoTask, restored |-> FALSE, backup |-> FALSE]
NoRecord == [phase |-> "none", before |-> [i \in Irq |-> "boot"], balance |-> FALSE, boot |-> 0]
Idle     == [pc |-> "idle"]
Parent(t) == IF t = 0 THEN 0 ELSE t - 1

TypeOK ==
  /\ now \in Task /\ state \in {"running", "failed", "succeeded"}
  /\ row \in [Tuning -> [owner : Task \cup {NoTask}, restored : BOOLEAN, backup : BOOLEAN]]
  /\ op \in {Idle} \cup [pc : {"write", "capture", "save", "apply", "find", "restore", "record"},
                         tuning : Tuning, pause : BOOLEAN]
  /\ script \subseteq Tuning
  /\ record \in [Tuning -> [phase : {"none", "captured", "applying"}, before : [Irq -> Value],
                            balance : BOOLEAN, boot : 0..MaxFaults]]
  /\ irq \in [Irq -> Value] /\ balancing \in BOOLEAN
  /\ boot \in 0..MaxFaults /\ faults \in 0..MaxFaults

Init ==
  /\ now = 0 /\ state = "running" /\ row = [n \in Tuning |-> NoRow] /\ op = Idle
  /\ script = {} /\ record = [n \in Tuning |-> NoRecord]
  /\ irq = [i \in Irq |-> "boot"] /\ balancing = Balance /\ boot = 0 /\ faults = 0

Fault == faults < MaxFaults /\ faults' = faults + 1
Goto(pc) == op' = [op EXCEPT !.pc = pc] /\ UNCHANGED taskVars
Return == op' = Idle /\ UNCHANGED taskVars
\* The gateway fails the task of a failing operation; a crash fails it at the next start.
Raise == op' = Idle /\ state' = "failed" /\ UNCHANGED now

-----------------------------------------------------------------------------
(* tune_apply.                                                               *)

BeginApply ==
  /\ state = "running" /\ op = Idle
  /\ \E n \in Tuning, pause \in BOOLEAN :
       /\ row[n].owner = NoTask
       /\ row' = [row EXCEPT ![n].owner = now]
       /\ op' = [pc |-> "write", tuning |-> n, pause |-> pause]
  /\ UNCHANGED <<taskVars, deviceVars, faults>>

WriteScript ==
  /\ op.pc = "write" /\ Goto("capture")
  /\ script' = script \cup {op.tuning}
  /\ UNCHANGED <<row, record, irq, balancing, boot, faults>>

Captured == [record EXCEPT ![op.tuning] = [phase |-> "captured", before |-> irq,
                                           balance |-> balancing, boot |-> boot]]
\* capture refuses to tune under a running irqbalance; a capture that fails has changed
\* nothing and leaves nothing to restore.
Capture ==
  /\ op.pc = "capture"
  /\ \/ (balancing => op.pause) /\ record' = Captured /\ Goto("save") /\ UNCHANGED <<row, faults>>
     \/ /\ \/ balancing /\ ~op.pause /\ UNCHANGED <<record, faults>>
           \/ Fault /\ record' \in {record, Captured}
        /\ row' = [row EXCEPT ![op.tuning].restored = TRUE] /\ Raise
  /\ UNCHANGED <<script, irq, balancing, boot>>

\* Mutant: the platform's copy is left out.
SaveNothing ==
  /\ op.pc = "save" /\ Goto("apply")
  /\ UNCHANGED <<row, deviceVars, faults>>

SaveBackup ==
  /\ op.pc = "save" /\ Goto("apply")
  /\ row' = [row EXCEPT ![op.tuning].backup = TRUE]
  /\ UNCHANGED <<deviceVars, faults>>

Tuned(written) == [i \in Irq |-> IF i \in written THEN "tuned" ELSE irq[i]]
\* What an apply that is cut off may have done: nothing, or irqbalance and some IRQs.
PartlyApplied ==
  \/ UNCHANGED <<record, irq, balancing>>
  \/ /\ record' = [record EXCEPT ![op.tuning].phase = "applying"]
     /\ balancing' \in {balancing, FALSE}
     /\ \E written \in SUBSET Irqs[op.tuning] : irq' = Tuned(written)

\* apply starts from the captured values only, and says so in the record before it writes.
Apply ==
  LET n == op.tuning IN
  /\ op.pc = "apply"
  /\ IF (\A i \in Irqs[n] : irq[i] = record[n].before[i]) /\ balancing = record[n].balance
     THEN \/ /\ record' = [record EXCEPT ![n].phase = "applying"]
             /\ balancing' = FALSE /\ irq' = Tuned(Irqs[n]) /\ Return /\ UNCHANGED faults
          \/ Fault /\ PartlyApplied /\ Raise
     ELSE Raise /\ UNCHANGED <<record, irq, balancing, faults>>
  /\ UNCHANGED <<row, script, boot>>

-----------------------------------------------------------------------------
(* tune_restore.                                                             *)

BeginRestore ==
  /\ state = "running" /\ op = Idle
  /\ \E n \in Tuning : row[n].owner # NoTask /\ op' = [pc |-> "find", tuning |-> n, pause |-> FALSE]
  /\ UNCHANGED <<taskVars, row, deviceVars, faults>>

\* The record is looked for under the parent of a recovery, under the task itself otherwise.
Find ==
  /\ op.pc = "find"
  /\ IF row[op.tuning].owner # Parent(now) THEN Raise
     ELSE IF row[op.tuning].restored THEN Return ELSE Goto("restore")
  /\ UNCHANGED <<row, deviceVars, faults>>

Restored(n, written) == [i \in Irq |-> IF i \in written THEN record[n].before[i] ELSE irq[i]]
PartlyRestored ==
  /\ \E written \in SUBSET Irqs[op.tuning] : irq' = Restored(op.tuning, written)
  /\ balancing' \in {balancing, balancing \/ record[op.tuning].balance}

\* Mutant: the record of another boot is used.
RestoreAnyBoot ==
  LET n == op.tuning IN
  /\ op.pc = "restore" /\ n \in script /\ record[n].phase = "applying"
  /\ irq' = Restored(n, Irqs[n]) /\ balancing' = (balancing \/ record[n].balance) /\ Goto("record")
  /\ UNCHANGED <<row, script, record, boot, faults>>

\* A captured record has changed nothing. Otherwise the values go back, in the boot they
\* come from, and irqbalance must be what it was.
Restore ==
  LET n == op.tuning
      balance == balancing \/ record[n].balance IN
  /\ op.pc = "restore"
  /\ CASE n \notin script \/ record[n].phase = "none" ->
            Raise /\ UNCHANGED <<irq, balancing, faults>>
       [] n \in script /\ record[n].phase = "captured" ->
            Goto("record") /\ UNCHANGED <<irq, balancing, faults>>
       [] n \in script /\ record[n].phase = "applying" /\ record[n].boot # boot ->
            Raise /\ UNCHANGED <<irq, balancing, faults>>
       [] OTHER ->
            \/ /\ irq' = Restored(n, Irqs[n]) /\ balancing' = balance /\ UNCHANGED faults
               /\ IF balance = record[n].balance THEN Goto("record") ELSE Raise
            \/ Fault /\ PartlyRestored /\ Raise
  /\ UNCHANGED <<row, script, record, boot>>

\* The platform's row, which the finish looks at; the record on the device keeps its phase.
RecordRestored ==
  /\ op.pc = "record" /\ Return
  /\ row' = [row EXCEPT ![op.tuning].restored = TRUE]
  /\ UNCHANGED <<deviceVars, faults>>

-----------------------------------------------------------------------------
(* The tasks.                                                                *)

\* Mutant: only the task's own tunings count.
UnrestoredOwn == \E n \in Tuning : row[n].owner = now /\ ~row[n].restored
\* Runtime.worker and Core.finish look at the tunings of the task and of its parent.
Unrestored == \E n \in Tuning : row[n].owner \in {now, Parent(now)} /\ ~row[n].restored

Finish ==
  /\ state = "running" /\ op = Idle
  /\ state' = IF Unrestored THEN "failed" ELSE "succeeded"
  /\ UNCHANGED <<now, row, op, deviceVars, faults>>

\* The task is stopped, or fails for a reason of its own.
Fail ==
  /\ state = "running" /\ op = Idle /\ Raise
  /\ UNCHANGED <<row, deviceVars, faults>>

\* propose_recovery and approve_recovery.
Recover ==
  /\ state = "failed" /\ now < MaxRecoveries
  /\ now' = now + 1 /\ state' = "running"
  /\ UNCHANGED <<row, op, deviceVars, faults>>

\* Mutant: a failed tuning needs no restoring, whatever failed.
LoseRestored ==
  /\ op # Idle /\ Fault /\ Raise
  /\ IF op.pc = "apply" THEN PartlyApplied ELSE UNCHANGED <<record, irq, balancing>>
  /\ row' = [row EXCEPT ![op.tuning].restored = TRUE]
  /\ UNCHANGED <<script, boot>>

\* The platform dies during an operation, or the write of the script or the look-up fails.
Lose ==
  /\ op # Idle /\ Fault /\ Raise
  /\ CASE op.pc = "apply"   -> PartlyApplied
       [] op.pc = "capture" -> record' \in {record, Captured} /\ UNCHANGED <<irq, balancing>>
       [] op.pc = "restore" -> UNCHANGED record /\ (UNCHANGED <<irq, balancing>> \/
                               (record[op.tuning].phase = "applying" /\ record[op.tuning].boot = boot
                                /\ op.tuning \in script /\ PartlyRestored))
       [] OTHER -> UNCHANGED <<record, irq, balancing>>
  /\ UNCHANGED <<row, script, boot>>

\* irqbalance moves an IRQ.
Move ==
  /\ balancing /\ \E i \in Irq : irq' = [irq EXCEPT ![i] = "moved"]
  /\ UNCHANGED <<taskVars, row, op, script, record, balancing, boot, faults>>

\* The device reboots, which no operation survives; /tmp may be cleared.
Reboot ==
  /\ op = Idle /\ Fault /\ boot' = boot + 1
  /\ irq' = [i \in Irq |-> "boot"] /\ balancing' = Balance
  /\ \/ UNCHANGED <<script, record>>
     \/ script' = {} /\ record' = [n \in Tuning |-> NoRecord]
  /\ UNCHANGED <<taskVars, row, op>>

Next ==
  \/ BeginApply \/ WriteScript \/ Capture \/ SaveBackup \/ Apply
  \/ BeginRestore \/ Find \/ Restore \/ RecordRestored
  \/ Finish \/ Fail \/ Recover \/ Lose \/ Move \/ Reboot

Spec == Init /\ [][Next]_vars

-----------------------------------------------------------------------------
\* A task that finishes, and so gives the device back as clean, leaves no IRQ as a tuning
\* of the chain set it and irqbalance as it was.
CleanMeansOriginal ==
  state = "succeeded" => (\A i \in Irq : irq[i] # "tuned") /\ balancing = Balance

\* An IRQ that is still tuned is owed by a row that is not marked restored: whatever step
\* is lost, the platform knows that there is something to restore.
TunedIsOwed ==
  \A i \in Irq : irq[i] = "tuned" =>
    \E n \in Tuning : i \in Irqs[n] /\ row[n].owner # NoTask /\ ~row[n].restored

\* A task that finishes, and so gives the device back as clean, leaves it tuned as it was, and
\* as long as an IRQ is tuned there is a row that owes its restoring (tuning.apply, finish).
TuningsAreOwed == TypeOK /\ CleanMeansOriginal /\ TunedIsOwed

\* Nothing is tuned before its original value is in the task's files: a cleared /tmp does
\* not take the only copy.
TunedHasBackup ==
  \A i \in Irq : irq[i] = "tuned" => \E n \in Tuning : i \in Irqs[n] /\ row[n].backup

\* Numbers and values of one boot are never written in another.
NoValueOfAnotherBoot ==
  [][(op.pc = "restore" /\ op' # op /\ record[op.tuning].boot # boot)
       => UNCHANGED <<irq, balancing>>]_vars

\* tune_restore finds what the task itself has tuned.
OwnTuningIsFound ==
  [][(op.pc = "find" /\ row[op.tuning].owner = now) => (state' = "running")]_vars
=============================================================================
