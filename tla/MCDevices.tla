------------------------------- MODULE MCDevices -------------------------------
(****************************************************************************)
(* One run over what a task does to a device, by tunings and by its SSH     *)
(* executor, which share no state: the first state chooses the part that    *)
(* moves, and the other stays as it is.                                     *)
(****************************************************************************)
EXTENDS IrqTuning, SshProcess

CONSTANTS
  i1, i2, a, b,
  Parts  \* of "tuning", "commands", "files", "calm"

\* Two tunings of one card, of IRQs of their own.
Disjoint == [n \in Tuning |-> IF n = a THEN {i1} ELSE {i2}]
\* Two tunings with an IRQ in common.
Overlapping == [n \in Tuning |-> IF n = a THEN {i1} ELSE Irq]

VARIABLE part

allVars == <<part, vars, sshVars>>

\* Two commands, or files and shells, while connections are lost and the device reboots; and
\* every kind of call on a device that does neither.
Commands == INSTANCE SshProcess WITH Calls <- {"exec", "reconnect"}
Files == INSTANCE SshProcess WITH Calls <- {"write", "shell", "reconnect"}
Calm == INSTANCE SshProcess WITH MaxSshFaults <- 0

MCInit == part \in Parts /\ Init /\ SshInit

MCNext ==
  \/ part = "tuning"   /\ Next             /\ UNCHANGED <<part, sshVars>>
  \/ part = "commands" /\ Commands!SshNext /\ UNCHANGED <<part, vars>>
  \/ part = "files"    /\ Files!SshNext    /\ UNCHANGED <<part, vars>>
  \/ part = "calm"     /\ Calm!SshNext     /\ UNCHANGED <<part, vars>>

\* The fairness of SshProcess (see there), for the device that keeps its connections.
MCSpec ==
  /\ MCInit /\ [][MCNext]_allVars
  /\ WF_allVars(part = "calm" /\ Calm!CallStep /\ UNCHANGED <<part, vars>>)
  /\ \A s \in Stopper :
       WF_allVars(part = "calm" /\ Calm!StopStep(s) /\ UNCHANGED <<part, vars>>)
  /\ \A o \in Op :
       WF_allVars(part = "calm" /\ group[o] = "dying" /\ Calm!GroupStep(o) /\ UNCHANGED <<part, vars>>)

\* A file of the device is replaced whole or not at all and never without a copy of the
\* original, once a stop is through the call it interrupted replaces none, and the values a
\* tuning saved are not written after a reboot (write_file, stop, the restore of tuning.py).
WritesAreSafe == []ReplacedWithBackup /\ StoppedFilesStay /\ NoValueOfAnotherBoot

\* A call whose task is cancelled returns wherever the stop finds it, and a stop that reaches
\* the device ends the command it finds (_collect, wait_connected, _group_control).
StoppedCallReturns ==
  part = "calm" => Calm!CancelledCallEnds /\ Calm!StoppedCommandEnds
=============================================================================
