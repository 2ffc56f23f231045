----------------------------- MODULE ConfigCapture -----------------------------
(****************************************************************************)
(* The captures of a device's configuration before and after the changes of *)
(* a task, and the comparison that its page and its report show. Confirming *)
(* previews is left to OperationGate: a request here stands for one the     *)
(* confirmed preview holds. What is saved of an output has the passwords    *)
(* hidden that the vault knows at that time.                                *)
(****************************************************************************)
EXTENDS Naturals, Sequences

CONSTANTS
  Body,        \* the part of a configuration that holds no password
  Password, Hidden, NoPassword,
  Nothing, Failure,  \* instead of an output
  Credential,  \* the vault's entries: one per device or profile
  MaxCalls,    \* bound on the operations requested
  MaxSaves     \* bound on the passwords saved

ASSUME BoundsAssumption == MaxCalls \in Nat /\ MaxSaves \in Nat

VARIABLES
  status,  \* of the task; "deleted" once its rows are gone
  config,  \* the configuration of the device
  vault,   \* the password of each credential
  calls,   \* approvals: kind, status and, as in tool.finished, the output
  pc,      \* where the call in flight, the last of calls, is
  result,  \* what it got from the device
  row,     \* config_captures: operation and text of each phase
  unread,  \* is there a message the agent has not seen?
  saves

taskVars == <<status, calls, pc, result, row, unread>>
captureVars == <<taskVars, config, vault, saves>>

Phase  == {"before", "after"}
Config == [body : Body, password : Password]
Text   == [body : Body, password : Password \cup {Hidden}]
\* An output is complete when it is text of at most 2 MiB that ends at the prompt.
Output == [text : Config, complete : BOOLEAN]
NoRow   == [operation |-> 0, text |-> Nothing]

ASSUME OutputAssumption == Nothing # Failure /\ {Nothing, Failure} \cap Output = {}

CaptureTypeOK ==
  /\ status \in {"running", "succeeded", "failed", "deleted"}
  /\ config \in Config /\ vault \in [Credential -> Password \cup {NoPassword}]
  /\ calls \in Seq([kind : Phase \cup {"change"}, output : Output \cup {Nothing, Failure},
                    status : {"requested", "consumed", "finished"}])
  /\ Len(calls) <= MaxCalls
  /\ pc \in {"idle", "requested", "execute", "record", "capture"}
  /\ result \in Output \cup {Nothing, Failure}
  /\ row \in [Phase -> {NoRow} \cup [operation : 1..MaxCalls, text : Text]]
  /\ unread \in BOOLEAN /\ saves \in 0..MaxSaves

CaptureInit ==
  /\ status = "running" /\ calls = <<>> /\ pc = "idle" /\ result = Nothing
  /\ row = [p \in Phase |-> NoRow] /\ unread = FALSE /\ saves = 0
  /\ config \in Config /\ vault \in [Credential -> Password \cup {NoPassword}]

Last   == Len(calls)
Called == calls[Last].kind
\* The task of an operation that raises is failed, unless it has ended.
Raise == pc' = "idle" /\ status' = IF status = "running" THEN "failed" ELSE status

-----------------------------------------------------------------------------
(* The vault.                                                                *)

\* redact: what the vault knows now is hidden, all passwords in the same way.
Redact(text) ==
  [text EXCEPT !.password = IF \E c \in Credential : vault[c] = text.password THEN Hidden ELSE @]

\* put: the password of a device that is in use may be corrected.
SavePassword ==
  /\ saves < MaxSaves /\ saves' = saves + 1
  /\ \E c \in Credential, password \in Password : vault' = [vault EXCEPT ![c] = password]
  /\ UNCHANGED <<taskVars, config>>

-----------------------------------------------------------------------------
(* Operations.                                                               *)

Requested(kind) == Append(calls, [kind |-> kind, output |-> Nothing, status |-> "requested"])
\* A phase that has been captured is refused before anything is requested.
Begin ==
  /\ pc = "idle" /\ status = "running" /\ Last < MaxCalls
  /\ \E kind \in Phase \cup {"change"} :
       IF kind \in Phase /\ row[kind] # NoRow
       THEN Raise /\ UNCHANGED <<calls, result>>
       ELSE /\ calls' = Requested(kind) /\ pc' = "requested" /\ result' = Nothing
            /\ UNCHANGED status
  /\ UNCHANGED <<config, vault, row, unread, saves>>

\* A message makes the agent plan again: the operation is finished without having run.
Displace ==
  /\ pc = "requested" /\ status = "running" /\ unread
  /\ calls' = [calls EXCEPT ![Last].status = "finished"]
  /\ pc' = "idle" /\ unread' = FALSE
  /\ UNCHANGED <<status, result, config, vault, row, saves>>

Consume ==
  /\ pc = "requested" /\ status = "running" /\ ~unread
  /\ calls' = [calls EXCEPT ![Last].status = "consumed"] /\ pc' = "execute"
  /\ UNCHANGED <<status, result, config, vault, row, unread, saves>>

\* The call of a task that has ended is cancelled before it starts.
Cancelled ==
  /\ pc = "requested" /\ status # "running" /\ pc' = "idle"
  /\ UNCHANGED <<status, calls, result, config, vault, row, unread, saves>>

\* A capture reads the configuration, a change changes it; either may fail at any point.
Execute ==
  /\ pc = "execute" /\ pc' = "record"
  /\ IF status # "deleted" /\ Called = "change" THEN config' \in Config ELSE UNCHANGED config
  /\ \/ result' = Failure
     \/ \E complete \in BOOLEAN : result' = [text |-> config', complete |-> complete]
  /\ UNCHANGED <<status, calls, vault, row, unread, saves>>

\* record_result, for a failure too, which is then raised; the rows may be gone by now.
Record ==
  /\ pc = "record"
  /\ IF status = "deleted" THEN Raise /\ UNCHANGED calls
     ELSE /\ calls' = [calls EXCEPT ![Last].status = "finished", ![Last].output = result]
          /\ IF result = Failure THEN Raise
             ELSE pc' = (IF Called = "change" THEN "idle" ELSE "capture") /\ UNCHANGED status
  /\ UNCHANGED <<result, config, vault, row, unread, saves>>

\* Mutant: every capture is saved as the one before.
SavedAsBefore == [row EXCEPT !["before"] = [operation |-> Last, text |-> Redact(result.text)]]
Saved == [row EXCEPT ![Called] = [operation |-> Last, text |-> Redact(result.text)]]
\* Mutant: an output that is not complete is left out, and nobody is told.
CaptureQuietly ==
  /\ pc = "capture" /\ pc' = "idle"
  /\ row' = IF status # "deleted" /\ result.complete THEN Saved ELSE row
  /\ UNCHANGED <<status, calls, result, config, vault, unread, saves>>
\* Mutant: an output is saved whether it is complete or not.
CaptureAll ==
  /\ pc = "capture" /\ pc' = "idle"
  /\ row' = IF status = "deleted" THEN row ELSE Saved
  /\ UNCHANGED <<status, calls, result, config, vault, unread, saves>>
\* capture: complete text only, of a finished operation, and never over an earlier one.
Capture ==
  /\ pc = "capture"
  /\ IF status # "deleted" /\ result.complete /\ calls[Last].status = "finished" /\ row[Called] = NoRow
     THEN row' = Saved /\ pc' = "idle" /\ UNCHANGED status
     ELSE Raise /\ UNCHANGED row
  /\ UNCHANGED <<calls, result, config, vault, unread, saves>>

-----------------------------------------------------------------------------
(* The task.                                                                 *)

Message ==
  /\ status = "running" /\ ~unread /\ unread' = TRUE
  /\ UNCHANGED <<status, calls, pc, result, row, config, vault, saves>>

\* The agent reads it while it asks for a new preview.
Drain ==
  /\ pc = "idle" /\ unread /\ unread' = FALSE
  /\ UNCHANGED <<status, calls, pc, result, row, config, vault, saves>>

Finish ==
  /\ status = "running" /\ pc = "idle" /\ ~unread
  /\ status' = IF \E i \in 1..Last : calls[i].status # "finished" THEN "failed" ELSE "succeeded"
  /\ UNCHANGED <<calls, pc, result, row, unread, config, vault, saves>>

\* A stop or a failure elsewhere, while the call goes on; or a restart, which it does not survive.
EndEarly ==
  /\ status = "running" \/ pc # "idle"
  /\ status' = (IF status = "running" THEN "failed" ELSE status) /\ pc' \in {pc, "idle"}
  /\ UNCHANGED <<calls, result, row, unread, config, vault, saves>>

\* delete_task, once the user has released the device.
Delete ==
  /\ status \in {"succeeded", "failed"} /\ status' = "deleted"
  /\ calls' = <<>> /\ row' = [p \in Phase |-> NoRow]
  /\ UNCHANGED <<pc, result, unread, config, vault, saves>>

CaptureNext ==
  \/ SavePassword \/ Begin \/ Displace \/ Consume \/ Cancelled \/ Execute \/ Record \/ Capture
  \/ Message \/ Drain \/ Finish \/ EndEarly \/ Delete

CaptureSpec == CaptureInit /\ [][CaptureNext]_captureVars

-----------------------------------------------------------------------------
(* comparisons.                                                              *)

Available == \A p \in Phase : row[p] # NoRow
Changed   == Available /\ row["before"].text # row["after"].text

\* What the device answered to the operation a phase names as its evidence.
Answer(p) == calls[row[p].operation].output

\* The evidence of a phase is the complete output of an operation of that phase that ran,
\* and nothing but passwords differs from what is shown of it.
EvidenceIsOfOperation ==
  \A p \in Phase : row[p] # NoRow =>
    /\ row[p].operation <= Last /\ calls[row[p].operation].kind = p
    /\ Answer(p) \notin {Nothing, Failure} /\ Answer(p).complete
    /\ row[p].text.body = Answer(p).text.body

\* A task that completes has kept every capture it made: none has failed or been lost
\* on the way, and none was made twice.
CompletedKeepsCaptures ==
  status = "succeeded" =>
    \A i \in 1..Last : (calls[i].kind \in Phase /\ calls[i].output # Nothing)
                         => row[calls[i].kind].operation = i

\* The comparison rests on what the device answered: the type invariant and both of the above
\* (capture, record_result, finish).
EvidenceIsOutput == CaptureTypeOK /\ EvidenceIsOfOperation /\ CompletedKeepsCaptures

\* What has been captured is never replaced, whatever is requested, displaced or
\* restarted; it goes with the task only.
EvidenceIsKept ==
  [][\A p \in Phase : (row[p] # NoRow /\ status' # "deleted") => row'[p] = row[p]]_captureVars

\* The interface reports that the captures agree only when the device answered the same.
AgreementIsReal == (Available /\ ~Changed) => Answer("before").text = Answer("after").text

\* The interface reports a difference only when the device answered differently.
DifferenceIsReal == Changed => Answer("before").text # Answer("after").text
=============================================================================
