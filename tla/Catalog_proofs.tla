---------------------------- MODULE Catalog_proofs ----------------------------
(****************************************************************************)
(* The evidence of a task's captures is the output of an operation that ran *)
(* and stays (ConfigCapture), for any number of operations, texts and       *)
(* passwords; and, for any number of devices, environments, tasks and       *)
(* imports, tasks that hold their devices work at different addresses and   *)
(* keep to the hosts they have seen (DeviceCatalog).                        *)
(****************************************************************************)
EXTENDS MCCatalog, TLAPS

-----------------------------------------------------------------------------
(* Captures (ConfigCapture).                                                 *)

CallRow  == [kind : Phase \cup {"change"}, output : Output \cup {Nothing, Failure},
             status : {"requested", "consumed", "finished"}]
CallPc   == {"idle", "requested", "execute", "record", "capture"}
Evidence == {NoRow} \cup [operation : 1..MaxCalls, text : Text]

\* The type invariant, in the parts that steps touch together.
CallsOK == calls \in Seq(CallRow) /\ Len(calls) <= MaxCalls
PcOK    == pc \in CallPc /\ status \in {"running", "succeeded", "failed", "deleted"}
RowOK   == row \in [Phase -> Evidence]
ResultOK == result \in Output \cup {Nothing, Failure}
RestOK  == /\ config \in Config /\ vault \in [Credential -> Password \cup {NoPassword}]
           /\ unread \in BOOLEAN /\ saves \in 0..MaxSaves

\* These parts are the type invariant.
LEMMA CaptureTypes == CaptureTypeOK <=> CallsOK /\ PcOK /\ RowOK /\ ResultOK /\ RestOK
BY DEF CaptureTypeOK, CallsOK, CallRow, PcOK, CallPc, RowOK, Evidence, ResultOK, RestOK

\* A task that is gone has no rows.
DeletedIsGone == status = "deleted" => calls = <<>> /\ row = [p \in Phase |-> NoRow]

\* The call in flight is the last, and has no output before it is recorded; one whose output
\* is about to be saved has just that output.
CallInFlight ==
  (pc # "idle" /\ status # "deleted") =>
    /\ Len(calls) > 0
    /\ pc \in {"requested", "execute", "record"} => calls[Len(calls)].output = Nothing
    /\ pc = "capture" => /\ calls[Len(calls)].output = result /\ calls[Len(calls)].kind \in Phase
                         /\ result \in Output
ResultIsThere == pc = "record" => result # Nothing

\* While a task runs, every output of a phase is saved or about to be.
OutputsAreSaved ==
  status \in {"running", "succeeded"} =>
    \A i \in 1..Len(calls) : (calls[i].kind \in Phase /\ calls[i].output # Nothing)
                               => \/ row[calls[i].kind].operation = i
                                  \/ i = Len(calls) /\ pc = "capture"
SucceededIsIdle == status = "succeeded" => pc = "idle"

CaptureInv ==
  /\ CallsOK /\ PcOK /\ RowOK /\ ResultOK /\ RestOK
  /\ DeletedIsGone /\ CallInFlight /\ ResultIsThere /\ OutputsAreSaved /\ SucceededIsIdle
  /\ EvidenceIsOfOperation

\* The property follows.
LEMMA CaptureInvIsEnough == CaptureInv => EvidenceIsOutput
BY CaptureTypes DEF CaptureInv, EvidenceIsOutput, CompletedKeepsCaptures, OutputsAreSaved,
                    SucceededIsIdle, Last

\* Appending to a sequence of rows leaves those that are there.
LEMMA AppendedCall ==
  ASSUME NEW S, NEW s \in Seq(S), NEW x \in S
  PROVE  /\ Append(s, x) \in Seq(S) /\ Len(s) \in Nat /\ Len(Append(s, x)) = Len(s) + 1
         /\ Append(s, x)[Len(s) + 1] = x
         /\ \A i \in 1..Len(s) : Append(s, x)[i] = s[i]
OBVIOUS

\* Replacing a row of a sequence leaves the others.
LEMMA ReplacedCall ==
  ASSUME NEW S, NEW s \in Seq(S), NEW x \in S, NEW k \in 1..Len(s)
  PROVE  LET r == [s EXCEPT ![k] = x] IN
         /\ r \in Seq(S) /\ Len(r) = Len(s) /\ r[k] = x
         /\ \A i \in 1..Len(s) : i # k => r[i] = s[i]
OBVIOUS
\* The row of the call in flight is one of the rows.
LEMMA LastCall ==
  ASSUME CaptureInv, pc # "idle", status # "deleted"
  PROVE  /\ Last \in 1..Len(calls) /\ Last \in 1..MaxCalls /\ Last = Len(calls)
         /\ calls[Last] \in CallRow /\ calls \in Seq(CallRow)
<1>1. calls \in Seq(CallRow) /\ Len(calls) \in Nat /\ Len(calls) > 0 /\ Len(calls) <= MaxCalls
  BY DEF CaptureInv, CallsOK, CallInFlight
<1>2. Len(calls) \in 1..Len(calls) /\ Len(calls) \in 1..MaxCalls
  BY <1>1, BoundsAssumption
<1> QED
  BY <1>1, <1>2 DEF Last

\* A phase names an operation that there is.
LEMMA NamedOperation ==
  ASSUME CaptureInv, NEW p \in Phase, row[p] # NoRow
  PROVE  row[p].operation \in 1..Len(calls)
<1>1. row[p] \in [operation : 1..MaxCalls, text : Text]
  BY DEF CaptureInv, RowOK, Evidence
<1>2. row[p].operation \in 1..MaxCalls /\ row[p].operation <= Len(calls) /\ Len(calls) \in Nat
  BY <1>1 DEF CaptureInv, EvidenceIsOfOperation, Last, CallsOK
<1> QED
  BY <1>2, BoundsAssumption

\* The vault and the messages are no matter of a capture's evidence.
LEMMA OthersKeepCaptures == CaptureInv /\ (SavePassword \/ Message \/ Drain) => CaptureInv'
<1> SUFFICES ASSUME CaptureInv, SavePassword \/ Message \/ Drain PROVE CaptureInv'
  OBVIOUS
<1>1. UNCHANGED <<status, calls, pc, result, row>>
  BY DEF SavePassword, Message, Drain, taskVars
<1>2. RestOK'
  <2>1. CASE SavePassword
    <3>1. saves' \in 0..MaxSaves
      BY <2>1, BoundsAssumption DEF SavePassword, CaptureInv, RestOK
    <3>2. vault' \in [Credential -> Password \cup {NoPassword}]
      BY <2>1 DEF SavePassword, CaptureInv, RestOK
    <3>3. config' = config /\ unread' = unread
      BY <2>1 DEF SavePassword, taskVars
    <3> QED
      BY <3>1, <3>2, <3>3 DEF CaptureInv, RestOK
  <2>2. CASE Message \/ Drain
    BY <2>2 DEF Message, Drain, CaptureInv, RestOK
  <2> QED
    BY <2>1, <2>2
<1> QED
  BY <1>1, <1>2 DEF CaptureInv, CallsOK, PcOK, RowOK, ResultOK, DeletedIsGone, CallInFlight,
     ResultIsThere, OutputsAreSaved, SucceededIsIdle, EvidenceIsOfOperation, Answer, Last

\* So are steps that only end the task or the call.
LEMMA EndsKeepCaptures == CaptureInv /\ (Cancelled \/ EndEarly \/ Finish) => CaptureInv'
<1> SUFFICES ASSUME CaptureInv, Cancelled \/ EndEarly \/ Finish PROVE CaptureInv'
  OBVIOUS
<1>1. UNCHANGED <<calls, result, row, config, vault, unread, saves>>
  BY DEF Cancelled, EndEarly, Finish
<1>2. /\ pc' \in {pc, "idle"} /\ status' \in {"running", "succeeded", "failed", "deleted"}
      /\ status' = "deleted" <=> status = "deleted"
      /\ status' = "running" => status = "running" /\ pc' = pc
      /\ status' = "succeeded" => status \in {"running", "succeeded"} /\ pc' = "idle" /\ pc = "idle"
  BY DEF Cancelled, EndEarly, Finish, CaptureInv, PcOK, SucceededIsIdle
<1>3. OutputsAreSaved'
  BY <1>1, <1>2 DEF CaptureInv, OutputsAreSaved, PcOK
<1>4. CallInFlight' /\ ResultIsThere' /\ SucceededIsIdle' /\ DeletedIsGone' /\ PcOK'
  BY <1>1, <1>2 DEF CaptureInv, CallInFlight, ResultIsThere, SucceededIsIdle, DeletedIsGone, PcOK, CallPc
<1> QED
  BY <1>1, <1>3, <1>4 DEF CaptureInv, CallsOK, RowOK, ResultOK, RestOK, EvidenceIsOfOperation, Answer, Last

\* A new call comes after those there are.
LEMMA BeginKeepsCaptures == CaptureInv /\ Begin => CaptureInv'
<1> SUFFICES ASSUME CaptureInv, Begin PROVE CaptureInv'
  OBVIOUS
<1>1. /\ pc = "idle" /\ status = "running" /\ Len(calls) < MaxCalls
      /\ UNCHANGED <<config, vault, row, unread, saves>>
  BY DEF Begin, Last
<1>2. CASE Raise /\ UNCHANGED <<calls, result>>
  BY <1>1, <1>2 DEF CaptureInv, CallsOK, PcOK, CallPc, RowOK, ResultOK, RestOK, Raise, DeletedIsGone,
     CallInFlight, ResultIsThere, OutputsAreSaved, SucceededIsIdle, EvidenceIsOfOperation, Answer, Last
<1>3. CASE \E kind \in Phase \cup {"change"} :
             calls' = Requested(kind) /\ pc' = "requested" /\ result' = Nothing /\ UNCHANGED status
  <2>1. PICK new \in CallRow : /\ calls' = Append(calls, new) /\ new.output = Nothing
                               /\ pc' = "requested" /\ result' = Nothing /\ UNCHANGED status
    BY <1>3 DEF Requested, CallRow
  <2> DEFINE n == Len(calls)
  <2>2. /\ calls' \in Seq(CallRow) /\ n \in Nat /\ Len(calls') = n + 1 /\ calls'[n + 1] = new
        /\ \A i \in 1..n : calls'[i] = calls[i]
    <3>1. calls \in Seq(CallRow)
      BY DEF CaptureInv, CallsOK
    <3> QED
      BY <2>1, <3>1, AppendedCall
  <2> HIDE DEF n
  <2>3. CallsOK'
    <3>1. n + 1 <= MaxCalls
      BY <1>1, <2>2, BoundsAssumption DEF n
    <3> QED
      BY <2>2, <3>1 DEF CallsOK
  <2>4. CallInFlight' /\ ResultIsThere' /\ SucceededIsIdle' /\ DeletedIsGone' /\ PcOK' /\ ResultOK'
    <3>1. Len(calls') > 0 /\ calls'[Len(calls')].output = Nothing
      BY <2>1, <2>2
    <3> QED
      BY <1>1, <2>1, <3>1
         DEF CallInFlight, ResultIsThere, SucceededIsIdle, DeletedIsGone, PcOK, CallPc, ResultOK
  <2>5. OutputsAreSaved'
    <3> SUFFICES ASSUME NEW i \in 1..Len(calls'), calls'[i].kind \in Phase, calls'[i].output # Nothing
                 PROVE  row'[calls'[i].kind].operation = i
      BY DEF OutputsAreSaved
    <3>1. i \in 1..n
      <4>1. i # n + 1
        BY <2>1, <2>2
      <4> QED
        BY <2>2, <4>1
    <3>2. row[calls[i].kind].operation = i
      BY <1>1, <2>2, <3>1 DEF CaptureInv, OutputsAreSaved, n
    <3> QED
      BY <1>1, <2>2, <3>1, <3>2
  <2>6. EvidenceIsOfOperation'
    <3> SUFFICES ASSUME NEW p \in Phase, row[p] # NoRow
                 PROVE  /\ row[p].operation <= Len(calls') /\ calls'[row[p].operation].kind = p
                        /\ calls'[row[p].operation].output \notin {Nothing, Failure}
                        /\ calls'[row[p].operation].output.complete
                        /\ row[p].text.body = calls'[row[p].operation].output.text.body
      BY <1>1 DEF EvidenceIsOfOperation, Answer, Last
    <3>1. row[p].operation \in 1..n /\ row[p].operation <= n + 1
      BY <2>2, NamedOperation DEF n
    <3>2. calls'[row[p].operation] = calls[row[p].operation]
      BY <2>2, <3>1
    <3> QED
      BY <2>2, <3>1, <3>2 DEF CaptureInv, EvidenceIsOfOperation, Answer
  <2> QED
    BY <1>1, <2>3, <2>4, <2>5, <2>6 DEF CaptureInv, RowOK, RestOK
<1> QED
  BY <1>2, <1>3 DEF Begin
\* A call without an output is no phase's evidence.
LEMMA EmptyCallIsNoEvidence ==
  ASSUME CaptureInv, NEW n, calls[n].output = Nothing, NEW p \in Phase, row[p] # NoRow
  PROVE  row[p].operation # n
BY DEF CaptureInv, EvidenceIsOfOperation, Answer

\* What changes the last call only, while it is no phase's evidence, leaves all evidence.
LEMMA EvidenceStays ==
  ASSUME CaptureInv, row' = row, pc # "idle", status # "deleted", calls[Last].output = Nothing,
         Len(calls') = Len(calls), \A i \in 1..Len(calls) : i # Last => calls'[i] = calls[i]
  PROVE  EvidenceIsOfOperation'
<1> SUFFICES ASSUME NEW p \in Phase, row[p] # NoRow
             PROVE  /\ row[p].operation <= Len(calls') /\ calls'[row[p].operation].kind = p
                    /\ calls'[row[p].operation].output \notin {Nothing, Failure}
                    /\ calls'[row[p].operation].output.complete
                    /\ row[p].text.body = calls'[row[p].operation].output.text.body
  BY DEF EvidenceIsOfOperation, Answer, Last
<1>1. row[p].operation \in 1..Len(calls) /\ row[p].operation # Last
  BY NamedOperation, EmptyCallIsNoEvidence
<1> QED
  BY <1>1 DEF CaptureInv, EvidenceIsOfOperation, Answer, Last

\* A request that is consumed or displaced has no output yet.
LEMMA RequestsKeepCaptures == CaptureInv /\ (Displace \/ Consume) => CaptureInv'
<1> SUFFICES ASSUME CaptureInv, Displace \/ Consume PROVE CaptureInv'
  OBVIOUS
<1>1. /\ pc = "requested" /\ status = "running" /\ status' = status /\ pc' \in {"idle", "execute"}
      /\ UNCHANGED <<result, row, config, vault, saves>> /\ unread' \in BOOLEAN
  BY DEF Displace, Consume, CaptureInv, RestOK
<1>2. /\ Last \in 1..Len(calls) /\ Last = Len(calls) /\ calls[Last] \in CallRow
      /\ calls \in Seq(CallRow) /\ calls[Last].output = Nothing
  BY <1>1, LastCall DEF CaptureInv, CallInFlight
<1>3. PICK new \in CallRow : calls' = [calls EXCEPT ![Last] = new] /\ new.output = Nothing
  <2>1. PICK s \in {"finished", "consumed"} : calls' = [calls EXCEPT ![Last].status = s]
    BY DEF Displace, Consume
  <2>2. /\ [calls[Last] EXCEPT !.status = s] \in CallRow
        /\ [calls[Last] EXCEPT !.status = s].output = Nothing
    BY <1>2 DEF CallRow
  <2>3. calls' = [calls EXCEPT ![Last] = [calls[Last] EXCEPT !.status = s]]
    BY <2>1
  <2> QED
    BY <2>2, <2>3
<1>4. /\ calls' \in Seq(CallRow) /\ Len(calls') = Len(calls) /\ calls'[Last] = new
      /\ \A i \in 1..Len(calls) : i # Last => calls'[i] = calls[i]
  BY <1>2, <1>3, ReplacedCall
<1>5. CallsOK'
  BY <1>4 DEF CaptureInv, CallsOK
<1>6. CallInFlight' /\ ResultIsThere' /\ SucceededIsIdle' /\ DeletedIsGone' /\ PcOK'
  <2>1. Len(calls') > 0 /\ calls'[Len(calls')].output = Nothing
    BY <1>1, <1>2, <1>3, <1>4 DEF CaptureInv, CallInFlight
  <2> QED
    BY <1>1, <2>1 DEF CallInFlight, ResultIsThere, SucceededIsIdle, DeletedIsGone, PcOK, CallPc
<1>7. OutputsAreSaved'
  <2> SUFFICES ASSUME NEW i \in 1..Len(calls), calls'[i].kind \in Phase, calls'[i].output # Nothing
               PROVE  row[calls'[i].kind].operation = i
    BY <1>1, <1>4 DEF OutputsAreSaved
  <2>1. i # Last /\ calls'[i] = calls[i]
    BY <1>3, <1>4
  <2> QED
    BY <1>1, <2>1 DEF CaptureInv, OutputsAreSaved
<1>8. EvidenceIsOfOperation'
  BY <1>1, <1>2, <1>4, EvidenceStays
<1>9. RowOK' /\ ResultOK' /\ RestOK'
  BY <1>1 DEF CaptureInv, RowOK, ResultOK, RestOK
<1> QED
  BY <1>5, <1>6, <1>7, <1>8, <1>9 DEF CaptureInv

\* The device answers, and nothing is saved yet.
LEMMA ExecuteKeepsCaptures == CaptureInv /\ Execute => CaptureInv'
<1> SUFFICES ASSUME CaptureInv, Execute PROVE CaptureInv'
  OBVIOUS
<1>1. /\ pc = "execute" /\ pc' = "record" /\ UNCHANGED <<status, calls, vault, row, unread, saves>>
      /\ config' \in Config
  BY DEF Execute, CaptureInv, RestOK
<1>2. result' \in Output \cup {Failure}
  BY <1>1 DEF Execute, Output
<1>3. result' # Nothing
  BY <1>2, OutputAssumption
<1>4. CallInFlight' /\ ResultIsThere' /\ SucceededIsIdle' /\ DeletedIsGone' /\ PcOK' /\ OutputsAreSaved'
  BY <1>1, <1>3 DEF CaptureInv, CallInFlight, ResultIsThere, SucceededIsIdle, DeletedIsGone, PcOK,
     CallPc, OutputsAreSaved
<1> QED
  BY <1>1, <1>2, <1>4 DEF CaptureInv, CallsOK, RowOK, ResultOK, RestOK, EvidenceIsOfOperation, Answer, Last

\* An output that is recorded is saved next, if it is a phase's, or fails the task.
LEMMA RecordKeepsCaptures == CaptureInv /\ Record => CaptureInv'
<1> SUFFICES ASSUME CaptureInv, Record PROVE CaptureInv'
  OBVIOUS
<1>1. /\ pc = "record" /\ UNCHANGED <<result, row, config, vault, unread, saves>>
      /\ result \in Output \cup {Failure}
  BY DEF Record, CaptureInv, ResultIsThere, ResultOK
<1>2. CASE status = "deleted"
  <2>1. calls' = calls /\ status' = status /\ pc' = "idle"
    BY <1>2 DEF Record, Raise
  <2> QED
    BY <1>1, <1>2, <2>1 DEF CaptureInv, CallsOK, PcOK, CallPc, RowOK, ResultOK, RestOK, DeletedIsGone,
       CallInFlight, ResultIsThere, OutputsAreSaved, SucceededIsIdle, EvidenceIsOfOperation, Answer, Last
<1>3. CASE status # "deleted"
  <2>1. /\ Last \in 1..Len(calls) /\ Last = Len(calls) /\ calls[Last] \in CallRow
        /\ calls \in Seq(CallRow) /\ calls[Last].output = Nothing
    BY <1>1, <1>3, LastCall DEF CaptureInv, CallInFlight
  <2> DEFINE new == [[calls[Last] EXCEPT !.status = "finished"] EXCEPT !.output = result]
  <2>2. calls' = [calls EXCEPT ![Last] = new]
    BY <1>3, <2>1 DEF Record
  <2>3. new \in CallRow /\ new.output = result /\ new.kind = Called
    BY <1>1, <2>1 DEF CallRow, Called
  <2> HIDE DEF new
  <2>4. /\ calls' \in Seq(CallRow) /\ Len(calls') = Len(calls) /\ calls'[Last] = new
        /\ \A i \in 1..Len(calls) : i # Last => calls'[i] = calls[i]
    BY <2>1, <2>2, <2>3, ReplacedCall
  <2>5. /\ status' \in {status, "failed"} /\ pc' \in {"idle", "capture"}
        /\ pc' = "capture" => result \in Output /\ Called # "change" /\ status' = status
        /\ status' = "running" => pc' = "capture" \/ Called = "change"
        /\ status' = "succeeded" <=> status = "succeeded"
    BY <1>1, <1>3 DEF Record, Raise, CaptureInv, SucceededIsIdle
  <2>6. CallsOK'
    BY <2>4 DEF CaptureInv, CallsOK
  <2>7. CallInFlight' /\ ResultIsThere' /\ SucceededIsIdle' /\ DeletedIsGone' /\ PcOK'
    <3>1. Len(calls') > 0 /\ calls'[Len(calls')].output = result /\ calls'[Len(calls')].kind = Called
      BY <1>1, <1>3, <2>1, <2>3, <2>4 DEF CaptureInv, CallInFlight
    <3>2. Called \in Phase \cup {"change"}
      BY <2>1 DEF Called, CallRow
    <3>3. status # "succeeded" /\ status' # "succeeded"
      BY <1>1, <2>5 DEF CaptureInv, SucceededIsIdle
    <3>4. PcOK'
      BY <2>5 DEF PcOK, CallPc, CaptureInv
    <3>5. CallInFlight'
      BY <1>1, <2>5, <3>1, <3>2 DEF CallInFlight
    <3> QED
      BY <1>3, <2>5, <3>3, <3>4, <3>5 DEF ResultIsThere, SucceededIsIdle, DeletedIsGone
  <2>8. OutputsAreSaved'
    <3> SUFFICES ASSUME status' = "running", NEW i \in 1..Len(calls),
                        calls'[i].kind \in Phase, calls'[i].output # Nothing
                 PROVE  \/ row[calls'[i].kind].operation = i
                        \/ i = Len(calls') /\ pc' = "capture"
      BY <1>1, <2>4, <2>5 DEF CaptureInv, OutputsAreSaved, SucceededIsIdle
    <3>1. CASE i = Last
      BY <2>1, <2>3, <2>4, <2>5, <3>1 DEF Phase
    <3>2. CASE i # Last
      BY <1>1, <1>3, <2>1, <2>4, <2>5, <3>2 DEF CaptureInv, OutputsAreSaved
    <3> QED
      BY <3>1, <3>2
  <2>9. EvidenceIsOfOperation'
    BY <1>1, <1>3, <2>1, <2>4, EvidenceStays
  <2> QED
    BY <1>1, <2>6, <2>7, <2>8, <2>9 DEF CaptureInv, RowOK, ResultOK, RestOK
<1> QED
  BY <1>2, <1>3
\* A complete output is saved as the evidence of its phase, which had none; if it cannot be, the
\* task fails.
LEMMA CaptureKeepsCaptures == CaptureInv /\ Capture => CaptureInv'
<1> SUFFICES ASSUME CaptureInv, Capture PROVE CaptureInv'
  OBVIOUS
<1>1. pc = "capture" /\ pc' = "idle" /\ UNCHANGED <<calls, result, config, vault, unread, saves>>
  BY DEF Capture, Raise
<1>2. CASE Raise /\ UNCHANGED row
  <2>1. /\ status' \in {status, "failed"} /\ status' # "running"
        /\ status' = "deleted" <=> status = "deleted"
        /\ status' = "succeeded" <=> status = "succeeded"
    BY <1>2 DEF Raise
  <2>2. CallInFlight' /\ ResultIsThere' /\ SucceededIsIdle' /\ DeletedIsGone' /\ PcOK'
    BY <1>1, <1>2, <2>1 DEF CaptureInv, CallInFlight, ResultIsThere, SucceededIsIdle, DeletedIsGone,
       PcOK, CallPc
  <2>3. OutputsAreSaved'
    BY <1>1, <2>1 DEF CaptureInv, OutputsAreSaved, SucceededIsIdle
  <2> QED
    BY <1>1, <1>2, <2>2, <2>3 DEF CaptureInv, CallsOK, RowOK, ResultOK, RestOK,
       EvidenceIsOfOperation, Answer, Last
<1>3. CASE /\ status # "deleted" /\ result.complete /\ row[Called] = NoRow
           /\ row' = Saved /\ UNCHANGED status
  <2>1. /\ Last \in 1..Len(calls) /\ Last \in 1..MaxCalls /\ Last = Len(calls)
        /\ calls[Last].output = result /\ Called \in Phase /\ result \in Output
        /\ Called = calls[Last].kind
    BY <1>1, <1>3, LastCall DEF CaptureInv, CallInFlight, Called
  <2> DEFINE text == Redact(result.text)
             new  == [operation |-> Last, text |-> text]
  <2>2. text \in Text /\ text.body = result.text.body
    BY <2>1 DEF Redact, Text, Output, Config
  <2>3. /\ row \in [Phase -> Evidence] /\ row' = [row EXCEPT ![Called] = new]
        /\ new \in Evidence /\ new.operation = Last /\ new.text = text
    BY <1>3, <2>1, <2>2 DEF CaptureInv, RowOK, Evidence, Saved
  <2> HIDE DEF text, new
  <2>4. /\ row' \in [Phase -> Evidence] /\ row'[Called] = new
        /\ \A p \in Phase : p # Called => row'[p] = row[p]
    BY <2>1, <2>3
  <2>5. CallInFlight' /\ ResultIsThere' /\ SucceededIsIdle' /\ DeletedIsGone' /\ PcOK'
    BY <1>1, <1>3 DEF CaptureInv, CallInFlight, ResultIsThere, SucceededIsIdle, DeletedIsGone,
       PcOK, CallPc
  <2>6. OutputsAreSaved'
    <3> SUFFICES ASSUME status \in {"running", "succeeded"}, NEW i \in 1..Len(calls),
                        calls[i].kind \in Phase, calls[i].output # Nothing
                 PROVE  row'[calls[i].kind].operation = i
      BY <1>1, <1>3 DEF OutputsAreSaved
    <3>1. CASE i = Last
      BY <2>1, <2>3, <2>4, <3>1
    <3>2. CASE i # Last
      <4>1. row[calls[i].kind].operation = i
        BY <2>1, <3>2 DEF CaptureInv, OutputsAreSaved
      <4>2. calls[i].kind # Called
        <5>1. NoRow.operation = 0 /\ i # 0
          BY DEF NoRow
        <5> QED
          BY <1>3, <4>1, <5>1
      <4> QED
        BY <2>4, <4>1, <4>2
    <3> QED
      BY <3>1, <3>2
  <2>7. EvidenceIsOfOperation'
    <3> SUFFICES ASSUME NEW p \in Phase, row'[p] # NoRow
                 PROVE  /\ row'[p].operation <= Last /\ calls[row'[p].operation].kind = p
                        /\ calls[row'[p].operation].output \notin {Nothing, Failure}
                        /\ calls[row'[p].operation].output.complete
                        /\ row'[p].text.body = calls[row'[p].operation].output.text.body
      BY <1>1 DEF EvidenceIsOfOperation, Answer, Last
    <3>1. CASE p = Called
      <4>1. result \notin {Nothing, Failure} /\ Last <= Last
        BY <2>1, OutputAssumption
      <4> QED
        BY <1>3, <2>1, <2>2, <2>3, <2>4, <3>1, <4>1
    <3>2. CASE p # Called
      BY <2>4, <3>2 DEF CaptureInv, EvidenceIsOfOperation, Answer
    <3> QED
      BY <3>1, <3>2
  <2> QED
    BY <1>1, <1>3, <2>4, <2>5, <2>6, <2>7 DEF CaptureInv, CallsOK, RowOK, ResultOK, RestOK
<1> QED
  BY <1>2, <1>3 DEF Capture

\* The rows of a task go together.
LEMMA DeleteKeepsCaptures == CaptureInv /\ Delete => CaptureInv'
<1> SUFFICES ASSUME CaptureInv, Delete PROVE CaptureInv'
  OBVIOUS
<1>1. /\ status' = "deleted" /\ calls' = <<>> /\ row' = [p \in Phase |-> NoRow]
      /\ UNCHANGED <<pc, result, unread, config, vault, saves>>
  BY DEF Delete
<1>2. CallsOK'
  BY <1>1, BoundsAssumption DEF CallsOK
<1> QED
  BY <1>1, <1>2 DEF CaptureInv, PcOK, RowOK, Evidence, ResultOK, RestOK, DeletedIsGone, CallInFlight,
     ResultIsThere, OutputsAreSaved, SucceededIsIdle, EvidenceIsOfOperation

\* Initially there is nothing.
LEMMA InitCaptures == CaptureInit => CaptureInv
<1> SUFFICES ASSUME CaptureInit PROVE CaptureInv
  OBVIOUS
<1>1. CallsOK
  BY BoundsAssumption DEF CaptureInit, CallsOK
<1>2. 0 \in 0..MaxSaves /\ saves = 0
  BY BoundsAssumption DEF CaptureInit
<1>3. RestOK
  BY <1>2 DEF CaptureInit, RestOK
<1>4. /\ PcOK /\ RowOK /\ ResultOK
      /\ DeletedIsGone /\ ResultIsThere /\ SucceededIsIdle /\ CallInFlight
  <2>1. status = "running" /\ pc = "idle"
    BY DEF CaptureInit
  <2>2. PcOK /\ DeletedIsGone /\ ResultIsThere /\ SucceededIsIdle /\ CallInFlight
    BY <2>1 DEF PcOK, CallPc, DeletedIsGone, ResultIsThere, SucceededIsIdle, CallInFlight
  <2>3. RowOK /\ ResultOK
    BY DEF CaptureInit, RowOK, Evidence, ResultOK
  <2> QED
    BY <2>2, <2>3
<1>5. OutputsAreSaved /\ EvidenceIsOfOperation
  <2>1. Len(calls) = 0 /\ 1..0 = {}
    BY DEF CaptureInit
  <2> QED
    BY <2>1 DEF CaptureInit, OutputsAreSaved, EvidenceIsOfOperation
<1> QED
  BY <1>1, <1>3, <1>4, <1>5 DEF CaptureInv

\* Every step keeps all of it.
LEMMA CaptureStep == CaptureInv /\ [CaptureNext]_captureVars => CaptureInv'
<1> SUFFICES ASSUME CaptureInv, [CaptureNext]_captureVars PROVE CaptureInv'
  OBVIOUS
<1>1. CASE UNCHANGED captureVars
  BY <1>1 DEF captureVars, taskVars, CaptureInv, CallsOK, PcOK, RowOK, ResultOK, RestOK,
     DeletedIsGone, CallInFlight, ResultIsThere, OutputsAreSaved, SucceededIsIdle,
     EvidenceIsOfOperation, Answer, Last
<1> QED
  BY <1>1, OthersKeepCaptures, EndsKeepCaptures, BeginKeepsCaptures, RequestsKeepCaptures,
     ExecuteKeepsCaptures, RecordKeepsCaptures, CaptureKeepsCaptures, DeleteKeepsCaptures
     DEF CaptureNext

\* What the comparison of a task rests on is the complete output of an operation of its phase
\* that ran, and a task that completes has kept every capture it made: for any number of
\* operations, of outputs and of passwords saved meanwhile, and wherever it is stopped.
THEOREM EvidenceIsAlwaysOutput == CaptureSpec => []EvidenceIsOutput
BY InitCaptures, CaptureStep, CaptureInvIsEnough, PTL DEF CaptureSpec

\* Evidence is never replaced: it is saved where there is none, and goes with its task only.
THEOREM EvidenceIsAlwaysKept == CaptureSpec => EvidenceIsKept
<1> DEFINE Kept == \A p \in Phase : (row[p] # NoRow /\ status' # "deleted") => row'[p] = row[p]
<1>1. CaptureInv /\ [CaptureNext]_captureVars => [Kept]_captureVars
  <2> SUFFICES ASSUME CaptureInv, CaptureNext PROVE Kept
    OBVIOUS
  <2>1. CASE Capture
    BY <2>1 DEF Capture, Saved, CaptureInv, RowOK
  <2>2. CASE Delete
    BY <2>2 DEF Delete
  <2>3. CASE SavePassword \/ Begin \/ Displace \/ Consume \/ Cancelled \/ Execute \/ Record
    BY <2>3 DEF SavePassword, Begin, Displace, Consume, Cancelled, Execute, Record, taskVars
  <2>4. CASE Message \/ Drain \/ Finish \/ EndEarly
    BY <2>4 DEF Message, Drain, Finish, EndEarly
  <2> QED
    BY <2>1, <2>2, <2>3, <2>4 DEF CaptureNext
<1> QED
  BY <1>1, InitCaptures, CaptureStep, PTL DEF CaptureSpec, EvidenceIsKept
-----------------------------------------------------------------------------
(* Devices and environments (DeviceCatalog).                                 *)

DevRow  == [address : Address \cup {None}, pin : Key \cup {None}]
TaskRow == [status : {"none", "queued", "running", "failed", "ended"},
            device : Device \cup {None}, address : Address \cup {None}, pin : Key \cup {None}]

\* The type invariant, in the parts that steps touch together.
DevOK    == dev \in [Device -> DevRow] /\ ids \subseteq Device
TaskOK   == task \in [Task -> TaskRow]
OwnerOK  == owner \in [Device -> Task \cup {None}]
MemberOK == member \in [Environment -> SUBSET Device]
TrustOK  == trusted \in [Task -> Key \cup {None}] /\ revised \subseteq Task
FormOK   == form \in {NoDevice} \cup [address : Device, pin : Key \cup {None}]
ImportOK == import \in [todo : SUBSET users.file, mapped : SUBSET Device, new : users.file \cup {None}]
UsersOK  == /\ users \in Users /\ scheduler \in BOOLEAN /\ host \in [Address -> Key]
            /\ changes \in 0..users.changes

\* These parts are the type invariant.
LEMMA CatalogTypes ==
  TypeOK <=> /\ DevOK /\ TaskOK /\ OwnerOK /\ MemberOK /\ TrustOK
             /\ FormOK /\ ImportOK /\ UsersOK
BY DEF TypeOK, DevOK, DevRow, TaskOK, TaskRow, OwnerOK, MemberOK, TrustOK, FormOK, ImportOK, UsersOK

\* An address belongs to one device, and an identifier is not given again to another.
AddressesAreUnique == \A d, e \in Known : dev[d].address = dev[e].address => d = e
KnownHaveIds       == Known \subseteq ids

\* A task names a device there has been, and its address then; a task that works or keeps its
\* scene holds its device, which is therefore registered, and nobody else does.
Holds(t)       == task[t].status \in {"running", "failed"}
TasksAreOfDevices ==
  \A t \in Task : Active(t) \/ Holds(t) => task[t].device \in ids /\ task[t].address \in Address
TasksHold      == \A t \in Task : Holds(t) => owner[task[t].device] = t
HeldAreKnown   ==
  \A d \in Device : owner[d] # None => d \in Known /\ task[owner[d]].device = d /\ Holds(owner[d])

\* While nobody edits the address of a device a queued task names, it is the one of the task's
\* snapshot, unless the device has been deleted.
AddressesAgree ==
  "edit" \notin users.allowed =>
    \A t \in Task : Active(t) \/ Holds(t) => dev[task[t].device].address \in {task[t].address, None}

\* While nobody saves a stale form, the key a running task has connected to is pinned, unless
\* the user has changed it since.
TrustIsPinned ==
  "stale" \notin users.allowed =>
    \A t \in Task : task[t].status = "running" /\ trusted[t] # None /\ t \notin revised
                      => dev[task[t].device].pin = trusted[t]
TrustIsOfRuns == \A t \in Task : task[t].status \in {"none", "queued"} => trusted[t] = None

CatalogTypeInv == DevOK /\ TaskOK /\ OwnerOK /\ MemberOK /\ TrustOK /\ FormOK /\ ImportOK /\ UsersOK
CatalogInv ==
  /\ CatalogTypeInv
  /\ AddressesAreUnique /\ KnownHaveIds /\ EnvironmentDevicesExist
  /\ TasksAreOfDevices /\ TasksHold /\ HeldAreKnown /\ AddressesAgree
  /\ TrustIsPinned /\ TrustIsOfRuns

\* Tasks that hold their devices hold different ones, whose addresses differ.
LEMMA CatalogInvIsEnough == CatalogInv => CatalogIsConsistent
<1> SUFFICES ASSUME CatalogInv PROVE CatalogIsConsistent
  OBVIOUS
<1>1. TypeOK /\ EnvironmentDevicesExist
  BY CatalogTypes DEF CatalogInv, CatalogTypeInv
<1>2. ASSUME "edit" \notin users.allowed, NEW t \in Task, NEW u \in Task, t # u, Holds(t), Holds(u)
      PROVE  task[t].address # task[u].address
  <2>1. /\ owner[task[t].device] = t /\ owner[task[u].device] = u
        /\ task[t].device \in Device /\ task[u].device \in Device /\ None \notin Task
    BY <1>2, NoneAssumption DEF CatalogInv, CatalogTypeInv, TasksHold, TasksAreOfDevices, DevOK
  <2>2. /\ task[t].device \in Known /\ task[u].device \in Known /\ task[t].device # task[u].device
    BY <1>2, <2>1 DEF CatalogInv, HeldAreKnown
  <2>3. dev[task[t].device].address # None /\ dev[task[u].device].address # None
    BY <2>2 DEF Known
  <2>4. /\ dev[task[t].device].address = task[t].address
        /\ dev[task[u].device].address = task[u].address
    BY <1>2, <2>3 DEF CatalogInv, AddressesAgree
  <2> QED
    BY <2>2, <2>4 DEF CatalogInv, AddressesAreUnique
<1> QED
  BY <1>1, <1>2 DEF CatalogIsConsistent, OneTaskPerHost, Holds
\* How a saved device differs from what was there: it is known, the others are as they were.
LEMMA SavedDevice ==
  ASSUME DevOK, NEW d \in Device, NEW address \in Address, NEW pin \in Key \cup {None},
         SaveDevice(d, address, pin)
  PROVE  /\ DevOK' /\ dev'[d].address = address /\ dev'[d].pin = pin
         /\ \A e \in Device : e # d => dev'[e] = dev[e]
         /\ Known' = Known \cup {d} /\ ids' = ids \cup {d}
<1>1. /\ dev' = [dev EXCEPT ![d] = [address |-> address, pin |-> pin]] /\ ids' = ids \cup {d}
      /\ dev \in [Device -> DevRow] /\ ids \subseteq Device
  BY DEF SaveDevice, DevOK
<1>2. [address |-> address, pin |-> pin] \in DevRow
  BY DEF DevRow
<1>3. DevOK'
  BY <1>1, <1>2 DEF DevOK
<1>4. dev'[d] = [address |-> address, pin |-> pin] /\ \A e \in Device : e # d => dev'[e] = dev[e]
  BY <1>1
<1>5. address # None
  BY NoneAssumption
<1>6. Known' = Known \cup {d}
  BY <1>4, <1>5 DEF Known
<1> QED
  BY <1>1, <1>3, <1>4, <1>6

\* A device is saved under an address nobody has, one that is reserved under its own, and
\* neither the address a queued task names nor what is pinned for a task changes unnoticed.
LEMMA SaveKeepsCatalog ==
  ASSUME CatalogInv, NEW d \in Device, NEW address \in Address, NEW pin \in Key \cup {None},
         SaveDevice(d, address, pin),
         UNCHANGED <<users, member, task, owner, scheduler, host, trusted>>,
         FormOK', ImportOK', UsersOK', revised \subseteq revised', revised' \subseteq Task,
         d \in ids => /\ "edit" \in users.allowed \/ ~Queued(d) \/ address = dev[d].address
                      /\ \/ "stale" \in users.allowed \/ owner[d] \in {None} \cup revised'
                         \/ pin = dev[d].pin
  PROVE  CatalogInv'
<1>1. /\ DevOK' /\ dev'[d].address = address /\ dev'[d].pin = pin
      /\ \A e \in Device : e # d => dev'[e] = dev[e]
      /\ Known' = Known \cup {d} /\ ids' = ids \cup {d}
  <2>1. DevOK
    BY DEF CatalogInv, CatalogTypeInv
  <2> QED
    BY <2>1, SavedDevice
<1>2. CatalogTypeInv'
  BY <1>1 DEF CatalogInv, CatalogTypeInv, TaskOK, OwnerOK, MemberOK, TrustOK
<1>3. AddressesAreUnique'
  <2>1. \A e \in Known \ {d} : dev[e].address # address
    BY DEF SaveDevice, Taken
  <2>2. Known \subseteq Device
    BY DEF Known
  <2> QED
    BY <1>1, <2>1, <2>2 DEF CatalogInv, AddressesAreUnique
<1>4. KnownHaveIds' /\ EnvironmentDevicesExist' /\ HeldAreKnown'
  BY <1>1 DEF CatalogInv, KnownHaveIds, EnvironmentDevicesExist, HeldAreKnown, Holds
<1>5. TasksAreOfDevices' /\ TasksHold' /\ TrustIsOfRuns'
  BY <1>1 DEF CatalogInv, TasksAreOfDevices, TasksHold, TrustIsOfRuns, Active, Holds
<1>6. AddressesAgree'
  <2> SUFFICES ASSUME "edit" \notin users.allowed, NEW t \in Task, Active(t) \/ Holds(t)
               PROVE  dev'[task[t].device].address \in {task[t].address, None}
    BY DEF AddressesAgree, Active, Holds
  <2>1. /\ task[t].device \in ids /\ task[t].device \in Device
        /\ dev[task[t].device].address \in {task[t].address, None}
    BY DEF CatalogInv, CatalogTypeInv, DevOK, TasksAreOfDevices, AddressesAgree
  <2>2. CASE task[t].device # d
    BY <1>1, <2>1, <2>2
  <2>3. CASE task[t].device = d
    <3>1. CASE Holds(t)
      <4>1. owner[d] # None
        BY <2>3, <3>1, NoneAssumption DEF CatalogInv, TasksHold
      <4> QED
        BY <1>1, <2>1, <2>3, <4>1 DEF SaveDevice
    <3>2. CASE task[t].status = "queued"
      BY <1>1, <2>1, <2>3, <3>2 DEF Queued
    <3> QED
      BY <3>1, <3>2 DEF Active, Holds
  <2> QED
    BY <2>2, <2>3
<1>7. TrustIsPinned'
  <2> SUFFICES ASSUME "stale" \notin users.allowed, NEW t \in Task,
                      task[t].status = "running", trusted[t] # None, t \notin revised'
               PROVE  dev'[task[t].device].pin = trusted[t]
    BY DEF TrustIsPinned
  <2>1. /\ task[t].device \in ids /\ task[t].device \in Device
        /\ dev[task[t].device].pin = trusted[t]
    BY DEF CatalogInv, CatalogTypeInv, DevOK, TasksAreOfDevices, TrustIsPinned, Active
  <2>2. owner[task[t].device] = t /\ t # None
    BY NoneAssumption DEF CatalogInv, TasksHold, Holds
  <2> QED
    BY <1>1, <2>1, <2>2
<1> QED
  BY <1>2, <1>3, <1>4, <1>5, <1>6, <1>7 DEF CatalogInv

\* A change by hand is one of those the user may make.
LEMMA ByHandCounts ==
  ASSUME UsersOK, NEW pin, NEW shown, ByHand(pin, shown), UNCHANGED <<users, scheduler, host>>
  PROVE  UsersOK'
<1>1. users.changes \in Nat /\ changes \in 0..users.changes
  BY UserAssumption DEF UsersOK
<1>2. changes' \in 0..users.changes
  BY <1>1 DEF ByHand
<1> QED
  BY <1>2 DEF UsersOK

\* The three ways a device is saved, and the look of an import.
LEMMA SavesKeepCatalog ==
  CatalogInv /\ (AddDevice \/ SaveForm \/ ImportDevice \/ ImportSave) => CatalogInv'
<1> SUFFICES ASSUME CatalogInv, AddDevice \/ SaveForm \/ ImportDevice \/ ImportSave PROVE CatalogInv'
  OBVIOUS
<1>0. DevOK /\ FormOK /\ ImportOK /\ UsersOK /\ TrustOK /\ OwnerOK
  BY DEF CatalogInv, CatalogTypeInv
<1>1. CASE AddDevice
  <2>1. PICK d \in Device \ ids, address \in Address, pin \in Key \cup {None} :
          ByHand(pin, None) /\ SaveDevice(d, address, pin)
    BY <1>1 DEF AddDevice
  <2>2. UNCHANGED <<users, member, task, owner, scheduler, form, import, host, trusted, revised>>
    BY <1>1 DEF AddDevice
  <2>3. FormOK' /\ ImportOK' /\ UsersOK'
    BY <1>0, <2>1, <2>2, ByHandCounts DEF FormOK, ImportOK
  <2>4. revised \subseteq revised' /\ revised' \subseteq Task
    BY <1>0, <2>2 DEF TrustOK
  <2> QED
    BY <2>1, <2>2, <2>3, <2>4, SaveKeepsCatalog
<1>2. CASE SaveForm
  <2> DEFINE d == form.address
  <2>1. /\ form # NoDevice /\ form' = NoDevice
        /\ UNCHANGED <<users, member, task, owner, scheduler, import, host, trusted>>
    BY <1>2 DEF SaveForm
  <2>2. PICK address \in Address, pin \in Key \cup {None} :
          /\ "edit" \in users.allowed \/ ~Queued(d) \/ address = dev[d].address
          /\ "stale" \in users.allowed \/ owner[d] = None \/ pin # form.pin \/ pin = dev[d].pin
          /\ ByHand(pin, form.pin) /\ SaveDevice(d, address, pin)
          /\ revised' = IF owner[d] # None /\ pin \notin {form.pin, dev[d].pin}
                        THEN revised \cup {owner[d]} ELSE revised
    BY <1>2 DEF SaveForm
  <2>3. d \in Device
    BY <1>0, <2>1 DEF FormOK
  <2>4. FormOK' /\ ImportOK' /\ UsersOK'
    BY <1>0, <2>1, <2>2, ByHandCounts DEF FormOK, ImportOK
  <2>5. owner[d] \in Task \cup {None} /\ revised \subseteq Task
    BY <1>0, <2>3 DEF OwnerOK, TrustOK
  <2>6. revised \subseteq revised' /\ revised' \subseteq Task
    BY <2>2, <2>5
  <2>7. \/ "stale" \in users.allowed \/ owner[d] \in {None} \cup revised'
        \/ pin = dev[d].pin
    BY <2>2
  <2> HIDE DEF d
  <2> QED
    BY <2>1, <2>2, <2>3, <2>4, <2>6, <2>7, SaveKeepsCatalog
<1>3. CASE ImportDevice
  <2>1. UNCHANGED <<users, dev, ids, member, task, owner, scheduler, form, host, trusted, revised, changes>>
    BY <1>3 DEF ImportDevice
  <2>2. PICK address \in import.todo :
          import' = IF \E d \in Known : dev[d].address = address
                    THEN [import EXCEPT !.todo = @ \ {address},
                                        !.mapped = @ \cup {d \in Known : dev[d].address = address}]
                    ELSE [import EXCEPT !.new = address]
    BY <1>3 DEF ImportDevice
  <2>3. ImportOK'
    BY <1>0, <2>1, <2>2 DEF ImportOK, Known
  <2> QED
    BY <2>1, <2>3 DEF CatalogInv, CatalogTypeInv, DevOK, TaskOK, OwnerOK, MemberOK, TrustOK,
       UsersOK, FormOK, AddressesAreUnique, KnownHaveIds, EnvironmentDevicesExist, TasksAreOfDevices,
       TasksHold, HeldAreKnown, AddressesAgree, TrustIsPinned, TrustIsOfRuns, Known, Active, Holds
<1>4. CASE ImportSave
  <2>1. /\ UNCHANGED <<users, member, task, owner, scheduler, form, host, trusted, revised, changes>>
        /\ import.new # None
    BY <1>4 DEF ImportSave
  <2>2. PICK d \in Device \ ids :
          \/ import' = NoImport /\ UNCHANGED <<dev, ids>>
          \/ /\ SaveDevice(d, import.new, None)
             /\ import' = [todo |-> import.todo \ {import.new},
                           mapped |-> import.mapped \cup {d}, new |-> None]
    BY <1>4 DEF ImportSave
  <2>3. /\ import.todo \subseteq users.file /\ import.mapped \subseteq Device
        /\ import.new \in Address
    BY <1>0, <2>1, UserAssumption DEF ImportOK, UsersOK
  <2>4. FormOK' /\ ImportOK' /\ UsersOK'
    BY <1>0, <2>1, <2>2, <2>3 DEF FormOK, ImportOK, UsersOK, NoImport
  <2>5. CASE UNCHANGED <<dev, ids>>
    BY <2>1, <2>4, <2>5 DEF CatalogInv, CatalogTypeInv, DevOK, TaskOK, OwnerOK, MemberOK, TrustOK,
       UsersOK, AddressesAreUnique, KnownHaveIds, EnvironmentDevicesExist, TasksAreOfDevices,
       TasksHold, HeldAreKnown, AddressesAgree, TrustIsPinned, TrustIsOfRuns, Known, Active, Holds
  <2>6. revised \subseteq revised' /\ revised' \subseteq Task
    BY <1>0, <2>1 DEF TrustOK
  <2> QED
    BY <2>1, <2>2, <2>3, <2>4, <2>5, <2>6, SaveKeepsCatalog
<1> QED
  BY <1>1, <1>2, <1>3, <1>4
\* Pinning changes a pin that is missing, of a device that is known, and nothing else.
LEMMA PinnedDevice ==
  ASSUME DevOK, NEW d, NEW key \in Key, NEW fallback, Pin(d, key, fallback)
  PROVE  /\ dev' \in [Device -> DevRow] /\ Known' = Known
         /\ \A e \in Device : /\ dev'[e].address = dev[e].address
                              /\ dev'[e].pin = dev[e].pin \/ (e = d /\ dev[e].pin = None)
         /\ d \in Known => dev'[d].pin = key
<1>1. CASE d \in Known /\ dev[d].pin = None
  <2>1. /\ dev' = [dev EXCEPT ![d].pin = key] /\ d \in Device /\ dev \in [Device -> DevRow]
    BY <1>1 DEF Pin, Known, DevOK
  <2>2. /\ dev'[d] = [dev[d] EXCEPT !.pin = key] /\ [dev[d] EXCEPT !.pin = key] \in DevRow
        /\ dev'[d].address = dev[d].address /\ dev'[d].pin = key
        /\ \A e \in Device : e # d => dev'[e] = dev[e]
        /\ dev' \in [Device -> DevRow]
    BY <2>1 DEF DevRow
  <2> QED
    BY <1>1, <2>2 DEF Known
<1>2. CASE ~(d \in Known /\ dev[d].pin = None)
  <2>1. dev' = dev
    BY <1>2 DEF Pin
  <2>2. d \in Known => dev[d].pin = key
    BY <1>2, NoneAssumption DEF Pin
  <2> QED
    BY <2>1, <2>2 DEF DevOK, Known
<1> QED
  BY <1>1, <1>2

\* A key that is pinned by a probe or a task was not there before, so that what a running task
\* has seen stays pinned.
LEMMA PinKeepsCatalog ==
  ASSUME CatalogInv, NEW d, NEW key \in Key, NEW fallback, Pin(d, key, fallback),
         UNCHANGED <<users, ids, member, task, owner, scheduler, form, import, host, changes>>,
         \/ UNCHANGED <<trusted, revised>>
         \/ \E t \in Task : /\ task[t].status = "running" /\ task[t].device = d
                            /\ trusted' = [trusted EXCEPT ![t] = key] /\ revised' = revised \ {t}
  PROVE  CatalogInv'
<1>1. /\ dev' \in [Device -> DevRow] /\ Known' = Known
      /\ \A e \in Device : /\ dev'[e].address = dev[e].address
                           /\ dev'[e].pin = dev[e].pin \/ (e = d /\ dev[e].pin = None)
      /\ d \in Known => dev'[d].pin = key
  <2>1. DevOK
    BY DEF CatalogInv, CatalogTypeInv
  <2> QED
    BY <2>1, PinnedDevice
<1>2. TrustOK' /\ TrustIsOfRuns'
  BY DEF CatalogInv, CatalogTypeInv, TrustOK, TrustIsOfRuns
<1>3. CatalogTypeInv'
  BY <1>1, <1>2 DEF CatalogInv, CatalogTypeInv, DevOK, TaskOK, OwnerOK, MemberOK, FormOK, ImportOK, UsersOK
<1>4. AddressesAreUnique' /\ KnownHaveIds' /\ EnvironmentDevicesExist' /\ HeldAreKnown'
  <2>1. Known \subseteq Device
    BY DEF Known
  <2> QED
    BY <1>1, <2>1 DEF CatalogInv, AddressesAreUnique, KnownHaveIds, EnvironmentDevicesExist,
       HeldAreKnown, Holds
<1>5. TasksAreOfDevices' /\ TasksHold'
  BY DEF CatalogInv, TasksAreOfDevices, TasksHold, Active, Holds
<1>6. AddressesAgree'
  <2>1. \A t \in Task : Active(t) \/ Holds(t) => task[t].device \in Device
    BY DEF CatalogInv, CatalogTypeInv, DevOK, TasksAreOfDevices
  <2> QED
    BY <1>1, <2>1 DEF CatalogInv, AddressesAgree, Active, Holds
<1>7. TrustIsPinned'
  <2> SUFFICES ASSUME "stale" \notin users.allowed, NEW t \in Task,
                      task[t].status = "running", trusted'[t] # None, t \notin revised'
               PROVE  dev'[task[t].device].pin = trusted'[t]
    BY DEF TrustIsPinned
  <2>1. /\ task[t].device \in Device /\ owner[task[t].device] = t /\ t # None
    BY NoneAssumption
       DEF CatalogInv, CatalogTypeInv, DevOK, TasksAreOfDevices, TasksHold, Active, Holds
  <2>2. task[t].device \in Known
    BY <2>1 DEF CatalogInv, HeldAreKnown
  <2>3. CASE trusted'[t] = trusted[t] /\ t \notin revised
    <3>1. dev[task[t].device].pin = trusted[t]
      BY <2>3 DEF CatalogInv, TrustIsPinned
    <3> QED
      BY <1>1, <2>1, <2>3, <3>1
  <2>4. CASE ~(trusted'[t] = trusted[t] /\ t \notin revised)
    <3>1. task[t].device = d /\ trusted'[t] = key
      BY <2>4 DEF CatalogInv, CatalogTypeInv, TrustOK
    <3> QED
      BY <1>1, <2>2, <3>1
  <2> QED
    BY <2>3, <2>4
<1> QED
  BY <1>2, <1>3, <1>4, <1>5, <1>6, <1>7 DEF CatalogInv

\* The address a probe or a task connects to has a host.
LEMMA ProbeKeepsCatalog == CatalogInv /\ Probe => CatalogInv'
<1> SUFFICES ASSUME CatalogInv, Probe PROVE CatalogInv'
  OBVIOUS
<1>1. PICK d \in Known : Pin(d, host[dev[d].address], None)
  BY DEF Probe
<1>2. host[dev[d].address] \in Key
  <2>1. d \in Device /\ dev[d].address # None
    BY DEF Known
  <2>2. dev[d].address \in Address
    BY <2>1 DEF CatalogInv, CatalogTypeInv, DevOK, DevRow
  <2> QED
    BY <2>2 DEF CatalogInv, CatalogTypeInv, UsersOK
<1>3. UNCHANGED <<users, ids, member, task, owner, scheduler, form, import, host, trusted, revised, changes>>
  BY DEF Probe
<1> QED
  BY <1>1, <1>2, <1>3, PinKeepsCatalog

\* A device that is deleted is nobody's, and in no environment.
LEMMA DeleteKeepsCatalog == CatalogInv /\ DeleteDevice => CatalogInv'
<1> SUFFICES ASSUME CatalogInv, DeleteDevice PROVE CatalogInv'
  OBVIOUS
<1>1. PICK d \in Known : Removable(d) /\ dev' = [dev EXCEPT ![d] = NoDevice]
  BY DEF DeleteDevice
<1>2. UNCHANGED <<users, ids, member, task, owner, scheduler, form, import, host, trusted, revised, changes>>
  BY DEF DeleteDevice
<1>3. d \in Device /\ NoDevice \in DevRow /\ NoDevice.address = None /\ dev \in [Device -> DevRow]
  BY DEF Known, NoDevice, DevRow, CatalogInv, CatalogTypeInv, DevOK
<1>4. /\ dev' \in [Device -> DevRow] /\ dev'[d].address = None
      /\ \A e \in Device : e # d => dev'[e] = dev[e]
  BY <1>1, <1>3
<1>5. Known' = Known \ {d}
  BY <1>3, <1>4 DEF Known
<1>6. CatalogTypeInv'
  BY <1>2, <1>4 DEF CatalogInv, CatalogTypeInv, DevOK, TaskOK, OwnerOK, MemberOK, TrustOK, FormOK,
     ImportOK, UsersOK
<1>7. AddressesAreUnique' /\ KnownHaveIds' /\ EnvironmentDevicesExist'
  <2>1. Known \subseteq Device
    BY DEF Known
  <2>2. AddressesAreUnique' /\ KnownHaveIds'
    BY <1>2, <1>4, <1>5, <2>1 DEF CatalogInv, AddressesAreUnique, KnownHaveIds
  <2>3. EnvironmentDevicesExist'
    BY <1>1, <1>2, <1>5 DEF CatalogInv, EnvironmentDevicesExist, Removable
  <2> QED
    BY <2>2, <2>3
<1>8. TasksAreOfDevices' /\ TasksHold' /\ TrustIsOfRuns'
  BY <1>2 DEF CatalogInv, TasksAreOfDevices, TasksHold, TrustIsOfRuns, Active, Holds
<1>9. HeldAreKnown'
  BY <1>1, <1>2, <1>5 DEF CatalogInv, HeldAreKnown, Holds, Removable
<1>10. AddressesAgree'
  <2>1. \A t \in Task : Active(t) \/ Holds(t) => task[t].device \in Device
    BY DEF CatalogInv, CatalogTypeInv, DevOK, TasksAreOfDevices
  <2> QED
    BY <1>2, <1>4, <2>1 DEF CatalogInv, AddressesAgree, Active, Holds
<1>11. TrustIsPinned'
  <2>1. ASSUME NEW t \in Task, task[t].status = "running"
        PROVE  task[t].device \in Device /\ task[t].device # d
    BY <1>1, <2>1, NoneAssumption
       DEF CatalogInv, CatalogTypeInv, DevOK, TasksAreOfDevices, TasksHold, Active, Holds, Removable
  <2> QED
    BY <1>2, <1>4, <2>1 DEF CatalogInv, TrustIsPinned
<1> QED
  BY <1>6, <1>7, <1>8, <1>9, <1>10, <1>11 DEF CatalogInv

\* An environment gets devices that are known; forms, imports, and other hosts touch neither
\* devices nor tasks.
LEMMA OthersKeepCatalog ==
  CatalogInv /\ (\/ OpenForm \/ SaveEnvironment \/ DeleteEnvironment \/ BeginImport
                 \/ ImportEnvironment \/ ReplaceHost)
    => CatalogInv'
<1> SUFFICES ASSUME CatalogInv,
                    \/ OpenForm \/ SaveEnvironment \/ DeleteEnvironment \/ BeginImport
                    \/ ImportEnvironment \/ ReplaceHost
             PROVE  CatalogInv'
  OBVIOUS
<1>1. UNCHANGED <<users, dev, ids, task, owner, scheduler, trusted, revised>>
  BY DEF OpenForm, SaveEnvironment, DeleteEnvironment, BeginImport, ImportEnvironment, ReplaceHost
<1>2. \/ member' = member
      \/ \E e \in Environment, devices \in SUBSET Known : member' = [member EXCEPT ![e] = devices]
  BY DEF OpenForm, SaveEnvironment, DeleteEnvironment, BeginImport, ImportEnvironment, ReplaceHost
<1>3. MemberOK' /\ EnvironmentDevicesExist'
  <2>1. Known \subseteq Device /\ Known' = Known
    BY <1>1 DEF Known
  <2> QED
    BY <1>2, <2>1 DEF CatalogInv, CatalogTypeInv, MemberOK, EnvironmentDevicesExist
<1>4. FormOK'
  <2>1. CASE OpenForm
    BY <2>1 DEF OpenForm, FormOK, Known, CatalogInv, CatalogTypeInv, DevOK, DevRow
  <2>2. CASE form' = form
    BY <2>2 DEF FormOK, CatalogInv, CatalogTypeInv
  <2> QED
    BY <2>1, <2>2 DEF SaveEnvironment, DeleteEnvironment, BeginImport, ImportEnvironment, ReplaceHost
<1>5. ImportOK'
  <2>1. CASE import' = import
    BY <1>1, <2>1 DEF ImportOK, CatalogInv, CatalogTypeInv
  <2>2. CASE BeginImport \/ ImportEnvironment
    BY <1>1, <2>2 DEF BeginImport, ImportEnvironment, NoImport, ImportOK
  <2> QED
    BY <2>1, <2>2 DEF OpenForm, SaveEnvironment, DeleteEnvironment, ReplaceHost
<1>6. UsersOK'
  <2>1. CASE ReplaceHost
    <3>1. changes \in 0..users.changes /\ users.changes \in Nat /\ changes < users.changes /\ changes' = changes + 1
      BY <2>1, UserAssumption DEF ReplaceHost, CatalogInv, CatalogTypeInv, UsersOK
    <3>2. changes' \in 0..users.changes
      BY <3>1
    <3>3. host' \in [Address -> Key]
      BY <2>1 DEF ReplaceHost, CatalogInv, CatalogTypeInv, UsersOK
    <3> QED
      BY <1>1, <3>2, <3>3 DEF UsersOK, CatalogInv, CatalogTypeInv
  <2>2. CASE host' = host /\ changes' = changes
    BY <1>1, <2>2 DEF UsersOK, CatalogInv, CatalogTypeInv
  <2> QED
    BY <2>1, <2>2 DEF OpenForm, SaveEnvironment, DeleteEnvironment, BeginImport, ImportEnvironment
<1> QED
  BY <1>1, <1>3, <1>4, <1>5, <1>6 DEF CatalogInv, CatalogTypeInv, DevOK, TaskOK, OwnerOK, TrustOK,
     AddressesAreUnique, KnownHaveIds, TasksAreOfDevices, TasksHold, HeldAreKnown, AddressesAgree,
     TrustIsPinned, TrustIsOfRuns, Known, Active, Holds
\* A new task names a device of an environment, which is known, and its address.
LEMMA CreateKeepsCatalog == CatalogInv /\ CreateTask => CatalogInv'
<1> SUFFICES ASSUME CatalogInv, CreateTask PROVE CatalogInv'
  OBVIOUS
<1>1. PICK t \in Task, e \in Environment : \E d \in member[e] :
        /\ task[t].status = "none"
        /\ task' = [task EXCEPT ![t] = [status |-> "queued", device |-> d,
                                        address |-> dev[d].address, pin |-> dev[d].pin]]
  BY DEF CreateTask
<1>2. PICK d \in member[e] :
        /\ task[t].status = "none"
        /\ task' = [task EXCEPT ![t] = [status |-> "queued", device |-> d,
                                        address |-> dev[d].address, pin |-> dev[d].pin]]
  BY <1>1
<1>3. UNCHANGED <<users, dev, ids, member, owner, scheduler, form, import, host, trusted, revised, changes>>
  BY DEF CreateTask
<1>4. d \in Known /\ d \in Device /\ d \in ids /\ dev[d] \in DevRow /\ dev[d].address \in Address
  BY DEF CatalogInv, CatalogTypeInv, DevOK, DevRow, EnvironmentDevicesExist, KnownHaveIds, Known
<1> DEFINE new == [status |-> "queued", device |-> d, address |-> dev[d].address, pin |-> dev[d].pin]
<1>5. new \in TaskRow /\ new.status = "queued" /\ new.device = d /\ new.address = dev[d].address
  BY <1>4 DEF TaskRow, DevRow
<1>6. task \in [Task -> TaskRow] /\ task' = [task EXCEPT ![t] = new]
  BY <1>2 DEF CatalogInv, CatalogTypeInv, TaskOK
<1> HIDE DEF new
<1>7. /\ task' \in [Task -> TaskRow] /\ task'[t] = new
      /\ \A u \in Task : u # t => task'[u] = task[u]
  BY <1>5, <1>6
<1>8. CatalogTypeInv'
  BY <1>3, <1>7 DEF CatalogInv, CatalogTypeInv, DevOK, TaskOK, OwnerOK, MemberOK, TrustOK, FormOK,
     ImportOK, UsersOK
<1>9. AddressesAreUnique' /\ KnownHaveIds' /\ EnvironmentDevicesExist'
  BY <1>3 DEF CatalogInv, AddressesAreUnique, KnownHaveIds, EnvironmentDevicesExist, Known
<1>10. TasksAreOfDevices' /\ TasksHold' /\ AddressesAgree' /\ TrustIsPinned'
  <2>1. TasksAreOfDevices' /\ TasksHold'
    BY <1>3, <1>4, <1>5, <1>7 DEF CatalogInv, TasksAreOfDevices, TasksHold, Active, Holds
  <2>2. AddressesAgree' /\ TrustIsPinned'
    BY <1>3, <1>5, <1>7 DEF CatalogInv, AddressesAgree, TrustIsPinned, Active, Holds
  <2> QED
    BY <2>1, <2>2
<1>11. HeldAreKnown'
  <2> SUFFICES ASSUME NEW e1 \in Device, owner[e1] # None
               PROVE  e1 \in Known /\ task'[owner[e1]].device = e1
                      /\ task'[owner[e1]].status \in {"running", "failed"}
    BY <1>3 DEF HeldAreKnown, Holds, Known
  <2>1. /\ e1 \in Known /\ task[owner[e1]].device = e1 /\ owner[e1] \in Task
        /\ task[owner[e1]].status \in {"running", "failed"}
    BY DEF CatalogInv, CatalogTypeInv, OwnerOK, HeldAreKnown, Holds
  <2> QED
    BY <1>2, <1>7, <2>1
<1>12. TrustIsOfRuns'
  BY <1>2, <1>3, <1>7 DEF CatalogInv, TrustIsOfRuns
<1> QED
  BY <1>8, <1>9, <1>10, <1>11, <1>12 DEF CatalogInv

\* A task that is claimed gets a device that is known and free.
LEMMA ClaimKeepsCatalog ==
  ASSUME CatalogInv, NEW t \in Task, Claim(t)
  PROVE  CatalogInv'
<1> DEFINE d == task[t].device
<1>1. /\ task[t].status = "queued" /\ owner[d] = None
      /\ UNCHANGED <<users, dev, ids, member, form, import, host, trusted, revised, changes>>
  BY DEF Claim
<1>2. CASE d \in Known
  <2>1. /\ owner' = [owner EXCEPT ![d] = t] /\ task' = [task EXCEPT ![t].status = "running"]
        /\ scheduler' = scheduler
    BY <1>2 DEF Claim
  <2>2. d \in Device /\ task \in [Task -> TaskRow] /\ owner \in [Device -> Task \cup {None}]
    BY <1>2 DEF Known, CatalogInv, CatalogTypeInv, TaskOK, OwnerOK
  <2>3. /\ task' \in [Task -> TaskRow] /\ task'[t].status = "running" /\ task'[t].device = d
        /\ task'[t].address = task[t].address
        /\ \A u \in Task : u # t => task'[u] = task[u]
    BY <2>1, <2>2 DEF TaskRow
  <2>4. /\ owner' \in [Device -> Task \cup {None}] /\ owner'[d] = t
        /\ \A e \in Device : e # d => owner'[e] = owner[e]
    BY <2>1, <2>2
  <2> HIDE DEF d
  <2>5. CatalogTypeInv'
    BY <1>1, <2>1, <2>3, <2>4 DEF CatalogInv, CatalogTypeInv, DevOK, TaskOK, OwnerOK, MemberOK,
       TrustOK, FormOK, ImportOK, UsersOK
  <2>6. AddressesAreUnique' /\ KnownHaveIds' /\ EnvironmentDevicesExist'
    BY <1>1 DEF CatalogInv, AddressesAreUnique, KnownHaveIds, EnvironmentDevicesExist, Known
  <2>7. TasksAreOfDevices' /\ AddressesAgree'
    BY <1>1, <2>3 DEF CatalogInv, TasksAreOfDevices, AddressesAgree, Active, Holds, d
  <2>8. TasksHold'
    <3> SUFFICES ASSUME NEW u \in Task, task'[u].status \in {"running", "failed"}
                 PROVE  owner'[task'[u].device] = u
      BY DEF TasksHold, Holds
    <3>1. CASE u = t
      BY <2>3, <2>4, <3>1
    <3>2. CASE u # t
      <4>1. owner[task[u].device] = u /\ task[u].device \in Device /\ u # None
        BY <2>3, <3>2, NoneAssumption
           DEF CatalogInv, CatalogTypeInv, DevOK, TasksHold, TasksAreOfDevices, Holds
      <4>2. task[u].device # d
        BY <1>1, <4>1 DEF d
      <4> QED
        BY <2>3, <2>4, <3>2, <4>1, <4>2
    <3> QED
      BY <3>1, <3>2
  <2>9. HeldAreKnown'
    <3> SUFFICES ASSUME NEW e \in Device, owner'[e] # None
                 PROVE  e \in Known /\ task'[owner'[e]].device = e
                        /\ task'[owner'[e]].status \in {"running", "failed"}
      BY <1>1 DEF HeldAreKnown, Holds, Known
    <3>1. CASE e = d
      BY <1>2, <2>3, <2>4, <3>1
    <3>2. CASE e # d
      <4>1. /\ owner'[e] = owner[e] /\ owner[e] \in Task /\ e \in Known
            /\ task[owner[e]].device = e /\ task[owner[e]].status \in {"running", "failed"}
        BY <2>4, <3>2 DEF CatalogInv, CatalogTypeInv, OwnerOK, HeldAreKnown, Holds
      <4> QED
        BY <1>1, <2>3, <4>1
    <3> QED
      BY <3>1, <3>2
  <2>10. TrustIsPinned' /\ TrustIsOfRuns'
    <3>1. trusted[t] = None
      BY <1>1 DEF CatalogInv, TrustIsOfRuns
    <3> QED
      BY <1>1, <2>3, <3>1 DEF CatalogInv, TrustIsPinned, TrustIsOfRuns
  <2> QED
    BY <2>5, <2>6, <2>7, <2>8, <2>9, <2>10 DEF CatalogInv
<1>3. CASE d \notin Known
  <2>1. scheduler' = FALSE /\ UNCHANGED <<owner, task>>
    BY <1>3 DEF Claim
  <2>2. CatalogTypeInv'
    BY <1>1, <2>1 DEF CatalogInv, CatalogTypeInv, DevOK, TaskOK, OwnerOK, MemberOK, TrustOK, FormOK,
       ImportOK, UsersOK
  <2>3. /\ AddressesAreUnique' /\ KnownHaveIds' /\ EnvironmentDevicesExist'
        /\ TasksAreOfDevices' /\ TasksHold' /\ HeldAreKnown'
    BY <1>1, <2>1 DEF CatalogInv, AddressesAreUnique, KnownHaveIds, EnvironmentDevicesExist,
       TasksAreOfDevices, TasksHold, HeldAreKnown, Known, Active, Holds
  <2>4. AddressesAgree' /\ TrustIsPinned' /\ TrustIsOfRuns'
    BY <1>1, <2>1 DEF CatalogInv, AddressesAgree, TrustIsPinned, TrustIsOfRuns, Active, Holds
  <2> QED
    BY <2>2, <2>3, <2>4 DEF CatalogInv
<1> QED
  BY <1>2, <1>3

\* A task that fails keeps its device, and one that connects pins the key it has seen.
LEMMA ConnectKeepsCatalog ==
  ASSUME CatalogInv, NEW t \in Task, Connect(t)
  PROVE  CatalogInv'
<1> DEFINE d == task[t].device
           key == host[task[t].address]
<1>1. /\ task[t].status = "running"
      /\ UNCHANGED <<users, ids, member, owner, scheduler, form, import, host, changes>>
  BY DEF Connect
<1>2. key \in Key
  <2>1. task[t].address \in Address
    BY <1>1 DEF CatalogInv, TasksAreOfDevices, Active
  <2> QED
    BY <2>1 DEF CatalogInv, CatalogTypeInv, UsersOK
<1>3. CASE /\ Pin(d, key, task[t].pin) /\ trusted' = [trusted EXCEPT ![t] = key]
           /\ revised' = revised \ {t} /\ UNCHANGED task
  BY <1>1, <1>2, <1>3, PinKeepsCatalog
<1>4. CASE task' = [task EXCEPT ![t].status = "failed"] /\ UNCHANGED <<dev, trusted, revised>>
  <2>1. task \in [Task -> TaskRow]
    BY DEF CatalogInv, CatalogTypeInv, TaskOK
  <2>2. /\ task' \in [Task -> TaskRow] /\ task'[t].status = "failed" /\ task'[t].device = task[t].device
        /\ task'[t].address = task[t].address
        /\ \A u \in Task : u # t => task'[u] = task[u]
    BY <1>4, <2>1 DEF TaskRow
  <2>3. \A u \in Task : /\ task'[u].device = task[u].device /\ task'[u].address = task[u].address
                        /\ task'[u].status \in {"running", "failed"}
                             <=> task[u].status \in {"running", "failed"}
                        /\ task'[u].status \in {"queued", "running"}
                             => task[u].status \in {"queued", "running"}
                        /\ task'[u].status \in {"none", "queued"} => task[u].status \in {"none", "queued"}
                        /\ task'[u].status = "running" => task[u].status = "running"
    BY <1>1, <2>2
  <2>4. CatalogTypeInv'
    BY <1>1, <1>4, <2>2 DEF CatalogInv, CatalogTypeInv, DevOK, TaskOK, OwnerOK, MemberOK, TrustOK,
       FormOK, ImportOK, UsersOK
  <2>5. AddressesAreUnique' /\ KnownHaveIds' /\ EnvironmentDevicesExist'
    BY <1>1, <1>4 DEF CatalogInv, AddressesAreUnique, KnownHaveIds, EnvironmentDevicesExist, Known
  <2>6. TasksAreOfDevices' /\ TasksHold'
    BY <1>1, <2>3 DEF CatalogInv, TasksAreOfDevices, TasksHold, Active, Holds
  <2>7. AddressesAgree' /\ TrustIsPinned' /\ TrustIsOfRuns'
    BY <1>1, <1>4, <2>3 DEF CatalogInv, AddressesAgree, TrustIsPinned, TrustIsOfRuns, Active, Holds
  <2>8. HeldAreKnown'
    <3>1. \A e \in Device : owner[e] # None => owner[e] \in Task
      BY DEF CatalogInv, CatalogTypeInv, OwnerOK
    <3> QED
      BY <1>1, <1>4, <2>3, <3>1 DEF CatalogInv, HeldAreKnown, Holds, Known
  <2> QED
    BY <2>4, <2>5, <2>6, <2>7, <2>8 DEF CatalogInv
<1> QED
  BY <1>3, <1>4 DEF Connect

\* A task that ends gives back what it holds, and what others hold stays theirs.
LEMMA EndKeepsCatalog ==
  ASSUME CatalogInv, NEW t \in Task, End(t)
  PROVE  CatalogInv'
<1>1. /\ task' = [task EXCEPT ![t].status = "ended"]
      /\ owner' = [d \in Device |-> IF owner[d] = t THEN None ELSE owner[d]]
      /\ UNCHANGED <<users, dev, ids, member, scheduler, form, import, host, trusted, revised, changes>>
  BY DEF End
<1>2. task \in [Task -> TaskRow] /\ owner \in [Device -> Task \cup {None}]
  BY DEF CatalogInv, CatalogTypeInv, TaskOK, OwnerOK
<1>3. /\ task' \in [Task -> TaskRow] /\ task'[t].status = "ended"
      /\ \A u \in Task : u # t => task'[u] = task[u]
  BY <1>1, <1>2 DEF TaskRow
<1>4. owner' \in [Device -> Task \cup {None}]
  BY <1>1, <1>2
<1>5. CatalogTypeInv'
  BY <1>1, <1>3, <1>4 DEF CatalogInv, CatalogTypeInv, DevOK, TaskOK, OwnerOK, MemberOK, TrustOK,
     FormOK, ImportOK, UsersOK
<1>6. AddressesAreUnique' /\ KnownHaveIds' /\ EnvironmentDevicesExist'
  BY <1>1 DEF CatalogInv, AddressesAreUnique, KnownHaveIds, EnvironmentDevicesExist, Known
<1>7. TasksAreOfDevices' /\ AddressesAgree' /\ TrustIsPinned' /\ TrustIsOfRuns'
  <2>1. TasksAreOfDevices' /\ AddressesAgree'
    BY <1>1, <1>3 DEF CatalogInv, TasksAreOfDevices, AddressesAgree, Active, Holds
  <2>2. TrustIsPinned' /\ TrustIsOfRuns'
    BY <1>1, <1>3 DEF CatalogInv, TrustIsPinned, TrustIsOfRuns
  <2> QED
    BY <2>1, <2>2
<1>8. TasksHold'
  <2> SUFFICES ASSUME NEW u \in Task, task'[u].status \in {"running", "failed"}
               PROVE  owner'[task'[u].device] = u
    BY DEF TasksHold, Holds
  <2>1. u # t /\ task'[u] = task[u]
    BY <1>3
  <2>2. owner[task[u].device] = u /\ task[u].device \in Device
    BY <2>1 DEF CatalogInv, CatalogTypeInv, DevOK, TasksHold, TasksAreOfDevices, Holds
  <2> QED
    BY <1>1, <2>1, <2>2
<1>9. HeldAreKnown'
  <2> SUFFICES ASSUME NEW e \in Device, owner'[e] # None
               PROVE  e \in Known /\ task'[owner'[e]].device = e
                      /\ task'[owner'[e]].status \in {"running", "failed"}
    BY <1>1 DEF HeldAreKnown, Holds, Known
  <2>1. owner'[e] = owner[e] /\ owner[e] # t /\ owner[e] \in Task
    BY <1>1, <1>2
  <2> QED
    BY <1>3, <2>1 DEF CatalogInv, HeldAreKnown, Holds
<1> QED
  BY <1>5, <1>6, <1>7, <1>8, <1>9 DEF CatalogInv

\* Initially there are no devices and no tasks.
LEMMA InitCatalog == Init => CatalogInv
<1> SUFFICES ASSUME Init PROVE CatalogInv
  OBVIOUS
<1>1. Known = {} /\ \A t \in Task : ~Active(t) /\ ~Holds(t) /\ task[t].status = "none"
  BY DEF Init, Known, NoDevice, NoTask, Active, Holds
<1>2. DevOK /\ TaskOK /\ OwnerOK /\ MemberOK /\ TrustOK
  BY DEF Init, DevOK, DevRow, TaskOK, TaskRow, OwnerOK, MemberOK, TrustOK, NoDevice, NoTask
<1>3. FormOK /\ ImportOK
  BY DEF Init, FormOK, ImportOK, NoImport
<1>4. UsersOK
  <2>1. users.changes \in Nat
    BY UserAssumption DEF Init
  <2>2. 0 \in 0..users.changes
    BY <2>1
  <2> QED
    BY <2>2 DEF Init, UsersOK
<1>5. AddressesAreUnique /\ KnownHaveIds /\ EnvironmentDevicesExist
  BY <1>1 DEF Init, AddressesAreUnique, KnownHaveIds, EnvironmentDevicesExist
<1>6. TasksAreOfDevices /\ TasksHold /\ AddressesAgree /\ TrustIsPinned
  BY <1>1 DEF TasksAreOfDevices, TasksHold, AddressesAgree, TrustIsPinned
<1>7. HeldAreKnown /\ TrustIsOfRuns
  BY DEF Init, HeldAreKnown, TrustIsOfRuns
<1> QED
  BY <1>2, <1>3, <1>4, <1>5, <1>6, <1>7 DEF CatalogInv, CatalogTypeInv

\* Every step keeps all of it.
LEMMA CatalogStep == CatalogInv /\ [Next]_vars => CatalogInv'
<1> SUFFICES ASSUME CatalogInv, [Next]_vars PROVE CatalogInv'
  OBVIOUS
<1>1. CASE UNCHANGED vars
  BY <1>1 DEF vars, CatalogInv, CatalogTypeInv, DevOK, TaskOK, OwnerOK, MemberOK, TrustOK, FormOK,
     ImportOK, UsersOK, AddressesAreUnique, KnownHaveIds, EnvironmentDevicesExist,
     TasksAreOfDevices, TasksHold, HeldAreKnown, AddressesAgree, TrustIsPinned, TrustIsOfRuns,
     Known, Active, Holds
<1> QED
  BY <1>1, SavesKeepCatalog, DeleteKeepsCatalog, OthersKeepCatalog, ProbeKeepsCatalog,
     CreateKeepsCatalog, ClaimKeepsCatalog, ConnectKeepsCatalog, EndKeepsCatalog DEF Next

\* However devices are added, edited, deleted and imported while tasks are created, claimed,
\* connect and end: no environment names a device that is gone, and, while nobody edits the
\* address of a device a queued task names, two tasks that hold their devices never work at one
\* address.
THEOREM CatalogIsAlwaysConsistent == Spec => []CatalogIsConsistent
BY InitCatalog, CatalogStep, CatalogInvIsEnough, PTL DEF Spec

\* Where nobody saves a stale form, a task keeps to the host it has connected to first,
\* whichever hosts are replaced, until a user changes the fingerprint of its device by hand; and
\* evidence is kept (EvidenceIsAlwaysKept).
THEOREM SeenIsAlwaysKept ==
  ASSUME \A u \in Users : "stale" \notin u.allowed
  PROVE  Spec /\ CaptureSpec => SeenIsKept
<1> DEFINE Stays == \A t \in Task : trusted[t] # None /\ t \notin revised => trusted'[t] = trusted[t]
<1>1. CatalogInv /\ [Next]_vars => [Stays]_vars
  <2> SUFFICES ASSUME CatalogInv, Next, NEW t \in Task, trusted[t] # None, t \notin revised
               PROVE  trusted'[t] = trusted[t]
    OBVIOUS
  <2>1. CASE trusted' = trusted
    BY <2>1
  <2>2. ASSUME NEW u \in Task, Connect(u), trusted' # trusted
        PROVE  trusted'[t] = trusted[t]
    <3> DEFINE d == task[u].device
               key == host[task[u].address]
    <3>1. /\ task[u].status = "running" /\ trusted' = [trusted EXCEPT ![u] = key]
          /\ dev[d].pin # None => dev[d].pin = key
      BY <2>2 DEF Connect, Pin
    <3>2. CASE u = t
      <4>1. dev[d].pin = trusted[t]
        BY <3>1, <3>2 DEF CatalogInv, CatalogTypeInv, UsersOK, TrustIsPinned
      <4> QED
        BY <3>1, <3>2, <4>1 DEF CatalogInv, CatalogTypeInv, TrustOK
    <3> QED
      BY <3>1, <3>2
  <2> QED
    BY <2>1, <2>2 DEF Next, AddDevice, OpenForm, SaveForm, DeleteDevice, SaveEnvironment,
       DeleteEnvironment, BeginImport, ImportDevice, ImportSave, ImportEnvironment, CreateTask,
       Probe, ReplaceHost, Claim, End
<1>2. Spec => HostStaysTheSame
  BY <1>1, InitCatalog, CatalogStep, PTL DEF Spec, HostStaysTheSame
<1> QED
  BY <1>2, EvidenceIsAlwaysKept DEF SeenIsKept
=============================================================================
