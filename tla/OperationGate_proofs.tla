------------------------- MODULE OperationGate_proofs -------------------------
(* Theorems about OperationGate, for every value of its constants. *)
EXTENDS OperationGate, TLAPS

-----------------------------------------------------------------------------
(* Types.                                                                    *)

\* Previews that change their status together stay previews.
LEMMA SetPreviewsType ==
  ASSUME preview \in [PreviewId -> PreviewRow],
         NEW from, NEW to \in PreviewStatus
  PROVE  SetPreviews(from, to) \in [PreviewId -> PreviewRow]
BY DEF SetPreviews, PreviewRow

\* Operations that change their status together stay operations.
LEMMA SetApprovalsType ==
  ASSUME approval \in [ApprovalId -> ApprovalRow],
         NEW from, NEW to \in ApprovalStatus
  PROVE  SetApprovals(from, to) \in [ApprovalId -> ApprovalRow]
BY DEF SetApprovals, ApprovalRow

\* A preview whose position advances stays a preview.
LEMMA AdvanceType ==
  ASSUME NEW row \in PreviewRow
  PROVE  [row EXCEPT !.position = @ + 1] \in PreviewRow
BY DEF PreviewRow

\* A failing task (_fail) keeps its types.
LEMMA FailType ==
  ASSUME TypeOK, Fail
  PROVE  /\ status' \in Status
         /\ scene' \in Scene
         /\ preview' \in [PreviewId -> PreviewRow]
BY SetPreviewsType DEF TypeOK, Fail, Status, Scene, PreviewStatus

\* A run of the platform keeps every row and every flag in its type.
THEOREM TypeCorrect == Spec => []TypeOK
<1>1. ASSUME Init PROVE TypeOK
  <2>1. preview \in [PreviewId -> PreviewRow]
    <3>1. <<>> \in Seq(Operation)
      OBVIOUS
    <3> QED BY <1>1, <3>1 DEF Init, PreviewRow, PreviewStatus
  <2>2. approval \in [ApprovalId -> ApprovalRow]
    BY <1>1 DEF Init, ApprovalRow, ApprovalStatus
  <2> QED
    BY <1>1, <2>1, <2>2 DEF Init, TypeOK, Status, Scene, CallPc, WorkerPc, StopperPc
<1>2. TypeOK /\ [Next]_vars => TypeOK'
  <2> SUFFICES ASSUME TypeOK, [Next]_vars PROVE TypeOK'
    OBVIOUS
  <2> USE DEF TypeOK, vars, taskVars, rowVars, callVars, runVars, userVars
  <2>1. CASE CallStep
    <3> USE DEF Goto, Return, RaiseError, RaiseCancelled, CallPc, WorkerPc
    <3>1. CASE FailCall       BY <3>1, FailType DEF FailCall
    <3>2. CASE CancelCall     BY <3>2 DEF CancelCall
    <3>3. CASE CallFinish     BY <3>3 DEF CallFinish
    <3>4. CASE ProposePreview
      <4>1. CASE status = "running" /\ Unfinished = {}
        <5>1. PICK p \in FreePreview, ops \in Plan :
                /\ preview' = [SetPreviews({"approved"}, "superseded") EXCEPT ![p] =
                     [status |-> "pending", ops |-> ops, position |-> 0, confirmed |-> FALSE]]
                /\ status' = "waiting_user"
                /\ pc' = "await_preview" /\ subject' = p /\ UNCHANGED <<worker, finished>>
          BY <3>4, <4>1 DEF ProposePreview
        <5>2. ops \in Seq(Operation) /\ p \in PreviewId
          BY PlanAssumption DEF FreePreview, PreviewsIn
        <5>3. preview' \in [PreviewId -> PreviewRow]
          <6>1. SetPreviews({"approved"}, "superseded") \in [PreviewId -> PreviewRow]
            BY SetPreviewsType DEF PreviewStatus
          <6>2. [status |-> "pending", ops |-> ops, position |-> 0, confirmed |-> FALSE]
                  \in PreviewRow
            BY <5>2 DEF PreviewRow, PreviewStatus
          <6> QED BY <5>1, <5>2, <6>1, <6>2
        <5> QED BY <3>4, <5>1, <5>2, <5>3 DEF ProposePreview, Status
      <4>2. CASE ~(status = "running" /\ Unfinished = {})
        BY <3>4, <4>2 DEF ProposePreview
      <4> QED BY <4>1, <4>2
    <3>5. CASE AwaitPreview   BY <3>5, UnreadAssumption DEF AwaitPreview, PreviewDecided
    <3>6. CASE Ask            BY <3>6 DEF Ask, Status
    <3>7. CASE AwaitAnswer    BY <3>7, UnreadAssumption DEF AwaitAnswer
    <3>8. CASE Answered       BY <3>8 DEF Answered, Status
    <3>9. CASE CompleteStep   BY <3>9 DEF CompleteStep
    <3>10. CASE PassCheck     BY <3>10 DEF PassCheck
    <3>11. CASE RequestOperation
      <4>1. PICK op \in Operation, a \in FreeApproval :
              IF status = "running" /\ held /\ Matching(op) # {}
              THEN \E p \in Matching(op) :
                     /\ approval' = [approval EXCEPT ![a] =
                          [status |-> Requested(op), op |-> op, plan |-> p,
                           pos |-> preview[p].position, granted |-> FALSE, output |-> "none"]]
                     /\ status' = IF Requested(op) = "pending" THEN "waiting_user" ELSE status
                     /\ pc' = "await_grant" /\ subject' = a /\ UNCHANGED <<worker, finished>>
              ELSE RaiseError /\ UNCHANGED <<status, approval>>
        BY <3>11 DEF RequestOperation
      <4>2. a \in ApprovalId
        BY DEF FreeApproval, ApprovalsIn
      <4>3. CASE status = "running" /\ held /\ Matching(op) # {}
        <5>1. PICK p \in Matching(op) :
                /\ approval' = [approval EXCEPT ![a] =
                     [status |-> Requested(op), op |-> op, plan |-> p,
                      pos |-> preview[p].position, granted |-> FALSE, output |-> "none"]]
                /\ status' = IF Requested(op) = "pending" THEN "waiting_user" ELSE status
                /\ pc' = "await_grant" /\ subject' = a /\ UNCHANGED <<worker, finished>>
          BY <4>1, <4>3
        <5>2. p \in PreviewId /\ preview[p].position \in Nat
          BY DEF Matching, PreviewsIn, PreviewRow
        <5>3. approval' \in [ApprovalId -> ApprovalRow]
          BY <5>1, <5>2, <4>2 DEF Requested, ApprovalRow, ApprovalStatus
        <5> QED BY <3>11, <5>1, <5>3, <4>2 DEF RequestOperation, Status
      <4>4. CASE ~(status = "running" /\ held /\ Matching(op) # {})
        BY <3>11, <4>1, <4>4 DEF RequestOperation
      <4> QED BY <4>3, <4>4
    <3>12. CASE AwaitGrant       BY <3>12, UnreadAssumption DEF AwaitGrant
    <3>13. CASE DrainBeforeStart BY <3>13, UnreadAssumption DEF DrainBeforeStart
    <3>14. CASE Displace
      BY <3>14 DEF Displace, ApprovalRow, ApprovalStatus
    <3>15. CASE ConsumeOperation
      <4>1. approval' \in [ApprovalId -> ApprovalRow]
        BY <3>15 DEF ConsumeOperation, ApprovalRow, ApprovalStatus
      <4>2. preview' \in [PreviewId -> PreviewRow]
        <5>1. CASE Startable(subject)
          <6> DEFINE p == approval[subject].plan
          <6>1. p \in PreviewId /\ preview[p] \in PreviewRow
            BY <5>1 DEF Startable, Matching, PreviewsIn
          <6>2. [preview[p] EXCEPT !.position = @ + 1] \in PreviewRow
            BY <6>1, AdvanceType
          <6>3. preview' = [preview EXCEPT ![p] = [preview[p] EXCEPT !.position = @ + 1]]
            BY <3>15, <5>1, <6>1 DEF ConsumeOperation
          <6> HIDE DEF p
          <6> QED BY <6>1, <6>2, <6>3
        <5>2. CASE ~Startable(subject)
          BY <3>15, <5>2 DEF ConsumeOperation
        <5> QED BY <5>1, <5>2
      <4> QED BY <3>15, <4>1, <4>2 DEF ConsumeOperation, Scene
    <3>16. CASE RecordResult
      <4>1. PICK out \in {"ok", "error"} :
              approval' = [approval EXCEPT ![subject].status = "finished",
                                           ![subject].output = out]
        BY <3>16 DEF RecordResult
      <4>2. ASSUME NEW a \in ApprovalId PROVE approval'[a] \in ApprovalRow
        <5>1. CASE a = subject
          <6>1. approval'[a] = [approval[a] EXCEPT !.status = "finished", !.output = out]
            BY <4>1, <5>1
          <6> QED BY <6>1 DEF ApprovalRow, ApprovalStatus
        <5>2. CASE a # subject
          <6>1. approval'[a] = approval[a]
            BY <4>1, <5>2
          <6> QED BY <6>1
        <5> QED BY <5>1, <5>2
      <4>3. approval' \in [ApprovalId -> ApprovalRow]
        BY <4>1, <4>2
      <4> QED BY <3>16, <4>3 DEF RecordResult
    <3> QED
      BY <2>1, <3>1, <3>2, <3>3, <3>4, <3>5, <3>6, <3>7, <3>8, <3>9, <3>10, <3>11, <3>12,
         <3>13, <3>14, <3>15, <3>16 DEF CallStep
  <2>2. CASE AgentStep
    <3> USE DEF Goto, Return, RaiseError, RaiseCancelled, CallPc, WorkerPc
    <3>1. CASE \E action \in Actions : BeginCall(action)  BY <3>1 DEF BeginCall, Actions
    <3>2. CASE InvalidCall                                BY <3>2 DEF InvalidCall
    <3>3. CASE BackendDrain             BY <3>3, UnreadAssumption DEF BackendDrain
    <3> QED BY <2>2, <3>1, <3>2, <3>3 DEF AgentStep
  <2>3. CASE WorkerStep
    <3>1. CASE BackendReturns    BY <3>1 DEF BackendReturns, WorkerPc
    <3>2. CASE BackendFails      BY <3>2, FailType DEF BackendFails, WorkerPc
    <3>3. CASE BackendCancelled  BY <3>3 DEF BackendCancelled, WorkerPc
    <3>4. CASE Finish            BY <3>4, FailType DEF Finish, WorkerPc, Status, Scene
    <3>5. CASE WorkerEnds        BY <3>5 DEF WorkerEnds, WorkerPc
    <3> QED BY <2>3, <3>1, <3>2, <3>3, <3>4, <3>5 DEF WorkerStep
  <2>4. CASE UserStep
    <3>1. ASSUME NEW p \in PreviewId, ApprovePreview(p) PROVE TypeOK'
      BY <3>1 DEF ApprovePreview, PreviewRow, PreviewStatus, Status
    <3>2. ASSUME NEW p \in PreviewId, RejectPreview(p) PROVE TypeOK'
      BY <3>2 DEF RejectPreview, PreviewRow, PreviewStatus, Status
    <3>3. ASSUME NEW a \in ApprovalId, Approve(a) PROVE TypeOK'
      BY <3>3 DEF Approve, ApprovalRow, ApprovalStatus, Status
    <3>4. CASE Message
      <4>1. unread' \in 0..MaxUnread
        BY <3>4, UnreadAssumption DEF Message, Void
      <4> QED BY <3>4, <4>1, SetPreviewsType, SetApprovalsType
              DEF Message, Void, PreviewStatus, ApprovalStatus, Status
    <3>5. CASE RejectOperation  BY <3>5, FailType DEF RejectOperation
    <3>6. CASE StopCheck        BY <3>6 DEF StopCheck, StopperPc
    <3>7. CASE ReleaseScene     BY <3>7 DEF ReleaseScene, Scene
    <3> QED BY <2>4, <3>1, <3>2, <3>3, <3>4, <3>5, <3>6, <3>7 DEF UserStep
  <2>5. CASE RequestStep
    <3>1. CASE SignalCancel  BY <3>1 DEF SignalCancel
    <3>2. CASE StopMark
      BY <3>2, SetPreviewsType DEF StopMark, StopperPc, Status, PreviewStatus
    <3>3. CASE StopSignal    BY <3>3 DEF StopSignal, StopperPc
    <3>4. CASE Terminate     BY <3>4 DEF Terminate, StopperPc, Status, Scene
    <3> QED BY <2>5, <3>1, <3>2, <3>3, <3>4 DEF RequestStep
  <2>6. CASE Restart
    BY <2>6, SetPreviewsType
       DEF Restart, Status, Scene, PreviewStatus, CallPc, WorkerPc, StopperPc
  <2>7. CASE UNCHANGED vars
    BY <2>7
  <2> QED BY <2>1, <2>2, <2>3, <2>4, <2>5, <2>6, <2>7 DEF Next
<1> QED BY <1>1, <1>2, PTL DEF Spec

-----------------------------------------------------------------------------
(* No operation runs behind an unread request.                               *)

\* No step but the user's approval makes a preview an approved one.
NoNewApproval ==
  \A p \in PreviewId : preview'[p].status = "approved" => preview[p].status = "approved"

\* A step that approves nothing and adds no message leaves nothing unread behind an approval.
LEMMA KeptReadBehindApproval ==
  ASSUME NothingUnreadBehindApproval, NoNewApproval, unread' \in {unread, 0}
  PROVE  NothingUnreadBehindApproval'
BY DEF NothingUnreadBehindApproval, NoNewApproval, PreviewsIn

\* What a joint change of the previews does to one of them.
LEMMA SetPreviewsStatus ==
  ASSUME preview \in [PreviewId -> PreviewRow], NEW from, NEW to, NEW p \in PreviewId
  PROVE  SetPreviews(from, to)[p].status = IF preview[p].status \in from
                                           THEN to ELSE preview[p].status
BY DEF SetPreviews, PreviewRow

\* A failing task approves nothing.
LEMMA FailNoNewApproval ==
  ASSUME TypeOK, Fail
  PROVE  NoNewApproval
BY SetPreviewsStatus DEF TypeOK, Fail, NoNewApproval

\* While a preview is approved the user has said nothing the agent has not read:
\* a message supersedes the preview it arrives behind, and a preview is approved
\* only when nothing is left to read.
THEOREM ApprovalsAreUpToDate == Spec => []NothingUnreadBehindApproval
<1>1. Init => NothingUnreadBehindApproval
  BY DEF Init, NothingUnreadBehindApproval, PreviewsIn
<1>2. TypeOK /\ NothingUnreadBehindApproval /\ [Next]_vars => NothingUnreadBehindApproval'
  <2> SUFFICES ASSUME TypeOK, NothingUnreadBehindApproval, [Next]_vars
               PROVE  NothingUnreadBehindApproval'
    OBVIOUS
  <2> USE DEF rowVars
  <2>1. CASE CallStep
    <3>1. CASE FailCall
      BY <3>1, FailNoNewApproval, KeptReadBehindApproval DEF FailCall
    <3>2. CASE ProposePreview
      <4>1. NoNewApproval
        <5>1. CASE UNCHANGED preview
          BY <5>1 DEF NoNewApproval
        <5>2. ASSUME NEW q \in PreviewId, NEW ops,
                preview' = [SetPreviews({"approved"}, "superseded") EXCEPT ![q] =
                  [status |-> "pending", ops |-> ops, position |-> 0, confirmed |-> FALSE]]
              PROVE  NoNewApproval
          <6> SUFFICES ASSUME NEW p \in PreviewId PROVE preview'[p].status # "approved"
            BY DEF NoNewApproval
          <6>1. SetPreviews({"approved"}, "superseded")[p].status # "approved"
            BY SetPreviewsStatus DEF TypeOK
          <6> QED BY <5>2, <6>1 DEF SetPreviews
        <5> QED BY <3>2, <5>1, <5>2 DEF ProposePreview, FreePreview, PreviewsIn
      <4> QED BY <3>2, <4>1, KeptReadBehindApproval DEF ProposePreview
    <3>3. CASE ConsumeOperation
      <4>1. \/ UNCHANGED preview
            \/ \E q : preview' = [preview EXCEPT ![q].position = @ + 1]
        BY <3>3 DEF ConsumeOperation
      <4>2. ASSUME NEW p \in PreviewId PROVE preview'[p].status = preview[p].status
        <5>1. preview[p] \in PreviewRow
          BY DEF TypeOK
        <5> QED BY <4>1, <5>1 DEF TypeOK, PreviewRow
      <4>3. NoNewApproval
        BY <4>2 DEF NoNewApproval
      <4> QED BY <3>3, <4>3, KeptReadBehindApproval DEF ConsumeOperation
    <3>4. CASE UNCHANGED preview /\ unread' \in {unread, 0}
      BY <3>4 DEF NothingUnreadBehindApproval, PreviewsIn
    <3> QED
      BY <2>1, <3>1, <3>2, <3>3, <3>4
         DEF CallStep, CancelCall, CallFinish, AwaitPreview, Ask, AwaitAnswer, Answered,
             CompleteStep, PassCheck, RequestOperation, AwaitGrant, DrainBeforeStart,
             Displace, RecordResult, PreviewDecided
  <2>2. CASE AgentStep
    BY <2>2 DEF AgentStep, BeginCall, InvalidCall, BackendDrain,
                NothingUnreadBehindApproval, PreviewsIn
  <2>3. CASE WorkerStep
    <3>1. UNCHANGED unread /\ NoNewApproval
      BY <2>3, FailNoNewApproval
         DEF WorkerStep, BackendReturns, BackendFails, BackendCancelled, Finish, WorkerEnds,
             NoNewApproval
    <3> QED BY <3>1, KeptReadBehindApproval
  <2>4. CASE UserStep
    <3>1. ASSUME NEW p \in PreviewId, ApprovePreview(p) PROVE NothingUnreadBehindApproval'
      BY <3>1 DEF ApprovePreview, NothingUnreadBehindApproval
    <3>2. ASSUME NEW p \in PreviewId, RejectPreview(p) PROVE NothingUnreadBehindApproval'
      <4>1. NoNewApproval
        BY <3>2 DEF RejectPreview, NoNewApproval, TypeOK, PreviewRow
      <4> QED BY <3>2, <4>1, KeptReadBehindApproval DEF RejectPreview
    <3>3. CASE Message
      <4> SUFFICES ASSUME NEW p \in PreviewId PROVE preview'[p].status # "approved"
        BY DEF NothingUnreadBehindApproval, PreviewsIn
      <4>1. SetPreviews({"pending", "approved"}, "superseded")[p].status # "approved"
        BY SetPreviewsStatus DEF TypeOK
      <4> QED BY <3>3, <4>1 DEF Message, Void, PreviewsIn
    <3>4. CASE RejectOperation
      BY <3>4, FailNoNewApproval, KeptReadBehindApproval DEF RejectOperation
    <3>5. CASE UNCHANGED <<preview, unread>>
      BY <3>5 DEF NothingUnreadBehindApproval, PreviewsIn
    <3> QED
      BY <2>4, <3>1, <3>2, <3>3, <3>4, <3>5 DEF UserStep, Approve, StopCheck, ReleaseScene
  <2>5. CASE RequestStep
    <3>1. CASE StopMark
      <4>1. NoNewApproval
        BY <3>1, SetPreviewsStatus DEF StopMark, NoNewApproval, TypeOK
      <4> QED BY <3>1, <4>1, KeptReadBehindApproval DEF StopMark
    <3>2. CASE UNCHANGED <<preview, unread>>
      BY <3>2 DEF NothingUnreadBehindApproval, PreviewsIn
    <3> QED BY <2>5, <3>1, <3>2 DEF RequestStep, SignalCancel, StopSignal, Terminate
  <2>6. CASE Restart
    <3>1. NoNewApproval
      BY <2>6, SetPreviewsStatus DEF Restart, NoNewApproval, TypeOK
    <3> QED BY <2>6, <3>1, KeptReadBehindApproval DEF Restart
  <2>7. CASE UNCHANGED vars
    BY <2>7 DEF vars, NothingUnreadBehindApproval, PreviewsIn
  <2> QED BY <2>1, <2>2, <2>3, <2>4, <2>5, <2>6, <2>7 DEF Next
<1> QED BY <1>1, <1>2, TypeCorrect, PTL DEF Spec

\* The operation of a call that executes has been consumed.
ExecutingIsConsumed ==
  \A a \in ApprovalId : pc = "executing" /\ subject = a => approval[a].status = "consumed"

\* What a joint change of the operations does to one of them.
LEMMA SetApprovalsRow ==
  ASSUME approval \in [ApprovalId -> ApprovalRow], NEW from, NEW to, NEW a \in ApprovalId
  PROVE  /\ SetApprovals(from, to)[a].status = IF approval[a].status \in from
                                               THEN to ELSE approval[a].status
         /\ SetApprovals(from, to)[a].output = approval[a].output
BY DEF SetApprovals, ApprovalRow

\* An executing call leaves that state only by recording its result or by a crash,
\* and messages and approvals touch no consumed operation.
THEOREM ExecutingConsumed == Spec => []ExecutingIsConsumed
<1>1. Init => ExecutingIsConsumed
  BY DEF Init, ExecutingIsConsumed
<1>2. TypeOK /\ ExecutingIsConsumed /\ [Next]_vars => ExecutingIsConsumed'
  <2> SUFFICES ASSUME TypeOK, ExecutingIsConsumed, [Next]_vars,
                      NEW a \in ApprovalId, pc' = "executing", subject' = a
               PROVE  approval'[a].status = "consumed"
    BY DEF ExecutingIsConsumed
  <2>0. approval[a] \in ApprovalRow /\ DOMAIN approval = ApprovalId
    BY DEF TypeOK
  <2>1. CASE CallStep
    <3>1. CASE ConsumeOperation
      BY <3>1, <2>0 DEF ConsumeOperation, Goto, RaiseError, ApprovalRow
    <3>2. pc' = "executing" => ConsumeOperation
      BY <2>1 DEF CallStep, FailCall, CancelCall, CallFinish, ProposePreview, AwaitPreview,
             Ask, AwaitAnswer, Answered, CompleteStep, PassCheck, RequestOperation, AwaitGrant,
             DrainBeforeStart, Displace, RecordResult, Goto, Return, RaiseError, RaiseCancelled
    <3> QED BY <3>1, <3>2
  <2>2. CASE AgentStep
    BY <2>2 DEF AgentStep, Actions, BeginCall, InvalidCall, BackendDrain, CanCall, callVars,
                Goto, RaiseError, RaiseCancelled, ExecutingIsConsumed
  <2>3. CASE UNCHANGED <<approval, pc, subject>>
    BY <2>3 DEF ExecutingIsConsumed
  <2>4. CASE UserStep
    <3>1. UNCHANGED <<pc, subject>>
      BY <2>4 DEF UserStep, ApprovePreview, RejectPreview, Approve, Message, RejectOperation,
                  StopCheck, ReleaseScene, callVars
    <3>2. approval[a].status = "consumed"
      BY <3>1 DEF ExecutingIsConsumed
    <3>3. CASE Message
      BY <3>3, <3>2, SetApprovalsRow DEF Message, Void, TypeOK
    <3>4. ASSUME NEW b \in ApprovalId, Approve(b) PROVE approval'[a].status = "consumed"
      BY <3>4, <3>2, <2>0 DEF Approve, ApprovalRow
    <3>5. CASE UNCHANGED approval
      BY <3>5, <3>2
    <3> QED
      BY <2>4, <3>3, <3>4, <3>5 DEF UserStep, ApprovePreview, RejectPreview,
         RejectOperation, StopCheck, ReleaseScene, rowVars
  <2>5. CASE Restart
    BY <2>5 DEF Restart
  <2> QED
    BY <2>1, <2>2, <2>3, <2>4, <2>5 DEF Next, WorkerStep, BackendReturns, BackendFails,
       BackendCancelled, Finish, WorkerEnds, RequestStep, SignalCancel, StopMark, StopSignal,
       Terminate, vars, rowVars, callVars
<1> QED BY <1>1, <1>2, TypeCorrect, PTL DEF Spec

\* An operation is handed to the executor only when the agent has read everything
\* the user said: consuming it needs an approved preview, and behind one nothing
\* is unread.
THEOREM StartsAreUpToDate == Spec => StartsUpToDate
<1>1. TypeOK /\ NothingUnreadBehindApproval /\ ExecutingIsConsumed /\ [Next]_vars
        => [(\E a \in ApprovalId : ~Started(a) /\ Started(a)') => unread = 0]_vars
  <2> SUFFICES ASSUME TypeOK, NothingUnreadBehindApproval, ExecutingIsConsumed, Next,
                      NEW a \in ApprovalId, ~Started(a), Started(a)'
               PROVE  unread = 0
    OBVIOUS
  <2>0. approval[a] \in ApprovalRow /\ DOMAIN approval = ApprovalId
    BY DEF TypeOK
  <2>1. CASE ConsumeOperation
    <3>1. CASE Startable(subject)
      BY <3>1 DEF Startable, Matching, NothingUnreadBehindApproval
    <3>2. CASE ~Startable(subject)
      BY <2>1, <3>2 DEF ConsumeOperation, Started
    <3> QED BY <3>1, <3>2
  <2>2. CASE RecordResult
    <3>1. subject # a
      BY <2>2 DEF RecordResult, ExecutingIsConsumed, Started
    <3>2. approval'[a] = approval[a]
      BY <2>2, <3>1, <2>0 DEF RecordResult, TypeOK
    <3> QED BY <3>2 DEF Started
  <2>3. CASE RequestOperation
    <3>1. \/ UNCHANGED approval
          \/ \E b \in ApprovalId, s \in {"pending", "approved"} : \E op, p, k :
               approval' = [approval EXCEPT ![b] =
                 [status |-> s, op |-> op, plan |-> p, pos |-> k,
                  granted |-> FALSE, output |-> "none"]]
      BY <2>3 DEF RequestOperation, Requested, FreeApproval, ApprovalsIn
    <3> QED BY <3>1, <2>0 DEF Started
  <2>4. CASE Displace
    BY <2>4, <2>0 DEF Displace, Started, ApprovalRow
  <2>5. CASE Message
    BY <2>5, SetApprovalsRow DEF Message, Void, Started, TypeOK
  <2>6. ASSUME NEW b \in ApprovalId, Approve(b) PROVE FALSE
    BY <2>6, <2>0 DEF Approve, Started, ApprovalRow
  <2>7. CASE UNCHANGED approval
    BY <2>7 DEF Started
  <2> QED
    BY <2>1, <2>2, <2>3, <2>4, <2>5, <2>6, <2>7
       DEF Next, CallStep, FailCall, CancelCall, CallFinish, ProposePreview, AwaitPreview,
           Ask, AwaitAnswer, Answered, CompleteStep, PassCheck, AwaitGrant, DrainBeforeStart,
           AgentStep, BeginCall, InvalidCall, BackendDrain, WorkerStep, BackendReturns,
           BackendFails, BackendCancelled, Finish, WorkerEnds, UserStep, ApprovePreview,
           RejectPreview, RejectOperation, StopCheck, ReleaseScene, RequestStep, SignalCancel,
           StopMark, StopSignal, Terminate, Restart, rowVars
<1> QED
  BY <1>1, TypeCorrect, ApprovalsAreUpToDate, ExecutingConsumed, PTL DEF Spec, StartsUpToDate

-----------------------------------------------------------------------------
(* Consent.                                                                  *)

Confirmed(p) == p \in PreviewId /\ preview[p].status # "absent" /\ preview[p].confirmed

\* The call waits for, prepares or executes the operation in subject.
OperationPc == {"await_grant", "granted", "displaced", "drained", "executing"}

ApprovedIsConfirmed ==
  \A p \in PreviewId : preview[p].status = "approved" => Confirmed(p)

RequestedUnderConfirmed ==
  \A a \in ApprovalId : approval[a].status # "absent" => Confirmed(approval[a].plan)

GrantedWhereNeeded ==
  \A a \in ApprovalId : Started(a) \/ approval[a].status = "approved" =>
    /\ approval[a].status # "absent"
    /\ approval[a].op \in NeedsGrant => approval[a].granted

SubjectIsRequested ==
  \A a \in ApprovalId : pc \in OperationPc /\ subject = a => approval[a].status # "absent"

\* StartedWithConsent is about operations that have started; what is inductive is
\* about every operation that was requested and the preview it was requested under.
ConsentInv ==
  ApprovedIsConfirmed /\ RequestedUnderConfirmed /\ GrantedWhereNeeded /\ SubjectIsRequested

\* A preview the user confirmed is never forgotten or asked for again.
ConfirmationsKept == \A p : Confirmed(p) => Confirmed(p)'

\* A confirmation survives when previews are superseded or cancelled.
LEMMA SetPreviewsConfirmed ==
  ASSUME TypeOK, ApprovedIsConfirmed, NEW from, NEW to \in {"superseded", "cancelled"},
         preview' = SetPreviews(from, to)
  PROVE  ConfirmationsKept /\ ApprovedIsConfirmed'
<1>1. ASSUME NEW p \in PreviewId
      PROVE  /\ preview'[p].status \in {preview[p].status, to}
             /\ preview'[p].confirmed = preview[p].confirmed
  BY DEF SetPreviews, TypeOK, PreviewRow
<1> QED BY <1>1 DEF ConfirmationsKept, ApprovedIsConfirmed, Confirmed

\* A confirmation survives the failing of the task.
LEMMA FailConfirmed ==
  ASSUME TypeOK, ApprovedIsConfirmed, Fail
  PROVE  ConfirmationsKept /\ ApprovedIsConfirmed'
<1>1. CASE UNCHANGED preview
  BY <1>1 DEF ConfirmationsKept, ApprovedIsConfirmed, Confirmed
<1>2. CASE preview' = SetPreviews({"pending"}, "cancelled")
  BY <1>2, SetPreviewsConfirmed
<1> QED BY <1>1, <1>2 DEF Fail

\* A confirmation survives every step.
LEMMA PreviewsStep ==
  ASSUME TypeOK, ApprovedIsConfirmed, [Next]_vars
  PROVE  ConfirmationsKept /\ ApprovedIsConfirmed'
<1> USE DEF rowVars
<1>1. CASE UNCHANGED preview
  BY <1>1 DEF ConfirmationsKept, ApprovedIsConfirmed, Confirmed
<1>2. CASE Fail
  BY <1>2, FailConfirmed
<1>3. CASE ProposePreview
  <2>1. CASE UNCHANGED preview
    BY <2>1, <1>1
  <2>2. ASSUME NEW q \in FreePreview, NEW ops,
               preview' = [SetPreviews({"approved"}, "superseded") EXCEPT ![q] =
                 [status |-> "pending", ops |-> ops, position |-> 0, confirmed |-> FALSE]]
        PROVE  ConfirmationsKept /\ ApprovedIsConfirmed'
    <3>1. q \in PreviewId /\ preview[q].status = "absent"
      BY DEF FreePreview, PreviewsIn
    <3>2. ASSUME NEW p \in PreviewId, p # q
          PROVE  /\ preview'[p].status \in {preview[p].status, "superseded"}
                 /\ preview'[p].confirmed = preview[p].confirmed
      BY <2>2, <3>2 DEF SetPreviews, TypeOK, PreviewRow
    <3>3. preview'[q].status = "pending"
      BY <2>2, <3>1 DEF SetPreviews
    <3> QED BY <3>1, <3>2, <3>3 DEF ConfirmationsKept, ApprovedIsConfirmed, Confirmed
  <2> QED BY <1>3, <2>1, <2>2 DEF ProposePreview
<1>4. ASSUME NEW q \in PreviewId, ApprovePreview(q)
      PROVE  ConfirmationsKept /\ ApprovedIsConfirmed'
  <2>1. ASSUME NEW p \in PreviewId
        PROVE  IF p = q THEN preview'[p].status = "approved" /\ preview'[p].confirmed
                        ELSE preview'[p] = preview[p]
    BY <1>4 DEF ApprovePreview, TypeOK, PreviewRow
  <2> QED BY <2>1 DEF ConfirmationsKept, ApprovedIsConfirmed, Confirmed
<1>5. ASSUME NEW q \in PreviewId, RejectPreview(q)
      PROVE  ConfirmationsKept /\ ApprovedIsConfirmed'
  <2>1. ASSUME NEW p \in PreviewId
        PROVE  /\ preview'[p].status \in {preview[p].status, "rejected"}
               /\ preview'[p].confirmed = preview[p].confirmed
    BY <1>5 DEF RejectPreview, TypeOK, PreviewRow
  <2> QED BY <2>1 DEF ConfirmationsKept, ApprovedIsConfirmed, Confirmed
<1>6. CASE ConsumeOperation
  <2>1. \/ UNCHANGED preview
        \/ \E q : preview' = [preview EXCEPT ![q].position = @ + 1]
    BY <1>6 DEF ConsumeOperation
  <2>2. ASSUME NEW p \in PreviewId
        PROVE  /\ preview'[p].status = preview[p].status
               /\ preview'[p].confirmed = preview[p].confirmed
    <3>1. preview[p] = [status |-> preview[p].status, ops |-> preview[p].ops,
                        position |-> preview[p].position,
                        confirmed |-> preview[p].confirmed]
      BY DEF TypeOK, PreviewRow
    <3>2. CASE UNCHANGED preview
      BY <3>2
    <3>3. ASSUME NEW q, preview' = [preview EXCEPT ![q].position = @ + 1]
          PROVE  /\ preview'[p].status = preview[p].status
                 /\ preview'[p].confirmed = preview[p].confirmed
      <4>1. CASE p = q
        <5>1. preview'[p] = [preview[p] EXCEPT !.position = @ + 1]
          BY <3>3, <4>1 DEF TypeOK
        <5> QED BY <5>1, <3>1
      <4>2. CASE p # q
        <5>1. preview'[p] = preview[p]
          BY <3>3, <4>2 DEF TypeOK
        <5> QED BY <5>1
      <4> QED BY <4>1, <4>2
    <3> QED BY <2>1, <3>2, <3>3
  <2> QED BY <2>2 DEF ConfirmationsKept, ApprovedIsConfirmed, Confirmed
<1>7. CASE \E from : \E to \in {"superseded", "cancelled"} : preview' = SetPreviews(from, to)
  BY <1>7, SetPreviewsConfirmed
<1> QED
  <2>1. CASE CallStep
    BY <2>1, <1>1, <1>2, <1>3, <1>6
       DEF CallStep, FailCall, CancelCall, CallFinish, AwaitPreview, Ask, AwaitAnswer,
           Answered, CompleteStep, PassCheck, RequestOperation, AwaitGrant,
           DrainBeforeStart, Displace, RecordResult
  <2>2. CASE AgentStep \/ WorkerStep
    BY <2>2, <1>1, <1>2
       DEF AgentStep, BeginCall, InvalidCall, BackendDrain, WorkerStep, BackendReturns,
           BackendFails, BackendCancelled, Finish, WorkerEnds
  <2>3. CASE UserStep
    BY <2>3, <1>1, <1>2, <1>4, <1>5, <1>7
       DEF UserStep, Approve, Message, Void, RejectOperation, StopCheck, ReleaseScene
  <2>4. CASE RequestStep \/ Restart \/ UNCHANGED vars
    BY <2>4, <1>1, <1>7
       DEF RequestStep, SignalCancel, StopMark, StopSignal, Terminate, Restart, vars
  <2> QED BY <2>1, <2>2, <2>3, <2>4 DEF Next

\* What no step but a request changes about an operation.
SameRequests ==
  \A a \in ApprovalId :
    /\ approval'[a].status = "absent" <=> approval[a].status = "absent"
    /\ approval'[a].plan = approval[a].plan
    /\ approval'[a].op = approval[a].op

\* Steps that request nothing keep what was requested, and start or approve an
\* operation only with the consent it needs.
LEMMA ApprovalsStep ==
  ASSUME TypeOK, ConsentInv, ExecutingIsConsumed, [Next]_vars, ~RequestOperation
  PROVE  SameRequests /\ GrantedWhereNeeded'
<1> USE DEF rowVars
<1>0. ASSUME NEW a \in ApprovalId PROVE approval[a] \in ApprovalRow
  BY DEF TypeOK
<1>1. CASE UNCHANGED approval
  BY <1>1 DEF SameRequests, ConsentInv, GrantedWhereNeeded, Started
<1>2. CASE Displace
  <2>1. ASSUME NEW a \in ApprovalId
        PROVE  \/ approval'[a] = approval[a]
               \/ /\ a = subject
                  /\ approval'[a] = [approval[a] EXCEPT !.status = "finished"]
    BY <1>2 DEF Displace, TypeOK
  <2>2. ASSUME NEW a \in ApprovalId, a = subject PROVE approval[a].status # "absent"
    BY <1>2, <2>2 DEF Displace, ConsentInv, SubjectIsRequested, OperationPc
  <2> QED BY <1>0, <2>1, <2>2 DEF SameRequests, ConsentInv, GrantedWhereNeeded, Started, ApprovalRow
<1>3. CASE ConsumeOperation
  <2>1. CASE UNCHANGED approval
    BY <2>1, <1>1
  <2>2. CASE /\ Startable(subject)
             /\ approval' = [approval EXCEPT ![subject].status = "consumed"]
    <3>1. ASSUME NEW a \in ApprovalId
          PROVE  \/ approval'[a] = approval[a]
                 \/ /\ approval[a].status = "approved"
                    /\ approval'[a] = [approval[a] EXCEPT !.status = "consumed"]
      BY <2>2 DEF Startable, TypeOK
    <3> QED BY <1>0, <3>1 DEF SameRequests, ConsentInv, GrantedWhereNeeded, Started, ApprovalRow
  <2> QED BY <1>3, <2>1, <2>2 DEF ConsumeOperation
<1>4. CASE RecordResult
  <2>1. PICK out \in {"ok", "error"} :
          approval' = [approval EXCEPT ![subject].status = "finished", ![subject].output = out]
    BY <1>4 DEF RecordResult
  <2>2. ASSUME NEW a \in ApprovalId, a = subject PROVE approval[a].status = "consumed"
    BY <1>4, <2>2 DEF RecordResult, ExecutingIsConsumed
  <2>3. ASSUME NEW a \in ApprovalId
        PROVE  /\ a # subject => approval'[a] = approval[a]
               /\ a = subject => /\ approval'[a].status = "finished"
                                 /\ approval'[a].plan = approval[a].plan
                                 /\ approval'[a].op = approval[a].op
                                 /\ approval'[a].granted = approval[a].granted
    <3>1. CASE a = subject
      <4>1. approval'[a] = [[approval[a] EXCEPT !.status = "finished"] EXCEPT !.output = out]
        BY <2>1, <3>1 DEF TypeOK
      <4> QED BY <1>0, <3>1, <4>1 DEF ApprovalRow
    <3>2. CASE a # subject
      BY <2>1, <3>2 DEF TypeOK
    <3> QED BY <3>1, <3>2
  <2> QED BY <2>2, <2>3 DEF SameRequests, ConsentInv, GrantedWhereNeeded, Started
<1>5. ASSUME NEW b \in ApprovalId, Approve(b) PROVE SameRequests /\ GrantedWhereNeeded'
  <2>1. ASSUME NEW a \in ApprovalId
        PROVE  /\ a # b => approval'[a] = approval[a]
               /\ a = b => /\ approval'[a].status = "approved" /\ approval'[a].granted
                           /\ approval'[a].plan = approval[a].plan
                           /\ approval'[a].op = approval[a].op
    <3>1. CASE a = b
      <4>1. approval'[a] = [[approval[a] EXCEPT !.status = "approved"] EXCEPT !.granted = TRUE]
        BY <1>5, <3>1 DEF Approve, TypeOK
      <4> QED BY <1>0, <3>1, <4>1 DEF ApprovalRow
    <3>2. CASE a # b
      BY <1>5, <3>2 DEF Approve, TypeOK
    <3> QED BY <3>1, <3>2
  <2>2. approval[b].status = "pending"
    BY <1>5 DEF Approve
  <2> QED BY <2>1, <2>2 DEF SameRequests, ConsentInv, GrantedWhereNeeded, Started
<1>6. CASE approval' = SetApprovals({"pending", "approved"}, "finished")
  <2>1. ASSUME NEW a \in ApprovalId
        PROVE  \/ approval'[a] = approval[a]
               \/ /\ approval[a].status \in {"pending", "approved"}
                  /\ approval'[a] = [approval[a] EXCEPT !.status = "finished"]
    BY <1>6 DEF SetApprovals
  <2> QED BY <1>0, <2>1 DEF SameRequests, ConsentInv, GrantedWhereNeeded, Started, ApprovalRow
<1> QED
  <2>1. CASE CallStep
    BY <2>1, <1>1, <1>2, <1>3, <1>4
       DEF CallStep, FailCall, CancelCall, CallFinish, ProposePreview, AwaitPreview, Ask,
           AwaitAnswer, Answered, CompleteStep, PassCheck, AwaitGrant, DrainBeforeStart
  <2>2. CASE AgentStep \/ WorkerStep
    BY <2>2, <1>1
       DEF AgentStep, BeginCall, InvalidCall, BackendDrain, WorkerStep, BackendReturns,
           BackendFails, BackendCancelled, Finish, WorkerEnds
  <2>3. CASE UserStep
    BY <2>3, <1>1, <1>5, <1>6
       DEF UserStep, ApprovePreview, RejectPreview, Message, Void, RejectOperation,
           StopCheck, ReleaseScene
  <2>4. CASE RequestStep \/ Restart \/ UNCHANGED vars
    BY <2>4, <1>1
       DEF RequestStep, SignalCancel, StopMark, StopSignal, Terminate, Restart, vars
  <2> QED BY <2>1, <2>2, <2>3, <2>4 DEF Next

\* A call gets to an operation only by requesting it.
LEMMA OperationCallStarts ==
  ASSUME TypeOK, [Next]_vars, pc' \in OperationPc
  PROVE  \/ pc \in OperationPc /\ UNCHANGED subject /\ ~RequestOperation
         \/ /\ RequestOperation /\ pc = "operation" /\ pc' = "await_grant"
            /\ subject' \in FreeApproval
            /\ approval'[subject'].status \in {"pending", "approved"}
            /\ approval'[subject'].output = "none"
<1>1. CASE RequestOperation
  <2>1. CASE RaiseError
    BY <2>1 DEF RaiseError, OperationPc
  <2>2. ASSUME NEW op, NEW b \in FreeApproval, NEW p, subject' = b, pc' = "await_grant",
               approval' = [approval EXCEPT ![b] =
                 [status |-> Requested(op), op |-> op, plan |-> p,
                  pos |-> preview[p].position, granted |-> FALSE, output |-> "none"]]
        PROVE  /\ pc = "operation" /\ pc' = "await_grant" /\ subject' \in FreeApproval
               /\ approval'[subject'].status \in {"pending", "approved"}
               /\ approval'[subject'].output = "none"
    <3>1. b \in DOMAIN approval
      BY DEF FreeApproval, ApprovalsIn, TypeOK
    <3> QED BY <1>1, <2>2, <3>1 DEF RequestOperation, Requested
  <2> QED BY <1>1, <2>1, <2>2 DEF RequestOperation
<1>2. CASE CallStep /\ ~RequestOperation
  BY <1>2
     DEF CallStep, FailCall, CancelCall, CallFinish, ProposePreview, AwaitPreview, Ask,
         AwaitAnswer, Answered, CompleteStep, PassCheck, AwaitGrant, DrainBeforeStart,
         Displace, ConsumeOperation, RecordResult, Goto, Return, RaiseError,
         RaiseCancelled, OperationPc
<1>3. CASE AgentStep
  BY <1>3 DEF AgentStep, Actions, BeginCall, InvalidCall, BackendDrain, CanCall, Goto,
              RaiseError, RaiseCancelled, callVars, OperationPc, RequestOperation
<1>4. CASE Restart
  BY <1>4 DEF Restart, OperationPc
<1>5. CASE ~CallStep /\ ~AgentStep /\ ~Restart
  <2>1. UNCHANGED callVars
    BY <1>5
       DEF Next, WorkerStep, BackendReturns, BackendFails, BackendCancelled, Finish,
           WorkerEnds, UserStep, ApprovePreview, RejectPreview, Approve, Message,
           RejectOperation, StopCheck, ReleaseScene, RequestStep, SignalCancel, StopMark,
           StopSignal, Terminate, vars
  <2>2. ~RequestOperation
    BY <1>5 DEF CallStep
  <2> QED BY <2>1, <2>2 DEF callVars
<1> QED BY <1>1, <1>2, <1>3, <1>4, <1>5

\* Every operation was requested under a confirmed preview, and none that needs a
\* grant is approved without it.
THEOREM RequestsHaveConsent == Spec => []ConsentInv
<1>1. Init => ConsentInv
  BY DEF Init, ConsentInv, ApprovedIsConfirmed, RequestedUnderConfirmed, GrantedWhereNeeded,
         SubjectIsRequested, Started, OperationPc
<1>2. TypeOK /\ ConsentInv /\ ExecutingIsConsumed /\ [Next]_vars => ConsentInv'
  <2> SUFFICES ASSUME TypeOK, ConsentInv, ExecutingIsConsumed, [Next]_vars PROVE ConsentInv'
    OBVIOUS
  <2>1. ConfirmationsKept /\ ApprovedIsConfirmed'
    BY PreviewsStep DEF ConsentInv
  <2>2. CASE ~RequestOperation
    <3>1. SameRequests /\ GrantedWhereNeeded'
      BY <2>2, ApprovalsStep
    <3>2. RequestedUnderConfirmed'
      BY <2>1, <3>1 DEF SameRequests, ConfirmationsKept, ConsentInv, RequestedUnderConfirmed
    <3>3. pc' \in OperationPc => UNCHANGED subject /\ pc \in OperationPc
      BY <2>2, OperationCallStarts
    <3>4. SubjectIsRequested'
      BY <3>1, <3>3 DEF SameRequests, ConsentInv, SubjectIsRequested
    <3> QED BY <2>1, <3>1, <3>2, <3>4 DEF ConsentInv
  <2>3. CASE RequestOperation
    <3>1. CASE UNCHANGED approval /\ RaiseError
      BY <3>1, <2>1 DEF RaiseError, ConsentInv, RequestedUnderConfirmed, ConfirmationsKept,
         GrantedWhereNeeded, Started, SubjectIsRequested, OperationPc
    <3>2. ASSUME NEW b \in FreeApproval, NEW op, NEW p \in Matching(op), subject' = b,
                 approval' = [approval EXCEPT ![b] =
                   [status |-> Requested(op), op |-> op, plan |-> p,
                    pos |-> preview[p].position, granted |-> FALSE, output |-> "none"]]
          PROVE  ConsentInv'
      <4>1. Confirmed(p) /\ Confirmed(p)'
        BY <2>1 DEF Matching, PreviewsIn, ConsentInv, ApprovedIsConfirmed, ConfirmationsKept
      <4>2. ASSUME NEW a \in ApprovalId
            PROVE  /\ a # b => approval'[a] = approval[a]
                   /\ a = b => /\ approval'[a].plan = p /\ approval'[a].op = op
                               /\ approval'[a].status = Requested(op)
                               /\ approval'[a].output = "none"
        BY <3>2 DEF FreeApproval, ApprovalsIn, TypeOK
      <4>3. /\ Requested(op) \in {"pending", "approved"}
            /\ op \in NeedsGrant => Requested(op) = "pending"
        BY DEF Requested
      <4>4. RequestedUnderConfirmed'
        BY <2>1, <4>1, <4>2 DEF ConsentInv, RequestedUnderConfirmed, ConfirmationsKept
      <4>5. GrantedWhereNeeded'
        BY <4>2, <4>3 DEF ConsentInv, GrantedWhereNeeded, Started
      <4>6. SubjectIsRequested'
        BY <3>2, <4>2, <4>3 DEF SubjectIsRequested
      <4> QED BY <2>1, <4>4, <4>5, <4>6 DEF ConsentInv
    <3> QED BY <2>3, <3>1, <3>2 DEF RequestOperation
  <2> QED BY <2>2, <2>3
<1> QED BY <1>1, <1>2, TypeCorrect, ExecutingConsumed, PTL DEF Spec

\* Whatever ran was in a preview the user confirmed, and was granted by itself
\* where the policy asks for it.
THEOREM StartsHaveConsent == Spec => []StartedWithConsent
<1>1. ConsentInv => StartedWithConsent
  BY DEF ConsentInv, RequestedUnderConfirmed, GrantedWhereNeeded, StartedWithConsent, Confirmed
<1> QED BY <1>1, RequestsHaveConsent, PTL

-----------------------------------------------------------------------------
(* How a step changes one row. The proofs below use these two facts about    *)
(* rows instead of splitting on the actions again.                           *)

SameRequest(a) ==
  /\ approval'[a].plan = approval[a].plan
  /\ approval'[a].pos = approval[a].pos
  /\ approval'[a].op = approval[a].op

RequestMove(a) ==
  /\ RequestOperation
  /\ pc = "operation" /\ pc' = "await_grant" /\ subject' = a
  /\ approval[a].status = "absent"
  /\ approval'[a].status \in {"pending", "approved"} /\ approval'[a].output = "none"
  /\ approval'[a].status = "pending" => status' = "waiting_user"

\* Voided by a message, granted by the user, or given up for a new request.
DecisionMove(a) ==
  /\ SameRequest(a) /\ approval'[a].output = approval[a].output
  /\ \/ /\ approval[a].status \in {"pending", "approved"}
        /\ approval'[a].status = "finished"
        /\ status' # "waiting_user"
     \/ approval[a].status = "pending" /\ approval'[a].status = "approved" /\ status' = "running"
     \/ Displace /\ pc = "displaced" /\ subject = a /\ approval'[a].status = "finished"

ConsumeMove(a) ==
  /\ SameRequest(a) /\ approval'[a].output = approval[a].output
  /\ ConsumeOperation
  /\ pc = "drained" /\ pc' = "executing" /\ subject = a /\ Startable(a)
  /\ approval'[a].status = "consumed"

ResultMove(a) ==
  /\ SameRequest(a)
  /\ RecordResult
  /\ pc = "executing" /\ subject = a
  /\ approval'[a].status = "finished" /\ approval'[a].output \in {"ok", "error"}

ApprovalMove(a) ==
  \/ approval'[a] = approval[a]
  \/ RequestMove(a) \/ DecisionMove(a) \/ ConsumeMove(a) \/ ResultMove(a)

\* Every step moves an operation in one of the four ways, or not at all.
LEMMA ApprovalMoves ==
  ASSUME TypeOK, [Next]_vars, NEW a \in ApprovalId
  PROVE  ApprovalMove(a)
<1> USE DEF rowVars
<1>0. approval[a] \in ApprovalRow /\ DOMAIN approval = ApprovalId
  BY DEF TypeOK
<1>1. CASE UNCHANGED approval
  BY <1>1 DEF ApprovalMove
<1>2. CASE Displace
  <2>1. approval'[a] \in {approval[a], [approval[a] EXCEPT !.status = "finished"]}
    BY <1>0, <1>2 DEF Displace
  <2>2. a # subject => approval'[a] = approval[a]
    BY <1>0, <1>2 DEF Displace
  <2> QED
    BY <1>0, <1>2, <2>1, <2>2
       DEF Displace, ApprovalMove, DecisionMove, SameRequest, ApprovalRow
<1>3. CASE ConsumeOperation
  <2>1. CASE UNCHANGED approval
    BY <2>1, <1>1
  <2>2. CASE Startable(subject) /\ approval' = [approval EXCEPT ![subject].status = "consumed"]
             /\ pc' = "executing" /\ a = subject
    <3>1. approval'[a] = [approval[a] EXCEPT !.status = "consumed"]
      BY <1>0, <2>2
    <3> QED BY <1>0, <1>3, <2>2, <3>1
            DEF ConsumeOperation, ApprovalMove, ConsumeMove, SameRequest, ApprovalRow
  <2>3. CASE a # subject /\ approval' = [approval EXCEPT ![subject].status = "consumed"]
    BY <1>0, <2>3 DEF ApprovalMove
  <2> QED BY <1>3, <2>1, <2>2, <2>3 DEF ConsumeOperation, Goto
<1>4. CASE RecordResult
  <2>1. PICK out \in {"ok", "error"} :
          approval' = [approval EXCEPT ![subject].status = "finished", ![subject].output = out]
    BY <1>4 DEF RecordResult
  <2>2. CASE a = subject
    <3>1. approval'[a] = [[approval[a] EXCEPT !.status = "finished"] EXCEPT !.output = out]
      BY <1>0, <2>1, <2>2
    <3> QED BY <1>0, <1>4, <2>2, <3>1
            DEF RecordResult, ApprovalMove, ResultMove, SameRequest, ApprovalRow
  <2>3. CASE a # subject
    BY <1>0, <2>1, <2>3 DEF ApprovalMove
  <2> QED BY <2>2, <2>3
<1>5. ASSUME NEW b \in ApprovalId, Approve(b) PROVE ApprovalMove(a)
  <2>1. CASE a = b
    <3>1. approval'[a] = [[approval[a] EXCEPT !.status = "approved"] EXCEPT !.granted = TRUE]
      BY <1>0, <1>5, <2>1 DEF Approve
    <3> QED BY <1>0, <1>5, <2>1, <3>1
            DEF Approve, ApprovalMove, DecisionMove, SameRequest, ApprovalRow
  <2>2. CASE a # b
    BY <1>0, <1>5, <2>2 DEF Approve, ApprovalMove
  <2> QED BY <2>1, <2>2
<1>6. CASE Message
  <2>1. CASE approval' = SetApprovals({"pending", "approved"}, "finished")
             /\ status' # "waiting_user"
    <3>1. approval'[a] = IF approval[a].status \in {"pending", "approved"}
                         THEN [approval[a] EXCEPT !.status = "finished"] ELSE approval[a]
      BY <2>1 DEF SetApprovals
    <3> QED BY <1>0, <2>1, <3>1 DEF ApprovalMove, DecisionMove, SameRequest, ApprovalRow
  <2> QED BY <1>1, <1>6, <2>1 DEF Message, Void
<1>7. CASE RequestOperation
  <2>1. CASE UNCHANGED approval
    BY <2>1, <1>1
  <2>2. ASSUME NEW b \in FreeApproval, NEW op, NEW p,
               approval' = [approval EXCEPT ![b] =
                 [status |-> Requested(op), op |-> op, plan |-> p,
                  pos |-> preview[p].position, granted |-> FALSE, output |-> "none"]],
               status' = IF Requested(op) = "pending" THEN "waiting_user" ELSE status,
               pc' = "await_grant", subject' = b
        PROVE  ApprovalMove(a)
    <3>1. CASE a = b
      <4>1. approval'[a] = [status |-> Requested(op), op |-> op, plan |-> p,
                  pos |-> preview[p].position, granted |-> FALSE, output |-> "none"]
        BY <1>0, <2>2, <3>1
      <4>2. approval[a].status = "absent" /\ pc = "operation"
        BY <1>7, <3>1 DEF FreeApproval, ApprovalsIn, RequestOperation
      <4> QED BY <1>7, <2>2, <3>1, <4>1, <4>2 DEF ApprovalMove, RequestMove, Requested
    <3>2. CASE a # b
      BY <1>0, <2>2, <3>2 DEF ApprovalMove
    <3> QED BY <3>1, <3>2
  <2> QED BY <1>7, <2>1, <2>2 DEF RequestOperation
<1> QED
  <2>1. CASE CallStep
    BY <2>1, <1>1, <1>2, <1>3, <1>4, <1>7
       DEF CallStep, FailCall, CancelCall, CallFinish, ProposePreview, AwaitPreview, Ask,
           AwaitAnswer, Answered, CompleteStep, PassCheck, AwaitGrant, DrainBeforeStart
  <2>2. CASE AgentStep \/ WorkerStep
    BY <2>2, <1>1
       DEF AgentStep, BeginCall, InvalidCall, BackendDrain, WorkerStep, BackendReturns,
           BackendFails, BackendCancelled, Finish, WorkerEnds
  <2>3. CASE UserStep
    BY <2>3, <1>1, <1>5, <1>6
       DEF UserStep, ApprovePreview, RejectPreview, RejectOperation, StopCheck, ReleaseScene
  <2>4. CASE RequestStep \/ Restart \/ UNCHANGED vars
    BY <2>4, <1>1
       DEF RequestStep, SignalCancel, StopMark, StopSignal, Terminate, Restart, vars
  <2> QED BY <2>1, <2>2, <2>3, <2>4 DEF Next

SamePlan(p) ==
  preview'[p].ops = preview[p].ops /\ preview'[p].position = preview[p].position

ProposeMove(p) ==
  /\ ProposePreview
  /\ pc = "preview" /\ pc' = "await_preview" /\ subject' = p /\ status' = "waiting_user"
  /\ preview[p].status = "absent"
  /\ preview'[p].status = "pending" /\ preview'[p].position = 0
  /\ \A q \in PreviewId : q # p => preview'[q].status # "approved"

\* Confirmed by the user, or superseded, rejected or cancelled.
PreviewDecisionMove(p) ==
  /\ SamePlan(p)
  /\ \/ preview[p].status = "pending" /\ preview'[p].status = "approved" /\ status' = "running"
     \/ /\ preview[p].status \in {"pending", "approved"}
        /\ preview'[p].status \in {"superseded", "rejected", "cancelled"}
        /\ preview[p].status = "pending" => status' # "waiting_user"

AdvanceMove(p) ==
  /\ ConsumeOperation /\ pc = "drained" /\ pc' = "executing"
  /\ Startable(subject) /\ p = approval[subject].plan
  /\ preview'[p].ops = preview[p].ops /\ preview'[p].status = preview[p].status
  /\ preview'[p].position = preview[p].position + 1

PreviewMove(p) ==
  \/ preview'[p] = preview[p]
  \/ ProposeMove(p) \/ PreviewDecisionMove(p) \/ AdvanceMove(p)

\* To supersede or cancel previews moves each of them so.
LEMMA SetPreviewsMove ==
  ASSUME TypeOK, NEW from \in SUBSET {"pending", "approved"},
         NEW to \in {"superseded", "cancelled"}, preview' = SetPreviews(from, to),
         "pending" \in from => status' # "waiting_user", NEW p \in PreviewId
  PROVE  PreviewMove(p)
<1>1. preview'[p] = IF preview[p].status \in from
                    THEN [preview[p] EXCEPT !.status = to] ELSE preview[p]
  BY DEF SetPreviews
<1>2. preview[p] \in PreviewRow
  BY DEF TypeOK
<1> QED BY <1>1, <1>2 DEF PreviewMove, PreviewDecisionMove, SamePlan, PreviewRow

\* Every step moves a preview in one of the ways of PreviewMove.
LEMMA PreviewMoves ==
  ASSUME TypeOK, [Next]_vars, NEW p \in PreviewId
  PROVE  PreviewMove(p)
<1> USE DEF rowVars
<1>0. preview[p] \in PreviewRow /\ DOMAIN preview = PreviewId
  BY DEF TypeOK
<1>1. CASE UNCHANGED preview
  BY <1>1 DEF PreviewMove
<1>2. CASE Fail
  BY <1>1, <1>2, SetPreviewsMove DEF Fail
<1>3. CASE ProposePreview
  <2>1. CASE UNCHANGED preview
    BY <2>1, <1>1
  <2>2. ASSUME NEW r \in FreePreview, NEW ops \in Plan,
               preview' = [SetPreviews({"approved"}, "superseded") EXCEPT ![r] =
                 [status |-> "pending", ops |-> ops, position |-> 0, confirmed |-> FALSE]],
               status' = "waiting_user", pc' = "await_preview", subject' = r
        PROVE  PreviewMove(p)
    <3>1. r \in PreviewId /\ preview[r].status = "absent"
      BY DEF FreePreview, PreviewsIn
    <3>2. ASSUME NEW q \in PreviewId
          PROVE  preview'[q] =
                   IF q = r THEN [status |-> "pending", ops |-> ops, position |-> 0,
                                  confirmed |-> FALSE]
                   ELSE IF preview[q].status = "approved"
                        THEN [preview[q] EXCEPT !.status = "superseded"] ELSE preview[q]
      BY <2>2, <3>1 DEF SetPreviews
    <3>3. ASSUME NEW q \in PreviewId, q # r PROVE preview'[q].status # "approved"
      BY <3>2, <3>3 DEF TypeOK, PreviewRow
    <3>4. CASE p = r
      <4>1. pc = "preview"
        BY <1>3 DEF ProposePreview
      <4>2. preview'[p] =
              [status |-> "pending", ops |-> ops, position |-> 0, confirmed |-> FALSE]
        BY <3>2, <3>4
      <4> QED BY <1>3, <2>2, <3>1, <3>3, <3>4, <4>1, <4>2 DEF PreviewMove, ProposeMove
    <3>5. CASE p # r
      BY <1>0, <3>2, <3>5 DEF PreviewMove, PreviewDecisionMove, SamePlan, PreviewRow
    <3> QED BY <3>4, <3>5
  <2> QED BY <1>3, <2>1, <2>2 DEF ProposePreview
<1>4. ASSUME NEW q \in PreviewId, ApprovePreview(q) PROVE PreviewMove(p)
  <2>1. CASE p = q
    <3>1. preview'[p] = [[preview[p] EXCEPT !.status = "approved"] EXCEPT !.confirmed = TRUE]
      BY <1>0, <1>4, <2>1 DEF ApprovePreview
    <3> QED BY <1>0, <1>4, <2>1, <3>1
            DEF ApprovePreview, PreviewMove, PreviewDecisionMove, SamePlan, PreviewRow
  <2>2. CASE p # q
    BY <1>0, <1>4, <2>2 DEF ApprovePreview, PreviewMove
  <2> QED BY <2>1, <2>2
<1>5. ASSUME NEW q \in PreviewId, RejectPreview(q) PROVE PreviewMove(p)
  <2>1. CASE p = q
    <3>1. preview'[p] = [preview[p] EXCEPT !.status = "rejected"]
      BY <1>0, <1>5, <2>1 DEF RejectPreview
    <3> QED BY <1>0, <1>5, <2>1, <3>1
            DEF RejectPreview, PreviewMove, PreviewDecisionMove, SamePlan, PreviewRow
  <2>2. CASE p # q
    BY <1>0, <1>5, <2>2 DEF RejectPreview, PreviewMove
  <2> QED BY <2>1, <2>2
<1>6. CASE ConsumeOperation
  <2>1. CASE UNCHANGED preview
    BY <2>1, <1>1
  <2>2. CASE /\ Startable(subject) /\ pc' = "executing"
             /\ preview' = [preview EXCEPT ![approval[subject].plan].position = @ + 1]
    <3>1. CASE p = approval[subject].plan
      <4>1. preview'[p] = [preview[p] EXCEPT !.position = @ + 1]
        BY <1>0, <2>2, <3>1
      <4> QED BY <1>0, <1>6, <2>2, <3>1, <4>1
              DEF ConsumeOperation, PreviewMove, AdvanceMove, PreviewRow
    <3>2. CASE p # approval[subject].plan
      BY <1>0, <2>2, <3>2 DEF PreviewMove
    <3> QED BY <3>1, <3>2
  <2> QED BY <1>6, <2>1, <2>2 DEF ConsumeOperation, Goto
<1>7. CASE Message
  BY <1>1, <1>7, SetPreviewsMove DEF Message, Void
<1>8. CASE StopMark
  BY <1>8, SetPreviewsMove DEF StopMark
<1>9. CASE Restart
  BY <1>1, <1>9, SetPreviewsMove DEF Restart
<1> QED
  <2>1. CASE CallStep
    BY <2>1, <1>1, <1>2, <1>3, <1>6
       DEF CallStep, FailCall, CancelCall, CallFinish, AwaitPreview, Ask, AwaitAnswer,
           Answered, CompleteStep, PassCheck, RequestOperation, AwaitGrant,
           DrainBeforeStart, Displace, RecordResult
  <2>2. CASE AgentStep \/ WorkerStep
    BY <2>2, <1>1, <1>2
       DEF AgentStep, BeginCall, InvalidCall, BackendDrain, WorkerStep, BackendReturns,
           BackendFails, BackendCancelled, Finish, WorkerEnds
  <2>3. CASE UserStep
    BY <2>3, <1>1, <1>2, <1>4, <1>5, <1>7
       DEF UserStep, Approve, RejectOperation, StopCheck, ReleaseScene
  <2>4. CASE RequestStep \/ Restart \/ UNCHANGED vars
    BY <2>4, <1>1, <1>8, <1>9
       DEF RequestStep, SignalCancel, StopSignal, Terminate, vars
  <2> QED BY <2>1, <2>2, <2>3, <2>4 DEF Next

-----------------------------------------------------------------------------
(* One live request.                                                         *)

FailurePc == {"failing", "failed", "reporting", "reported"}

\* The agent's next call, if it makes one at all, is refused as cancelled.
NoMoreCalls == cancelled \/ worker = "gone" \/ (kind = "openai" /\ worker # "backend")

\* The run does nothing for the task any more but fail it.
Halted == pc \in FailurePc \/ (pc = "idle" /\ NoMoreCalls)

\* An exception in a call halts the run.
LEMMA RaisingHalts ==
  ASSUME TypeOK, UNCHANGED kind, RaiseError \/ RaiseCancelled
  PROVE  Halted'
BY KindAssumption
   DEF TypeOK, RaiseError, RaiseCancelled, Halted, FailurePc, NoMoreCalls

\* A halted run stays halted.
LEMMA HaltedStays ==
  ASSUME TypeOK, Halted, [Next]_vars
  PROVE  Halted'
<1> USE DEF Halted, FailurePc, NoMoreCalls, taskVars, rowVars, callVars, runVars, userVars
<1>1. CASE CallStep
  <2>1. CASE FailCall   BY <2>1 DEF FailCall, Goto
  <2>2. CASE CancelCall
    <3>1. CASE pc = "failed"
      BY <2>2, <3>1, RaisingHalts DEF CancelCall
    <3>2. CASE pc # "failed"
      BY <2>2, <3>2 DEF CancelCall, Return
    <3> QED BY <3>1, <3>2
  <2> QED
    BY <1>1, <2>1, <2>2
       DEF CallStep, CallFinish, ProposePreview, AwaitPreview, Ask, AwaitAnswer, Answered,
           CompleteStep, PassCheck, RequestOperation, AwaitGrant, DrainBeforeStart, Displace,
           ConsumeOperation, RecordResult
<1>2. CASE AgentStep
  <2>1. ASSUME NEW action \in Actions, BeginCall(action) PROVE Halted'
    <3>1. cancelled \/ worker = "gone" \/ (kind = "openai" /\ worker # "backend")
      BY <2>1 DEF BeginCall, CanCall
    <3>2. RaiseCancelled
      BY <2>1, <3>1 DEF BeginCall, CanCall
    <3> QED BY <2>1, <3>2, RaisingHalts DEF BeginCall
  <2>2. CASE InvalidCall
    BY <2>2, RaisingHalts DEF InvalidCall
  <2>3. CASE BackendDrain
    BY <2>3 DEF BackendDrain
  <2> QED BY <1>2, <2>1, <2>2, <2>3 DEF AgentStep
<1>3. CASE WorkerStep
  BY <1>3 DEF WorkerStep, BackendReturns, BackendFails, BackendCancelled, Finish, WorkerEnds
<1>4. CASE UserStep
  BY <1>4 DEF UserStep, ApprovePreview, RejectPreview, Approve, Message, RejectOperation,
              StopCheck, ReleaseScene
<1>5. CASE RequestStep
  BY <1>5 DEF RequestStep, SignalCancel, StopMark, StopSignal, Terminate
<1>6. CASE Restart \/ UNCHANGED vars
  BY <1>6 DEF Restart, vars
<1> QED BY <1>1, <1>2, <1>3, <1>4, <1>5, <1>6 DEF Next

\* The call in flight keeps its place while another thread takes a step, and a step
\* of its own is one of the actions of its place.
LEMMA OthersKeepCall ==
  ASSUME TypeOK, [Next]_vars, pc # "idle", ~CallStep, ~Restart
  PROVE  UNCHANGED callVars
BY DEF Next, AgentStep, BeginCall, InvalidCall, CanCall, BackendDrain, WorkerStep,
       BackendReturns, BackendFails, BackendCancelled, Finish, WorkerEnds, UserStep,
       ApprovePreview, RejectPreview, Approve, Message, RejectOperation, StopCheck,
       ReleaseScene, RequestStep, SignalCancel, StopMark, StopSignal, Terminate, vars,
       rowVars, callVars, runVars, taskVars

\* A restart halts the run.
LEMMA RestartHalts ==
  ASSUME Restart
  PROVE  Halted'
BY DEF Restart, Halted, NoMoreCalls

\* A call that waits for, prepares or executes an operation goes on with it, gives
\* up the run, or comes back when the operation is finished.
LEMMA OperationCallMoves ==
  ASSUME TypeOK, [Next]_vars, pc \in OperationPc
  PROVE  \/ pc' \in OperationPc /\ subject' = subject
         \/ Halted'
         \/ pc = "await_grant" /\ approval[subject].status = "finished" /\ UNCHANGED approval
         \/ Displace \/ RecordResult
<1> USE DEF OperationPc
<1>1. CASE CallStep
  <2>1. CASE AwaitGrant \/ DrainBeforeStart \/ ConsumeOperation
    BY <2>1, RaisingHalts
       DEF AwaitGrant, DrainBeforeStart, ConsumeOperation, Goto, Return, rowVars
  <2> QED
    BY <1>1, <2>1
       DEF CallStep, FailCall, CancelCall, CallFinish, ProposePreview, AwaitPreview, Ask,
           AwaitAnswer, Answered, CompleteStep, PassCheck, RequestOperation
<1>2. CASE Restart
  BY <1>2, RestartHalts
<1>3. CASE ~CallStep /\ ~Restart
  BY <1>3, OthersKeepCall DEF callVars
<1> QED BY <1>1, <1>2, <1>3

\* A call that waits for the decision on a preview goes on waiting, gives up the
\* run, or comes back when the preview is decided.
LEMMA PreviewCallMoves ==
  ASSUME TypeOK, [Next]_vars, pc = "await_preview"
  PROVE  \/ UNCHANGED <<pc, subject>>
         \/ Halted'
         \/ preview[subject].status \in {"approved", "superseded"} /\ UNCHANGED preview
<1>1. CASE CallStep
  <2>1. CASE AwaitPreview
    BY <2>1, RaisingHalts DEF AwaitPreview, PreviewDecided
  <2> QED
    BY <1>1, <2>1
       DEF CallStep, FailCall, CancelCall, CallFinish, ProposePreview, AwaitGrant, Ask,
           AwaitAnswer, Answered, CompleteStep, PassCheck, RequestOperation,
           DrainBeforeStart, Displace, ConsumeOperation, RecordResult
<1>2. CASE Restart
  BY <1>2, RestartHalts
<1>3. CASE ~CallStep /\ ~Restart
  BY <1>3, OthersKeepCall DEF callVars
<1> QED BY <1>1, <1>2, <1>3

\* An operation is open, and a preview undecided, only while the call that asked for
\* it is in flight, or when the run is over: the agent cannot ask again behind it.
OpenOperationHasCall ==
  \A a \in Unfinished : Halted \/ (pc \in OperationPc /\ subject = a)

PendingPreviewHasCall ==
  \A p \in PreviewsIn({"pending"}) : Halted \/ (pc = "await_preview" /\ subject = p)

OneRequestInv == OneLiveRequest /\ OpenOperationHasCall /\ PendingPreviewHasCall

\* An open operation belongs to the call at work, so a step opens no second one.
LEMMA OneOperationStep ==
  ASSUME TypeOK, OneRequestInv, [Next]_vars
  PROVE  OpenOperationHasCall' /\ \A a, b \in Unfinished' : a = b
<1> USE DEF OneRequestInv, OneLiveRequest, OpenOperationHasCall, Unfinished, ApprovalsIn
<1>1. ASSUME NEW a \in ApprovalId, approval'[a].status \in {"pending", "approved", "consumed"}
      PROVE  a \in Unfinished \/ RequestMove(a)
  BY <1>1, ApprovalMoves
     DEF ApprovalMove, DecisionMove, ConsumeMove, ResultMove, Startable, Displace,
         OperationPc
<1>2. ASSUME NEW a \in ApprovalId, RequestMove(a) PROVE Unfinished = {}
  BY <1>2 DEF RequestMove, Halted, FailurePc, OperationPc
<1>3. \A a, b \in Unfinished' : a = b
  BY <1>1, <1>2 DEF RequestMove
<1>4. ASSUME NEW a \in Unfinished' PROVE Halted' \/ (pc' \in OperationPc /\ subject' = a)
  <2>1. CASE RequestMove(a)
    BY <2>1 DEF RequestMove, OperationPc
  <2>2. CASE a \in Unfinished /\ Halted
    BY <2>2, HaltedStays
  <2>3. CASE a \in Unfinished /\ pc \in OperationPc /\ subject = a
    <3>1. ~Displace /\ ~RecordResult
      BY <1>4, <2>3 DEF Displace, RecordResult, TypeOK, ApprovalRow
    <3> QED BY <1>4, <2>3, <3>1, OperationCallMoves
  <2> QED BY <1>1, <1>4, <2>1, <2>2, <2>3
<1> QED BY <1>3, <1>4

\* A pending preview belongs to the call at work, so a step proposes no second one.
LEMMA OnePreviewStep ==
  ASSUME TypeOK, OneRequestInv, [Next]_vars
  PROVE  /\ PendingPreviewHasCall'
         /\ \A p, q \in PreviewsIn({"pending", "approved"})' : p = q
<1> USE DEF OneRequestInv, OneLiveRequest, PendingPreviewHasCall, PreviewsIn
<1>1. ASSUME NEW p \in PreviewId, preview'[p].status \in {"pending", "approved"}
      PROVE  preview[p].status \in {"pending", "approved"} \/ ProposeMove(p)
  BY <1>1, PreviewMoves
     DEF PreviewMove, PreviewDecisionMove, AdvanceMove, Startable, Matching
<1>2. ASSUME NEW p \in PreviewId, ProposeMove(p), NEW q \in PreviewId, p # q
      PROVE  preview'[q].status \notin {"pending", "approved"}
  <2>1. preview[q].status # "pending"
    BY <1>2 DEF ProposeMove, Halted, FailurePc
  <2>2. PreviewMove(q)
    BY PreviewMoves
  <2> QED BY <1>2, <2>1, <2>2
          DEF ProposeMove, PreviewMove, PreviewDecisionMove, AdvanceMove
<1>3. \A p, q \in PreviewsIn({"pending", "approved"})' : p = q
  BY <1>1, <1>2
<1>4. ASSUME NEW p \in PreviewId, preview'[p].status = "pending"
      PROVE  Halted' \/ (pc' = "await_preview" /\ subject' = p)
  <2>1. CASE ProposeMove(p)
    BY <2>1 DEF ProposeMove
  <2>2. CASE ~ProposeMove(p)
    <3>1. preview[p].status = "pending"
      BY <1>4, <2>2, PreviewMoves DEF PreviewMove, PreviewDecisionMove, AdvanceMove
    <3>2. CASE Halted
      BY <3>2, HaltedStays
    <3>3. CASE pc = "await_preview" /\ subject = p
      BY <1>4, <3>3, PreviewCallMoves
    <3> QED BY <3>1, <3>2, <3>3
  <2> QED BY <2>1, <2>2
<1> QED BY <1>3, <1>4

\* At most one preview waits or is confirmed and at most one operation is open, so
\* "the" approved preview the code fetches is unambiguous; both only have their
\* call, or are left over from a run that is over.
THEOREM RequestsAreSingle == Spec => []OneRequestInv
<1>1. Init => OneRequestInv
  BY DEF Init, OneRequestInv, OneLiveRequest, OpenOperationHasCall, PendingPreviewHasCall,
         PreviewsIn, ApprovalsIn, Unfinished
<1>2. TypeOK /\ OneRequestInv /\ [Next]_vars => OneRequestInv'
  BY OneOperationStep, OnePreviewStep DEF OneRequestInv, OneLiveRequest
<1> QED BY <1>1, <1>2, TypeCorrect, PTL DEF Spec

\* The rows the code fetches as "the" preview and "the" operation are unique
\* (propose_preview, request_operation, message).
THEOREM LiveRequestIsSingle == Spec => []OneLiveRequest
<1>1. OneRequestInv => OneLiveRequest
  BY DEF OneRequestInv
<1> QED BY <1>1, RequestsAreSingle, PTL

-----------------------------------------------------------------------------
(* Consumption and results.                                                  *)

OutputAtEnd ==
  \A a \in ApprovalId : approval[a].output # "none" => approval[a].status = "finished"

\* What the call waits for or prepares has not run.
SubjectNotStarted ==
  \A a \in ApprovalId :
    pc \in OperationPc \ {"executing"} /\ subject = a => ~Started(a)

OperationCallHasRow == pc \in OperationPc => subject \in ApprovalId

ResultInv == OutputAtEnd /\ SubjectNotStarted /\ ExecutingIsConsumed /\ OperationCallHasRow

\* A step starts an operation only by consuming it, and what has started stays so.
LEMMA StartsByConsuming ==
  ASSUME TypeOK, ResultInv, [Next]_vars, NEW a \in ApprovalId
  PROVE  /\ Started(a) => Started(a)' /\ SameRequest(a)
         /\ Started(a)' => Started(a) \/ ConsumeMove(a)
<1> USE DEF Started, ResultInv, OutputAtEnd, SubjectNotStarted, ExecutingIsConsumed
<1>1. CASE approval'[a] = approval[a]
  BY <1>1 DEF SameRequest
<1>2. CASE RequestMove(a)
  BY <1>2 DEF RequestMove
<1>3. CASE DecisionMove(a)
  BY <1>3 DEF DecisionMove, OperationPc
<1>4. CASE ConsumeMove(a)
  BY <1>4 DEF ConsumeMove
<1>5. CASE ResultMove(a)
  BY <1>5 DEF ResultMove
<1> QED BY <1>1, <1>2, <1>3, <1>4, <1>5, ApprovalMoves DEF ApprovalMove

\* A step gives an output to an operation that executes, once, and starts none it does not
\* consume.
LEMMA ResultStep ==
  ASSUME TypeOK, ResultInv, ExecutingIsConsumed', [Next]_vars
  PROVE  ResultInv'
<1>1. ASSUME NEW a \in ApprovalId, approval'[a].output # "none"
      PROVE  approval'[a].status = "finished"
  BY <1>1, ApprovalMoves
     DEF ApprovalMove, RequestMove, DecisionMove, ConsumeMove, ResultMove, Startable,
         ResultInv, OutputAtEnd
<1>2. ASSUME NEW a \in ApprovalId, pc' \in OperationPc \ {"executing"}, subject' = a
      PROVE  ~Started(a)'
  <2>1. CASE RequestOperation
    BY <1>2, <2>1, OperationCallStarts DEF Started
  <2>2. CASE ~RequestOperation
    <3>1. pc \in OperationPc /\ subject = a
      BY <1>2, <2>2, OperationCallStarts
    <3>2. ~ConsumeMove(a)
      BY <1>2 DEF ConsumeMove
    <3>3. pc # "executing"
      <4> SUFFICES ASSUME pc = "executing" PROVE FALSE
        OBVIOUS
      <4>1. CASE RecordResult
        BY <1>2, <4>1 DEF RecordResult, Return, RaiseError, RaiseCancelled, OperationPc
      <4>2. CASE ~RecordResult /\ CallStep
        BY <4>2
           DEF CallStep, FailCall, CancelCall, CallFinish, ProposePreview, AwaitPreview, Ask,
               AwaitAnswer, Answered, CompleteStep, PassCheck, RequestOperation, AwaitGrant,
               DrainBeforeStart, Displace, ConsumeOperation
      <4>3. CASE Restart
        BY <1>2, <4>3 DEF Restart, OperationPc
      <4>4. CASE ~CallStep /\ ~Restart
        BY <1>2, <4>4, OthersKeepCall DEF callVars
      <4> QED BY <4>1, <4>2, <4>3, <4>4
    <3> QED BY <3>1, <3>2, <3>3, StartsByConsuming DEF ResultInv, SubjectNotStarted
  <2> QED BY <2>1, <2>2
<1>3. OperationCallHasRow'
  BY OperationCallStarts DEF OperationCallHasRow, ResultInv, FreeApproval, ApprovalsIn
<1> QED BY <1>1, <1>2, <1>3 DEF ResultInv, OutputAtEnd, SubjectNotStarted

\* An operation has a result only when it is finished, and the operation a call
\* prepares has not run before.
THEOREM ResultsAreFinal == Spec => []ResultInv
<1>1. Init => ResultInv
  BY DEF Init, ResultInv, OutputAtEnd, SubjectNotStarted, ExecutingIsConsumed,
         OperationCallHasRow, OperationPc
<1>2. TypeOK /\ ResultInv /\ ExecutingIsConsumed' /\ [Next]_vars => ResultInv'
  BY ResultStep
<1> QED BY <1>1, <1>2, TypeCorrect, ExecutingConsumed, PTL DEF Spec

-----------------------------------------------------------------------------
(* The confirmed plan is executed.                                           *)

AbsentIsFresh == \A p \in PreviewId : preview[p].status = "absent" => preview[p].position = 0

PlanInv == ExecutesConfirmedPlan /\ AbsentIsFresh

\* The position of a preview advances only when there is a preview.
LEMMA AbsentIsFreshStep ==
  ASSUME TypeOK, AbsentIsFresh, [Next]_vars
  PROVE  AbsentIsFresh'
<1> SUFFICES ASSUME NEW p \in PreviewId, preview'[p].status = "absent"
             PROVE  preview'[p].position = 0
  BY DEF AbsentIsFresh
<1> QED
  BY PreviewMoves
     DEF PreviewMove, ProposeMove, PreviewDecisionMove, AdvanceMove, Startable, Matching,
         PreviewsIn, AbsentIsFresh

\* The operation that is consumed is the one at its preview's position.
LEMMA ConsumeRuns ==
  ASSUME TypeOK, NEW a \in ApprovalId, Startable(a), NEW p, p = approval[a].plan
  PROVE  /\ p \in PreviewId
         /\ approval[a].pos = preview[p].position
         /\ preview[p].position \in Nat /\ preview[p].position < Len(preview[p].ops)
         /\ approval[a].op = preview[p].ops[preview[p].position + 1]
BY DEF TypeOK, Startable, Matching, PreviewsIn, PreviewRow

\* A preview's counter advances exactly when an operation of its is consumed.
LEMMA AdvanceIsConsume ==
  ASSUME TypeOK, ResultInv, [Next]_vars
  PROVE  /\ \A p \in PreviewId : AdvanceMove(p) =>
              \E a \in ApprovalId : ConsumeMove(a) /\ approval[a].plan = p
         /\ \A a \in ApprovalId : ConsumeMove(a) => AdvanceMove(approval[a].plan)
<1>1. ASSUME NEW p \in PreviewId, AdvanceMove(p)
      PROVE  ConsumeMove(subject) /\ approval[subject].plan = p /\ subject \in ApprovalId
  <2>1. subject \in ApprovalId
    BY <1>1 DEF AdvanceMove, ResultInv, OperationCallHasRow, OperationPc
  <2>2. approval'[subject].status = "consumed" /\ approval[subject].status = "approved"
    BY <1>1, <2>1 DEF AdvanceMove, ConsumeOperation, Startable, TypeOK, ApprovalRow
  <2> QED BY <1>1, <2>1, <2>2, ApprovalMoves
          DEF AdvanceMove, ApprovalMove, RequestMove, DecisionMove, ResultMove
<1>2. ASSUME NEW a \in ApprovalId, ConsumeMove(a) PROVE AdvanceMove(approval[a].plan)
  <2> DEFINE p == approval[a].plan
  <2>1. p \in PreviewId /\ preview[p] \in PreviewRow
    BY <1>2, ConsumeRuns DEF ConsumeMove, TypeOK
  <2>2. preview' = [preview EXCEPT ![p].position = @ + 1]
    BY <1>2 DEF ConsumeMove, ConsumeOperation
  <2>3. preview'[p] = [preview[p] EXCEPT !.position = @ + 1]
    BY <2>1, <2>2 DEF TypeOK
  <2> HIDE DEF p
  <2> QED BY <1>2, <2>1, <2>3 DEF ConsumeMove, AdvanceMove, PreviewRow, p
<1> QED BY <1>1, <1>2

\* A step starts the operation at the position of the confirmed preview, and advances it.
LEMMA PlanStep ==
  ASSUME TypeOK, ConsentInv, ResultInv, PlanInv, [Next]_vars
  PROVE  ExecutesConfirmedPlan'
<1> USE DEF PlanInv
<1>1. ASSUME NEW a \in ApprovalId, Started(a)
      PROVE  /\ approval[a].plan \in PreviewId /\ approval[a].pos \in Nat
             /\ preview[approval[a].plan].status # "absent"
             /\ approval[a].pos < preview[approval[a].plan].position
  <2>1. approval[a].status # "absent" /\ approval[a].pos \in Nat
    BY <1>1 DEF Started, ResultInv, OutputAtEnd, TypeOK, ApprovalRow
  <2> QED
    BY <1>1, <2>1
       DEF ConsentInv, RequestedUnderConfirmed, Confirmed, ExecutesConfirmedPlan
<1>2. ASSUME NEW p \in PreviewId
      PROVE  preview[p].position \in Nat /\ preview[p].ops \in Seq(Operation)
  BY DEF TypeOK, PreviewRow
<1>3. ASSUME NEW p \in PreviewId, preview[p].status = "absent", NEW k \in Nat
      PROVE  RanAt(p, k) = {}
  BY <1>1, <1>3 DEF RanAt
<1>4. ASSUME NEW p \in PreviewId
      PROVE  ProposeMove(p) \/ SamePlan(p) \/ AdvanceMove(p)
  BY PreviewMoves DEF PreviewMove, PreviewDecisionMove, SamePlan
<1>5. CASE \A a \in ApprovalId : ~ConsumeMove(a)
  <2>1. ASSUME NEW a \in ApprovalId
        PROVE  (Started(a)' <=> Started(a)) /\ (Started(a) => SameRequest(a))
    BY <1>5, StartsByConsuming
  <2>2. ASSUME NEW p \in PreviewId, NEW k \in Nat PROVE RanAt(p, k)' = RanAt(p, k)
    BY <2>1 DEF RanAt, SameRequest
  <2>3. ASSUME NEW p \in PreviewId
        PROVE  \/ SamePlan(p)
               \/ preview[p].status = "absent" /\ preview'[p].position = 0
    BY <1>4, <1>5, AdvanceIsConsume DEF ProposeMove
  <2>4. ASSUME NEW p \in PreviewId, NEW k \in 0..(Len(preview'[p].ops) - 1)
        PROVE  IF k < preview'[p].position
               THEN \E a \in ApprovalId :
                      RanAt(p, k)' = {a} /\ approval'[a].op = preview'[p].ops[k + 1]
               ELSE RanAt(p, k)' = {}
    <3>1. RanAt(p, k)' = RanAt(p, k)
      BY <2>2, <2>4
    <3>2. CASE SamePlan(p)
      <4>1. k \in 0..(Len(preview[p].ops) - 1)
        BY <2>4, <3>2 DEF SamePlan
      <4>2. ASSUME NEW a \in RanAt(p, k) PROVE approval'[a].op = approval[a].op
        BY <2>1, <4>2 DEF RanAt, SameRequest
      <4> QED BY <3>1, <3>2, <4>1, <4>2 DEF SamePlan, ExecutesConfirmedPlan
    <3>3. CASE preview[p].status = "absent" /\ preview'[p].position = 0
      BY <1>3, <2>4, <3>1, <3>3
    <3> QED BY <2>3, <3>2, <3>3
  <2>5. ASSUME NEW a \in ApprovalId, Started(a)'
        PROVE  approval'[a].pos < preview'[approval'[a].plan].position
    <3>1. Started(a) /\ SameRequest(a)
      BY <2>1, <2>5
    <3>2. SamePlan(approval[a].plan)
      BY <1>1, <2>3, <3>1
    <3> QED BY <1>1, <3>1, <3>2 DEF SameRequest, SamePlan
  <2> QED BY <2>4, <2>5 DEF ExecutesConfirmedPlan
<1>6. ASSUME NEW b \in ApprovalId, ConsumeMove(b) PROVE ExecutesConfirmedPlan'
  <2>1. PICK r \in PreviewId, n \in Nat :
          /\ approval[b].plan = r /\ approval[b].pos = n
          /\ n = preview[r].position /\ n < Len(preview[r].ops)
          /\ approval[b].op = preview[r].ops[n + 1]
    BY <1>6, ConsumeRuns DEF ConsumeMove
  <2>2. preview'[r].ops = preview[r].ops /\ preview'[r].position = n + 1
    BY <1>6, <2>1, AdvanceIsConsume DEF AdvanceMove
  <2>3. ASSUME NEW p \in PreviewId, p # r PROVE SamePlan(p)
    BY <1>4, <1>6, <2>1, <2>3 DEF ConsumeMove, ProposeMove, AdvanceMove
  <2>4. ASSUME NEW a \in ApprovalId, a # b
        PROVE  (Started(a)' <=> Started(a)) /\ (Started(a) => SameRequest(a))
    BY <1>6, <2>4, StartsByConsuming DEF ConsumeMove
  <2>5. Started(b)' /\ ~Started(b) /\ SameRequest(b)
    BY <1>6 DEF ConsumeMove, Started, ResultInv, SubjectNotStarted, OperationPc
  <2>6. ASSUME NEW p \in PreviewId, NEW k \in Nat, ~(p = r /\ k = n)
        PROVE  RanAt(p, k)' = RanAt(p, k)
    <3>1. ASSUME NEW a \in ApprovalId PROVE a \in RanAt(p, k)' <=> a \in RanAt(p, k)
      <4>1. CASE a = b
        BY <2>1, <2>5, <2>6, <4>1 DEF RanAt, SameRequest
      <4>2. CASE a # b
        BY <2>4, <4>2 DEF RanAt, SameRequest
      <4> QED BY <4>1, <4>2
    <3> QED BY <3>1 DEF RanAt
  <2>7. RanAt(r, n) = {}
    <3>1. n \in 0..(Len(preview[r].ops) - 1)
      BY <1>2, <2>1
    <3> QED BY <2>1, <3>1 DEF ExecutesConfirmedPlan
  <2>8. RanAt(r, n)' = {b}
    <3>1. ASSUME NEW a \in ApprovalId PROVE a \in RanAt(r, n)' <=> a = b
      <4>1. CASE a = b
        BY <2>1, <2>5, <4>1 DEF RanAt, SameRequest
      <4>2. CASE a # b
        BY <2>4, <2>7, <4>2 DEF RanAt, SameRequest
      <4> QED BY <4>1, <4>2
    <3> QED BY <3>1 DEF RanAt
  <2>9. ASSUME NEW p \in PreviewId, NEW k \in 0..(Len(preview'[p].ops) - 1)
        PROVE  IF k < preview'[p].position
               THEN \E a \in ApprovalId :
                      RanAt(p, k)' = {a} /\ approval'[a].op = preview'[p].ops[k + 1]
               ELSE RanAt(p, k)' = {}
    <3>1. CASE p = r /\ k = n
      BY <2>1, <2>2, <2>5, <2>8, <3>1 DEF SameRequest
    <3>2. CASE ~(p = r /\ k = n)
      <4>1. RanAt(p, k)' = RanAt(p, k)
        BY <2>6, <2>9, <3>2
      <4>2. k \in 0..(Len(preview[p].ops) - 1) /\ preview'[p].ops = preview[p].ops
        BY <2>2, <2>3, <2>9 DEF SamePlan
      <4>3. k < preview'[p].position <=> k < preview[p].position
        BY <1>2, <2>1, <2>2, <2>3, <3>2, <4>2 DEF SamePlan
      <4>4. ASSUME NEW a \in RanAt(p, k) PROVE approval'[a].op = approval[a].op
        BY <2>4, <2>5, <4>4 DEF RanAt, SameRequest
      <4> QED BY <4>1, <4>2, <4>3, <4>4 DEF ExecutesConfirmedPlan
    <3> QED BY <3>1, <3>2
  <2>10. ASSUME NEW a \in ApprovalId, Started(a)'
         PROVE  approval'[a].pos < preview'[approval'[a].plan].position
    <3>1. CASE a = b
      BY <2>1, <2>2, <2>5, <3>1 DEF SameRequest
    <3>2. CASE a # b
      <4>1. Started(a) /\ SameRequest(a)
        BY <2>4, <2>10, <3>2
      <4>2. /\ approval[a].pos \in Nat /\ approval[a].plan \in PreviewId
            /\ approval[a].pos < preview[approval[a].plan].position
        BY <1>1, <4>1
      <4>3. preview'[approval[a].plan].position >= preview[approval[a].plan].position
        BY <1>2, <2>1, <2>2, <2>3, <4>2 DEF SamePlan
      <4>4. /\ preview[approval[a].plan].position \in Nat
            /\ preview'[approval[a].plan].position \in Nat
        BY <1>2, <2>1, <2>2, <2>3, <4>2 DEF SamePlan
      <4> QED BY <4>1, <4>2, <4>3, <4>4 DEF SameRequest
    <3> QED BY <3>1, <3>2
  <2> QED BY <2>9, <2>10 DEF ExecutesConfirmedPlan
<1> QED BY <1>5, <1>6

\* Each position below a confirmed preview's counter was run exactly once, by the
\* operation the user saw there, and nothing else ran.
THEOREM PlanIsExecuted == Spec => []ExecutesConfirmedPlan
<1>1. Init => PlanInv
  <2>1. Init => ExecutesConfirmedPlan
    BY DEF Init, ExecutesConfirmedPlan, RanAt, Started
  <2> QED BY <2>1 DEF Init, PlanInv, AbsentIsFresh
<1>2. TypeOK /\ ConsentInv /\ ResultInv /\ PlanInv /\ [Next]_vars => PlanInv'
  BY PlanStep, AbsentIsFreshStep DEF PlanInv
<1>3. PlanInv => ExecutesConfirmedPlan
  BY DEF PlanInv
<1> QED
  BY <1>1, <1>2, <1>3, TypeCorrect, RequestsHaveConsent, ResultsAreFinal, PTL DEF Spec

-----------------------------------------------------------------------------
(* An openai call runs on the worker's thread.                               *)

OwnThread == kind = "openai" => IF worker = "backend" THEN held = TRUE ELSE pc = "idle"

\* A task with an openai backend has its devices while its backend runs, and no call
\* once that is over: the worker's thread is the call's.
THEOREM CallRunsOnWorker == Spec => []OwnThread
<1>1. Init => OwnThread
  BY DEF Init, OwnThread
<1>2. TypeOK /\ OwnThread /\ [Next]_vars => OwnThread'
  <2> SUFFICES ASSUME TypeOK, OwnThread, [Next]_vars PROVE OwnThread'
    OBVIOUS
  <2> USE DEF OwnThread, taskVars, callVars, runVars
  <2>1. CASE CallStep
    BY <2>1 DEF CallStep, FailCall, CancelCall, CallFinish, ProposePreview, AwaitPreview,
       Ask, AwaitAnswer, Answered, CompleteStep, PassCheck, RequestOperation, AwaitGrant,
       DrainBeforeStart, Displace, ConsumeOperation, RecordResult, Goto, Return, RaiseError,
       RaiseCancelled
  <2>2. CASE AgentStep \/ WorkerStep
    BY <2>2 DEF AgentStep, BeginCall, CanCall, InvalidCall, BackendDrain, Goto, RaiseError,
       RaiseCancelled, WorkerStep, BackendReturns, BackendFails, BackendCancelled, Finish,
       WorkerEnds, WorkerFree
  <2>3. CASE UserStep
    <3>1. CASE ReleaseScene
      BY <3>1 DEF ReleaseScene
    <3>2. CASE UNCHANGED <<kind, held, callVars, runVars>>
      BY <3>2
    <3> QED
      BY <2>3, <3>1, <3>2 DEF UserStep, ApprovePreview, RejectPreview, Approve, Message,
         RejectOperation, StopCheck
  <2>4. CASE RequestStep \/ Restart \/ UNCHANGED vars
    BY <2>4 DEF RequestStep, SignalCancel, StopMark, StopSignal, Terminate, Restart, vars
  <2> QED BY <2>1, <2>2, <2>3, <2>4 DEF Next
<1> QED BY <1>1, <1>2, TypeCorrect, PTL DEF Spec

\* A call on the worker's own thread executes on devices the task holds: only the
\* worker or its end gives them back, and the worker does not get there before the
\* call has come back.
THEOREM ExecutionIsHeld == Spec => []ExecutesOnHeldDevices
<1>1. OwnThread => ExecutesOnHeldDevices
  BY DEF OwnThread, ExecutesOnHeldDevices
<1> QED BY <1>1, CallRunsOnWorker, PTL

-----------------------------------------------------------------------------
(* A waiting task waits for something.                                       *)

\* The operation a call prepares or executes waits for nobody.
SubjectDecided ==
  \A a \in ApprovalId :
    pc \in OperationPc \ {"await_grant"} /\ subject = a => approval[a].status # "pending"

WaitingInv == WaitingHasReason /\ SubjectDecided

\* A step of a call takes up an operation only when nobody is asked for it any more.
LEMMA SubjectDecidedStep ==
  ASSUME TypeOK, ResultInv, SubjectDecided, [Next]_vars
  PROVE  SubjectDecided'
<1> SUFFICES ASSUME NEW a \in ApprovalId, pc' \in OperationPc \ {"await_grant"}, subject' = a
             PROVE  approval'[a].status # "pending"
  BY DEF SubjectDecided
<1>1. pc \in OperationPc /\ subject = a /\ ~RequestOperation
  BY OperationCallStarts
<1>2. approval'[a].status = "pending" => approval[a].status = "pending"
  BY <1>1, ApprovalMoves
     DEF ApprovalMove, RequestMove, DecisionMove, ConsumeMove, ResultMove
<1>3. CASE pc # "await_grant"
  BY <1>1, <1>2, <1>3 DEF SubjectDecided
<1>4. CASE pc = "await_grant"
  <2>1. CASE AwaitGrant
    BY <1>1, <1>2, <1>4, <2>1
       DEF AwaitGrant, Goto, Return, RaiseCancelled, rowVars, OperationPc
  <2>2. CASE CallStep /\ ~AwaitGrant
    BY <1>4, <2>2
       DEF CallStep, FailCall, CancelCall, CallFinish, ProposePreview, AwaitPreview, Ask,
           AwaitAnswer, Answered, CompleteStep, PassCheck, RequestOperation,
           DrainBeforeStart, Displace, ConsumeOperation, RecordResult
  <2>3. CASE Restart
    BY <2>3 DEF Restart, OperationPc
  <2>4. CASE ~CallStep /\ ~Restart
    BY <1>4, <2>4, OthersKeepCall DEF callVars
  <2> QED BY <2>1, <2>2, <2>3, <2>4
<1> QED BY <1>3, <1>4

\* What keeps a task waiting: nothing but these steps makes it wait.
LEMMA WaitingStarts ==
  ASSUME TypeOK, [Next]_vars, status' = "waiting_user"
  PROVE  \/ status = "waiting_user"
         \/ \E p \in PreviewId : preview'[p].status = "pending"
         \/ \E a \in ApprovalId : approval'[a].status = "pending"
         \/ pc' = "await_answer"
<1> USE DEF taskVars
<1>1. CASE ProposePreview
  <2>1. ASSUME NEW r \in FreePreview, NEW ops \in Plan,
               preview' = [SetPreviews({"approved"}, "superseded") EXCEPT ![r] =
                 [status |-> "pending", ops |-> ops, position |-> 0, confirmed |-> FALSE]]
        PROVE  \E p \in PreviewId : preview'[p].status = "pending"
    <3>1. r \in PreviewId
      BY DEF FreePreview, PreviewsIn
    <3>2. preview'[r].status = "pending"
      BY <2>1, <3>1 DEF SetPreviews
    <3> QED BY <3>1, <3>2
  <2> QED BY <1>1, <2>1 DEF ProposePreview
<1>2. CASE RequestOperation
  <2>1. ASSUME NEW op, NEW b \in FreeApproval, NEW p, Requested(op) = "pending",
               approval' = [approval EXCEPT ![b] =
                 [status |-> Requested(op), op |-> op, plan |-> p,
                  pos |-> preview[p].position, granted |-> FALSE, output |-> "none"]]
        PROVE  \E a \in ApprovalId : approval'[a].status = "pending"
    <3>1. b \in ApprovalId /\ b \in DOMAIN approval
      BY DEF FreeApproval, ApprovalsIn, TypeOK
    <3> QED BY <2>1, <3>1
  <2> QED BY <1>2, <2>1 DEF RequestOperation
<1>3. CASE Ask
  BY <1>3 DEF Ask, Goto
<1>4. CASE CallStep /\ ~ProposePreview /\ ~RequestOperation /\ ~Ask
  BY <1>4 DEF CallStep, FailCall, Fail, CancelCall, CallFinish, AwaitPreview, AwaitAnswer,
     Answered, CompleteStep, PassCheck, AwaitGrant, DrainBeforeStart, Displace,
     ConsumeOperation, RecordResult
<1>5. CASE AgentStep \/ WorkerStep
  BY <1>5 DEF AgentStep, BeginCall, InvalidCall, BackendDrain, WorkerStep, BackendReturns,
     BackendFails, BackendCancelled, Finish, WorkerEnds, Fail
<1>6. CASE UserStep
  BY <1>6 DEF UserStep, ApprovePreview, RejectPreview, Approve, Message, Void,
     RejectOperation, Fail, StopCheck, ReleaseScene
<1>7. CASE RequestStep \/ Restart \/ UNCHANGED vars
  BY <1>7 DEF RequestStep, SignalCancel, StopMark, StopSignal, Terminate, Restart, vars
<1> QED BY <1>1, <1>2, <1>3, <1>4, <1>5, <1>6, <1>7 DEF Next

\* A call that asks leaves its wait only when it is answered, cancelled or without a worker.
LEMMA AnswerMoves ==
  ASSUME TypeOK, [Next]_vars, pc \in {"await_answer", "answered"}, ~cancelled,
         status' = "waiting_user", worker' # "gone"
  PROVE  pc' \in {"await_answer", "answered"}
<1>1. CASE CallStep
  <2>1. CASE AwaitAnswer
    BY <2>1 DEF AwaitAnswer, Goto
  <2>2. CASE Answered
    BY <2>2 DEF Answered
  <2> QED
    BY <1>1, <2>1, <2>2
       DEF CallStep, FailCall, CancelCall, CallFinish, ProposePreview, AwaitPreview, Ask,
           CompleteStep, PassCheck, RequestOperation, AwaitGrant, DrainBeforeStart,
           Displace, ConsumeOperation, RecordResult
<1>2. CASE Restart
  BY <1>2 DEF Restart
<1>3. CASE ~CallStep /\ ~Restart
  BY <1>3, OthersKeepCall DEF callVars
<1> QED BY <1>1, <1>2, <1>3

\* A cancelled run, or one without a worker, does not come back.
LEMMA RunStaysOver ==
  ASSUME TypeOK, OwnThread, [Next]_vars, cancelled \/ worker = "gone"
  PROVE  cancelled' \/ worker' = "gone"
<1> USE DEF runVars
<1>1. CASE CallStep
  <2>1. CASE CancelCall
    BY <2>1 DEF CancelCall
  <2>2. CASE UNCHANGED cancelled /\ (UNCHANGED worker \/ RaiseCancelled) /\ pc # "idle"
    BY <2>2, KindAssumption DEF RaiseCancelled, OwnThread, TypeOK
  <2> QED
    BY <1>1, <2>1, <2>2
       DEF CallStep, FailCall, CallFinish, ProposePreview, AwaitPreview, Ask, AwaitAnswer,
           Answered, CompleteStep, PassCheck, RequestOperation, AwaitGrant,
           DrainBeforeStart, Displace, ConsumeOperation, RecordResult, Goto, Return,
           RaiseError
<1>2. CASE AgentStep \/ WorkerStep
  BY <1>2 DEF AgentStep, BeginCall, CanCall, InvalidCall, BackendDrain, Goto, RaiseError,
     RaiseCancelled, WorkerStep, BackendReturns, BackendFails, BackendCancelled, Finish,
     WorkerEnds
<1>3. CASE UserStep
  BY <1>3 DEF UserStep, ApprovePreview, RejectPreview, Approve, Message, RejectOperation,
     StopCheck, ReleaseScene
<1>4. CASE SignalCancel \/ StopSignal
  <2>1. UNCHANGED worker /\ (cancelled' <=> cancelled \/ worker # "gone")
    BY <1>4 DEF SignalCancel, StopSignal
  <2> QED BY <2>1
<1>5. CASE StopMark \/ Terminate \/ Restart \/ UNCHANGED vars
  BY <1>5 DEF StopMark, Terminate, Restart, vars
<1> QED BY <1>1, <1>2, <1>3, <1>4, <1>5 DEF Next, RequestStep

\* A step that lets the task wait leaves it something to wait for, and takes it away only
\* with the wait.
LEMMA WaitingStep ==
  ASSUME TypeOK, OwnThread, ResultInv, WaitingInv, [Next]_vars
  PROVE  WaitingHasReason'
<1> SUFFICES ASSUME status' = "waiting_user", ~cancelled', worker' # "gone"
             PROVE  \/ \E p \in PreviewId : preview'[p].status = "pending"
                    \/ \E a \in ApprovalId : approval'[a].status = "pending"
                    \/ pc' \in {"await_answer", "answered"}
  BY DEF WaitingHasReason, PreviewsIn, ApprovalsIn
<1>1. CASE status # "waiting_user"
  BY <1>1, WaitingStarts
<1>2. CASE status = "waiting_user"
  <2>1. ~cancelled /\ worker # "gone"
    BY RunStaysOver
  <2>2. CASE pc \in {"await_answer", "answered"}
    BY <2>1, <2>2, AnswerMoves
  <2>3. ASSUME NEW p \in PreviewId, preview[p].status = "pending"
        PROVE  preview'[p].status = "pending"
    BY <2>3, PreviewMoves
       DEF PreviewMove, ProposeMove, PreviewDecisionMove, AdvanceMove
  <2>4. ASSUME NEW a \in ApprovalId, approval[a].status = "pending"
        PROVE  approval'[a].status = "pending"
    BY <2>4, ApprovalMoves
       DEF ApprovalMove, RequestMove, DecisionMove, ConsumeMove, Startable, ResultMove,
           ResultInv, ExecutingIsConsumed, WaitingInv, SubjectDecided, OperationPc
  <2> QED
    BY <1>2, <2>1, <2>2, <2>3, <2>4
       DEF WaitingInv, WaitingHasReason, PreviewsIn, ApprovalsIn
<1> QED BY <1>1, <1>2

\* A live run whose task waits for the user gives the user something to decide or a
\* question to answer: no message, timeout or late answer leaves it waiting for
\* nothing.
THEOREM WaitingIsForSomething == Spec => []WaitingHasReason
<1>1. Init => WaitingInv
  BY DEF Init, WaitingInv, WaitingHasReason, SubjectDecided, OperationPc
<1>2. TypeOK /\ OwnThread /\ ResultInv /\ WaitingInv /\ [Next]_vars => WaitingInv'
  BY WaitingStep, SubjectDecidedStep DEF WaitingInv
<1>3. WaitingInv => WaitingHasReason
  BY DEF WaitingInv
<1> QED
  BY <1>1, <1>2, <1>3, TypeCorrect, CallRunsOnWorker, ResultsAreFinal, PTL DEF Spec

-----------------------------------------------------------------------------
(* The first error is the last operation, and completion is honest.          *)

ErrorHalts ==
  \A a \in ApprovalId : approval[a].output = "error" => Halted /\ ~finished

\* After finish the agent has no call that could do anything.
FinishedCallsNothing == finished => pc \in FailurePc \cup {"idle"}

ReturnedIsFinished == worker = "returned" => finished

EvidenceRan ==
  \A c \in Check : evidence[c] # None => approval[evidence[c]].output = "ok"

ErrorInv == ErrorHalts /\ FinishedCallsNothing

\* A call after finish is refused.
LEMMA FinishedCallsNothingStep ==
  ASSUME TypeOK, FinishedCallsNothing, [Next]_vars
  PROVE  FinishedCallsNothing'
<1> USE DEF FinishedCallsNothing, FailurePc, callVars
<1>1. CASE CallStep
  BY <1>1 DEF CallStep, FailCall, CancelCall, CallFinish, ProposePreview, AwaitPreview, Ask,
     AwaitAnswer, Answered, CompleteStep, PassCheck, RequestOperation, AwaitGrant,
     DrainBeforeStart, Displace, ConsumeOperation, RecordResult, Goto, Return, RaiseError,
     RaiseCancelled
<1>2. CASE AgentStep \/ WorkerStep
  BY <1>2 DEF AgentStep, BeginCall, CanCall, InvalidCall, BackendDrain, Goto, RaiseError,
     RaiseCancelled, WorkerStep, BackendReturns, BackendFails, BackendCancelled, Finish,
     WorkerEnds
<1>3. CASE UserStep
  BY <1>3 DEF UserStep, ApprovePreview, RejectPreview, Approve, Message, RejectOperation,
     StopCheck, ReleaseScene
<1>4. CASE RequestStep \/ Restart \/ UNCHANGED vars
  BY <1>4 DEF RequestStep, SignalCancel, StopMark, StopSignal, Terminate, Restart, vars
<1> QED BY <1>1, <1>2, <1>3, <1>4 DEF Next

\* A call sets the mark of finish, and nobody else.
LEMMA FinishIsCalled ==
  ASSUME TypeOK, [Next]_vars, finished'
  PROVE  finished \/ CallFinish
<1> USE DEF callVars
<1>1. CASE CallStep
  BY <1>1 DEF CallStep, FailCall, CancelCall, ProposePreview, AwaitPreview, Ask,
     AwaitAnswer, Answered, CompleteStep, PassCheck, RequestOperation, AwaitGrant,
     DrainBeforeStart, Displace, ConsumeOperation, RecordResult, Goto, Return, RaiseError,
     RaiseCancelled
<1>2. CASE AgentStep \/ WorkerStep
  BY <1>2 DEF AgentStep, BeginCall, InvalidCall, BackendDrain, Goto, RaiseError,
     RaiseCancelled, WorkerStep, BackendReturns, BackendFails, BackendCancelled, Finish,
     WorkerEnds
<1>3. CASE UserStep
  BY <1>3 DEF UserStep, ApprovePreview, RejectPreview, Approve, Message, RejectOperation,
     StopCheck, ReleaseScene
<1>4. CASE RequestStep \/ Restart \/ UNCHANGED vars
  BY <1>4 DEF RequestStep, SignalCancel, StopMark, StopSignal, Terminate, Restart, vars
<1> QED BY <1>1, <1>2, <1>3, <1>4 DEF Next

\* A step that stores an error halts the run, and a halted run stores no result.
LEMMA ErrorHaltsStep ==
  ASSUME TypeOK, ResultInv, ErrorInv, [Next]_vars
  PROVE  ErrorHalts'
<1> SUFFICES ASSUME NEW a \in ApprovalId, approval'[a].output = "error"
             PROVE  Halted' /\ ~finished'
  BY DEF ErrorHalts
<1>1. CASE approval[a].output = "error"
  <2>1. Halted /\ ~finished
    BY <1>1 DEF ErrorInv, ErrorHalts
  <2>2. ~CallFinish
    BY <2>1 DEF CallFinish, Halted, FailurePc
  <2> QED BY <2>1, <2>2, HaltedStays, FinishIsCalled
<1>2. CASE approval[a].output # "error"
  <2>1. ResultMove(a)
    BY <1>2, ApprovalMoves
       DEF ApprovalMove, RequestMove, DecisionMove, ConsumeMove
  <2>2. PICK out \in {"ok", "error"} :
          /\ approval' = [approval EXCEPT ![subject].status = "finished",
                                          ![subject].output = out]
          /\ (out = "ok" /\ Return) \/ RaiseError \/ RaiseCancelled
    BY <2>1 DEF ResultMove, RecordResult
  <2>3. approval'[a].output = out
    <3>1. approval'[a] = [[approval[a] EXCEPT !.status = "finished"] EXCEPT !.output = out]
      BY <2>1, <2>2 DEF ResultMove, TypeOK
    <3>2. approval[a] \in ApprovalRow
      BY DEF TypeOK
    <3> QED BY <3>1, <3>2 DEF ApprovalRow
  <2>4. (RaiseError \/ RaiseCancelled) /\ UNCHANGED kind
    BY <2>1, <2>2, <2>3 DEF ResultMove, RecordResult
  <2>5. ~finished /\ ~CallFinish
    BY <2>1 DEF ResultMove, ErrorInv, FinishedCallsNothing, FailurePc, CallFinish
  <2> QED BY <2>4, <2>5, RaisingHalts, FinishIsCalled
<1> QED BY <1>1, <1>2

\* An operation that failed is the last one: the run is halted, or has nothing left
\* but to fail the task.
THEOREM ErrorsHalt == Spec => []ErrorInv
<1>1. Init => ErrorInv
  BY DEF Init, ErrorInv, ErrorHalts, FinishedCallsNothing
<1>2. TypeOK /\ ResultInv /\ ErrorInv /\ [Next]_vars => ErrorInv'
  BY ErrorHaltsStep, FinishedCallsNothingStep DEF ErrorInv
<1> QED BY <1>1, <1>2, TypeCorrect, ResultsAreFinal, PTL DEF Spec

\* After an operation has failed the task never touches a device again.
THEOREM FirstErrorStops == Spec => StopsAtFirstError
<1>1. TypeOK /\ ResultInv /\ ErrorInv /\ [Next]_vars
        => [(\E a \in ApprovalId : ~Started(a) /\ Started(a)')
              => \A b \in ApprovalId : approval[b].output # "error"]_vars
  <2> SUFFICES ASSUME TypeOK, ResultInv, ErrorInv, [Next]_vars,
                      NEW a \in ApprovalId, ~Started(a), Started(a)',
                      NEW b \in ApprovalId, approval[b].output = "error"
               PROVE  FALSE
    OBVIOUS
  <2>1. pc = "drained"
    BY StartsByConsuming DEF ConsumeMove
  <2>2. Halted
    BY DEF ErrorInv, ErrorHalts
  <2> QED BY <2>1, <2>2 DEF Halted, FailurePc
<1> QED BY <1>1, TypeCorrect, ResultsAreFinal, ErrorsHalt, PTL DEF Spec, StopsAtFirstError

\* A worker returns only behind finish.
LEMMA ReturnedIsFinishedStep ==
  ASSUME TypeOK, ReturnedIsFinished, [Next]_vars
  PROVE  ReturnedIsFinished'
<1> USE DEF ReturnedIsFinished, callVars, runVars
<1>1. CASE CallStep
  BY <1>1 DEF CallStep, FailCall, CancelCall, CallFinish, ProposePreview, AwaitPreview, Ask,
     AwaitAnswer, Answered, CompleteStep, PassCheck, RequestOperation, AwaitGrant,
     DrainBeforeStart, Displace, ConsumeOperation, RecordResult, Goto, Return, RaiseError,
     RaiseCancelled
<1>2. CASE AgentStep \/ WorkerStep
  BY <1>2 DEF AgentStep, BeginCall, InvalidCall, BackendDrain, Goto, RaiseError,
     RaiseCancelled, WorkerStep, BackendReturns, BackendFails, BackendCancelled, Finish,
     WorkerEnds
<1>3. CASE UserStep
  BY <1>3 DEF UserStep, ApprovePreview, RejectPreview, Approve, Message, RejectOperation,
     StopCheck, ReleaseScene
<1>4. CASE RequestStep \/ Restart \/ UNCHANGED vars
  BY <1>4 DEF RequestStep, SignalCancel, StopMark, StopSignal, Terminate, Restart, vars
<1> QED BY <1>1, <1>2, <1>3, <1>4 DEF Next

\* A completion takes as evidence operations that have run well, and their outputs stay.
LEMMA EvidenceStep ==
  ASSUME TypeOK, TypeOK', ResultInv, EvidenceRan, [Next]_vars
  PROVE  EvidenceRan'
<1>1. ASSUME NEW a \in ApprovalId, approval[a].output = "ok"
      PROVE  approval'[a].output = "ok"
  BY <1>1, ApprovalMoves
     DEF ApprovalMove, RequestMove, DecisionMove, ConsumeMove, ResultMove, ResultInv,
         OutputAtEnd, ExecutingIsConsumed
<1>2. ASSUME NEW c \in Check, evidence'[c] # None
      PROVE  evidence'[c] = evidence[c] \/ approval[evidence'[c]].output = "ok"
  <2>1. CASE UNCHANGED evidence
    BY <2>1
  <2>2. CASE PassCheck
    BY <1>2, <2>2 DEF PassCheck, TypeOK
  <2>3. UNCHANGED evidence \/ PassCheck
    BY DEF Next, CallStep, FailCall, CancelCall, CallFinish, ProposePreview, AwaitPreview,
       Ask, AwaitAnswer, Answered, CompleteStep, RequestOperation, AwaitGrant,
       DrainBeforeStart, Displace, ConsumeOperation, RecordResult, AgentStep, BeginCall,
       InvalidCall, BackendDrain, WorkerStep, BackendReturns, BackendFails,
       BackendCancelled, Finish, WorkerEnds, UserStep, ApprovePreview, RejectPreview,
       Approve, Message, RejectOperation, StopCheck, ReleaseScene, RequestStep,
       SignalCancel, StopMark, StopSignal, Terminate, Restart, vars, rowVars
  <2> QED BY <2>1, <2>2, <2>3
<1>3. ASSUME NEW c \in Check, evidence'[c] # None
      PROVE  approval[evidence'[c]].output = "ok" /\ evidence'[c] \in ApprovalId
  <2>1. evidence'[c] \in ApprovalId \cup {None}
    BY DEF TypeOK
  <2> QED BY <1>2, <1>3, <2>1 DEF EvidenceRan
<1> QED BY <1>1, <1>3 DEF EvidenceRan

CompletionInv == ReturnedIsFinished /\ EvidenceRan

\* The invariant behind a completion holds always.
LEMMA CompletionInvariant == Spec => []CompletionInv
<1>1. Init => CompletionInv
  BY DEF Init, CompletionInv, ReturnedIsFinished, EvidenceRan
<1>2. TypeOK /\ TypeOK' /\ ResultInv /\ CompletionInv /\ [Next]_vars => CompletionInv'
  BY ReturnedIsFinishedStep, EvidenceStep DEF CompletionInv
<1> QED BY <1>1, <1>2, TypeCorrect, ResultsAreFinal, PTL DEF Spec

\* Only the worker's finish makes a task succeed.
LEMMA SucceedsByFinishing ==
  ASSUME TypeOK, [Next]_vars, status # "succeeded", status' = "succeeded"
  PROVE  Finish /\ Finishable
<1> USE DEF taskVars, Fail
<1>1. CASE CallStep
  BY <1>1 DEF CallStep, FailCall, CancelCall, CallFinish, ProposePreview, AwaitPreview, Ask,
     AwaitAnswer, Answered, CompleteStep, PassCheck, RequestOperation, AwaitGrant,
     DrainBeforeStart, Displace, ConsumeOperation, RecordResult
<1>2. CASE AgentStep \/ WorkerStep
  BY <1>2 DEF AgentStep, BeginCall, InvalidCall, BackendDrain, WorkerStep, BackendReturns,
     BackendFails, BackendCancelled, Finish, WorkerEnds
<1>3. CASE UserStep
  BY <1>3 DEF UserStep, ApprovePreview, RejectPreview, Approve, Message, Void,
     RejectOperation, StopCheck, ReleaseScene
<1>4. CASE RequestStep \/ Restart \/ UNCHANGED vars
  BY <1>4 DEF RequestStep, SignalCancel, StopMark, StopSignal, Terminate, Restart, vars
<1> QED BY <1>1, <1>2, <1>3, <1>4 DEF Next

\* A task that completes did all of it: no operation it ever started failed or is
\* still open, each position of the confirmed plan was run, and every required
\* check refers to an operation that returned.
THEOREM CompletionIsHonest == Spec => CompletesHonestly
<1> DEFINE Honest ==
      /\ \A a \in ApprovalId : Started(a) => approval[a].output = "ok"
      /\ \A p \in PreviewsIn({"approved"}) : \A k \in 0..(Len(preview[p].ops) - 1) :
           RanAt(p, k) # {}
      /\ \A c \in Check : evidence[c] # None /\ approval[evidence[c]].output = "ok"
<1>1. TypeOK /\ OneLiveRequest /\ ExecutesConfirmedPlan /\ ErrorInv /\ CompletionInv
        /\ [Next]_vars
        => [status # "succeeded" /\ status' = "succeeded" => Honest]_vars
  <2> SUFFICES ASSUME TypeOK, OneLiveRequest, ExecutesConfirmedPlan, ErrorInv, CompletionInv,
                      [Next]_vars, status # "succeeded", status' = "succeeded"
               PROVE  Honest
    OBVIOUS
  <2>1. worker = "returned" /\ Finishable
    BY SucceedsByFinishing DEF Finish
  <2>2. ASSUME NEW a \in ApprovalId, Started(a) PROVE approval[a].output = "ok"
    <3>1. approval[a].output \in {"none", "ok", "error"}
      BY DEF TypeOK, ApprovalRow
    <3>2. approval[a].status # "consumed"
      BY <2>1 DEF Finishable, Unfinished, ApprovalsIn
    <3>3. approval[a].output # "error"
      BY <2>1 DEF CompletionInv, ReturnedIsFinished, ErrorInv, ErrorHalts
    <3> QED BY <2>2, <3>1, <3>2, <3>3 DEF Started
  <2>3. ASSUME NEW p \in PreviewsIn({"approved"}), NEW k \in 0..(Len(preview[p].ops) - 1)
        PROVE  RanAt(p, k) # {}
    <3>1. p \in PreviewId /\ preview[p].position = Len(preview[p].ops)
      BY <2>1 DEF Finishable, OneLiveRequest, PreviewsIn
    <3>2. Len(preview[p].ops) \in Nat
      BY <3>1 DEF TypeOK, PreviewRow
    <3>3. k < preview[p].position
      BY <3>1, <3>2
    <3> QED BY <2>3, <3>1, <3>3 DEF ExecutesConfirmedPlan
  <2>4. ASSUME NEW c \in Check PROVE evidence[c] # None /\ approval[evidence[c]].output = "ok"
    BY <2>1 DEF Finishable, CompletionInv, EvidenceRan
  <2> QED BY <2>2, <2>3, <2>4
<1> QED
  BY <1>1, TypeCorrect, LiveRequestIsSingle, PlanIsExecuted, ErrorsHalt, CompletionInvariant,
     PTL DEF Spec, CompletesHonestly
=============================================================================
