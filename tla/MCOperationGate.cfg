SPECIFICATION Spec
CONSTANTS
  None = None
  a = a
  b = b
  p1 = p1
  p2 = p2
  o1 = o1
  o2 = o2
  o3 = o3
  Kind = {"openai", "acp"}
  Operation = {a, b}
  NeedsGrant <- Critical
  Plan <- PlanShort
  PreviewId = {p1, p2}
  ApprovalId = {o1, o2, o3}
  Check = {c1}
  Step = {}
  MaxUnread = 1
SYMMETRY Ids
INVARIANTS
  TypeOK
  ExecutesConfirmedPlan
  StartedWithConsent
  OneLiveRequest
  WaitingHasReason
  ExecutesOnHeldDevices
PROPERTIES
  StartsUpToDate
  StopsAtFirstError
  CompletesHonestly
