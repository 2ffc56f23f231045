SPECIFICATION Spec
CONSTANTS
  None = None
  a = a
  b = b
  p1 = p1
  p2 = p2
  o1 = o1
  o2 = o2
  o3 = o3
  Kind = {"openai", "acp"}
  Operation = {b}
  NeedsGrant <- Critical
  Plan <- PlanLive
  PreviewId = {p1}
  ApprovalId = {o1}
  Check = {}
  Step = {s1}
  MaxUnread = 1
PROPERTY EndedTaskStaysEnded
