SPECIFICATION MCSpec
CHECK_DEADLOCK FALSE
CONSTANTS
  Parts = {"custody", "stages", "load", "killed", "external"}
  Task = {t1, t2, t3}
  None = None
  MaxRecoveries = 2
  Plans <- MCPlans
  MaxStages = 5
  Stages = 2
  External = FALSE
  Size = 3
  Chunk = 2
  Faults = {"drop", "crash", "kill"}
  MaxFaults = 2
INVARIANT LiveLoadKeepsDevice
INVARIANT LogIsExact
INVARIANT StagesFollowPlan
PROPERTY GivesBackAfterLoad
PROPERTY KeepsLedger
PROPERTY LoadSettles
