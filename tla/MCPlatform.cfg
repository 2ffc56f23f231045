SPECIFICATION MCSpec
CHECK_DEADLOCK FALSE
CONSTANTS
  Parts = {"servers", "update", "library"}
  None = None
  NoFile = NoFile
  PackageWrites = 2
  Server = {s1, s2, s3}
  Task = {t1, t2, t3}
  Exclusive = TRUE
  x = x
  y = y
  Trials <- Updates
  Update = {v1, v2}
  Old = Old
  Nothing = Nothing
  Mixed = Mixed
  Importer = {p1}
  Helper = {x, y}
  Late = FALSE
  MaxCommits = 2
  Request = {r1, r2, r3}
  Inode = {i1, i2, i3, i4, i5}
PROPERTY ServersTakeTurns
INVARIANT DeployedIsWhole
PROPERTY UpdateKeepsApp
PROPERTY PlatformReturns
