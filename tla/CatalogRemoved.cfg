SPECIFICATION MCFairSpec
CHECK_DEADLOCK FALSE
CONSTANTS
  Parts = {"catalog"}
  d1 = d1
  d2 = d2
  k1 = k1
  k2 = k2
  t1 = t1
  t2 = t2
  a1 = a1
  a2 = a2
  None = None
  Device = {d1, d2}
  Address = {a1, a2}
  Key = {k1, k2}
  Environment = {e1}
  Task = {t1, t2}
  Users <- Removing
  NoPassword = NoPassword
  MaxCalls = 4
  MaxSaves = 1
  Body = {b1, b2}
  Password = {p1}
  Hidden = hidden
  Nothing = nothing
  Failure = failure
  Credential = {c1}
PROPERTY FreeDeviceIsClaimed
