SPECIFICATION Spec
CONSTANTS
  None = None
  d1 = d1
  d2 = d2
  t1 = t1
  t2 = t2
  t3 = t3
  Task = {t1, t2, t3}
  Device = {d1}
  Bindings <- One
  Recovery = {r1}
  MaxAsking = 0
  MaxStopping = 1
  Backend = {"real"}
SYMMETRY Ids
INVARIANT RecoveryIsExclusive
