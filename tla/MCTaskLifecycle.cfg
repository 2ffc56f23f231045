SPECIFICATION Spec
CONSTANTS
  None = None
  d1 = d1
  d2 = d2
  t1 = t1
  t2 = t2
  t3 = t3
  Task = {t1, t2}
  Device = {d1, d2}
  Bindings <- OneOrBoth
  Recovery = {r1}
  MaxAsking = 1
  MaxStopping = 1
  Backend = {"real", "simulation"}
SYMMETRY Ids
INVARIANT TypeOK
PROPERTIES
  KeepsLease
  DevicesChangeHandsOnPurpose
