SPECIFICATION MCSpec
CHECK_DEADLOCK FALSE
CONSTANTS
  Parts = {"tuning", "commands", "files", "calm"}
  i1 = i1
  i2 = i2
  a = a
  b = b
  Irq = {i1, i2}
  Tuning = {a, b}
  Irqs <- Disjoint
  Balance = TRUE
  MaxRecoveries = 1
  MaxFaults = 2
  Calls = {"exec", "write", "shell", "reconnect"}
  MaxExecs = 2
  MaxSshFaults = 2
INVARIANT TuningsAreOwed
INVARIANT TunedHasBackup
INVARIANT NothingRunsUntracked
PROPERTY WritesAreSafe
PROPERTY StoppedCallReturns
