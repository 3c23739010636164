CONSTANTS
  Threads = {t1}
  VAs = {a1, a2}
  NoVA = NoVA
  Vals = {v1}
  Blank = Blank
  MaxOwned = 2
  Setups <- AllSetups
  Faults = {"d2h", "h2d", "create", "blob"}
  Excused = {"launch", "malloc", "free", "refreeze", "fault"}
SPECIFICATION Spec
INVARIANTS TypeOK GateCoversFrozen NoLostWakeup Integrity
PROPERTIES Transparent WatcherReturns RemapLowersGate
