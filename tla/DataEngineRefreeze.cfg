CONSTANTS
  Threads = {t1}
  VAs = {a1, a2}
  NoVA = NoVA
  Vals = {v1, v2}
  Blank = Blank
  MaxOwned = 2
  Setups <- FullOnly
  Faults = {}
  Excused = {"launch", "malloc", "free", "fault"}
SPECIFICATION Spec
INVARIANT Integrity
