CONSTANTS
  Owner = python
  Others = {}
  Configs <- WithoutFaults
  MaxRuns = 1
  MaxVer = 1
SPECIFICATION Spec
PROPERTY AlwaysResumed
