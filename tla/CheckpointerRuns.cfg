CONSTANTS
  Owner = python
  Others = {bash}
  Configs <- ManyConfigs
  MaxRuns = 2
  MaxVer = 1
SPECIFICATION Spec
INVARIANTS TypeOK StoredComplete DumpNotMidFreeze BlobNotTorn FrozenInBlob
PROPERTIES AgentReturns Retried Resumed
