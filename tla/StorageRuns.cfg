CONSTANTS
  Requests = {"p", "q"}
  Scenarios <- ManyScenarios
  AgentMounts <- TheMounts
  MountBase <- TheBase
  MaxTime = 1
  MaxTries = 2
  MaxFaults = 1
SPECIFICATION Spec
INVARIANTS TypeOK ReportedIntact NothingLost NoneLeft ReplicasApart
PROPERTY Delivered
