CONSTANTS
  Requests = {"p", "q"}
  Scenarios <- SlashOrColon
  AgentMounts <- TheMounts
  MountBase <- TheBase
  MaxTime = 1
  MaxTries = 1
  MaxFaults = 0
SPECIFICATION Spec
INVARIANT ReportedIntact
