SPECIFICATION Spec
CONSTANTS
  n1 = n1
  n2 = n2
  Nodes = {n1, n2}
  NoNode = NoNode
  Scenarios <- Objects
  Retry = 1
  MaxTaken = 2
INVARIANTS TypeOK OnePipelinePerPod CountNotOver
PROPERTIES Spacing StatusAsPromised Served
