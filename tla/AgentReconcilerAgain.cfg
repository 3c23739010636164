SPECIFICATION Spec
CONSTANTS
  n1 = n1
  n2 = n2
  Nodes = {n1, n2}
  NoNode = NoNode
  Scenarios <- OnceOnly
  Retry = 1
  MaxTaken = 2
INVARIANT TakenOnce
