SPECIFICATION Spec
CONSTANTS
  p1 = p1
  p2 = p2
  n1 = n1
  n2 = n2
  Pods = {p1, p2}
  Nodes = {n1, n2}
  Scenarios <- TwoAtOnce
INVARIANT InFlightBound
