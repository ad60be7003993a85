SPECIFICATION Spec
CONSTANTS
  None = None
  a = a  b = b
  ip1 = ip1  ip2 = ip2
  w1 = w1  w2 = w2
  Inst = {a, b}
  Address = {ip1, ip2}
  Wan = {w1, w2}
  Setups <- MCSetups
INVARIANTS
  RunsTheFiles
  NothingLeft
PROPERTY
  Served
CHECK_DEADLOCK FALSE
