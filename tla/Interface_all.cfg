SPECIFICATION Spec
CONSTANTS
  None = None
  x = x
  y = y
  Setups <- MCSetups
INVARIANTS
  NothingLeft
PROPERTY
  Served
CHECK_DEADLOCK FALSE
