SPECIFICATION Spec
CONSTANTS
  None = None
  Nodes <- MCNodes
  Setups <- MCSetups
INVARIANTS
  KernelFollows
  RelaysHeard
PROPERTIES
  Converges
  DeadRelaysEnd
  Found
CHECK_DEADLOCK FALSE
