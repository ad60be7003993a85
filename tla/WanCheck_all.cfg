SPECIFICATION FairSpec
CONSTANTS
  None = None
  a = a
  b = b
  Tests <- MCTests
  Setups <- MCSetups
PROPERTIES
  Evidence
  FreshAfterApply
  TestEnds
  ReadyInTheEnd
