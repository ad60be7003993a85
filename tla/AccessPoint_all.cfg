SPECIFICATION Spec
CONSTANTS
  None = None
  a1 = a1
  a2 = a2
  s1 = s1
  s2 = s2
  Aps <- MCAps
  Ssids <- MCSsids
  Setups <- MCSetups
INVARIANTS
  ServesAsConfigured
  SwitchRestores
PROPERTIES
  AccessPointsReturn
  SwitchAnswers
CHECK_DEADLOCK FALSE
