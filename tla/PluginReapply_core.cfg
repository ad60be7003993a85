SPECIFICATION FairSpec
CONSTANTS
  None = None
  e = e
  f = f
  v = v
  h = h
  a = a
  b = b
  c = c
  Instance <- MCInstance
  CfgVal <- MCCfgVal
  NetConfigs <- MCNetConfigs
  InitConfig <- Net1
  Pos <- MCPos
  Uses <- MCUses
  FastFlush <- MCFastFlush
  InPlace <- MCInPlace
  IpBlind = {h}
  Concurrent <- MCConcurrent
  Hotplug = {e}
  Unlocked = {}
  FlushFails = {}
  ApplyFails = {}
  CrashAnytime = FALSE
  MaxQueue = 2
INVARIANTS
  TypeOK
  Converged
  NoLeftover
PROPERTIES
  TearDownFromTop
  BuildFromBottom
  Rebuilt
