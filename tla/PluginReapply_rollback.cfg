SPECIFICATION FairSpec
CONSTANTS
  None = None
  e = e
  f = f
  v = v
  h = h
  a = a
  b = b
  c = c
  Instance <- MCInstance
  CfgVal <- MCCfgVal
  NetConfigs <- MCNetConfigsBad
  InitConfig <- Net1
  Pos <- MCPos
  Uses <- MCUses
  FastFlush <- MCFastFlush
  InPlace <- MCInPlace
  IpBlind = {h}
  Concurrent <- MCConcurrent
  Hotplug = {}
  Unlocked = {}
  FlushFails = {}
  ApplyFails = {}
  CrashAnytime = FALSE
  MaxQueue = 2
INVARIANT RollbackRestores
