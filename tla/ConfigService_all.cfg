SPECIFICATION FairSpec
CONSTANTS
  None = None
  Mixed = Mixed
  c1 = c1
  c2 = c2
  cw = cw
  cx = cx
  Content <- MCContent
  Failing = {cx}
  InitContent = c1
  AddWlan <- MCAddWlan
  ReqId = {r}
  TransId = {x, y}
  TimerId = {t1, t2}
  MaxNcid = 2
  Crashes = TRUE
CHECK_DEADLOCK FALSE
INVARIANTS
  TypeOK
  TransactionBounded
  OnlyWorkingStored
  NoLostUpdate
PROPERTY
  TransactionEnds
