SPECIFICATION FairSpec
CONSTANTS
  None = None
  w1 = w1
  w2 = w2
  w3 = w3
  Wan <- MCWan
  Setups <- Boxes
CHECK_DEADLOCK FALSE
INVARIANTS
  TrafficFollowsActive
  V6OnlyActive
  NoForeignRoute
  SubscribersKnow
  SomeInUse
  LedAsked
PROPERTIES
  Promise
