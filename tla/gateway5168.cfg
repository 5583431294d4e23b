SPECIFICATION FairSpec
CONSTANTS
  Messages = {m1, m2}
  Deliveries = {d1}
  None = None
  WAITTIME = 1
  MaxLosses = 1
  MaxDeaths = 1
INVARIANTS
  GatewayInvariant
  NothingStranded
PROPERTY
  OfflineIsRetried
CHECK_DEADLOCK FALSE
