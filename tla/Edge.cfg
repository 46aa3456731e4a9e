CONSTANTS
  None = None
  Sources = {"probe", "device"}
  Properties = {"level"}
  Messages <- Pair
  About <- PairAbout
  Identified = {"w"}
  Unacceptable = {}
  Rank <- PairRank
  Deadband <- PairDeadband
  Trusted = {"probe"}
  Scheduled = {"probe"}
  Expiring = {"probe", "device"}
  StaleAfter = 0
  OfflineAfter = 0
  Handlers = {"mqtt", "http"}
  MaxDeliveries = 2
  MaxTime = 1
  MaxFaults = 1
  Jobs = {"j1", "j2"}
  Workers = {"w1", "w2"}
  NoJob = "none"
  Stop = "stop"
  PageSize = 2
  MaxFailures = 2
  CallIds = {"out", "in"}
  Outbound = {"out"}
  Asks = {"q"}
  Hooks = 1
  Limit = 1
  MaxSeconds = 1
SPECIFICATION EdgeSpec
INVARIANTS  StoredOnce OneRunOneVerdict VerdictsAreShown
PROPERTIES EdgeSettles
CHECK_DEADLOCK FALSE
