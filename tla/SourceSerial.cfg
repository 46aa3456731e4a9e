CONSTANTS
  probe = probe
  device = device
  level = level
  None = None
  Sources = {probe, device}
  Properties = {level}
  Messages <- All
  About <- AllAbout
  Identified = {}
  Unacceptable = {"oversized"}
  Rank <- MCRank
  Deadband <- MCDeadband
  Trusted = {probe}
  Scheduled = {probe, device}
  Expiring = {probe, device}
  StaleAfter = 1
  OfflineAfter = 2
  Handlers = {h1}
  MaxDeliveries = 1
  MaxTime = 4
  MaxFaults = 1
SPECIFICATION Spec
INVARIANTS TypeOK LogsEndInTheRows AlertFollowsHealth DriftIsBounded
PROPERTIES StateMovesForward CounterIsSound
CHECK_DEADLOCK FALSE
