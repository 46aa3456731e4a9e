CONSTANTS StopOrder <- OneWorker ReadFirst = {} ReadSecond = {"outbox"} Ignored = {} Topics = 1 Cap = 1
  Keys = {"k"} Values = {1, 2} Writers = {"w1", "w2"} MaxRows = 3 Threshold = 2
  Items = {"a", "b"} Critical = {"a"} Noticed = {"a"} Roots = {"r"} Morning = {"r"} Lanes = {"w1", "w2"}
  MaxItems = 1 MaxAttempts = 1 Parts = 1 Mishaps = 1 Nights = 1
  Eager = {} Deferred = {1} Callers = {"c1"} Attempts = 2 Tolerance = 2 Opens = 3
  Order <- ThreeComponents Awaited = {"main"} Blocking = {"docker"} Starts = 2 Clicks = 1
SPECIFICATION Spec
INVARIANTS TypesOK OrderlyStartsAndStops BriefingsAreFaithful HealthIsTruthful HistoryIsChained
PROPERTIES WorkIsFinished
CHECK_DEADLOCK FALSE
