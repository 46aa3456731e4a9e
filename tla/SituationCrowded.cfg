CONSTANTS
  Alerts = {"leak", "bin full"}
  Critical = {"leak"}
  Items = {"passing remark"}
  Passive = {"passing remark"}
  Immediate = {}
  ById <- Ids
  Cost <- Tokens
  Budget = 3
  Section = 1
  Life = 1
  Askers = {"router"}
  Asks = 1
  Ticks = 1
SPECIFICATION SiSpec
INVARIANTS CriticalAlwaysIncluded
CHECK_DEADLOCK FALSE
