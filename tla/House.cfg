CONSTANTS Replies = 3 Slices = 2 QueueLimit = 1 Captures = 3
  Clients = {"t", "s", "r", "e"} Kind <- HouseKind Sids = {"x", "y"} Sid <- HouseSid
  SeenLimit = 1 OtherMessages = 1
  DeskFaults = {"prepare", "agent", "event"}
  Users = {"u"} Announcements = {"a"} Jobs = 1 NightFaults = {"write", "tv"}
  Commands = {"c", "f"} FollowUps = {"f"} Alerts = {} Others = {"j"}
  ReportFaults = {"wait", "lost"} StoreFaults = {"read", "write", "amend"} Window = 4 ToolWeight = 2
  Turns = {"a", "b"} Chained = {"a"} About <- HouseAbout Starts = 2 Wipes = 1
  WipeFaults = {"busy", "mirror", "docker", "truncate"}
SPECIFICATION Spec
INVARIANTS  SpeechIsFaithful SessionIsFaithful MemoryIsHonest AnswersAreHonest NightIsQuiet CommandsRunOnce
PROPERTIES NobodyWaitsForEver
CHECK_DEADLOCK FALSE
