CONSTANTS
  reminder1 = reminder1
  Events = {"a1", "b1", "a clear"}
  Raising = {"a1", "b1"}
  DeliveryReports = {"a1"}
  Device <- Devices
  Reminders = {reminder1}
  Due <- AtOne
  Channels <- VoiceThenLog
  AlwaysUp = {"log"}
  Workers = {w1}
  BatchSize = 2
  MaxAttempts = 2
  StaleLock = 0
  Backoff = 1
  Cooldown = 2
  Quiet = {1}
  Never = Never
  MaxTime = 2
  MaxFaults = 2
SPECIFICATION StoriesSpec
INVARIANTS IncidentsAreFaithful RepeatsCostFaults
PROPERTIES RemindersFireOnce QuietHoursHold KeepsPromise NoticeSettles
CHECK_DEADLOCK FALSE
