CONSTANTS
  reminder1 = reminder1
  Events = {"a1", "a2", "b1", "a clear", "b clear"}
  Raising = {"a1", "a2", "b1"}
  Device <- Devices
  DeliveryReports = {}
  Reminders = {}
  Due <- NoReminder
  Channels <- VoiceThenLog
  AlwaysUp = {"log"}
  Workers = {}
  BatchSize = 2
  MaxAttempts = 2
  StaleLock = 1
  Backoff = 1
  Cooldown = 2
  Quiet = {1}
  Never = Never
  MaxTime = 3
  MaxFaults = 1
SPECIFICATION Spec
INVARIANTS CriticalIsAnnounced
CHECK_DEADLOCK FALSE
