CONSTANTS
  r1 = r1
  r2 = r2
  NoKey = NoKey
  NoRequest = NoRequest
  Executors = {e1}
  Requests <- MCRequests
  Definition <- MCDefinition
  Key <- MCKey
  Fingerprint <- MCFingerprint
  Actor <- MCActor
  MaxOpenCalls = 2
  MaxAttempts = 2
  MaxSends = 2
  MaxTime = 2
  MaxCrashes = 0
SPECIFICATION Spec
INVARIANT CooldownHolds
CHECK_DEADLOCK FALSE
