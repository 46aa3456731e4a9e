CONSTANTS
  r1 = r1
  r2 = r2
  NoKey = NoKey
  NoRequest = NoRequest
  Executors = {e1}
  Requests <- MCRequests
  Definition <- MCDefinition
  Key <- MCKey
  Fingerprint <- MCFingerprint
  Actor <- MCActor
  MaxOpenCalls = 1
  MaxAttempts = 2
  MaxSends = 2
  MaxTime = 3
  MaxCrashes = 0
SPECIFICATION Spec
INVARIANT CompletedWasExecuted
CHECK_DEADLOCK FALSE
