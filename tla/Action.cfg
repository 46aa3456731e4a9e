CONSTANTS
  r1 = r1
  r2 = r2
  r3 = r3
  k1 = k1
  NoKey = NoKey
  NoRequest = NoRequest
  Executors = {e1, e2}
  Requests <- MCRequests
  Definition <- MCDefinition
  Key <- MCKey
  Fingerprint <- MCFingerprint
  Actor <- MCActor
  MaxOpenCalls = 2
  MaxAttempts = 2
  MaxSends = 2
  MaxTime = 1
  MaxCrashes = 1
SYMMETRY Interchangeable
SPECIFICATION Spec
INVARIANTS TypeOK OneRowPerKey AtMostOncePublish CancelStopsAtMostOnce CompletionIsBacked AcknowledgedIsCompleted
CHECK_DEADLOCK FALSE
