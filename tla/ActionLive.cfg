CONSTANTS
  r1 = r1
  NoKey = NoKey
  NoRequest = NoRequest
  Executors = {e1, e2}
  Requests <- MCRequests
  Definition <- MCDefinition
  Key <- MCKey
  Fingerprint <- MCFingerprint
  Actor <- MCActor
  MaxOpenCalls = 1
  MaxAttempts = 2
  MaxSends = 2
  MaxTime = 2
  MaxCrashes = 1
SPECIFICATION FairSpec
INVARIANT NothingLeftHanging
PROPERTIES ImplementsContract RequestsSettle
CHECK_DEADLOCK FALSE
