SPECIFICATION FairSpec
CONSTANTS
  s1 = s1
  Sandboxes = {s1}
  Requests = {"get", "kill", "pause", "resume", "connect", "timeout", "refresh", "snapshot"}
  Timeouts = {0, 1, 2}
  RetryDelay = 1
  MaxTime = 3
  LateFailures = TRUE
  ExternalChanges = {"die", "pause", "unpause"}
  SharedCreateWindow = FALSE
INVARIANT ExpiryCovered
INVARIANT NoExpiryBeforePromise
INVARIANT RefusedStaysRefused
INVARIANT NoOrphanRuntime
PROPERTY OnlyKillOrExpiryDestroys
PROPERTY OnlyTimeoutShortens
PROPERTY ExpiredIsHandled
CHECK_DEADLOCK FALSE
