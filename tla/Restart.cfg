SPECIFICATION RestartSpec
CONSTANTS
  s1 = s1
  Sandboxes = {s1}
  Requests = {"get", "kill", "pause", "snapshot"}
  Timeouts = {0, 1, 2}
  RetryDelay = 1
  MaxTime = 3
  LateFailures = TRUE
  ExternalChanges = {"die", "pause"}
  SharedCreateWindow = FALSE
  MaxRestarts = 2
INVARIANT ServedRuntimesAreKnown
INVARIANT RestoredAreCovered
INVARIANT NoExpiryBeforePromise
CHECK_DEADLOCK FALSE
