SPECIFICATION RestartSpec
CONSTANTS
  s1 = s1
  Sandboxes = {s1}
  Requests = {"timeout"}
  Timeouts = {0, 1, 2}
  RetryDelay = 1
  MaxTime = 3
  LateFailures = FALSE
  ExternalChanges = {}
  SharedCreateWindow = FALSE
  MaxRestarts = 1
INVARIANT NoExpiryBeforePromise
CHECK_DEADLOCK FALSE
