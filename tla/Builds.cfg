SPECIFICATION FairSpec
CONSTANTS
  t1 = t1
  b1 = b1
  b2 = b2
  b3 = b3
  Requests = {1, 2, 3}
  Kinds = {"create", "update", "rebuild", "markReady", "startV2", "delete", "cancel"}
  Templates = {t1}
  Builds = {b1, b2, b3}
  NoBuild = NoBuild
  MaxConcurrent = 2
INVARIANT WithinCapacity
INVARIANT OneTaskPerBuild
INVARIANT QuietAfterShutdown
PROPERTY ShutdownEnds
PROPERTY BuildSettles
CHECK_DEADLOCK FALSE
