SPECIFICATION FairSpec
CONSTANTS
  p1 = p1
  p2 = p2
  p3 = p3
  v1 = v1
  v2 = v2
  Calls = {p1, p2, p3}
  NoCall = NoCall
  Volumes = {v1, v2}
  Foreign = {v2}
  Failures = {"mkdir", "writeMeta", "removeDir", "removeMeta", "containerList", "containerCreate", "containerStart", "crash"}
  MaxLate = 1
INVARIANT DeleteSparesMounted
INVARIANT ForeignKept
PROPERTY CallsReturn
