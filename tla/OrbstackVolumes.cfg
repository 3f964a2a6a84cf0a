CONSTANTS
  old1 = old1
  old2 = old2
  data = data
  Procs = {p1, p2}
  Names = {data}
  LegacyIds <- MCLegacyIds
  LegacyName <- MCLegacyName
  NewIds = {n1, n2}
  MaxCalls = 3
  MaxIndex = 3
  Failures = {"mkdir", "chmod", "write", "read"}
SYMMETRY MCSymmetry
SPECIFICATION Spec
INVARIANT VolumesKept
INVARIANT FoundById
INVARIANT MountedIsVolume
CHECK_DEADLOCK FALSE
