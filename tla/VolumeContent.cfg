SPECIFICATION ContentSpec
CONSTANTS
  w1 = w1
  w2 = w2
  w3 = w3
  r1 = r1
  d1 = d1
  d2 = d2
  Writers = {w1, w2}
  Readers = {r1}
  Dirs = {d1, d2}
  Outside = Outside
  MaxVolumes = 2
SYMMETRY Symmetry
INVARIANT PublishedWhole
PROPERTY NoForceKeeps
CHECK_DEADLOCK FALSE
