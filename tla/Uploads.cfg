SPECIFICATION UploadsSpec
CONSTANTS
  p1 = p1
  p2 = p2
  p3 = p3
  t1 = t1
  t2 = t2
  k1 = k1
  k2 = k2
  c1 = c1
  c2 = c2
  bad = bad
  b1 = b1
  Puts = {p1, p2, p3}
  NoPut = NoPut
  Tokens = {t1, t2}
  FileKeys = {k1, k2}
  Contents = {c1, c2, bad}
  Malformed = {bad}
  Expected <- MCExpected
  Builders = {b1}
  TokenLife = 1
  MaxTime = 3
INVARIANT TokenUsedOnce
INVARIANT HeldFileReadable
INVARIANT NoStrayFile
PROPERTY AcceptedIsStored
CHECK_DEADLOCK FALSE
