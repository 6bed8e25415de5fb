CONSTANTS
  na = na  nb = nb  nc = nc  d1 = d1  d2 = d2  dx = dx  v1 = v1  v2 = v2  bad = bad  absent = absent  root = root
  Note = {na}
  Dir = {d1}
  Inside <- FlatInside
  Version = {v1, v2}
  Malformed = bad
  Absent = absent
  Root = root
  PairsRenames = TRUE
  MaxChanges = 2
  MaxFaults = 1
  MayCrash = TRUE
SPECIFICATION Spec
INVARIANTS WriterRestartKeepsIndex
CHECK_DEADLOCK FALSE
