CONSTANTS
  na = na  nb = nb  nc = nc  d1 = d1  d2 = d2  dx = dx  v1 = v1  v2 = v2  bad = bad  absent = absent  root = root
  Note = {nb, dx}
  Dir = {dx}
  Inside <- SuffixInside
  Version = {v1}
  Malformed = bad
  Absent = absent
  Root = root
  PairsRenames = TRUE
  MaxChanges = 2
  MaxFaults = 2
  MayCrash = TRUE
SPECIFICATION FairSpec
INVARIANTS FreshAtRest HealthTells
PROPERTY EventuallyFresh
CHECK_DEADLOCK FALSE
