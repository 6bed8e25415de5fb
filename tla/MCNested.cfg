CONSTANTS
  na = na  nb = nb  nc = nc  d1 = d1  d2 = d2  dx = dx  v1 = v1  v2 = v2  bad = bad  absent = absent  root = root
  Note = {nb, nc}
  Dir = {d1, dx, d2}
  Inside <- DeepInside
  Version = {v1, v2}
  Malformed = bad
  Absent = absent
  Root = root
  PairsRenames = FALSE
  MaxChanges = 2
  MaxFaults = 0
  MayCrash = FALSE
SPECIFICATION Spec
INVARIANTS TypeOK IInv FreshAtRest StaleOnlyFromStartup OnlyTheTruth
PROPERTY ImplementsVaultIndex
CHECK_DEADLOCK FALSE
