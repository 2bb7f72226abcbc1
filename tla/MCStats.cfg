SPECIFICATION Spec
CONSTANTS
  c1 = c1
  c2 = c2
  MW_MAX_WORKERS = 2
  MWworkClasses = {c1, c2}
  MaxWorkers = 2
  MaxTasks = 2
  MaxTime = 3
  MaxCrashes = 1
SYMMETRY ClassSymmetry
INVARIANTS VidsAreOwn TotalsAddUp ClassesAreRight
CHECK_DEADLOCK FALSE
