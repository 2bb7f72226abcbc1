SPECIFICATION CkptSpec
CONSTANTS
  Worker = {w1, w2}
  Task = {t1, t2, t3}
  InitialTasks = {t1, t2}
  NoTask = NoTask
  SuspensionPolicy = "DEFAULT"
  WorkerTimeout = FALSE
  MaxSurplus = 0
  UserReturns = {"OK"}
  CheckpointFrequency = 2
  MaxCrashes = 3
  MaxMissed = 1
INVARIANTS FileIsConsistent LossIsBounded
PROPERTY ImplementsDurablePool
CHECK_DEADLOCK FALSE
SYMMETRY WorkerSymmetry
