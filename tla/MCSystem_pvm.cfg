SPECIFICATION FairSystemSpec
CONSTANTS
  Worker = {w1, w2}
  Task = {t1, t2, t3}
  InitialTasks = {t1, t2}
  NoTask = NoTask
  SuspensionPolicy = "DEFAULT"
  WorkerTimeout = FALSE
  MaxSurplus = 0
  UserReturns = {"OK"}
  MaxFaults = 1
  MaxMishaps = 2
  MaxOddities = 1
  DeathNotices <- PvmNotices
CHECK_DEADLOCK FALSE
INVARIANTS WorkerIsInStep MasterKnowsTheWork RunningIsHeld OnlyTheUserStopsIt
PROPERTY Finishes
