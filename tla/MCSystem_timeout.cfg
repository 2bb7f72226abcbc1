SPECIFICATION FairSystemSpec
CONSTANTS
  Worker = {w1, w2}
  Task = {t1, t2, t3}
  InitialTasks = {t1, t2}
  NoTask = NoTask
  SuspensionPolicy = "DEFAULT"
  WorkerTimeout = TRUE
  MaxSurplus = 0
  UserReturns = {"OK"}
  MaxFaults = 1
  MaxMishaps = 1
  MaxOddities = 0
  DeathNotices <- SocketNotices
CHECK_DEADLOCK FALSE
PROPERTY Finishes
