SPECIFICATION FairSpec
CONSTANTS
  TargetOf <- OneClass
  HostInc = 1
  Task = {t1, t2}
  NoTask = NoTask
  LateRemoval = FALSE
  MaxWork = 2
  MaxCrashes = 1
  MaxFaults = 1
  MaxOdd = 1
INVARIANTS AnswersFit NoOrphans AccountAddsUp
PROPERTIES PoolComesBack
CHECK_DEADLOCK FALSE
