SPECIFICATION ListSpec
CONSTANTS
  t1 = t1
  t2 = t2
  t3 = t3
  t4 = t4
  Task <- Tasks
  NoTask = NoTask
  NoKey = NoKey
  BucketSize = 2
  MinKey <- LeastKey
  MaxKey = 6
  KeyFunctions <- Distinct
INVARIANTS TasksAreThere SortedAsClaimed ListIsSound
CHECK_DEADLOCK FALSE
