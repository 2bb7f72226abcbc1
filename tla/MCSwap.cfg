SPECIFICATION SwapSpec
CONSTANTS
  t1 = t1
  t2 = t2
  t3 = t3
  Task <- Tasks
  NoTask = NoTask
  NoFile = NoFile
  Key <- Keys
  BucketSize = 2
  MinKey <- LeastKey
  MaxKey = 6
  NumInMem = 1
  MaxInMem = 2
  MaxCrashes = 2
  MaxFailures = 1
INVARIANTS TasksAreSomewhere CheckpointAndFileAgree StoresAreSorted
CHECK_DEADLOCK FALSE
