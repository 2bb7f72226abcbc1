SPECIFICATION FairSpec
CONSTANTS
  target_num_workers = 2
  HOSTINC = 2
  Task = {1, 2, 3}
  checkpoint_frequency = 2
  CutPayload = FALSE
  MaxJobs = 4
  MaxFaults = 2
  MaxCrashes = 1
INVARIANTS SlotsAgree RightSender TasksAreKept NothingIsLeft
CHECK_DEADLOCK FALSE
PROPERTIES AllIsDone
