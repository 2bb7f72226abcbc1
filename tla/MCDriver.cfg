SPECIFICATION Spec
CONSTANTS
  Worker = {w1, w2}
  Task = {t1, t2}
  InitialTasks = {t1}
  NoTask = NoTask
  SuspensionPolicy = "REASSIGN"
  WorkerTimeout = TRUE
  MaxSurplus = 2
  UserReturns = {"OK", "QUIT"}
INVARIANTS
  IInv NoTaskLost NoDanglingTask NoIdleWhileTodo ActedOncePerTask
PROPERTY ImplementsTaskPool
SYMMETRY WorkerSymmetry
CHECK_DEADLOCK FALSE
