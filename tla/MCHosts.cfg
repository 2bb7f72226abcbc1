SPECIFICATION Spec
CONSTANTS
  DefaultInc = 1
  NoExecutable = NoExecutable
  Programs <- TwoPrograms
  PvmArches = 2
  FirstHosts <- OneHost
  Targets <- MayTarget
  MaxEvents = 2
INVARIANTS AccountAddsUp WorkersAreKnown
PROPERTIES NeverTooMany PoolFills
CHECK_DEADLOCK FALSE
