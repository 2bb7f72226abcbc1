CONSTANTS
  Garbage = Garbage
  Blank = Blank
  w1 = w1
  w2 = w2
  c1 = c1
  c2 = c2
  MaxMessage = 150
  Worker <- WorkerDef
  UserItems <- UserItemsDef
  Cuts = 3
  MaxSeedNum = 2
  SeqLen = 4
  BoardSize = 4
  RowsA = 3
  RowsB = 2
  ColsB = 2
  Job <- JobDef
  TaskSize = 2
SPECIFICATION Spec
INVARIANTS
  MessagesAreRead
  AnswersAreRight
PROPERTY AllDone
CHECK_DEADLOCK FALSE
