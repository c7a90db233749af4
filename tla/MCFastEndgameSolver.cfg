SPECIFICATION Spec
CONSTANTS
  Size = 4
  Problems <- AllProblems
  worst_to_best <- WorstToBest
  Unsolved = Unsolved
  InvalidMove = InvalidMove
INVARIANTS
  ListFollowsBoard
  ParityFollowsBoard
  ReturnedValueSound
PROPERTIES
  SolvesEndgame
CHECK_DEADLOCK FALSE
