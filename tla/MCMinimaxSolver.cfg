SPECIFICATION Spec
CONSTANTS
  PassMove = PassMove
  InvalidMove = InvalidMove
  BestScore = 2
  Tasks <- AllTasks
  Repeats = 2
  Unsolved = Unsolved
  MaxNodes = 8
  MaxLegalMoves = 12
INVARIANTS
  BestMoveFound
  SampledOutcome
  StackIsPlay
  ReturnedValueSound
PROPERTIES
  Terminates
CHECK_DEADLOCK FALSE
