SPECIFICATION Spec
CONSTANTS
  PassMove = PassMove
  BestScore = 2
  Games <- MovesFirstGames
  Unsolved = Unsolved
  MaxNodes = 8
INVARIANTS
  CellsHoldPositions
CHECK_DEADLOCK FALSE
