SPECIFICATION Spec
CONSTANTS
  PassMove = PassMove
  BestScore = 2
  Games <- AllGames
  Unsolved = Unsolved
INVARIANTS
  CellsHoldPositions
PROPERTIES
  SolvesGame
CHECK_DEADLOCK FALSE
