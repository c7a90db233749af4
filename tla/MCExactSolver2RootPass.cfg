SPECIFICATION Spec
CONSTANTS
  PassMove = PassMove
  BestScore = 2
  Games <- RootPassGames
  Unsolved = Unsolved
  MaxNodes = 8
INVARIANTS
  OutcomeIsGameValue
CHECK_DEADLOCK FALSE
