SPECIFICATION Spec
CONSTANTS
  NULL = NULL
  Lines <- MCLines
  Cells <- MCCells
  Envs <- MCEnvs
  MaxRecursionDepth = 3
INVARIANTS
  RowsFit
  PositionOfCell
PROPERTIES
  TouchesCellsOnce
CHECK_DEADLOCK FALSE
