SPECIFICATION DumpSpec
CONSTANTS
  NULL = NULL
  LinesFirstSize = 1
  LinesSegmentsSize = 4
  CellsFirstSize = 1
  CellsSegmentsSize = 4
  MaxDepth = 2
  m1 = m1
  m2 = m2
  pass = pass
  g1 = g1
  Moves <- MCMoves
  PassMove = pass
  InvalidMove = InvalidMove
  FullRecording = TRUE
  Layouts <- MCLayouts
  GamePositions <- OneGamePosition
INVARIANTS
  TypeOK
  LinesOwnedOnce
  CellsOwnedOnce
  FreeCellsHaveNoVariant
  RefCountsExact
  InvariantSatisfied
  VariantHasParent
  LoadedIsDumped
  ReaderVerifies
  ActiveLinesPrinted
PROPERTIES
  DeleteTerminates
  ImplementsRecording
CHECK_DEADLOCK FALSE
