SPECIFICATION Spec
CONSTANTS
  cmp <- ThreeWay
  Arrays <- SomeArrays
  MinMerge = 4
  MinGallop = 2
  InitialTmp = 1
  SmallArray = 3
  MedianOfThree = 3
  MedianOfNine = 8
INVARIANTS
  RunsTile
  MergeSafe
  SortsStably
  SortsAgree
