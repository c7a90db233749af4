SPECIFICATION PlaySpec
CONSTANTS
  Size = 8
  Starts <- AllStarts
  MaxPlies = 2
INVARIANTS
  FollowsRules
  HashExact
CHECK_DEADLOCK FALSE
