CONSTANTS
  NumBoards = 2
  MaxGenerations = 2
  MaxTurns = 1
  MaxCalls = 0
  MaxCrashes = 1
  TurnLimit = 1
  Possible = {"exit", "reconfigured"}
SPECIFICATION Spec
INVARIANTS
  TypeOK
PROPERTIES
  OnlyLostIsReplaced
  StartIsKept
  AdoptedIsExact
CHECK_DEADLOCK FALSE
