CONSTANTS
  MaxCrashes = 1
  MaxVisits = 0
  MaxSends = 0
  MaxTurns = 1
  Possible = {"exit", "stop"}
SPECIFICATION FairSpec
PROPERTIES
  StopIsFinal
CHECK_DEADLOCK FALSE
