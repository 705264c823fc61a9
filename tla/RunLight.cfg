CONSTANTS
  Steps <- LightweightFeature
  MaxHead = 1
  MaxEntries = 0
  MaxSends = 0
  MaxByHand = 0
  MaxCrashes = 1
  Possible = {"error", "startup", "paneDies", "stop"}
SPECIFICATION Spec
INVARIANTS
  TypeOK
  OneAttempt
PROPERTIES
  
  CompletedByItsOwnTurn
CHECK_DEADLOCK FALSE
