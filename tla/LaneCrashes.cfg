CONSTANTS
  MaxManaged = 2
  MaxPrompts = 2
  MaxHooks = 2
  MaxCrashes = 1
  MaxHookDeaths = 1
  Stops = {"Stop", "StopBlocked", "StopFailure"}
  Possible = {"badResult", "exit"}
SPECIFICATION FairSpec
INVARIANTS
  TypeOK
  AppliedInOrder
PROPERTIES
  ImplementsLedger
  EveryHookSettles
  
  
CHECK_DEADLOCK FALSE
