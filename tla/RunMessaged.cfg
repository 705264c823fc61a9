CONSTANTS
  Steps <- PlanAndImplement
  MaxHead = 1
  MaxEntries = 1
  MaxSends = 1
  MaxByHand = 0
  MaxCrashes = 0
  Possible = {}
SPECIFICATION FairSpec
PROPERTIES
  CompletedStepAdvances
CHECK_DEADLOCK FALSE
