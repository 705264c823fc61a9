CONSTANTS
  Steps <- PlanAndImplement
  MaxHead = 1
  MaxEntries = 1
  MaxSends = 1
  MaxByHand = 1
  MaxCrashes = 1
  Possible = {"startup", "badResult"}
SPECIFICATION Spec
INVARIANTS
  NoStepSkipped
  HumanPausesRun
  CodeStepsOwnLineage
  BoundedIterations
CONSTRAINT OneDisturbance
CHECK_DEADLOCK FALSE
