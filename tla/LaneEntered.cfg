CONSTANTS
  MaxManaged = 2
  MaxPrompts = 2
  MaxHooks = 2
  MaxCrashes = 0
  MaxHookDeaths = 0
  Stops = {"Stop"}
  Possible = {"enter", "recall"}
SPECIFICATION Spec
INVARIANTS
  CompletedByOwnPrompt
  OneResultPerTurn
PROPERTIES
  ResultsAreManaged
  TaintOnlyLostToHook
CHECK_DEADLOCK FALSE
