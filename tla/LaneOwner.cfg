CONSTANTS
  MaxManaged = 1
  MaxPrompts = 1
  MaxHooks = 1
  MaxCrashes = 1
  MaxHookDeaths = 0
  Stops = {"Stop"}
  Possible = {"enter", "otherClient", "interrupt"}
SPECIFICATION FairSpec
PROPERTIES
  OwnerConverges
CHECK_DEADLOCK FALSE
