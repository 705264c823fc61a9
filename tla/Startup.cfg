CONSTANTS
  MaxCrashes = 1
  MaxVisits = 2
  MaxSends = 1
  MaxTurns = 1
  Possible = {"trust", "login", "asks", "exit", "stop", "interrupt"}
SPECIFICATION FairSpec
INVARIANTS
  TypeOK
  PromptedOnce
  BlockedIsOnTheBoard
PROPERTIES
  PromptLandsInComposer
  PromptIsNotForgotten
CHECK_DEADLOCK FALSE
