CONSTANTS
  NumBoards = 1
  MaxGenerations = 2
  MaxTurns = 1
  MaxCalls = 2
  MaxCrashes = 1
  TurnLimit = 2
  Possible = {"fresh", "enter", "dialog"}
SPECIFICATION FairSpec
INVARIANTS
  AnswersAreTrue
  OneLiveManager
PROPERTIES
  
  EveryCallIsAnswered
CHECK_DEADLOCK FALSE
