CONSTANTS
  Steps <- CompleteTicket
  MaxHead = 3
  MaxEntries = 0
  MaxSends = 0
  MaxByHand = 0
  MaxCrashes = 0
  Possible = {"question", "error", "startup"}
SPECIFICATION FairSpec
INVARIANTS
  FinalizedOnEvidence
PROPERTIES
  RunSettles
CHECK_DEADLOCK FALSE
