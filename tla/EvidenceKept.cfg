CONSTANTS
  NumWriters = 1
  Trees = {"t1", "t2"}
  MaxHead = 3
  MaxCrashes = 1
  Overlap = FALSE
SPECIFICATION Spec
INVARIANTS
  TypeOK
  EvidenceSawItsTree
  MovementIsNoticed
PROPERTIES
  CompletedOnEvidence
  StaleOnlyIfMoved
  RelineageKeepsTree
