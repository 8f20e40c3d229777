SPECIFICATION FairSpec
CONSTANTS
  Entry <- MCEntry
  ListOf <- MCListOf
  Library <- MCLibrary
  Suits <- MCSuits
  Tagged = {"s2"}
  PerPage = 2
  AliasesKnown = FALSE
  Requester = {r1}
  Periodic = TRUE
  MaxEdits = 2
  MaxFaults = 2
INVARIANTS
  TypeOK
  NothingOverlooked
  ListedRight
  ShownIsSaved
PROPERTIES
  EveryRefreshEnds
CHECK_DEADLOCK FALSE
