SPECIFICATION Spec
CONSTANTS
  MaxDuration = 31
  Day = 48
  Unset = Unset
  Blank = Blank
  Bad = Bad
  Empty = Empty
  ShortWord = {"bo"}
  MaxCandidates = 2
  MaxLength = 4
  MaxChanged = 4
  Zones <- MCZones
INVARIANTS
  EveryChangeIsTargeted
  RedundantOnlyPastASibling
  BackoffDoubles
  DailyRunLands
  PrecedenceHolds
  TasksInOrder
  AcceptedIsRunnable
  SourcesDiscovered
  CandidatesRanked
CHECK_DEADLOCK FALSE
