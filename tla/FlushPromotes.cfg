SPECIFICATION HistorySpec
CONSTANTS
  File = {"lib/a.mp4"}
  Dir = {"lib"}
  DirOf <- MCDirOf
  Covers <- MCCovers
  Reduce <- MCReduce
  Delay <- MCDelay
  Budget <- MCBudget
  RootSets <- AllFiles
  Replies = {"named"}
  JobId = {j1, j2}
  NoJob = none
  Requests <- OneDir
  NumTasks = 0
  Controlled = TRUE
  Window = 1
  MaxAttempts = 2
  InitialBackoff = 1
  MaxBackoff = 2
  Horizon = 1
  MaxStamp = 1
  Faults = 0
  Stops = 0
  Flushes = 1
  Kills = 0
  Requeues = 0
PROPERTIES
  OnlyGrantedFlushPromotes
SYMMETRY Symmetry
