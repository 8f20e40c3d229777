SPECIFICATION HistorySpec
CONSTANTS
  File = {"lib/a.mp4", "lib/sub/b.mp4"}
  Dir = {"lib", "lib/sub"}
  DirOf <- MCDirOf
  Covers <- MCCovers
  Reduce <- MCReduce
  Delay <- MCDelay
  Budget <- MCBudget
  RootSets <- AllFiles
  Replies = {"named"}
  JobId = {j1}
  NoJob = none
  Requests <- OneDir
  NumTasks = 0
  Controlled = FALSE
  Window = 1
  MaxAttempts = 2
  InitialBackoff = 1
  MaxBackoff = 2
  Horizon = 1
  MaxStamp = 2
  Faults = 2
  Stops = 0
  Flushes = 0
  Kills = 1
  Requeues = 0
INVARIANTS
  TypeOK
  ChangesTracked
  NoLostChange
  AttemptsCountFailures
PROPERTIES
  BackoffRespected
  WindowRespected
SYMMETRY Symmetry
