SPECIFICATION HistorySpec
CONSTANTS
  File = {"lib/a.mp4", "lib/sub/b.mp4"}
  Dir = {"lib", "lib/sub"}
  DirOf <- MCDirOf
  Covers <- MCCovers
  Reduce <- MCReduce
  Delay <- MCDelay
  Budget <- MCBudget
  RootSets <- AllFiles
  Replies = {"named"}
  JobId = {j1}
  NoJob = none
  Requests <- OneDir
  NumTasks = 0
  Controlled = FALSE
  Window = 1
  MaxAttempts = 2
  InitialBackoff = 1
  MaxBackoff = 2
  Horizon = 1
  MaxStamp = 2
  Faults = 1
  Stops = 0
  Flushes = 0
  Kills = 0
  Requeues = 1
INVARIANTS
  NoLostChange
PROPERTIES
  WindowRespected
  RequeuedIsRediscovered
  DeliversChanges
SYMMETRY Symmetry
