SPECIFICATION FairSpec
CONSTANTS
  File = {"lib/a.mp4"}
  Dir = {"lib"}
  DirOf <- MCDirOf
  Covers <- MCCovers
  Reduce <- MCReduce
  Delay <- MCDelay
  Budget <- MCBudget
  RootSets <- AllFiles
  Replies = {"named", "unnamed"}
  JobId = {j1}
  NoJob = none
  Requests <- OneDir
  NumTasks = 1
  Controlled = TRUE
  Window = 1
  MaxAttempts = 2
  InitialBackoff = 1
  MaxBackoff = 2
  Horizon = 1
  MaxStamp = 1
  Faults = 1
  Stops = 1
  Flushes = 0
  Kills = 0
  Requeues = 1
PROPERTIES
  EveryChangeDelivered
  EveryRunEnds
