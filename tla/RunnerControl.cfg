SPECIFICATION Spec
CONSTANTS
  File = {"lib/sub/b.mp4"}
  Dir = {"lib", "lib/sub"}
  DirOf <- MCDirOf
  Covers <- MCCovers
  Reduce <- MCReduce
  Delay <- MCDelay
  Budget <- MCBudget
  RootSets <- AllFiles
  Replies = {"named"}
  JobId = {j1, j2, j3}
  NoJob = none
  Requests <- OneDir
  NumTasks = 1
  Controlled = TRUE
  Window = 1
  MaxAttempts = 2
  InitialBackoff = 1
  MaxBackoff = 2
  Horizon = 1
  MaxStamp = 1
  Faults = 0
  Stops = 1
  Flushes = 1
  Kills = 1
  Requeues = 0
INVARIANTS
  NoLostChange
  OrphansAccounted
PROPERTIES
  DeliversChanges
SYMMETRY Symmetry
