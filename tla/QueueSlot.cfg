CONSTANTS
  j1 = j1
  j2 = j2
  s1 = s1
  s2 = s2
  t1 = t1
  t2 = t2
  NoJob = NoJob
  Jobs <- MCJobs
  RemoteJobs <- MCRemote
  Starters <- MCStarters
  Threads <- MCThreads
  MaxAttempts = 2
  InstallMayFail = TRUE
  HookStartsQueue = TRUE
SPECIFICATION FairSpec
INVARIANTS SlotIsExclusive DrainedRunLeavesNoWork
PROPERTIES StoppedRunTakesNoJob ImplementsService ToldWorkIsServed QueueComesToRest PauseHoldsBeforeNextJob
