CONSTANTS
  j1 = j1
  j2 = j2
  c1 = c1
  c2 = c2
  NoJob = NoJob
  Jobs <- MCJobs
  InPlace <- MCInPlace
  Ahead <- InPlaceLast
  Callers <- MCNoCallers
  CleanupModes <- OnlyDelete
  Calls <- NoCalls
  MaxCalls = 0
  MaxEnds = 1
SPECIFICATION Spec
INVARIANT EveryVideoHasACopy
CHECK_DEADLOCK FALSE
