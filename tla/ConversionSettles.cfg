CONSTANTS
  j1 = j1
  j2 = j2
  c1 = c1
  c2 = c2
  NoJob = NoJob
  Jobs <- MCJobs
  InPlace <- MCInPlace
  Ahead <- InPlaceFirst
  Callers <- MCOneCaller
  CleanupModes <- OnlyDelete
  Calls <- NoSetting
  MaxCalls = 2
  MaxEnds = 1
SPECIFICATION FairSpec
PROPERTY RunningJobSettles
CHECK_DEADLOCK FALSE
