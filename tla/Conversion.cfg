CONSTANTS
  j1 = j1
  j2 = j2
  c1 = c1
  c2 = c2
  NoJob = NoJob
  Jobs <- MCJobs
  InPlace <- MCInPlace
  Ahead <- InPlaceLast
  Callers <- MCTwoCallers
  CleanupModes <- AnyMode
  Calls <- AllCalls
  MaxCalls = 2
  MaxEnds = 1
SPECIFICATION Spec
INVARIANTS OriginalRecoverable VideoSurvives QuitLeavesJobResumable FrozenIsShown CancelStopsEncoder
PROPERTIES BookingIsTrue FinishedIsFinal
CHECK_DEADLOCK FALSE
