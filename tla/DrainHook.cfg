CONSTANTS
  NoJob = NoJob
  j1 = j1
  j2 = j2
  j3 = j3
  j4 = j4
  Jobs <- MCJobs
  Mechanisms = {"webhook", "command"}
  AllMechanisms <- MCOrder
  Batch = 2
  OldTimes = {0, 1, 2}
  MaxTime = 4
  MaxEdits = 2
  MaxFaults = 2
SYMMETRY Symmetry
CHECK_DEADLOCK FALSE
SPECIFICATION Spec
INVARIANTS NothingPassedOver
PROPERTIES DrainServesEach
