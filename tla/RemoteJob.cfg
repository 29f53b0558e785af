CONSTANTS
  j1 = j1
  j2 = j2
  f1 = f1
  NoJob = NoJob
  NoFile = NoFile
  Partial = Partial
  Jobs <- MCJobs
  Files <- MCFiles
  Layouts <- OneAndTwins
  MaxFaults = 2
SPECIFICATION Spec
INVARIANTS FinalizingIsWanted OneLiveRowPerFile PublishedIsRecognised
PROPERTIES ImplementsSafeReplace OutageIsNotForgotten
