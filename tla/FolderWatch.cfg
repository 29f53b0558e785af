CONSTANTS
  Files = {"g"}
  Below = {"g"}
  Callers = {"c"}
  Scanners = {"s"}
  Delay = 2
  MaxLag = 1
  MaxWrites = 2
  MaxCalls = 1
  MaxMarks = 1
  MaxRelaunches = 1
CHECK_DEADLOCK FALSE
SPECIFICATION WatchFairSpec
PROPERTIES SettledIsOffered ReapedIsQuiet
