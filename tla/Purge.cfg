CONSTANTS
  r1 = r1
  r2 = r2
  c1 = c1
  c2 = c2
  Rows <- MCRows
  Calls <- MCCalls
  NoRow = NoRow
  NoFile = NoFile
  NoCall = NoCall
  Spellings = {"a", "A"}
  Files = {"film"}
  FileOf <- MCFileOf
  Healths = {"good", "bad", "short"}
  MaxWrites = 1
  MaxDrops = 1
SYMMETRY Symmetry
CHECK_DEADLOCK FALSE
SPECIFICATION Spec
PROPERTIES PurgeSparesTheNew LiveSourceIsSpared
