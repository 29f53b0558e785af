CONSTANTS
  NoFile = NoFile
  Paths <- MCPaths
  a1 = a1
  a2 = a2
  Adders <- MCAdders
  Batches <- MCBatches
  SuffixSettings = {"", ".h"}
  Names <- MCNames
  Suffixed <- MCSuffixed
  Present = {"a.mkv"}
  Touched = {"a.mkv", "a.mp4"}
  MaxRows = 2
  MaxEdits = 1
  MaxRelaunches = 1
SYMMETRY Symmetry
SPECIFICATION Spec
INVARIANTS OutputsApart FirstAddedFirst NothingInPlaceUnderKeep
PROPERTIES NothingIsConvertedTwice
