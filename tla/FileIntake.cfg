CONSTANTS
  s1 = s1
  s2 = s2
  NoAnswer = NoAnswer
  NoUnit = NoUnit
  Selections <- MCSelections
  Answers <- MCAnswers
  MaxFolders = 2
SPECIFICATION FairSpec
INVARIANT NothingIsLost
INVARIANT LineIsTrue
PROPERTY TasksAreReported
CHECK_DEADLOCK FALSE
