SPECIFICATION WorkbookSpec
CONSTANTS
  A = A
  B = B
  Topics = {A, B}
  TopicLists <- TopicListValues
  Theories <- Overlapping
  TopicScores = {1, 2}
  MaxRanked = 5
  MaxTasks = 4
  MaxTheory = 2
CHECK_DEADLOCK FALSE
INVARIANTS QuotaYieldsLast BetterRankedFirst TheoryIntroducesTasks WorkbookInv
