SPECIFICATION WorkbookSpec
CONSTANTS
  A = A
  B = B
  Topics = {A, B}
  TopicLists <- TopicListValues
  Theories <- OneEach
  TopicScores = {1, 2}
  MaxRanked = 3
  MaxTasks = 3
  MaxTheory = 2
CHECK_DEADLOCK FALSE
INVARIANT TheoryBeforeRelatedTasks
