SPECIFICATION Spec
CONSTANTS
  t1 = t1
  t2 = t2
  th = th
  NoNumber = NoNumber
  NotANumber = NotANumber
  Epsilon = 1
  Texts = {"even", "nan", "2", "3", "6/2", "2.1"}
  Separators = {"space", "comma"}
  Requests = {r1, r2}
  TaskIds = {t1, t2}
  TheoryIds = {th}
  WorkIds = {w1}
  NoWork = NoWork
  Title <- MCTitle
  TopicsOf <- MCTopicsOf
  EveryTopic = EveryTopic
  CorrectAnswer <- MCCorrectAnswer
  ItemLists <- MCItemLists
  Submissions <- MCSubmissions
SYMMETRY Symmetry
CHECK_DEADLOCK FALSE
INVARIANTS SectionsKeepOrder OneEventPerResult ReplyCoversWork VerdictIsPairing WorksInv
