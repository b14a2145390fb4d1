CONSTANTS
  Requests = {r1, r2}
  Topics = {"p"}
  TopicIds = {"p", "q"}
  EveryTopic = EveryTopic
  Tags = {"a", "b"}
  Plain <- MCPlain
  Scopes <- MCScopes
  Difficulties = {1, 5}
  RawWeights = {0, 1, 20}
  Unit = 4
SPECIFICATION Spec
SYMMETRY Symmetry
CHECK_DEADLOCK FALSE
INVARIANTS TeacherProportionsKept LowShareHasCause RowsMatchTask ScopeStoresPrefix ContentInv
