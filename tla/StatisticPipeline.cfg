SPECIFICATION FairPipelineSpec
CONSTANTS
  Users = {u1}
  Courses = {c1}
  NoCourse = NoCourse
  Writers = {w1, w2}
  Readers = {r1}
  Empty = Empty
  Faults <- AllFaults
  MaxAttempts = 9
  Answers = {a1}
  Partitions = {p1}
  NoMessage = NoMessage
  MaxLog = 1
  MaxSessions = 2
  LoopFaults <- SomeLoopFaults
  UserOf <- OneUser
  CourseOf <- OneCourse
  NoWriter = NoWriter
  MaxPosts = 1
INVARIANTS StatisticsInv
PROPERTIES CommittedIsShown EventuallyShown
