SPECIFICATION Spec
CONSTANTS
  Workers = {w1, w2}
  Users = {u1, u2}
  CourseIds = {c1, c2}
  AssignmentIds = {a1}
  SubmissionIds = {s1, s2}
  None = None
  MaxReviews = 3
SYMMETRY CourseSymmetry
CHECK_DEADLOCK FALSE
INVARIANTS RowsAreListed ReplyNotOlder CoursesInv
PROPERTIES OwnerTeaches
