SPECIFICATION Spec
CONSTANTS
  math = math
  physics = physics
  t1 = t1
  t2 = t2
  b1 = b1
  b2 = b2
  Subjects = {math, physics}
  DefaultSubject = math
  Tags = {t1, t2}
  Priors <- PriorValues
  Payloads <- TeacherLists
  Builders = {b1, b2}
  MaxPuts = 2
  MaxVectors = 1
SYMMETRY ThreadSymmetry
CHECK_DEADLOCK FALSE
INVARIANTS LostPutHasCause PriorsInv
PROPERTIES OnlyLateBootstrapReplaces
