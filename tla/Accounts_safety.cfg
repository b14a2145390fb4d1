SPECIFICATION Spec
CONSTANTS
  admin = admin
  p1 = p1
  p2 = p2
  Processes = {s1, s2}
  Main <- AuthProcesses
  LastVersion = 2
  Requests = {q1, q2}
  Phones = {admin, p1, p2}
  Admin = admin
  Nobody = Nobody
SYMMETRY Symmetry
INVARIANTS AppliedOnce TokensAreCurrent RolesHaveGrantor AccountsInv
