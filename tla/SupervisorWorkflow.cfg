SPECIFICATION Spec
CONSTANTS
  s1 = s1
  s2 = s2
  r1 = r1
  r2 = r2
  l1 = l1
  l2 = l2
  Requests = {r1, r2}
  Students = {alice}
  Lecturers = {l1, l2}
  Quotas = {0, 1}
  Sessions = {s1, s2}
  MaxHistory = 5
  Null = Null
SYMMETRY MCSymmetry
INVARIANTS
  TypeOK
  AssignmentsMatchStatus
  NoCircularWait
PROPERTIES
  NoOverAssignment
  FollowsLifecycle
