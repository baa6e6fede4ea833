SPECIFICATION SystemSpec
CONSTANTS
  r1 = r1
  r2 = r2
  l1 = l1
  l2 = l2
  Requests = {r1}
  Students = {alice}
  Lecturers = {l1, l2}
  Quotas = {1}
  Sessions = {s1}
  MaxTime = 5
  MaxHistory = 7
  Null = Null
SYMMETRY MCLecturerSymmetry
INVARIANTS
  WorkloadIsQuotaUsed
