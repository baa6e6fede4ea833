SPECIFICATION Spec
CONSTANTS
  s1 = s1
  s2 = s2
  r1 = r1
  r2 = r2
  Requests = {r1}
  Students = {alice}
  Titles = {short}
  Sessions = {s1, s2}
  DueIn = 2
  WarnAhead = 2
  WarnPast = 3
  WarnGap = 1
  MaxTime = 5
  MaxHistory = 2
  Null = Null
SYMMETRY MCSessionSymmetry
INVARIANTS
  WarningsSpaced
  NoWarningOnceClosed
