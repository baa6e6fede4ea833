SPECIFICATION Spec
CONSTANTS
  s1 = s1
  s2 = s2
  r1 = r1
  r2 = r2
  Requests = {r1}
  Students = {alice, bob}
  Titles = {short, long}
  Sessions = {s1, s2}
  DueIn = 9
  WarnAhead = 0
  WarnPast = 0
  WarnGap = 0
  MaxTime = 1
  MaxHistory = 6
  Null = Null
SYMMETRY MCSessionSymmetry
INVARIANTS
  TypeOK
  HistoryIsAPath
  EventsMirrorHistory
  StampsMatchStatus
  ApprovalChain
  OnlyTheOwner
  ReviewedAsSubmitted
PROPERTIES
  FollowsLifecycle
