SPECIFICATION SystemSpec
CONSTANTS
  Requests = {r1}
  Students = {alice}
  Titles = {short}
  Sessions = {s1, s2}
  DueIn = 2
  WarnAhead = 1
  WarnPast = 2
  WarnGap = 1
  MaxTime = 3
  MaxHistory = 3
  Null = Null
INVARIANTS
  DashboardShowsStatus
\* When the clock has run out no transaction begins any more.
CHECK_DEADLOCK FALSE
