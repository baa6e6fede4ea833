SPECIFICATION Spec
CONSTANTS
  Tab = {t1, t2}
  Browser = {b1}
  User = {u1, u2}
  Nobody = Nobody
  MaxGrants = 3
  MaxEvents = 1
INVARIANTS
  TypeOK
  SurvivorsWereUnderWay
PROPERTIES
  MixedOnlyByLateRefresh
  RenewedOnce
CHECK_DEADLOCK FALSE
