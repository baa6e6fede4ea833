SPECIFICATION Spec
CONSTANTS
  notification = notification
  reporting = reporting
  student = student
  lecturer = lecturer
  kaprodi = kaprodi
  snapshot = snapshot
  NumEvents = 2
  Publishers = {p1, p2}
  Services = {notification}
  Targets <- MCTargets
  Recipients <- MCRecipients
  ByRole = {kaprodi}
  Provisioned = {}
  BatchSize = 2
  MaxFaults = 1
  MaxOutages = 1
INVARIANTS
  TypeOK
  AtMostOnce
  ProcessedMeansDone
PROPERTIES
  ImplementsChannel
\* Once every event is dealt with and no misfortune is left, nothing happens.
CHECK_DEADLOCK FALSE
