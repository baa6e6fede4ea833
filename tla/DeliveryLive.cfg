SPECIFICATION FairSpec
CONSTANTS
  notification = notification
  reporting = reporting
  student = student
  lecturer = lecturer
  kaprodi = kaprodi
  snapshot = snapshot
  NumEvents = 2
  Publishers = {p1}
  Services = {reporting}
  Targets <- MCTargets
  Recipients <- MCRecipients
  ByRole = {kaprodi}
  Provisioned = {reporting}
  BatchSize = 1
  MaxFaults = 2
  MaxOutages = 0
INVARIANTS
  PublishedNotLost
PROPERTIES
  EveryEventArrives
\* Once every event is dealt with and no misfortune is left, nothing happens.
CHECK_DEADLOCK FALSE
