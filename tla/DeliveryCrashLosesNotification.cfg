SPECIFICATION FairSpec
CONSTANTS
  notification = notification
  reporting = reporting
  student = student
  lecturer = lecturer
  kaprodi = kaprodi
  snapshot = snapshot
  NumEvents = 1
  Publishers = {p1}
  Services = {notification}
  Targets <- MCTargets
  Recipients <- MCRecipients
  ByRole = {kaprodi}
  Provisioned = {notification}
  BatchSize = 1
  MaxFaults = 1
  MaxOutages = 0
PROPERTIES
  EveryEventHandled
\* Once every event is dealt with and no misfortune is left, nothing happens.
CHECK_DEADLOCK FALSE
