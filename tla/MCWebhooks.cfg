\* One delivery, two overlapping runs of the task, one redelivery, two faults.
SPECIFICATION FairSpec
CONSTANTS
  Null = Null
  Events = {e1}
  Endpoints = {p1}
  Tasks = {t1, t2}
  Requests = {r1}
  MaxAttempts = 3
  Backoff <- MCBackoff
  MaxFaults = 2
  MaxRedeliveries = 1
INVARIANTS
  DeliveredWasAccepted
  DeadWasTried
PROPERTIES
  RetriesEnd
CHECK_DEADLOCK FALSE
