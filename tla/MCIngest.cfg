SPECIFICATION Spec
CONSTANTS
  r1 = r1
  junk = junk
  Message <- MCMessage
  Valid <- MCRequest
  Request <- MCRequest
  Alerts <- MCAlerts
  BatchSize = 3
  MaxDeliver = 2
  MaxFaults = 1
INVARIANTS
  TypeOK
  NothingIsForgotten
  HandledTwiceOnlyIfOverdue
  HandledInOrder
CHECK_DEADLOCK FALSE
PROPERTIES
  EveryMessageIsHandled
  AbandonedRequestEnds
