SPECIFICATION Spec
CONSTANTS
  Segment <- MCSegment
  Alert <- MCAlert
  LabelsOf <- MCLabelsOf
  UnknownSeverity = 3
  Window = 1
  MaxTime = 3
  MaxInFlight = 2
  NoIncident = NoIncident
INVARIANTS
  IncidentsAreDeduplicated
CHECK_DEADLOCK FALSE
