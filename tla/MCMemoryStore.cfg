SPECIFICATION Spec
CONSTANTS
  Segment <- MCSegment
  Critical = {a1, a2, a3, a4}
  Warning = {w1}
  Alert <- MCAlert
  LabelsOf <- MCLabelsOf
  UnknownSeverity = 3
  Window = 0
  MaxTime = 1
  MaxInFlight = 2
  NoIncident = NoIncident
  NoAlert = NoAlert
SYMMETRY MCSymmetry
INVARIANT TypeOK
PROPERTIES
  ViewIsStable
  ImplementsCorrelator
CHECK_DEADLOCK FALSE
