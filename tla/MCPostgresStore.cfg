SPECIFICATION Spec
CONSTANTS
  Segment <- MCSegment
  Alert <- MCAlert
  LabelsOf <- MCLabelsOf
  Fingerprint <- MCFingerprint
  FingerprintOf <- MCFingerprintOf
  UnknownSeverity = 3
  Window = 2
  MaxTime = 2
  MaxInFlight = 2
  NoIncident = NoIncident
INVARIANTS
  TypeOK
  AcknowledgedAlertsAreStored
  AlertsHaveTheKeyOfTheirIncident
  StoredAlertsAreNewest
  VersionCountsSaves
  OneLiveRowPerKey
CHECK_DEADLOCK FALSE
