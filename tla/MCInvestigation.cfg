SPECIFICATION Spec
CONSTANTS
  Incident = {i1, i2}
  Dag = {d1, d2}
  NoIncident = NoIncident
  NoPlan = NoPlan
INVARIANTS
  TypeOK
  OnlyVettedPlansRun
  NoLateWorkflow
  ChannelHearsTheOutcome
PROPERTIES
  EveryIncidentIsInvestigated
  CancelledLoopStops
CHECK_DEADLOCK FALSE
