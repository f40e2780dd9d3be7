SPECIFICATION Spec
CONSTANTS
  Incident = {i1, i2}
  Dag = {d1, d2}
  NoIncident = NoIncident
  NoPlan = NoPlan
PROPERTY InvestigatedOnce
CHECK_DEADLOCK FALSE
