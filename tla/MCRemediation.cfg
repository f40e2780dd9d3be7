SPECIFICATION Spec
CONSTANTS
  NoPolicy = NoPolicy
  Plan <- MCPlan
  Dag <- MCDag
  Policies <- MCPolicies
  MaxSeconds = 1
INVARIANTS
  TypeOK
  DependenciesFirst
  PolicyHolds
  OnlyRunnerToolsSucceed
PROPERTIES
  RefusedWithinASecond
  PlansThatCanBeDoneSucceed
CHECK_DEADLOCK FALSE
