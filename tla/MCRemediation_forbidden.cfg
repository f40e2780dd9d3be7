SPECIFICATION Spec
CONSTANTS
  NoPolicy = NoPolicy
  Plan <- MCPlan
  Dag <- MCDag
  Policies <- MCPolicies
  MaxSeconds = 1
INVARIANT ForbiddenToolsAreDenied
CHECK_DEADLOCK FALSE
