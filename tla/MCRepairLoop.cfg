SPECIFICATION Spec
CONSTANTS
  None = None
  MaxRepairBudget = 2
  Outcomes <- MCOutcomes
  Facts <- MCFacts
  HarnessReasons <- MCHarnessReasons
  Policies <- MCPolicies
INVARIANTS
  AllowIsClean
  UnevaluatedIsRecorded
  InfrastructureMintsNothing
  ShadowIsHonest
  RepairsAreBounded
PROPERTIES
  ConstraintsNeverSoften
  ApprovalsNeverOverrule
CHECK_DEADLOCK FALSE
