SPECIFICATION Spec
CONSTANTS
  Tenants = {t1}
  RuleIDs = {r1}
  Bodies <- MCConditionBodies
  Requests <- MCFewRequests
  Day = 4
  None = None
INVARIANT AllConditionsMatch
