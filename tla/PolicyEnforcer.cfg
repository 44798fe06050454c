SPECIFICATION Spec
CONSTANTS
  Tenants = {t1}
  RuleIDs = {r1, r2}
  Bodies <- MCBodies
  Requests <- MCRequests
  Day = 4
  None = None
INVARIANTS VerdictJustified WindowIsArc
