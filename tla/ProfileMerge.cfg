SPECIFICATION Spec
CONSTANTS
  Nil = Nil
  Globals <- MCGlobals
  Tenants <- MCTenants
  Sessions <- MCSessions
INVARIANTS MatrixObeyed RecordsAreExact PathsAgree
