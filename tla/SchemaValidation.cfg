SPECIFICATION Spec
CONSTANTS
  None = None
  Malformed = Malformed
  Limit = 8
  Data <- MCData
  Schemas <- MCSchemas
INVARIANTS MeetsStandard StrictIsClosed 
