SPECIFICATION Spec
CONSTANTS
  Fail = Fail
  Plans <- MCPlans
  Outputs <- MCOutputs
INVARIANTS OnlyGroupsOverlap
PROPERTIES LiteralOnlyAtFirst EvidenceFollowsData
