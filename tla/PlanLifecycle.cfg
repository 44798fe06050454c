SPECIFICATION Spec
CONSTANTS
  DraftSteps <- MCDraftSteps
  DraftIDs <- MCDraftIDs
  MaxDraftLen = 3
  MaxSteps = 2
  MaxToolCalls = 1
  MaxPlans = 2
INVARIANTS PlansWithinLimits FrozenWellFormed LineageKept
PROPERTY PlansStable
