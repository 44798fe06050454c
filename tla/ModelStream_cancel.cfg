SPECIFICATION Spec
CONSTANTS
  Driver = "anthropic"
  Cap = 2
  MaxLines = 5
INVARIANT CancelGivesErrorChunk
