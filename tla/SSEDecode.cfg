SPECIFICATION Spec
CONSTANTS
  Drivers = {"openai", "anthropic"}
  ToolIdx <- MCToolIdx
  MaxLines <- MCMaxLines
  MaxDeltas = 2
INVARIANTS ToolStateComplete KeptStateComplete
