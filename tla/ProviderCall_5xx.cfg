SPECIFICATION Spec
CONSTANTS
  Functions = {"openaiStream"}
  MaxRetries = 1
  Statuses = {200, 429, 500}
INVARIANT ServerErrorReported
