SPECIFICATION RoundSpec
CONSTANTS
  Functions = {"openaiGenerate", "anthropicGenerate", "openaiStream", "anthropicStream"}
  MaxRetries = 2
  Statuses = {200, 204, 401, 403, 404, 429, 500, 503}
  Cap = 2
  MaxLines = 4
INVARIANTS BodiesClosed VerdictOfLastAnswer NoSuccessFromRefusal
PROPERTIES RetriesBounded RoundEndsClean
