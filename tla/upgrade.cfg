SPECIFICATION Spec
CONSTANTS
  old = old
  new = new
  newer = newer
  None = None
  Builtin <- Old
  Programs <- Generations
  Workers = {w}
  Crashes = TRUE
  Restarts = TRUE
INVARIANTS TypeOK AllOrNothing CommittedRuns BaseKept
PROPERTIES NoWindow
CHECK_DEADLOCK FALSE
