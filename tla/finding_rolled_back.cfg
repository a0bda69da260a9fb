SPECIFICATION Spec
CONSTANTS
  old = old
  new = new
  newer = newer
  None = None
  Builtin <- Old
  Programs <- Generations
  Workers = {w}
  Crashes = TRUE
  Restarts = FALSE
INVARIANTS RolledBackRestored
CHECK_DEADLOCK FALSE
