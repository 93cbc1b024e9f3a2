\* Two processes on one database file; calls that outlive their lease.
SPECIFICATION Spec
CONSTANTS
  Workspace = {w1, w2}
  Job = {j1, j2}
  Process = {p1, p2}
  None = None
  Overlap = TRUE
  LeaseDuration = 1
  MaximumAttempts = 2
  AttemptBound = 3
  RetryCeiling = 1
  RetryDelay <- MCRetryDelay
SYMMETRY Symmetry
INVARIANTS
  OneActiveJob
  StateMatchesJob
  LeaseFencing
