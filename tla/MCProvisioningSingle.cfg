\* One process at a time: crashes, restarts, lost leases and every retry on the
\* way to a settled job.
SPECIFICATION FairSpec
CONSTANTS
  Workspace = {w1}
  Job = {j1, j2}
  Process = {p1, p2}
  None = None
  Overlap = FALSE
  LeaseDuration = 1
  MaximumAttempts = 3
  AttemptBound = 5
  RetryCeiling = 2
  RetryDelay <- MCRetryDelay
INVARIANTS
  TypeOK
  AttemptBudget
  ReadyHasNoActiveJob
PROPERTIES
  ReadyStaysReady
  ImplementsContract
  JobsSettle
