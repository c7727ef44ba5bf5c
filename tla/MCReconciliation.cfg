SPECIFICATION FairSpec
CONSTANTS
  u1 = u1
  u2 = u2
  trial = trial
  overdue = overdue
  None = None
  Replica = {a, b}
  Reference = {window}
  User = {u1, u2}
  Finding = {trial, overdue}
  Critical = {trial}
  Concerns <- MCConcerns
  Scopes <- MCScopes
  Handled <- MCHandled
  MaxAttempts = 2
  MaxFailures = 1
  MaxLapses = 2
INVARIANTS TypeOK LeaseIsExclusive NoDuplicateCases FinishedAttemptsBlocked
PROPERTIES CompletedIsFinal RunsComplete
CHECK_DEADLOCK FALSE
