CONSTANTS
  v1 = v1
  v2 = v2
  NoVal = NoVal
  bErr = bErr
  sRetry = sRetry
  sDirty = sDirty
  Values <- MCValues
  NoValue = NoVal
  BuiltinErrors <- MCBuiltinErrors
  StorageCauses <- MCStorageCauses
  RetryCause = sRetry
  NumStmts = 2
  MaxAttempts = 2
SPECIFICATION Spec
\* a script stops once it has finished or aborted
CHECK_DEADLOCK FALSE
INVARIANT
  RetryableIffTransient
