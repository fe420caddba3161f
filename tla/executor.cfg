SPECIFICATION FairExecutorSpec
CONSTANTS
  a = a
  b = b
  c = c
  Jobs = {a, b}
  Allowed = {a}
  Blocking = {a}
  MayPanic = {a}
  HandlerResults = {"success"}
  MaxAttempts = 2
  MaxBatch = 2
  MaxCrashes = 1
INVARIANT ExecutorTypeOK
INVARIANT OneRunPerLease
INVARIANT NoLeaseWasted
INVARIANT HonestReports
PROPERTY Promise
PROPERTY JobsSettle
