SPECIFICATION Spec
CONSTANTS
  Operations = {o1}
  Batches = {b1}
  BatchOf <- OneBatch
  Attempts = {a1}
  Finishers = {f1}
  Reconcilers = {}
  Kind = "device-update"
  MaxExecutions = 1
  GoogleLag = FALSE
  None = None
INVARIANTS
  ReadWaitsForDelay
CHECK_DEADLOCK FALSE
