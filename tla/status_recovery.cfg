SPECIFICATION Spec
CONSTANTS
  Operations = {o1}
  Batches = {b1}
  BatchOf <- OneBatch
  Attempts = {a1, a2}
  Finishers = {f1}
  Reconcilers = {r1}
  Kind = "device-status"
  MaxExecutions = 2
  GoogleLag = TRUE
  None = None
SYMMETRY Symmetry
INVARIANTS
  SucceededWasApplied CountersAgree FinishedAgrees SenderOwnsBatch
PROPERTIES
  SettledForever StopIsFinal
CHECK_DEADLOCK FALSE
