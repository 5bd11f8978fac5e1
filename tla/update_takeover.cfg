SPECIFICATION Spec
CONSTANTS
  Operations = {o1, o2}
  Batches = {b1}
  BatchOf <- OneBatch
  Attempts = {a1, a2}
  Finishers = {}
  Reconcilers = {}
  Kind = "device-update"
  MaxExecutions = 1
  GoogleLag = FALSE
  None = None
SYMMETRY Symmetry
INVARIANTS
  TypeOK SentByOneAttempt UnattemptedNeverSent
PROPERTIES
  RefusalIsFinal FencedIsQuiet
CHECK_DEADLOCK FALSE
