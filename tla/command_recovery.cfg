SPECIFICATION FairSpec
CONSTANTS
  Operations = {o1}
  Batches = {b1}
  BatchOf <- OneBatch
  Attempts = {a1, a2}
  Finishers = {f1}
  Reconcilers = {}
  Kind = "device-command"
  MaxExecutions = 3
  GoogleLag = TRUE
  None = None
  PollLeases = {l1}
  PollRuns = {r1}
  PollLimit = 1
  Overlap = 1
  LongWatch = TRUE
  Reported = {"PENDING"}
INVARIANTS
  FailedNeverApplied HandOver
PROPERTIES
  CommandSentOnce HandedOver ContractSpec
CHECK_DEADLOCK FALSE
