SPECIFICATION FairSpec
CONSTANTS
  r1 = r1
  r2 = r2
  r3 = r3
  Requests = {r1, r2, r3}
  Batches = 2
  None = None
INVARIANTS
  OneSheet FileKept ReportOfOneAttempt
PROPERTIES
  EndIsFinal JobEnds
CHECK_DEADLOCK FALSE
