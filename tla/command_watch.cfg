SPECIFICATION FairSpec
CONSTANTS
  Operations = {o1}
  Leases = {l1,l2}
  Runs = {r1, r2}
  Overlap = 1
  PollLimit = 1
  LongWatch = FALSE
  Reported = {"PENDING", "EXECUTED", "GONE"}
  None = None
PROPERTIES
  WatchSpec
  SupersededRunIsQuiet
CHECK_DEADLOCK FALSE
