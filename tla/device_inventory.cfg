SPECIFICATION Spec
CONSTANTS
  Syncs = {s1, s2}
  Runs = {r1, r2}
  Reads = {e1}
  Writes = {w1}
  MaxValue = 2
  None = None
SYMMETRY Symmetry
VIEW View
INVARIANTS
  OverlayHolds WriteKept OneSync
PROPERTIES
  RemovedAsSeen
CHECK_DEADLOCK FALSE
