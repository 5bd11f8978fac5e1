SPECIFICATION Spec
CONSTANTS
  update = update
  state = state
  command = command
  Jobs = {update, state, command}
  WaitFor <- ImportWait
  Rank <- SmallestWaits
  Commands = {command}
  Callers = {c1, c2}
  MaxFaults = 1
  None = None
SYMMETRY CallSymmetry
INVARIANTS HoldIsRegistered
PROPERTIES
  NoStartUnderHold PassesSlotOnce
CHECK_DEADLOCK FALSE
