SPECIFICATION FairSpec
CONSTANTS
  update = update
  state = state
  command = command
  Jobs = {update, state}
  WaitFor <- ImportWait
  Rank <- SmallestWaits
  Commands = {}
  Callers = {c1}
  MaxFaults = 1
  None = None
PROPERTIES
  HoldIsReleased QueueMoves
CHECK_DEADLOCK FALSE
