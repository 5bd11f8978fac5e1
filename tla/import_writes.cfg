SPECIFICATION WithoutHolds
CONSTANTS
  update = update
  state = state
  command = command
  Jobs = {update, state, command}
  WaitFor <- ImportWait
  Rank <- SmallestWaits
  Commands = {command}
  Callers = {c1}
  MaxFaults = 1
  None = None
  Operations = {o1}
VIEW View
INVARIANTS
  OneUnsettled ImportInOrder CancelledImportIsQuiet
CHECK_DEADLOCK FALSE
