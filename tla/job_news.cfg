SPECIFICATION FairSpec
CONSTANTS
  caller = caller
  Callers = {caller}
  Relay = Relay
  MaxRevision = 2
INVARIANTS
  NewsOnTheWay
PROPERTIES
  FollowSpec
CHECK_DEADLOCK FALSE
