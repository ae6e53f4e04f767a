SPECIFICATION FairSpec
CONSTANTS
  Callers = {p1, p2}
  ChannelCount = 2
  MaxChanges = 3
  MaxFailures = 1
  MaxAborts = 1
INVARIANTS
  SubscribedIsReal
  QuietIsServed
PROPERTIES
  Converges
CHECK_DEADLOCK FALSE
