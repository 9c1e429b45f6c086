SPECIFICATION FairSpec
CONSTANTS
  Conns = {c1, c2}
  None = None
  Closed = Closed
  MaxRequests = 3
  MaxCancels = 2
INVARIANTS TypeOK NeverSpins OwnReply QueueNeverStuck StopLeavesNothing
PROPERTIES NewestKept PoisonedGoes
CHECK_DEADLOCK FALSE
