SPECIFICATION FairSpec
CONSTANTS
  Connections = {c1, c2, c3}
  Counts = {1, 2}
  Unlimited = Unlimited
  None = None
  MaxSamples = 3
CHECK_DEADLOCK FALSE
INVARIANT CountMet
PROPERTY NothingHangs
