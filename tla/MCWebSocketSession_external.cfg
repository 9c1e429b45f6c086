SPECIFICATION FairSpec
CONSTANTS
  Tasks = {t1, t2}
  NoTask = NoTask
  NoPlan = NoPlan
  Slots <- MCSlots
  LastMinute = 2
  Modes <- MCModes
  DefaultMode = "default"
  ActiveBytes = {0, 1}
  WireModes <- MCWireModes
  WireMinutes <- MCWireMinutes
  Wanted <- MCWanted
  Initial <- MCInitial
  External <- MCExternal
  MaxCalls = 3
INVARIANTS TypeOK OwnAnswer
PROPERTIES VerifiedIsOnDevice EditsAccepted CallsReturn
CHECK_DEADLOCK FALSE
