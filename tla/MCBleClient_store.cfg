SPECIFICATION Spec
CONSTANTS
  Tasks = {t1, t2}
  None = None
  Error = Error
  Slots <- MCSlots
  LastMinute = 2
  Modes <- MCModes
  DefaultMode = "default"
  ActiveBytes = {0, 1}
  WireModes <- MCModes
  WireMinutes <- MCMinutes
  Wanted <- MCWanted
  Initial <- MCInitial
  FrameSize = 2
  MaxCalls = 4
SYMMETRY Symmetry
INVARIANTS TypeOK OwnFrame
PROPERTIES StoreSpec ReportsTruly
CHECK_DEADLOCK FALSE
