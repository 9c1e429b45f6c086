SPECIFICATION EntitySpec
CONSTANTS
  Slots = {s1, s2}
  LastMinute = 3
  Modes <- MCModes
  DefaultMode = "default"
  ActiveBytes = {0, 1, 2}
  WireModes <- MCWireModes
  WireMinutes <- MCWireMinutes
  Wanted <- MCWanted
  Initial <- MCInitial
  Asked <- MCAsked
  Unknown = Unknown
SYMMETRY SlotSymmetry
INVARIANTS TypeOK FieldByField
PROPERTIES NoNewClash OnlyAsked
