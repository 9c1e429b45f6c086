SPECIFICATION FairSpec
CONSTANTS
  e1 = e1
  e2 = e2
  Devices = {own, other}
  Own = own
  Editors = {e1, e2}
  Poll = Poll
  Fields = {"active", "mode"}
  Changes <- OneAndAll
  None = None
  Outside = Outside
  MaxPolls = 2
  MaxOutside = 0
  MaxCancels = 0
PROPERTY TelemetryShown
CHECK_DEADLOCK FALSE
