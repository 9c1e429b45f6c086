SPECIFICATION Spec
CONSTANTS
  Endpoints = {homeA, homeB}
  Vendor = vendor
  None = None
INVARIANTS TypeOK NoLeakedListener LoadedAgrees
PROPERTIES ListenerFirst RecordsTruly
