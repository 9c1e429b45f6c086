SPECIFICATION Spec
CONSTANTS
  Endpoints = {homeA, homeB}
  Vendor = vendor
  None = None
INVARIANT PreviousIsOriginal
