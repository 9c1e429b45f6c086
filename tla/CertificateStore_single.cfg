SPECIFICATION CertificateSpec
CONSTANTS
  Starts = {entry1}
  Missing = Missing
  MaxGenerations = 7
INVARIANT LoadsPair
PROPERTY Retained
