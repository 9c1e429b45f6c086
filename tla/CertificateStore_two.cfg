SPECIFICATION CertificateSpec
CONSTANTS
  Starts = {entry1, entry2}
  Missing = Missing
  MaxGenerations = 2
INVARIANT PersistentPair
