SPECIFICATION Spec
CONSTANTS
  PayloadSize = 16
  Crc <- Crc16
  HostSize = 4
  Hosts <- MCHosts
  Ports <- MCPorts
  Settings <- MCSettings
  Fragment = 7
  None = None
CHECK_DEADLOCK FALSE
INVARIANTS FramesAreGenuine PlannedFromStored EndpointStored ChecksumIsModbus
