SPECIFICATION SpecFairServer
CONSTANTS
  Faults <- SegmentedFaults
  Commands <- LiveCommands
  MaxCommands = 2
  MaxDataFds = 2
PROPERTIES
  CommandsEnd
