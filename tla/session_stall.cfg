SPECIFICATION SpecAnyServer
CONSTANTS
  Faults <- LateOnly
  Commands <- TransfersOnly
  MaxCommands = 1
  MaxDataFds = 2
PROPERTIES
  CommandsEnd
