SPECIFICATION Spec
CONSTANTS
  Faults <- IdleOnly
  Commands <- TransfersOnly
  MaxCommands = 1
  MaxDataFds = 2
INVARIANTS
  ClosedIsSeen
