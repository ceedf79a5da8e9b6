SPECIFICATION Spec
CONSTANTS
  Faults <- RoughFaults
  Commands <- MixedCommands
  MaxCommands = 2
  MaxDataFds = 2
INVARIANTS
  FlagAndSocketAgree
  OnlyDownloadsKeepSockets
  ChildReaped
  SessionInv
PROPERTIES
  CommandsAdvance
