SPECIFICATION Spec
CONSTANTS
  Faults <- NoFaults
  Commands <- OpenAndGet
  MaxCommands = 2
  MaxDataFds = 2
INVARIANTS
  ServerIpAlive
