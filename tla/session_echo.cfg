SPECIFICATION Spec
CONSTANTS
  Faults <- InterruptOnly
  Commands <- OpenAndGet
  MaxCommands = 1
  MaxDataFds = 2
INVARIANTS
  EchoRestored
