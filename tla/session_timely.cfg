SPECIFICATION Spec
CONSTANTS
  Faults <- TimelyFaults
  Commands <- MixedCommands
  MaxCommands = 3
  MaxDataFds = 2
INVARIANTS
  TypeOK
  EchoRestored
  CompletionIsComing
  DialogueInv
PROPERTIES
  Lockstep
  HalfDuplex
