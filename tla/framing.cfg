SPECIFICATION Spec
CONSTANTS
  BufferSize = 21
  Streams <- TestStreams
  Announced <- TestPorts
INVARIANTS
  FramingInv
  WritesInBounds
  BufferIsString
  PortIsAnnounced
PROPERTIES
  LoopOnlyFails
