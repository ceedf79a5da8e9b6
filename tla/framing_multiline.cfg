SPECIFICATION Spec
CONSTANTS
  BufferSize = 20
  Streams <- MultilineOnly
  Announced <- NoPorts
INVARIANTS
  MultilineUnderstood
