SPECIFICATION Spec
CONSTANTS
  BufferSize = 8
  Inputs <- AllInputs
INVARIANTS
  CommandInv
  TextInv
  FreesAreValid
  OnlyCopiesAndArraysLeak
  CommandIsTyped
  ShortLinesAreWhole
