SPECIFICATION FairSpec
CONSTANTS
  Kinds <- AllKinds
  FileSize = 5
  BlockSize = 3
  Capacity = 2
INVARIANTS
  TypeOK
  CopyInv
PROPERTIES
  CopyPromise
  TransferEnds
  TransferAdvances
  CleanDownloadSucceeds
