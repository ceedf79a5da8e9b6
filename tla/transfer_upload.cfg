SPECIFICATION Spec
CONSTANTS
  Kinds <- UploadsOnly
  FileSize = 4
  BlockSize = 3
  Capacity = 2
PROPERTIES
  UploadPromise
