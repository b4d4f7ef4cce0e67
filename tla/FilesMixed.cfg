CONSTANTS
  p1 = p1
  p2 = p2
  Uploads = {p1, p2}
  Batches <- MixedAndTypical
  Faults = {"s3", "database", "restart"}
  Limit <- LimitOf
  Megabyte = 2
  NoFile = NoFile
SPECIFICATION Spec
INVARIANTS
  TypeOK
  StoresAgree
  CropsBelong
  EveryNameIsStored
PROPERTIES
  UploadsEnd
  KeepsPromise
