SPECIFICATION FairSpec
CONSTANTS
  Clients = {c1, c2}
  Size = 3
  MaxFaults = 3
INVARIANTS
  TypeOK
  FileIsWhole
  RowIsReceived
  RecordIsKept
PROPERTIES
  UploadResumes
CHECK_DEADLOCK FALSE
