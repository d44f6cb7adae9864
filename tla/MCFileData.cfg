CONSTANTS
  NumSectors = 9
  SectorSize = 2
  DatasInFirstSector = 1
  DatasInSector = 2
  MaxDataSectors = 5
  TransferSize = 3
  Byte = {1, 2}
  Junk = Junk
  NULL = NULL
  h1 = h1
  h2 = h2
  Handle = {h1, h2}
  Writers = {h1}
  InitialSizes = {0, 3, 7}
  WriteSizes = {1, 3}
  MaxLength = 7
  Positions = {0, 3}
  CrossHeaders = FALSE
SPECIFICATION FDSpec
INVARIANTS
  HandlesSeeTheFile
  DiskDescribesTheFile
  SectorsAccounted
