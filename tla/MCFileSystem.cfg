CONSTANTS
  t1 = t1
  t2 = t2
  NULL = NULL
  Thread = {t1, t2}
  Path <- Paths
  Components <- Names
  NumSectors = 8
  NumDirEntries = 2
  MaxData = 2
  NBOFTENTRY = 2
  MaxHandles = 2
  Sizes = {1}
  Together <- Creates
SPECIFICATION FSSpec
SYMMETRY Symmetry
INVARIANTS
  NotCrashed
  NoSectorShared
  FreeMapIsRight
  OpenFilesKeepTheirData
  HandlesCounted
