CONSTANTS
  sa = sa
  sb = sb
  a1 = a1
  a2 = a2
  b1 = b1
  NULL = NULL
  Thread = {a1, a2, b1}
  Space = {sa, sb}
  SpaceOf <- Owner
  Mapping = {}
  Leaving = {}
  ExecPages = 1
  PagesOfA = 2
  PagesOfB = 1
  ProgramPages <- Sizes
  MaxVirtPages = 2
  NumPhysPages = 1
  NumSectors = 3
  File = {}
  Length = 1
  FileLen <- Lengths
  Value = {0}
  Zero = 0
  Image = 0
SPECIFICATION FairVMSpec
PROPERTIES
  PageFaultsEnd
