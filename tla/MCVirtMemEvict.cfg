CONSTANTS
  sa = sa
  sb = sb
  a1 = a1
  a2 = a2
  b1 = b1
  NULL = NULL
  Thread = {a1, b1}
  Space = {sa, sb}
  SpaceOf <- Owner
  Mapping = {sa}
  Leaving = {}
  ExecPages = 0
  PagesOfA = 1
  PagesOfB = 2
  ProgramPages <- Sizes
  MaxVirtPages = 3
  NumPhysPages = 1
  NumSectors = 3
  File = {f}
  Length = 1
  FileLen <- Lengths
  Value = {0, 1}
  Zero = 0
  Image = 1
SPECIFICATION VMSpec
INVARIANTS
  UnmappedPagesSwap
