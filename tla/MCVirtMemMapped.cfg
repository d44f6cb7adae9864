CONSTANTS
  sa = sa
  sb = sb
  a1 = a1
  a2 = a2
  b1 = b1
  NULL = NULL
  Thread = {a1, a2, b1}
  Space = {sa, sb}
  SpaceOf <- Owner
  Mapping = {sa}
  Leaving = {sa}
  ExecPages = 1
  PagesOfA = 2
  PagesOfB = 0
  ProgramPages <- Sizes
  MaxVirtPages = 4
  NumPhysPages = 2
  NumSectors = 2
  File = {f}
  Length = 1
  FileLen <- Lengths
  Value = {0, 1}
  Zero = 0
  Image = 1
SPECIFICATION VMSpec
SYMMETRY Symmetry
INVARIANTS
  FramesAgree
  SwapAccounted
  PagingIsInvisible
