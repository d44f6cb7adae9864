CONSTANTS
  NULL = NULL
  Thread = {root, t1, t2, t3, t4}
  Root = root
  Proc = {boot, p1}
  RootProc = boot
  Semaphore = {s1}
  Lock = {l1}
  Condition = {}
  InitialValue = {}
  MaxValue = 2
  semaphore = s1
  lock = l1
SPECIFICATION FairDiskSpec
INVARIANTS
  HandShake
PROPERTIES
  ImplementsService
  RequestsComplete
