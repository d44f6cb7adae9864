CONSTANTS
  NULL = NULL
  Thread = {root, t1, t2, t3}
  Root = root
  Proc = {boot, p1, p2}
  RootProc = boot
  Semaphore = {s1}
  Lock = {l1}
  Condition = {c1}
  InitialValue = {0, 1}
  MaxValue = 2
SPECIFICATION Spec
SYMMETRY Symmetry
INVARIANTS
  TypeOK
  EveryThreadLocated
  ProcessOutlivesItsThreads
  CarcassIsNotRunning
  MutualExclusion
  LockedWhileWanted
  NoLostWakeup
  KernelInv
