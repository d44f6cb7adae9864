CONSTANTS
  NULL = NULL
  Thread = {root, t1, t2, t3}
  Root = root
  Proc = {boot, p1}
  RootProc = boot
  Semaphore = {s1}
  Lock = {}
  Condition = {}
  InitialValue = {0, 1}
  MaxValue = 2
SPECIFICATION FairSpec
PROPERTIES
  ReadyThreadsRun
  JoinReturns
