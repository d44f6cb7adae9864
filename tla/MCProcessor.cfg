SPECIFICATION ProcSpec
CONSTANTS
  thread1 = thread1
  thread2 = thread2
  Thread <- MCThread
  Scenario <- MCScenario
  Rights <- MCRights
  ByteBits = 2
  NumGP = 4
  NumFP = 4
  PageSize = 8
  Results = {0, 1}
INVARIANTS ProcTypeOK SwitchesDoNotShow ArithmeticIsRight MemoryIsRight
\* a program ends, or an exception halts the machine
CHECK_DEADLOCK FALSE
