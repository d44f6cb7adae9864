CONSTANTS
  Device = {"DISK_INT", "CONSOLE_READ_INT", "ACIA_SEND_INT"}
  TimeSharing = TRUE
  Delays = {1, 3}
  TimerDelay = 4
  USER_TICK = 1
  SYSTEM_TICK = 2
SPECIFICATION InterruptSpec
INVARIANTS
  EarliestFirst
  NothingOverdue
PROPERTIES
  InterruptsCome
