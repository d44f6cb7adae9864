CONSTANTS
  Thread = {t1, t2}
  Users = {t1, t2}
  Character <- Letters
  EOF = EOF
  Texts <- SomeTexts
  Inputs <- TypedLines
  ReadSizes = {1, 2}
  MaxCalls = 2
  Lengths = {0, 2}
  Stream <- TwoMessages
  Capacities = {0, 2}
  BUFFER_SIZE = 6
  MaxMessages = 2
  MaxLine = 5
  Lines = {"none", "busy", "interrupt"}
  Garbage = {0, 99}
SPECIFICATION CharSpec
CHECK_DEADLOCK FALSE
INVARIANTS
  DisplayShowsTexts
  InputIntact
  MessagesArrive
  BusyLineLosesNothing
PROPERTIES
  CallsEnd
