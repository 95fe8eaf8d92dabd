\* The completion port server with two workers: what its comment says of it.
SPECIFICATION Spec
CONSTANTS
  MaxUnits <- Units30
  SndBuf = 1
  Buf = 2
  Kinds = {"iocp"}
  NumberOfProcessors = 2
PROPERTIES
  MessagesAfterTheFirst
CHECK_DEADLOCK FALSE
