\* All seven servers, two clients (the first sends three units), send buffers of one unit, reads of up to two.
SPECIFICATION Spec
CONSTANTS
  MaxUnits <- Units30
  SndBuf = 1
  Buf = 2
  Kinds = {"select", "select_win", "epoll", "edge", "async", "cmplrou", "iocp"}
  NumberOfProcessors = 2
INVARIANTS
  TypeOK
  NeverWaits
  ClosesOnlyTheGone
  UsesOnlyOpenSockets
  ArraysAgree
  BlocksLive
  PoliteClientsAreSafe
PROPERTIES
  PromiseKept
  Served
  Released
\* A server waits for ever for the next client.
CHECK_DEADLOCK FALSE
