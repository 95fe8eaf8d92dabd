\* Every pair of programs, two clients, a server of up to two clients in turn.
SPECIFICATION Spec
CONSTANTS
  Clients = {1, 2}
  Turns = 2
INVARIANTS
  TypeOK
  InStep
  WholeTransfer
  RequestComplete
  DiesOfUnreadAnswer
PROPERTIES
  Finishes
\* The programs end.
CHECK_DEADLOCK FALSE
