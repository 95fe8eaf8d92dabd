\* Two clients, a pipe and a stdio buffer that two units fill.
SPECIFICATION Spec
CONSTANTS
  MaxUnits <- Units21
  Buf = 2
  PipeSize = 2
  StdioSize = 2
INVARIANTS
  TypeOK
  InLine
PROPERTIES
  Stored
\* The server waits for ever for the next client, or has been stopped.
CHECK_DEADLOCK FALSE
