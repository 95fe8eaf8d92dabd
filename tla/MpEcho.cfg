\* Two clients, one of which sends two units, through buffers of two units.
SPECIFICATION Spec
CONSTANTS
  MaxConns = 2
  MaxSends <- TalkAndVisit
  Buf = 2
INVARIANTS
  TypeOK
  OnlyOwnSockets
  EchoComplete
  ReaperFindsChild
PROPERTIES
  AllAccepted
  QuitEnds
  SocketFreed
