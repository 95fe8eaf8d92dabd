SPECIFICATION Spec
CONSTANTS
  MaxConns = 2
  MaxSends <- NoTalk
  Buf = 1
INVARIANT
  NoZombieStays
