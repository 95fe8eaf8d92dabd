\* Two clients that send two messages, one undelivered write per connection.
SPECIFICATION Spec
CONSTANTS
  Systems = {"Linux", "Windows"}
  MaxAccepts = 2
  MaxSends = 2
  SndBuf = 1
INVARIANTS
  LockInv
  SameOrder
PROPERTIES
  ArrayOnlyByHolder
  LockReleased
