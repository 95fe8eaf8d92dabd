SPECIFICATION Spec
CONSTANTS
  Systems = {"Linux"}
  MaxAccepts = 2
  MaxSends = 1
  SndBuf = 1
PROPERTY
  RemovesDisconnected
