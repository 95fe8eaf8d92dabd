\* Three accepts, so that a number freed by close is given to a later client
\* while an entry of the array still holds it.
SPECIFICATION Spec
CONSTANTS
  Systems = {"Linux", "Windows"}
  MaxAccepts = 3
  MaxSends = 1
  SndBuf = 1
INVARIANTS
  TypeOK
  CountInv
PROPERTY
  AudienceServed
