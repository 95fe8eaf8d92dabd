\* The five rounds of the programs, over two numbers and a failing scanf.
SPECIFICATION Spec
CONSTANTS
  Rounds = 5
  Inputs <- TypedNumbers
  SemMax = 2
INVARIANTS
  TypeOK
  OneToken
PROPERTIES
  ImplementsHandOff
