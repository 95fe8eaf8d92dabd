\* Two threads of each kind, three iterations each.
SPECIFICATION Spec
CONSTANTS
  NUM_THREAD = 4
  Loops = 3
  Programs <- LockingPrograms
INVARIANTS
  TypeOK
  NoLostUpdate
  ResultPrinted
PROPERTIES
  Terminates
