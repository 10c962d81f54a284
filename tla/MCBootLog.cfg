CONSTANTS
  BootCells <- MCBootCells
  MaxBoots = 5
  MaxCtr = 5
  Faults = FALSE
SPECIFICATION Spec
INVARIANTS TypeOK BootsNeverForgotten
PROPERTIES ImplementsCounter
