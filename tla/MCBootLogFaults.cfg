CONSTANTS
  BootCells <- MCBootCells
  MaxBoots = 4
  MaxCtr = 4
  Faults = TRUE
SPECIFICATION Spec
INVARIANTS ElectionDecided MarkWithinCount
