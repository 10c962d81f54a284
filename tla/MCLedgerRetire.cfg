CONSTANTS
  i0 = i0
  i1 = i1
  Identity <- MCIdentity
  First = i0
  EntryCells = 2
  TailReserve = 0
  EpochCells = 1
  SeqCells = 2
  GenCells = 1
  PolicyCells = 1
  Reserve = 4
  FormatAfter = 2
  Afters = {0, 3}
  Ops = {"write"}
  MaxCtr = 3
  MaxEpoch = 1
  MaxGuesses = 3
  FaultSteps = {"retire"}
SPECIFICATION Spec
INVARIANTS EveryGuessCharged
