CONSTANTS
  i0 = i0
  i1 = i1
  Identity <- MCIdentity
  First = i0
  EntryCells = 3
  TailReserve = 1
  EpochCells = 1
  SeqCells = 2
  GenCells = 1
  PolicyCells = 1
  Reserve = 4
  FormatAfter = 2
  Afters = {0}
  Ops = {"write", "gen", "wipe", "policy"}
  MaxCtr = 2
  MaxEpoch = 1
  MaxGuesses = 3
  FaultSteps <- EveryStep
SPECIFICATION Spec
INVARIANTS TypeOK GuessesCharged SettledAfterUnlock NoGuessBeyondLimit SeqNeverReused PolicyHeld ElectionDecided
