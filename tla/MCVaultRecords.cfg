CONSTANTS
  u0 = u0
  u1 = u1
  p = p
  q = q
  User <- MCUser
  Identity = {0, 1}
  First = 0
  Pin <- MCPin
  Data = {d}
  Super = Super
  Filler = Filler
  NoPin = NoPin
  Nothing = Nothing
  Corrupt = Corrupt
  GenCells = 2
  Values = {v}
  Strict = Strict
  MaxEpoch = 1
  MaxCalls = 3
  MaxHits = 1
  Errors = {"error", "program"}
SYMMETRY PinSymmetry
SPECIFICATION Spec
INVARIANTS NothingLost ViewIsWhatBootSees FlashTellsNothing ValidSessionsSeal NoFalseTamper
PROPERTIES ImplementsWalletStore
