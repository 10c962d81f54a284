SPECIFICATION Spec
CONSTANTS
  n0 = n0
  n1 = n1
  n2 = n2
  main = main
  test = test
  Names <- MCNames
  Networks <- MCNetworks
  NoName = n0
  Mainnet = main
  MaxSeq = 5
  Faults = TRUE
  ReadFaults = FALSE
INVARIANTS TypeOK StoredIsRead OnlyWhatWasAsked
PROPERTIES ImplementsRegister
