SPECIFICATION Spec
CONSTANTS
  w1 = w1
  w2 = w2
  t1 = t1
  t2 = t2
  None = None
  Slots <- MCSlots
  Wallet <- MCWallet
  Hidden <- MCHidden
  Tx <- MCTx
  IdleLimit = 1
  MaxPrior = 2
INVARIANT DeletesWhatItNames
