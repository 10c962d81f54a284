CONSTANTS
  PSlot = {0, 1}
  RSlot = {2, 3}
  Phrase = {a}
  Passphrase = {Empty, s}
  Empty = Empty
  Multi = {m}
  Member <- MCMember
  Drafts <- MCDrafts
  Free = Free
  Opaque = Opaque
  None = None
  MaxSaves = 2
  MaxHits = 2
SPECIFICATION Spec
INVARIANTS NoOrphans OpenIsApproved AnswersHold HeldOpens
