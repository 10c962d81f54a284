--------------------------- MODULE WalletsProofs ----------------------------
(***************************************************************************)
(* Theorems about Wallets, for any payload and registry slots, wallets,    *)
(* memberships and numbers of cuts and errors.                             *)
(*                                                                         *)
(* What is added to the properties: the store reads what the flash holds   *)
(* (Mirrors), and what each request has ahead of it while it is answered   *)
(* (AtWork).  Every write is then one that keeps the registry right        *)
(* (Sound), whether it lands, fails or is cut.                             *)
(***************************************************************************)
EXTENDS Wallets, NaturalsInduction, WellFoundedInduction, TLAPS

USE WalletsAssumption, ValuesAssumption

-----------------------------------------------------------------------------
(***************************************************************************)
(* The invariant.                                                          *)
(***************************************************************************)
Cell == {Free, Opaque} \cup WalletRec \cup RegistrationRec

Opens == [slot : PSlot, wallet : Wallet, entries : SUBSET (RSlot \X Multi)]

Reviews == [id : Multi, duplicate : RSlot \cup {None}]

\* The jobs, by what they do.
Seals == [do : {"seal"}, slot : PSlot, wallet : Wallet, store : BOOLEAN]
Keeps == [do : {"keep"}, slot : PSlot]
Registers == [do : {"register"}]
Replaces == [do : {"erase", "install", "restore"}, slot : RSlot, saved : RegistrationRec]
Deletes == [do : {"delete"}, slot : PSlot, left : SUBSET RSlot, done : Nat]

Typed ==
  /\ flash \in [Slot -> Cell] /\ view \in [Slot -> Cell]
  /\ session \in {"off", "locked", "unlocked"}
  /\ held \in [PSlot -> Passphrase]
  /\ open \in {None} \cup Opens /\ pending \in {None} \cup Reviews
  /\ job \in {None} \cup Seals \cup Keeps \cup Registers \cup Replaces \cup Deletes
  /\ sure \in BOOLEAN /\ hits \in Nat /\ saves \in Nat

\* The wallet a registration names is there, and was approved.
Backed(c) == IsWallet(flash[c.slot]) /\ <<c.slot, c.id>> \in approved

\* The store reads what the flash holds, but for a registration whose erasure landed
\* and returned an error.
Mirrors ==
  session # "off" /\ sure =>
    /\ \A x \in PSlot : view[x] = flash[x]
    /\ \A r \in RSlot : view[r] = flash[r] \/ flash[r] = Free
    /\ \A r \in RSlot : IsRegistration(view[r]) => Backed(view[r])

\* The request has written in no other slot.
Elsewhere(x) == sure => \A y \in Slot \ {x} : flash[y] = before[y]

Reviewed == open # None /\ pending # None /\ <<open.slot, pending.id>> \in approved

AtWork ==
  /\ session = "unlocked" /\ said.what \in {"nothing", "saved"}
  /\ job.do \in {"seal", "keep", "delete"} => open = None
  /\ job.do \in {"seal", "register", "erase"} => flash = before
  /\ job.do = "seal" => view[job.slot] = Free
  /\ job.do \in {"register", "erase", "install", "restore"} => Reviewed
  /\ job.do \in {"register", "install"} => Frees(RSlot) # {}
  /\ job.do \in {"erase", "install", "restore"} =>
       Elsewhere(job.slot) /\ (sure => Backed(job.saved))
  /\ job.do = "delete" =>
       /\ job.done = 0 => flash = before
       /\ \A r \in RSlot :
            IsRegistration(view[r]) /\ view[r].slot = job.slot => r \in job.left

Opened ==
  /\ open # None => session = "unlocked"
  /\ session # "unlocked" => held = NoneHeld
  /\ sure /\ open # None => IsWallet(flash[open.slot])

IInv ==
  /\ Typed /\ Mirrors /\ Opened /\ (job # None => AtWork)
  /\ NoOrphans /\ OpenIsApproved /\ AnswersHold /\ HeldOpens

-----------------------------------------------------------------------------
(***************************************************************************)
(* Slots and cells.                                                        *)
(***************************************************************************)
\* Of a set of slots that is not empty the least is one.
LEMMA LowestIsOne ==
  ASSUME NEW T \in SUBSET Nat, T # {}
  PROVE  Min(T) \in T
<1>1. PICK m \in T : \A k \in T : <<k, m>> \notin OpToRel(<, Nat)
  BY WFMin, NatLessThanWellFounded
<1>2. \A k \in T : ~(k < m)
  BY <1>1 DEF OpToRel
<1>3. \A k \in T : m =< k
  BY <1>2
<1> QED BY <1>3 DEF Min

\* A cell is of one kind.
LEMMA Kinds ==
  /\ \A c : IsWallet(c) => c \in Cell /\ ~IsRegistration(c) /\ c # Free /\ c # Opaque
  /\ \A c : IsRegistration(c) => c \in Cell /\ c # Free /\ c # Opaque
  /\ Free \in Cell /\ Opaque \in Cell /\ Free # Opaque
<1>1. \A c : c \in WalletRec => c \notin RegistrationRec
  BY DEF WalletRec, RegistrationRec
<1> QED BY <1>1 DEF Cell, IsWallet, IsRegistration

LEMMA Slots == PSlot \subseteq Slot /\ RSlot \subseteq Slot /\ PSlot \cap RSlot = {}
BY DEF Slot

\* What a registration names.
LEMMA Names == \A c : IsRegistration(c) => c.slot \in PSlot /\ c.id \in Multi
BY DEF IsRegistration, RegistrationRec

\* What a wallet's record is made of, and the records that are written for it.
LEMMA WalletFields ==
  ASSUME NEW c, IsWallet(c)
  PROVE  /\ c.wallet \in Wallet /\ c.wallet[2] \in Passphrase
         /\ \A p \in {"none", "applied", "stored"} :
              /\ IsWallet([c EXCEPT !.pass = p])
              /\ [c EXCEPT !.pass = p].wallet = c.wallet
BY DEF IsWallet, WalletRec, Wallet

LEMMA DraftIsWallet ==
  ASSUME NEW w \in Wallet
  PROVE  IsWallet(Draft(w)) /\ Draft(w).wallet = w /\ w[2] \in Passphrase
BY DEF IsWallet, WalletRec, Wallet, Draft

\* The slots jobs are at.
LEMMA FreeSlot ==
  ASSUME NEW S, S = PSlot \/ S = RSlot, Frees(S) # {}
  PROVE  Lowest(Frees(S)) \in S /\ view[Lowest(Frees(S))] = Free
<1>1. Frees(S) \subseteq S /\ Frees(S) \in SUBSET Nat
  BY DEF Frees
<1>2. Lowest(Frees(S)) \in Frees(S)
  BY <1>1, LowestIsOne DEF Lowest
<1> QED BY <1>2 DEF Frees

LEMMA NextOne ==
  ASSUME job.left \in SUBSET RSlot, job.slot \in PSlot
  PROVE  /\ job.left # {} => NextErased \in job.left
         /\ job.left = {} => NextErased = job.slot
         /\ NextErased \in Slot
<1>1. job.left # {} => NextErased \in job.left
  BY LowestIsOne DEF NextErased
<1>2. job.left = {} => NextErased = job.slot
  BY DEF NextErased
<1> QED BY <1>1, <1>2, Slots

\* A wallet is listed only where its record is.
LEMMA ListedIsThere ==
  ASSUME NEW v, NEW w \in Wallet, NEW y \in PSlot, IsWallet(v[y]), v[y].wallet = w
  PROVE  /\ SlotOf(Rows(v), w) \in PSlot
         /\ IsWallet(v[SlotOf(Rows(v), w)]) /\ v[SlotOf(Rows(v), w)].wallet = w
<1> DEFINE same == {x \in PSlot : Rows(v)[x] = w}
<1>1. y \in same
  BY DEF Rows
<1>2. \A x \in same : x \in PSlot /\ IsWallet(v[x]) /\ v[x].wallet = w
  BY DEF Rows
<1>3. SlotOf(Rows(v), w) = Min(same)
  BY <1>1 DEF SlotOf
<1>4. Min(same) \in same
  <2>1. same \in SUBSET Nat
    OBVIOUS
  <2> HIDE DEF same
  <2> QED BY <1>1, <2>1, LowestIsOne
<1> HIDE DEF same
<1> QED BY <1>2, <1>3, <1>4

-----------------------------------------------------------------------------
(***************************************************************************)
(* Writes.                                                                 *)
(***************************************************************************)
\* A write that keeps the registry right: a registration that was approved, or a
\* wallet, or an erasure that leaves no registration of the slot behind.
Sound(x, c) ==
  /\ x \in Slot /\ c \in Cell
  /\ sure =>
       IF x \in RSlot THEN c = Free \/ (IsRegistration(c) /\ Backed(c))
       ELSE \/ IsWallet(c)
            \/ \A r \in RSlot : /\ IsRegistration(flash[r]) => flash[r].slot # x
                                /\ IsRegistration(view[r]) => view[r].slot # x

\* No approval is forgotten of a slot that has a wallet.
Trims ==
  sure => \A x \in PSlot, id \in Multi :
            <<x, id>> \in approved /\ IsWallet(flash[x]) => <<x, id>> \in approved'

\* What a write that lands leaves.
LEMMA Puts ==
  ASSUME Typed, NEW x \in Slot, NEW c \in Cell, Put(x, c)
  PROVE  /\ flash' \in [Slot -> Cell] /\ view' \in [Slot -> Cell]
         /\ flash'[x] = c /\ view'[x] = c
         /\ \A y \in Slot : y # x => flash'[y] = flash[y] /\ view'[y] = view[y]
BY DEF Typed, Put

\* What one that fails leaves.
LEMMA PutsNot ==
  ASSUME Typed, NEW x \in Slot, NEW c \in Cell, PutFails(x, c)
  PROVE  /\ flash' \in [Slot -> Cell] /\ view' \in [Slot -> Cell] /\ hits' \in Nat
         /\ sure' \in BOOLEAN /\ (sure' => sure)
         /\ flash'[x] \in {flash[x], c} /\ view'[x] \in {view[x], Opaque}
         /\ \A y \in Slot : y # x => flash'[y] = flash[y] /\ view'[y] = view[y]
         /\ sure' => \/ flash' = flash /\ view' = view
                     \/ flash'[x] = Free /\ x \in RSlot
<1>1. hits' \in Nat
  BY DEF Typed, PutFails
<1>2. CASE UNCHANGED disk /\ UNCHANGED sure
  BY <1>1, <1>2 DEF Typed, disk
<1>3. CASE /\ flash' = [flash EXCEPT ![x] = c]
           /\ view' \in {view, [view EXCEPT ![x] = Opaque]}
           /\ sure' = (sure /\ c = Free /\ x \in RSlot)
  <2>1. flash' \in [Slot -> Cell] /\ flash'[x] = c
        /\ \A y \in Slot : y # x => flash'[y] = flash[y]
    BY <1>3 DEF Typed
  <2>2. view' \in [Slot -> Cell] /\ view'[x] \in {view[x], Opaque}
        /\ \A y \in Slot : y # x => view'[y] = view[y]
    <3>1. CASE view' = view
      BY <3>1 DEF Typed
    <3>2. CASE view' = [view EXCEPT ![x] = Opaque]
      BY <3>2, Kinds DEF Typed
    <3> QED BY <1>3, <3>1, <3>2
  <2>3. sure' \in BOOLEAN /\ (sure' => sure /\ c = Free /\ x \in RSlot)
    BY <1>3
  <2> QED BY <1>1, <2>1, <2>2, <2>3
<1> QED BY <1>2, <1>3 DEF PutFails

\* Nothing has landed, but an erasure, if the call that failed is to be sure of.
LEMMA PutsSure ==
  ASSUME NEW x \in Slot, NEW c, PutFails(x, c), c # Free
  PROVE  sure' => sure /\ flash' = flash
BY DEF PutFails, disk

\* A sound write keeps the registry right.
LEMMA SoundIsCut ==
  ASSUME Typed, NoOrphans, NEW x, NEW c, Sound(x, c), Trims,
         flash' = [flash EXCEPT ![x] = c], sure' => sure
  PROVE  NoOrphans' /\ flash' \in [Slot -> Cell]
<1> DEFINE Later(d) == IsWallet(flash'[d.slot]) /\ <<d.slot, d.id>> \in approved'
<1>1. x \in Slot /\ c \in Cell
  BY DEF Sound
<1>2. /\ flash' \in [Slot -> Cell] /\ flash'[x] = c
      /\ \A y \in Slot : y # x => flash'[y] = flash[y]
  BY <1>1 DEF Typed
<1>3. SUFFICES ASSUME sure', sure PROVE NoOrphans'
  BY <1>2 DEF NoOrphans
<1>4. ASSUME NEW d, IsRegistration(d), Backed(d),
             d.slot = x => IsWallet(c)
      PROVE  Later(d)
  <2>1. d.slot \in PSlot /\ d.slot \in Slot /\ d.id \in Multi
    BY <1>4, Names, Slots
  <2>2. IsWallet(flash'[d.slot])
    BY <1>2, <1>4, <2>1 DEF Backed
  <2>3. <<d.slot, d.id>> \in approved'
    BY <1>3, <1>4, <2>1 DEF Backed, Trims
  <2> QED BY <2>2, <2>3
<1>5. SUFFICES ASSUME NEW r \in RSlot, IsRegistration(flash'[r]) PROVE Later(flash'[r])
  BY DEF NoOrphans
<1>6. CASE r = x
  <2>1. IsRegistration(c) /\ Backed(c) /\ c.slot # x
    BY <1>2, <1>3, <1>5, <1>6, Kinds, Names, Slots DEF Sound
  <2> QED BY <1>2, <1>4, <1>6, <2>1
<1>7. CASE r # x
  <2>1. flash'[r] = flash[r]
    BY <1>2, <1>7, Slots
  <2>2. Backed(flash[r])
    BY <1>3, <1>5, <2>1 DEF NoOrphans, Backed
  <2>3. flash[r].slot = x => IsWallet(c)
    BY <1>3, <1>5, <2>1, Names, Slots DEF Sound
  <2> QED BY <1>4, <1>5, <2>1, <2>2, <2>3
<1> QED BY <1>6, <1>7

\* If it lands, the store is in step as well.
LEMMA SoundLands ==
  ASSUME Typed, Mirrors, NoOrphans, NEW x, NEW c, Sound(x, c), Trims,
         Put(x, c), sure' => sure, session' # "off" => session # "off"
  PROVE  Mirrors' /\ NoOrphans'
<1> DEFINE Later(d) == IsWallet(flash'[d.slot]) /\ <<d.slot, d.id>> \in approved'
<1>1. x \in Slot /\ c \in Cell
  BY DEF Sound
<1>2. /\ flash'[x] = c /\ view'[x] = c
      /\ \A y \in Slot : y # x => flash'[y] = flash[y] /\ view'[y] = view[y]
  BY <1>1, Puts
<1>3. NoOrphans'
  BY SoundIsCut DEF Put
<1>4. SUFFICES ASSUME sure', sure, session # "off" PROVE Mirrors'
  BY <1>3 DEF Mirrors
<1>5. \A y \in PSlot : view'[y] = flash'[y]
  BY <1>2, <1>4, Slots DEF Mirrors
<1>6. \A r \in RSlot : view'[r] = flash'[r] \/ flash'[r] = Free
  BY <1>2, <1>4, Slots DEF Mirrors
<1>7. ASSUME NEW r \in RSlot, IsRegistration(view'[r]) PROVE Later(view'[r])
  <2> DEFINE d == view'[r]
  <2>1. d.slot \in PSlot /\ d.slot \in Slot /\ d.id \in Multi /\ d # Free
    BY <1>7, Kinds, Names, Slots
  <2>2. Backed(d) /\ (d.slot = x => IsWallet(c))
    <3>1. CASE r = x
      BY <1>2, <1>4, <1>7, <2>1, <3>1, Slots DEF Sound
    <3>2. CASE r # x
      <4>1. d = view[r]
        BY <1>2, <3>2, Slots
      <4>2. Backed(view[r])
        BY <1>4, <1>7, <4>1 DEF Mirrors
      <4>3. view[r].slot = x => IsWallet(c)
        BY <1>4, <1>7, <2>1, <4>1, Slots DEF Sound
      <4> QED BY <4>1, <4>2, <4>3
    <3> QED BY <3>1, <3>2
  <2> HIDE DEF d
  <2>3. IsWallet(flash'[d.slot])
    BY <1>2, <2>1, <2>2 DEF Backed
  <2>4. <<d.slot, d.id>> \in approved'
    BY <1>4, <2>1, <2>2 DEF Backed, Trims
  <2> QED BY <2>3, <2>4 DEF d
<1> QED BY <1>5, <1>6, <1>7 DEF Mirrors, Backed

\* A write that fails keeps both, whatever was to be written.
LEMMA FailureLands ==
  ASSUME Typed, Mirrors, NoOrphans, NEW x \in Slot, NEW c \in Cell, Trims,
         PutFails(x, c), session' = session
  PROVE  Mirrors' /\ NoOrphans'
<1> DEFINE Later(d) == IsWallet(flash'[d.slot]) /\ <<d.slot, d.id>> \in approved'
<1>1. /\ sure' => sure
      /\ flash'[x] \in {flash[x], c} /\ view'[x] \in {view[x], Opaque}
      /\ \A y \in Slot : y # x => flash'[y] = flash[y] /\ view'[y] = view[y]
      /\ sure' => \/ flash' = flash /\ view' = view
                  \/ flash'[x] = Free /\ x \in RSlot
  BY PutsNot
<1>2. SUFFICES ASSUME sure', sure PROVE Mirrors' /\ NoOrphans'
  BY <1>1 DEF Mirrors, NoOrphans
<1>3. \A y \in PSlot : flash'[y] = flash[y] /\ view'[y] = view[y]
  BY <1>1, <1>2, Slots
<1>4. \A d : IsRegistration(d) /\ Backed(d) => Later(d)
  BY <1>2, <1>3, Names DEF Backed, Trims
<1>5. \A r \in RSlot : flash'[r] = flash[r] \/ (flash'[r] = Free /\ r = x)
  BY <1>1, <1>2, Slots
<1>6. \A r \in RSlot : view'[r] = view[r] \/ (view'[r] = Opaque /\ flash'[r] = Free)
  BY <1>1, <1>2, Slots
<1>7. NoOrphans'
  <2>1. SUFFICES ASSUME NEW r \in RSlot, IsRegistration(flash'[r]) PROVE Later(flash'[r])
    BY DEF NoOrphans, Backed
  <2>2. flash'[r] = flash[r]
    BY <1>5, <2>1, Kinds
  <2>3. Backed(flash[r])
    BY <1>2, <2>1, <2>2 DEF NoOrphans, Backed
  <2> QED BY <1>4, <2>1, <2>2, <2>3
<1>8. Mirrors'
  <2>1. SUFFICES ASSUME session # "off" PROVE Mirrors'
    BY DEF Mirrors
  <2>2. \A y \in PSlot : view'[y] = flash'[y]
    BY <1>2, <1>3, <2>1 DEF Mirrors
  <2>3. \A r \in RSlot : view'[r] = flash'[r] \/ flash'[r] = Free
    BY <1>2, <1>5, <1>6, <2>1 DEF Mirrors
  <2>4. ASSUME NEW r \in RSlot, IsRegistration(view'[r]) PROVE Later(view'[r])
    <3>1. view'[r] = view[r]
      BY <1>6, <2>4, Kinds
    <3>2. Backed(view[r])
      BY <1>2, <2>1, <2>4, <3>1 DEF Mirrors
    <3> QED BY <1>4, <2>4, <3>1, <3>2
  <2> QED BY <2>2, <2>3, <2>4 DEF Mirrors, Backed
<1> QED BY <1>7, <1>8

-----------------------------------------------------------------------------
(***************************************************************************)
(* What is left alone stays as it was.                                     *)
(***************************************************************************)
LEMMA DiskStays ==
  ASSUME Mirrors, NoOrphans, UNCHANGED disk, Trims,
         sure' => sure, session' # "off" => session # "off"
  PROVE  Mirrors' /\ NoOrphans'
<1> DEFINE Later(d) == IsWallet(flash[d.slot]) /\ <<d.slot, d.id>> \in approved'
<1>1. flash' = flash /\ view' = view
  BY DEF disk
<1>2. SUFFICES ASSUME sure', sure PROVE Mirrors' /\ NoOrphans'
  BY DEF Mirrors, NoOrphans
<1>3. \A d : IsRegistration(d) /\ Backed(d) => Later(d)
  BY <1>2, Names DEF Backed, Trims
<1>4. NoOrphans'
  BY <1>1, <1>2, <1>3 DEF NoOrphans, Backed
<1>5. Mirrors'
  BY <1>1, <1>2, <1>3 DEF Mirrors, Backed
<1> QED BY <1>4, <1>5

\* If all approvals are kept, none is forgotten.
LEMMA ApprovalsKept == ASSUME approved \subseteq approved' PROVE Trims
BY DEF Trims

\* A passphrase still opens its wallet if that is still there.
LEMMA HeldStays ==
  ASSUME HeldOpens,
         \A x \in PSlot :
           \/ held'[x] = Empty
           \/ held'[x] = held[x] /\ view'[x] \in {view[x], Opaque}
           \/ /\ held'[x] = held[x] /\ IsWallet(view[x])
              /\ IsWallet(view'[x]) /\ view'[x].wallet = view[x].wallet
  PROVE  HeldOpens'
<1>1. SUFFICES ASSUME NEW x \in PSlot, held'[x] # Empty, view'[x] # Opaque
               PROVE  IsWallet(view'[x]) /\ view'[x].wallet[2] = held'[x]
  BY DEF HeldOpens
<1>2. CASE held'[x] = held[x] /\ view'[x] = view[x]
  BY <1>1, <1>2 DEF HeldOpens
<1>3. CASE /\ held'[x] = held[x] /\ IsWallet(view[x])
           /\ IsWallet(view'[x]) /\ view'[x].wallet = view[x].wallet
  BY <1>1, <1>3, Kinds DEF HeldOpens
<1> QED BY <1>1, <1>2, <1>3

\* An open wallet stays approved with the registrations it keeps.
LEMMA ApprovalStays ==
  ASSUME OpenIsApproved, sure' => sure,
         open' # None => /\ open # None /\ open'.slot = open.slot
                         /\ open'.entries \subseteq open.entries
                         /\ approved \subseteq approved'
  PROVE  OpenIsApproved'
BY DEF OpenIsApproved

\* And stays open for a wallet that is there.
LEMMA OpenedStays ==
  ASSUME Typed, Opened, sure' => sure,
         open' # None => open # None /\ open'.slot = open.slot /\ session' = "unlocked",
         session' # "unlocked" => held' = NoneHeld,
         sure' => \A x \in PSlot : IsWallet(flash[x]) => IsWallet(flash'[x])
  PROVE  Opened'
<1>1. open # None => open.slot \in PSlot
  BY DEF Typed, Opens
<1> QED BY <1>1 DEF Opened

LEMMA AnswerStays ==
  ASSUME AnswersHold, sure' => sure, UNCHANGED <<flash, said, before>>
  PROVE  AnswersHold'
BY DEF AnswersHold

\* An answer that claims nothing about a slot.
LEMMA NothingClaimed ==
  ASSUME said'.what \notin {"gone", "refused", "rolled back"}
  PROVE  AnswersHold'
BY DEF AnswersHold

\* A refusal, of a write in one slot.
LEMMA RefusalHolds ==
  ASSUME NEW x, Says("refused", x),
         sure' => \A y \in Slot \ {x} : flash'[y] = before'[y]
  PROVE  AnswersHold'
BY DEF AnswersHold, Says

-----------------------------------------------------------------------------
(***************************************************************************)
(* Power, PIN, and what only reads.                                        *)
(***************************************************************************)
LEMMA Initially == ASSUME Init PROVE IInv
<1>1. Typed
  BY Kinds, Slots DEF Init, Typed, NoneHeld
<1>2. \A x \in Slot : ~IsRegistration(flash[x])
  BY Kinds DEF Init
<1>3. NoOrphans /\ Mirrors
  BY <1>2, Slots DEF Init, NoOrphans, Mirrors
<1>4. Opened /\ OpenIsApproved
  BY DEF Init, Opened, OpenIsApproved
<1>5. AnswersHold
  BY DEF Init, AnswersHold, Nothing
<1>6. HeldOpens
  BY DEF Init, HeldOpens, NoneHeld
<1> QED BY <1>1, <1>3, <1>4, <1>5, <1>6 DEF IInv, Init

LEMMA MountKeeps == ASSUME IInv, Mount PROVE IInv'
<1>1. /\ session = "off" /\ session' = "locked" /\ view' = flash /\ held = NoneHeld
      /\ UNCHANGED <<flash, held, open, pending, job, said, before, approved, sure,
                     saves, hits>>
      /\ open = None /\ job = None
  BY DEF IInv, Mount, ghost, Opened, AtWork
<1>2. Typed'
  BY <1>1 DEF IInv, Typed
<1>3. NoOrphans'
  BY <1>1 DEF IInv, NoOrphans
<1>4. Mirrors'
  BY <1>1 DEF IInv, Mirrors, NoOrphans, Backed
<1>5. Opened' /\ OpenIsApproved'
  BY <1>1 DEF Opened, OpenIsApproved
<1>6. AnswersHold'
  BY <1>1, AnswerStays DEF IInv
<1>7. HeldOpens'
  BY <1>1 DEF HeldOpens, NoneHeld
<1> QED BY <1>1, <1>2, <1>3, <1>4, <1>5, <1>6, <1>7 DEF IInv

\* Steps that leave the disk and what was said alone, with no request under way.
LEMMA QuietKeeps ==
  ASSUME IInv, UNCHANGED <<flash, view, said, before, approved, sure, saves, hits>>,
         job' = None, session # "off", session' \in {"locked", "unlocked"},
         held' \in [PSlot -> Passphrase], open' \in {None} \cup Opens,
         pending' \in {None} \cup Reviews,
         Opened', OpenIsApproved', HeldOpens'
  PROVE  IInv'
<1>1. Typed'
  BY DEF IInv, Typed
<1>2. Mirrors' /\ NoOrphans'
  BY ApprovalsKept, DiskStays DEF IInv, disk
<1>3. AnswersHold'
  BY AnswerStays DEF IInv
<1> QED BY <1>1, <1>2, <1>3 DEF IInv

LEMMA UnsealKeeps == ASSUME IInv, Unseal PROVE IInv'
<1>1. /\ session = "locked" /\ session' = "unlocked" /\ job = None /\ open = None
      /\ UNCHANGED <<flash, view, held, open, pending, job, said, before, approved,
                     sure, saves, hits>>
  BY DEF IInv, Unseal, ghost, disk, AtWork, Opened
<1>2. Opened' /\ OpenIsApproved' /\ HeldOpens'
  BY <1>1 DEF IInv, Opened, OpenIsApproved, HeldOpens
<1> QED BY <1>1, <1>2, QuietKeeps DEF IInv, Typed

LEMMA LockKeeps == ASSUME IInv, Lock PROVE IInv'
<1>1. /\ session = "unlocked" /\ session' = "locked" /\ job = None
      /\ held' = NoneHeld /\ open' = None /\ pending' = None
      /\ UNCHANGED <<flash, view, job, said, before, approved, sure, saves, hits>>
  BY DEF Lock, ghost, disk
<1>2. Opened' /\ OpenIsApproved' /\ HeldOpens'
  BY <1>1 DEF Opened, OpenIsApproved, HeldOpens, NoneHeld
<1>3. held' \in [PSlot -> Passphrase]
  BY <1>1 DEF NoneHeld
<1> QED BY <1>1, <1>2, <1>3, QuietKeeps

LEMMA CloseKeeps == ASSUME IInv, Close PROVE IInv'
<1>1. /\ session = "unlocked" /\ job = None /\ open' = None /\ pending' = None
      /\ UNCHANGED <<flash, view, session, held, job, said, before, approved, sure,
                     saves, hits>>
  BY DEF Close, Ready, ghost, disk
<1>2. Opened' /\ OpenIsApproved' /\ HeldOpens'
  BY <1>1 DEF IInv, Opened, OpenIsApproved, HeldOpens
<1> QED BY <1>1, <1>2, QuietKeeps DEF IInv, Typed

LEMMA ImportKeeps == ASSUME IInv, NEW id \in Multi, Import(id) PROVE IInv'
<1>1. /\ session = "unlocked" /\ job = None /\ open # None
      /\ UNCHANGED <<flash, view, session, held, open, job, said, before, approved,
                     sure, saves, hits>>
  BY DEF Import, Ready, ghost, disk
<1> DEFINE same == {e \in open.entries : e[2] = id}
           slots == {e[1] : e \in same}
<1>2. pending' = [id |-> id, duplicate |-> IF same = {} THEN None ELSE Min(slots)]
  BY DEF Import
<1>3. same # {} => Min(slots) \in RSlot
  <2>1. open.entries \in SUBSET (RSlot \X Multi)
    BY <1>1 DEF IInv, Typed, Opens
  <2>2. slots \in SUBSET RSlot /\ (same # {} => slots # {})
    BY <2>1
  <2>3. slots \in SUBSET Nat
    BY <2>2
  <2> HIDE DEF slots, same
  <2> QED BY <2>2, <2>3, LowestIsOne
<1>4. pending' \in Reviews
  <2> HIDE DEF slots, same
  <2> QED BY <1>2, <1>3 DEF Reviews
<1>5. Opened' /\ OpenIsApproved' /\ HeldOpens'
  BY <1>1 DEF IInv, Opened, OpenIsApproved, HeldOpens
<1> QED BY <1>1, <1>4, <1>5, QuietKeeps DEF IInv, Typed

\* A wallet is opened with registrations that were approved for it.
LEMMA InstallOpens ==
  ASSUME IInv, session = "unlocked", NEW x \in PSlot, NEW w \in Wallet, Install(x, w),
         IsWallet(view[x]), session' = "unlocked",
         UNCHANGED <<flash, view, approved, sure>>
  PROVE  open' \in Opens /\ Opened' /\ OpenIsApproved'
<1>1. /\ open' = [slot |-> x, wallet |-> w, entries |-> Loaded(x, w)]
  BY DEF Install
<1>2. \A r \in RegistrationsOf(x) :
        r \in RSlot /\ IsRegistration(view[r]) /\ view[r].slot = x /\ view[r].id \in Multi
  BY Names DEF RegistrationsOf
<1>3. \A e \in Loaded(x, w) : \E r \in RegistrationsOf(x) : e = <<r, view[r].id>>
  BY Zenon DEF Loaded
<1>4. Loaded(x, w) \subseteq RSlot \X Multi
  BY <1>2, <1>3
<1>5. open' \in Opens
  BY <1>1, <1>4 DEF Opens
<1>6. sure => IsWallet(flash[x])
  BY DEF IInv, Mirrors
<1>7. Opened'
  BY <1>1, <1>6 DEF Opened
<1>8. sure => \A e \in Loaded(x, w) : <<x, e[2]>> \in approved
  <2>1. SUFFICES ASSUME sure, NEW e \in Loaded(x, w)
                 PROVE  <<x, e[2]>> \in approved
    OBVIOUS
  <2>2. PICK r \in RegistrationsOf(x) : e = <<r, view[r].id>>
    BY <1>3
  <2>3. Backed(view[r])
    BY <1>2, <2>1 DEF IInv, Mirrors
  <2> QED BY <1>2, <2>2, <2>3 DEF Backed
<1>9. OpenIsApproved'
  BY <1>1, <1>8 DEF OpenIsApproved
<1> QED BY <1>5, <1>7, <1>9

\* A passphrase that is held from now on opens the wallet.
LEMMA HoldOpens ==
  ASSUME IInv, NEW x \in PSlot, NEW p \in Passphrase, IsWallet(view[x]),
         p = Empty \/ p = view[x].wallet[2],
         held' = [held EXCEPT ![x] = p], view' = view
  PROVE  HeldOpens' /\ held' \in [PSlot -> Passphrase]
<1>1. held \in [PSlot -> Passphrase]
  BY DEF IInv, Typed
<1>2. held' \in [PSlot -> Passphrase] /\ held'[x] = p
      /\ \A y \in PSlot : y # x => held'[y] = held[y]
  BY <1>1
<1>3. \A y \in PSlot : held'[y] # Empty /\ view[y] # Opaque =>
                         IsWallet(view[y]) /\ view[y].wallet[2] = held'[y]
  BY <1>2 DEF IInv, HeldOpens
<1> QED BY <1>2, <1>3 DEF HeldOpens

LEMMA OpenKeeps == ASSUME IInv, NEW x \in PSlot, OpenWallet(x) PROVE IInv'
<1>1. /\ session = "unlocked" /\ job = None /\ open = None /\ IsWallet(view[x])
      /\ UNCHANGED <<flash, view, session, pending, job, said, before, approved, sure,
                     saves, hits>>
  BY DEF OpenWallet, Ready, ghost, disk
<1>2. view[x].wallet \in Wallet /\ Attempt(x) \in Passphrase
  BY <1>1, WalletFields DEF IInv, Typed, Attempt
<1>3. CASE Attempt(x) = view[x].wallet[2]
  <2>1. Install(x, view[x].wallet) /\ held' = [held EXCEPT ![x] = Attempt(x)]
    BY <1>3 DEF OpenWallet
  <2>2. open' \in Opens /\ Opened' /\ OpenIsApproved'
    BY <1>1, <1>2, <2>1, InstallOpens
  <2>3. HeldOpens' /\ held' \in [PSlot -> Passphrase]
    BY <1>1, <1>2, <1>3, <2>1, HoldOpens
  <2> QED BY <1>1, <2>2, <2>3, QuietKeeps DEF IInv, Typed
<1>4. CASE Attempt(x) # view[x].wallet[2]
  <2>1. open' = None /\ (held' = held \/ held' = [held EXCEPT ![x] = Empty])
    BY <1>1, <1>4 DEF OpenWallet
  <2>2. Opened' /\ OpenIsApproved'
    BY <1>1, <2>1 DEF Opened, OpenIsApproved
  <2>3. HeldOpens' /\ held' \in [PSlot -> Passphrase]
    <3>1. CASE held' = held
      BY <1>1, <3>1 DEF IInv, Typed, HeldOpens
    <3>2. CASE held' = [held EXCEPT ![x] = Empty]
      BY <1>1, <3>2, HoldOpens
    <3> QED BY <2>1, <3>1, <3>2
  <2> QED BY <1>1, <2>1, <2>2, <2>3, QuietKeeps DEF IInv, Typed
<1> QED BY <1>3, <1>4

LEMMA UnlockKeeps ==
  ASSUME IInv, NEW x \in PSlot, NEW p \in Passphrase, UnlockWallet(x, p) PROVE IInv'
<1>1. /\ session = "unlocked" /\ job = None /\ open = None /\ IsWallet(view[x])
      /\ p = view[x].wallet[2]
      /\ Install(x, view[x].wallet) /\ held' = [held EXCEPT ![x] = p]
      /\ UNCHANGED <<flash, view, session, pending, job, said, before, approved, sure,
                     saves, hits>>
  BY DEF UnlockWallet, Ready, ghost, disk
<1>2. view[x].wallet \in Wallet
  BY <1>1, WalletFields
<1>3. open' \in Opens /\ Opened' /\ OpenIsApproved'
  BY <1>1, <1>2, InstallOpens
<1>4. HeldOpens' /\ held' \in [PSlot -> Passphrase]
  BY <1>1, HoldOpens
<1> QED BY <1>1, <1>3, <1>4, QuietKeeps DEF IInv, Typed

-----------------------------------------------------------------------------
(***************************************************************************)
(* Requests that write.  What they write is sound.                         *)
(***************************************************************************)
LEMMA JobTyped ==
  ASSUME Typed, job # None
  PROVE  /\ job.do = "seal" => job \in Seals
         /\ job.do = "keep" => job \in Keeps
         /\ job.do = "register" => job \in Registers
         /\ job.do \in {"erase", "install", "restore"} => job \in Replaces
         /\ job.do = "delete" => job \in Deletes
         /\ job.do \in {"seal", "keep", "register", "erase", "install", "restore", "delete"}
BY DEF Typed, Seals, Keeps, Registers, Replaces, Deletes

\* A new wallet goes where there was nothing.
LEMMA SealIsSound ==
  ASSUME IInv, job # None, job.do = "seal"
  PROVE  /\ job.slot \in PSlot /\ job.wallet \in Wallet /\ view[job.slot] = Free
         /\ Sound(job.slot, Draft(job.wallet))
         /\ approved' = {a \in approved : a[1] # job.slot} => Trims
<1>1. job.slot \in PSlot /\ job.wallet \in Wallet /\ view[job.slot] = Free
  BY JobTyped DEF IInv, AtWork, Seals
<1>2. Sound(job.slot, Draft(job.wallet))
  BY <1>1, DraftIsWallet, Kinds, Slots DEF Sound
<1>3. sure => ~IsWallet(flash[job.slot])
  BY <1>1, Kinds DEF IInv, Mirrors, AtWork
<1>4. ASSUME approved' = {a \in approved : a[1] # job.slot} PROVE Trims
  BY <1>3, <1>4 DEF Trims
<1> QED BY <1>1, <1>2, <1>4

\* Storing or forgetting the passphrase leaves the slot's record that of the wallet.
LEMMA KeepIsSound ==
  ASSUME NEW x \in PSlot, IsWallet(view[x]), NEW c, c \in {Keeping(x), Forgotten(x)}
  PROVE  Sound(x, c) /\ IsWallet(c) /\ c.wallet = view[x].wallet
<1>1. IsWallet(Keeping(x)) /\ Keeping(x).wallet = view[x].wallet
  BY WalletFields DEF Keeping
<1>2. IsWallet(Forgotten(x)) /\ Forgotten(x).wallet = view[x].wallet
  <2>1. PICK p \in {"none", "applied"} : Forgotten(x) = [view[x] EXCEPT !.pass = p]
    BY DEF Forgotten
  <2>2. \A q \in {"none", "applied"} : /\ IsWallet([view[x] EXCEPT !.pass = q])
                                      /\ [view[x] EXCEPT !.pass = q].wallet = view[x].wallet
    BY WalletFields
  <2> QED BY <2>1, <2>2
<1> QED BY <1>1, <1>2, Kinds, Slots DEF Sound

\* A registration is written for the wallet that is open, as it was approved.
LEMMA RegisterIsSound ==
  ASSUME IInv, job # None, job.do \in {"register", "install"}
  PROVE  /\ Lowest(Frees(RSlot)) \in RSlot
         /\ Registration \in RegistrationRec /\ Sound(Lowest(Frees(RSlot)), Registration)
<1>1. open # None /\ pending # None /\ open \in Opens /\ pending \in Reviews
      /\ <<open.slot, pending.id>> \in approved
  BY DEF IInv, AtWork, Reviewed, Typed
<1>2. Registration \in RegistrationRec
  BY <1>1 DEF Registration, RegistrationRec, Opens, Reviews
<1>3. sure => Backed(Registration)
  BY <1>1 DEF IInv, Opened, Backed, Registration
<1>4. Lowest(Frees(RSlot)) \in RSlot
  BY FreeSlot DEF IInv, AtWork
<1> QED BY <1>2, <1>3, <1>4, Kinds, Slots DEF Sound, IsRegistration

LEMMA ReplaceIsSound ==
  ASSUME IInv, job # None, job.do \in {"erase", "restore"}
  PROVE  /\ job.slot \in RSlot /\ job.saved \in RegistrationRec
         /\ Sound(job.slot, Free) /\ Sound(job.slot, job.saved)
<1>1. job.slot \in RSlot /\ job.saved \in RegistrationRec
  BY JobTyped DEF IInv, Replaces
<1>2. sure => Backed(job.saved)
  BY DEF IInv, AtWork
<1> QED BY <1>1, <1>2, Kinds, Slots DEF Sound, IsRegistration

\* The record of a wallet is erased when no registration of it is left.
LEMMA DeleteIsSound ==
  ASSUME IInv, job # None, job.do = "delete"
  PROVE  /\ job \in Deletes /\ NextErased \in Slot /\ Sound(NextErased, Free)
         /\ NextErased \in job.left => NextErased \in RSlot
         /\ NextErased \notin job.left =>
              /\ NextErased = job.slot
              /\ sure => \A r \in RSlot :
                   IsRegistration(flash[r]) => flash[r].slot # job.slot
<1>1. job \in Deletes /\ job.left \in SUBSET RSlot /\ job.slot \in PSlot
  BY JobTyped DEF IInv, Deletes
<1>2. /\ job.left # {} => NextErased \in job.left
      /\ job.left = {} => NextErased = job.slot
      /\ NextErased \in Slot
  BY <1>1, NextOne
<1>3. ASSUME sure, job.left = {}, NEW r \in RSlot
      PROVE  /\ IsRegistration(flash[r]) => flash[r].slot # job.slot
             /\ IsRegistration(view[r]) => view[r].slot # job.slot
  <2>1. IsRegistration(view[r]) => view[r].slot # job.slot
    BY <1>3 DEF IInv, AtWork
  <2>2. flash[r] = view[r] \/ flash[r] = Free
    BY <1>3 DEF IInv, Mirrors, AtWork
  <2> QED BY <2>1, <2>2, Kinds
<1>4. Sound(NextErased, Free)
  BY <1>1, <1>2, <1>3, Kinds, Slots DEF Sound
<1> QED BY <1>1, <1>2, <1>3, <1>4

-----------------------------------------------------------------------------
(***************************************************************************)
(* Requests coming in.                                                     *)
(***************************************************************************)
LEMMA StartKeeps ==
  ASSUME IInv, session = "unlocked", Typed', AtWork',
         UNCHANGED <<flash, view, session, held, sure>>, said' = Nothing,
         open' \in {open, None}, approved \subseteq approved'
  PROVE  IInv'
<1>1. Mirrors' /\ NoOrphans'
  BY ApprovalsKept, DiskStays DEF IInv, disk
<1>2. Opened'
  BY DEF IInv, Opened
<1>3. OpenIsApproved'
  BY DEF IInv, OpenIsApproved
<1>4. AnswersHold'
  BY NothingClaimed DEF Nothing
<1>5. HeldOpens'
  BY DEF IInv, HeldOpens
<1> QED BY <1>1, <1>2, <1>3, <1>4, <1>5 DEF IInv

LEMMA PersistKeeps ==
  ASSUME IInv, NEW w \in Drafts, NEW store \in BOOLEAN, Persist(w, store) PROVE IInv'
<1> DEFINE x == Lowest(Frees(PSlot))
<1>1. /\ session = "unlocked" /\ before' = flash /\ open = None
      /\ job' = [do |-> "seal", slot |-> x, wallet |-> w, store |-> store]
      /\ UNCHANGED <<flash, view, session, held, open, pending, approved, sure, hits>>
      /\ said' = Nothing /\ saves' = saves + 1
  BY DEF Persist, Asked, Ready, disk
<1>2. x \in PSlot /\ view[x] = Free
  BY FreeSlot DEF Persist
<1> HIDE DEF x
<1>3. job' \in Seals
  BY <1>1, <1>2 DEF Seals
<1>4. Typed'
  BY <1>1, <1>3 DEF IInv, Typed
<1>5. AtWork'
  BY <1>1, <1>2 DEF AtWork, Nothing
<1> QED BY <1>1, <1>4, <1>5, StartKeeps

LEMMA ApproveKeeps == ASSUME IInv, Approve PROVE IInv'
<1>1. /\ session = "unlocked" /\ job = None /\ before' = flash
      /\ open # None /\ pending # None /\ open \in Opens /\ pending \in Reviews
      /\ approved' = approved \cup {<<open.slot, pending.id>>}
      /\ UNCHANGED <<flash, view, session, held, open, pending, sure, saves, hits>>
      /\ said' = Nothing
  BY DEF IInv, Typed, Approve, Asked, Ready, disk
<1>2. Reviewed' /\ session' = "unlocked" /\ said'.what = "nothing"
  BY <1>1 DEF Reviewed, Nothing
<1>3. CASE pending.duplicate = None
  <2>1. Frees(RSlot) # {} /\ job' = [do |-> "register"]
    BY <1>3 DEF Approve
  <2>2. Typed'
    BY <1>1, <2>1 DEF IInv, Typed, Registers
  <2>3. AtWork'
    BY <1>1, <1>2, <2>1 DEF AtWork, Frees
  <2> QED BY <1>1, <2>2, <2>3, StartKeeps
<1>4. CASE pending.duplicate # None
  <2> DEFINE d == pending.duplicate
  <2>1. IsRegistration(view[d]) /\ d \in RSlot
        /\ job' = [do |-> "erase", slot |-> d, saved |-> view[d]]
    BY <1>1, <1>4 DEF Approve, Reviews
  <2> HIDE DEF d
  <2>2. job' \in Replaces
    BY <2>1 DEF Replaces, IsRegistration
  <2>3. Typed'
    BY <1>1, <2>2 DEF IInv, Typed
  <2>4. sure => /\ IsWallet(flash[view[d].slot])
                /\ <<view[d].slot, view[d].id>> \in approved'
    BY <1>1, <2>1 DEF IInv, Mirrors, Backed
  <2>5. AtWork'
    <3>1. job'.do = "erase" /\ job'.slot = d /\ job'.saved = view[d]
      BY <2>1
    <3>2. Elsewhere(job.slot)'
      BY <1>1 DEF Elsewhere
    <3>3. (sure => Backed(job.saved))'
      BY <1>1, <2>4, <3>1 DEF Backed
    <3> QED BY <1>1, <1>2, <3>1, <3>2, <3>3 DEF AtWork
  <2> QED BY <1>1, <2>3, <2>5, StartKeeps
<1> QED BY <1>3, <1>4

LEMMA DeleteKeeps == ASSUME IInv, Delete PROVE IInv'
<1>1. /\ session = "unlocked" /\ before' = flash /\ open # None /\ open \in Opens
      /\ job' = [do |-> "delete", slot |-> open.slot,
                 left |-> RegistrationsOf(open.slot), done |-> 0]
      /\ open' = None /\ pending' = None /\ said' = Nothing
      /\ UNCHANGED <<flash, view, session, held, approved, sure, saves, hits>>
  BY DEF IInv, Typed, Delete, Asked, Ready, disk
<1>2. RegistrationsOf(open.slot) =
        {r \in RSlot : IsRegistration(view[r]) /\ view[r].slot = open.slot}
  BY DEF RegistrationsOf
<1>3. job' \in Deletes
  BY <1>1, <1>2 DEF Deletes, Opens
<1>4. Typed'
  BY <1>1, <1>3 DEF IInv, Typed
<1>5. AtWork'
  BY <1>1, <1>2 DEF AtWork, Nothing
<1> QED BY <1>1, <1>4, <1>5, StartKeeps

-----------------------------------------------------------------------------
(***************************************************************************)
(* Writes that land.                                                       *)
(***************************************************************************)
LEMMA SealKeeps == ASSUME IInv, Seal PROVE IInv'
<1> DEFINE x == job.slot
           w == job.wallet
           list == Rows([view EXCEPT ![x] = Draft(w)])
           y == SlotOf(list, w)
<1>1. job # None /\ job.do = "seal"
  BY DEF Seal
<1>2. /\ session = "unlocked" /\ open = None
      /\ x \in PSlot /\ x \in Slot /\ w \in Wallet /\ view[x] = Free
      /\ Sound(x, Draft(w)) /\ IsWallet(Draft(w)) /\ Draft(w) \in Cell
      /\ Draft(w).wallet = w /\ w[2] \in Passphrase
  BY <1>1, SealIsSound, DraftIsWallet, Kinds, Slots DEF IInv, AtWork
<1>3. /\ Put(x, Draft(w)) /\ said' = [what |-> "saved", slot |-> x]
      /\ approved' = {a \in approved : a[1] # x}
      /\ UNCHANGED <<session, open, pending, before, sure, saves, hits>>
      /\ held' = IF w[2] = Empty THEN held ELSE [held EXCEPT ![y] = w[2]]
      /\ job' = IF job.store /\ w[2] # Empty THEN [do |-> "keep", slot |-> y] ELSE None
  BY DEF Seal, Says
<1>4. Trims
  BY <1>1, <1>3, SealIsSound
<1>5. /\ view' = [view EXCEPT ![x] = Draft(w)]
      /\ flash' \in [Slot -> Cell] /\ view' \in [Slot -> Cell]
      /\ view'[x] = Draft(w) /\ flash'[x] = Draft(w)
      /\ \A z \in Slot : z # x => flash'[z] = flash[z] /\ view'[z] = view[z]
  <2>1. view' = [view EXCEPT ![x] = Draft(w)]
    BY <1>3 DEF Put
  <2> QED BY <1>2, <1>3, <2>1, Puts DEF IInv
<1>6. y \in PSlot /\ IsWallet(view'[y]) /\ view'[y].wallet = w
  <2>1. IsWallet(view'[x]) /\ view'[x].wallet = w
    BY <1>2, <1>5
  <2>2. y = SlotOf(Rows(view'), w)
    BY <1>5
  <2> HIDE DEF y
  <2> QED BY <1>2, <2>1, <2>2, ListedIsThere
<1> HIDE DEF list, y
<1>7. held' \in [PSlot -> Passphrase]
  BY <1>2, <1>3, <1>6 DEF IInv, Typed
<1>8. Typed'
  <2>1. job' \in {None} \cup Keeps
    BY <1>3, <1>6 DEF Keeps
  <2> QED BY <1>3, <1>5, <1>7, <2>1 DEF IInv, Typed
<1>9. Mirrors' /\ NoOrphans'
  BY <1>2, <1>3, <1>4, SoundLands DEF IInv
<1>10. job' # None => AtWork'
  <2>1. job' # None => job' = [do |-> "keep", slot |-> y]
    BY <1>3
  <2> QED BY <1>2, <1>3, <2>1 DEF AtWork
<1>11. Opened' /\ OpenIsApproved'
  BY <1>2, <1>3 DEF Opened, OpenIsApproved
<1>12. AnswersHold'
  BY <1>3, NothingClaimed
<1>13. HeldOpens'
  <2>1. held[x] = Empty
    BY <1>2, Kinds DEF IInv, HeldOpens
  <2>2. ASSUME NEW z \in PSlot, held'[z] # Empty, view'[z] # Opaque
        PROVE  IsWallet(view'[z]) /\ view'[z].wallet[2] = held'[z]
    <3>1. CASE held'[z] = held[z]
      <4>1. z # x
        BY <2>1, <2>2, <3>1
      <4>2. view'[z] = view[z]
        BY <1>5, <4>1, Slots
      <4> QED BY <2>2, <3>1, <4>2 DEF IInv, HeldOpens
    <3>2. CASE held'[z] # held[z]
      <4>1. z = y /\ held'[z] = w[2]
        BY <1>3, <1>6, <3>2 DEF IInv, Typed
      <4> QED BY <1>6, <4>1
    <3> QED BY <3>1, <3>2
  <2> QED BY <2>2 DEF HeldOpens
<1> QED BY <1>8, <1>9, <1>10, <1>11, <1>12, <1>13 DEF IInv

LEMMA KeepKeeps == ASSUME IInv, Keep PROVE IInv'
<1>1. /\ job # None /\ job.do = "keep" /\ job' = None
      /\ UNCHANGED <<session, held, open, pending, said, before, approved, sure,
                     saves, hits>>
  BY DEF Keep, ghost
<1>2. session = "unlocked" /\ open = None /\ said.what \in {"nothing", "saved"}
      /\ job.slot \in PSlot /\ job.slot \in Slot
  BY <1>1, JobTyped, Slots DEF IInv, AtWork, Keeps
<1>3. Opened' /\ OpenIsApproved' /\ AnswersHold'
  BY <1>1, <1>2, NothingClaimed DEF Opened, OpenIsApproved
<1>4. CASE ~IsWallet(view[job.slot])
  <2>1. flash' = flash /\ view' = view
    BY <1>4 DEF Keep, disk
  <2>2. HeldOpens' /\ Typed'
    BY <1>1, <2>1 DEF IInv, HeldOpens, Typed
  <2> QED BY <1>1, <1>3, <2>1, <2>2, ApprovalsKept, DiskStays DEF IInv, disk
<1>5. CASE IsWallet(view[job.slot])
  <2> DEFINE x == job.slot
  <2>1. Put(x, Keeping(x))
    BY <1>5 DEF Keep
  <2>2. Sound(x, Keeping(x)) /\ IsWallet(Keeping(x)) /\ Keeping(x).wallet = view[x].wallet
    BY <1>2, <1>5, KeepIsSound
  <2>3. /\ flash' \in [Slot -> Cell] /\ view' \in [Slot -> Cell] /\ view'[x] = Keeping(x)
        /\ \A z \in Slot : z # x => view'[z] = view[z]
    BY <1>2, <2>1, <2>2, Puts DEF IInv, Sound
  <2>4. Typed'
    BY <1>1, <2>3 DEF IInv, Typed
  <2>5. Mirrors' /\ NoOrphans'
    BY <1>1, <2>1, <2>2, ApprovalsKept, SoundLands DEF IInv
  <2>6. HeldOpens'
    BY <1>1, <1>5, <2>2, <2>3, HeldStays, Slots DEF IInv
  <2> QED BY <1>1, <1>3, <2>4, <2>5, <2>6 DEF IInv
<1> QED BY <1>4, <1>5

\* Nothing is held, or opened, by a write in a registry slot.
LEMMA RegistryWrite ==
  ASSUME IInv, NEW r \in RSlot, NEW c \in Cell, Sound(r, c), Put(r, c),
         session = "unlocked", UNCHANGED <<session, held, sure>>,
         open' # None => open # None /\ open'.slot = open.slot,
         approved \subseteq approved'
  PROVE  /\ flash' \in [Slot -> Cell] /\ view' \in [Slot -> Cell]
         /\ flash'[r] = c /\ view'[r] = c
         /\ \A y \in Slot : y # r => flash'[y] = flash[y] /\ view'[y] = view[y]
         /\ Mirrors' /\ NoOrphans' /\ HeldOpens' /\ Opened'
<1>1. /\ flash' \in [Slot -> Cell] /\ view' \in [Slot -> Cell]
      /\ flash'[r] = c /\ view'[r] = c
      /\ \A y \in Slot : y # r => flash'[y] = flash[y] /\ view'[y] = view[y]
  BY Puts, Slots DEF IInv
<1>2. Mirrors' /\ NoOrphans'
  BY ApprovalsKept, SoundLands DEF IInv
<1>3. \A x \in PSlot : flash'[x] = flash[x] /\ view'[x] = view[x]
  BY <1>1, Slots
<1>4. HeldOpens'
  BY <1>3, HeldStays DEF IInv
<1>5. Opened'
  BY <1>3, OpenedStays DEF IInv
<1> QED BY <1>1, <1>2, <1>4, <1>5

LEMMA RegisterKeeps == ASSUME IInv, Register PROVE IInv'
<1> DEFINE r == Lowest(Frees(RSlot))
<1>1. job # None /\ job.do \in {"register", "install"}
  BY DEF Register
<1>2. r \in RSlot /\ Registration \in RegistrationRec /\ Registration \in Cell
      /\ Sound(r, Registration)
  BY <1>1, RegisterIsSound DEF Cell
<1>3. /\ session = "unlocked" /\ open \in Opens /\ open # None /\ pending \in Reviews
      /\ <<open.slot, pending.id>> \in approved
  BY <1>1 DEF IInv, AtWork, Reviewed, Typed
<1>4. /\ Put(r, Registration)
      /\ open' = [open EXCEPT !.entries = @ \cup {<<r, pending.id>>}]
      /\ job' = None /\ pending' = None
      /\ said'.what \in {"replaced", "registered"}
      /\ UNCHANGED <<session, held, before, approved, sure, saves, hits>>
  BY DEF Register, Says
<1> HIDE DEF r
<1>5. /\ open' \in Opens /\ open'.slot = open.slot
      /\ open'.entries = open.entries \cup {<<r, pending.id>>}
  BY <1>2, <1>3, <1>4 DEF Opens, Reviews
<1>6. /\ flash' \in [Slot -> Cell] /\ view' \in [Slot -> Cell]
      /\ Mirrors' /\ NoOrphans' /\ HeldOpens' /\ Opened'
  BY <1>2, <1>3, <1>4, <1>5, RegistryWrite
<1>7. Typed'
  BY <1>4, <1>5, <1>6 DEF IInv, Typed
<1>8. OpenIsApproved'
  BY <1>3, <1>4, <1>5 DEF IInv, OpenIsApproved
<1>9. AnswersHold'
  BY <1>4, NothingClaimed
<1> QED BY <1>4, <1>6, <1>7, <1>8, <1>9 DEF IInv

\* The open wallet without one of its entries.
LEMMA WithoutTyped ==
  ASSUME Typed, open # None, NEW r
  PROVE  /\ WithoutEntry(r) \in Opens /\ WithoutEntry(r).slot = open.slot
         /\ WithoutEntry(r).entries \subseteq open.entries
BY DEF Typed, Opens, WithoutEntry

LEMMA EraseKeeps == ASSUME IInv, Erase PROVE IInv'
<1> DEFINE r == job.slot
<1>1. /\ job # None /\ job.do = "erase" /\ Put(r, Free) /\ open' = WithoutEntry(r)
      /\ job' = [job EXCEPT !.do = "install"]
      /\ UNCHANGED <<session, held, pending, said, before, approved, sure, saves, hits>>
  BY DEF Erase, ghost
<1>2. job \in Replaces /\ r \in RSlot /\ Sound(r, Free) /\ Free \in Cell
  BY <1>1, JobTyped, ReplaceIsSound, Kinds DEF IInv
<1>3. /\ AtWork /\ session = "unlocked" /\ said.what \in {"nothing", "saved"} /\ Reviewed
      /\ open # None /\ flash = before /\ (sure => Backed(job.saved))
  BY <1>1 DEF IInv, AtWork, Reviewed
<1>4. /\ open' \in Opens /\ open'.slot = open.slot /\ open'.entries \subseteq open.entries
  BY <1>1, <1>3, WithoutTyped DEF IInv
<1>5. /\ job' \in Replaces /\ job'.do = "install" /\ job'.slot = r
      /\ job'.saved = job.saved /\ job.saved \in RegistrationRec
  BY <1>1, <1>2 DEF Replaces
<1>6. /\ flash' \in [Slot -> Cell] /\ view' \in [Slot -> Cell]
      /\ flash'[r] = Free /\ view'[r] = Free
      /\ \A y \in Slot : y # r => flash'[y] = flash[y] /\ view'[y] = view[y]
      /\ Mirrors' /\ NoOrphans' /\ HeldOpens' /\ Opened'
  BY <1>1, <1>2, <1>3, <1>4, RegistryWrite
<1>7. Typed'
  BY <1>1, <1>4, <1>5, <1>6 DEF IInv, Typed
<1>8. OpenIsApproved'
  BY <1>1, <1>3, <1>4, ApprovalStays DEF IInv
<1>9. AnswersHold'
  BY <1>1, <1>3, NothingClaimed
<1>10. AtWork'
  <2>1. Reviewed'
    <3>1. open' # None
      BY <1>4 DEF Opens
    <3> QED BY <1>1, <1>3, <1>4, <3>1 DEF Reviewed
  <2>2. Elsewhere(job.slot)'
    BY <1>1, <1>3, <1>5, <1>6 DEF Elsewhere
  <2>3. (sure => Backed(job.saved))'
    <3>1. job.saved.slot \in PSlot
      BY <1>5, Names DEF IsRegistration
    <3>2. flash'[job.saved.slot] = flash[job.saved.slot]
      BY <1>2, <1>6, <3>1, Slots
    <3> QED BY <1>1, <1>3, <1>5, <3>2 DEF Backed
  <2>4. Frees(RSlot)' # {}
    BY <1>2, <1>6 DEF Frees
  <2> QED BY <1>1, <1>3, <1>5, <2>1, <2>2, <2>3, <2>4 DEF AtWork
<1> QED BY <1>6, <1>7, <1>8, <1>9, <1>10 DEF IInv

LEMMA RestoreKeeps == ASSUME IInv, Restore PROVE IInv'
<1> DEFINE r == job.slot
<1>1. /\ job # None /\ job.do = "restore" /\ Put(r, job.saved)
      /\ job' = None /\ pending' = None /\ said' = [what |-> "rolled back", slot |-> r]
      /\ UNCHANGED <<session, held, open, before, approved, sure, saves, hits>>
  BY DEF Restore, Says
<1>2. r \in RSlot /\ job.saved \in RegistrationRec /\ Sound(r, job.saved)
      /\ job.saved \in Cell
  BY <1>1, ReplaceIsSound DEF Cell
<1>3. session = "unlocked" /\ Elsewhere(r)
  BY <1>1 DEF IInv, AtWork
<1>4. /\ flash' \in [Slot -> Cell] /\ view' \in [Slot -> Cell]
      /\ flash'[r] = job.saved
      /\ \A y \in Slot : y # r => flash'[y] = flash[y] /\ view'[y] = view[y]
      /\ Mirrors' /\ NoOrphans' /\ HeldOpens' /\ Opened'
  BY <1>1, <1>2, <1>3, RegistryWrite
<1>5. Typed'
  BY <1>1, <1>4 DEF IInv, Typed
<1>6. OpenIsApproved'
  BY <1>1, ApprovalStays DEF IInv
<1>7. AnswersHold'
  <2>1. said'.what = "rolled back" /\ said'.slot = r
    BY <1>1
  <2>2. IsRegistration(flash'[r])
    BY <1>2, <1>4 DEF IsRegistration
  <2>3. sure' => \A y \in Slot \ {r} : flash'[y] = before'[y]
    BY <1>1, <1>3, <1>4 DEF Elsewhere
  <2> QED BY <2>1, <2>2, <2>3 DEF AnswersHold
<1> QED BY <1>1, <1>4, <1>5, <1>6, <1>7 DEF IInv

LEMMA DeleteNextKeeps == ASSUME IInv, DeleteNext PROVE IInv'
<1> DEFINE x == NextErased
<1>1. /\ job # None /\ job.do = "delete" /\ Put(x, Free)
      /\ UNCHANGED <<session, open, pending, before, approved, sure, saves, hits>>
  BY DEF DeleteNext
<1>2. /\ job \in Deletes /\ x \in Slot /\ Sound(x, Free) /\ Free \in Cell
      /\ x \in job.left => x \in RSlot
      /\ x \notin job.left =>
           /\ x = job.slot
           /\ sure => \A r \in RSlot : IsRegistration(flash[r]) => flash[r].slot # job.slot
  BY <1>1, DeleteIsSound, Kinds
<1>3. session = "unlocked" /\ open = None /\ said.what \in {"nothing", "saved"}
      /\ job.slot \in PSlot
  BY <1>1, <1>2 DEF IInv, AtWork, Deletes
<1>4. x \in job.left =>
        /\ job' = [job EXCEPT !.left = @ \ {x}, !.done = @ + 1] /\ UNCHANGED <<held, said>>
  BY DEF DeleteNext
<1>5. x \notin job.left =>
        /\ job' = None /\ held' = [held EXCEPT ![job.slot] = Empty]
        /\ said' = [what |-> "gone", slot |-> job.slot]
  BY DEF DeleteNext, Answered, Says
<1> HIDE DEF x
<1>6. Opened' /\ OpenIsApproved'
  BY <1>1, <1>3 DEF Opened, OpenIsApproved
<1>7. /\ flash' \in [Slot -> Cell] /\ view' \in [Slot -> Cell]
      /\ flash'[x] = Free /\ view'[x] = Free
      /\ \A y \in Slot : y # x => flash'[y] = flash[y] /\ view'[y] = view[y]
  BY <1>1, <1>2, Puts DEF IInv
<1>8. Mirrors' /\ NoOrphans'
  BY <1>1, <1>2, ApprovalsKept, SoundLands DEF IInv
<1>9. CASE x \in job.left
  <2>1. /\ job' \in Deletes /\ job'.do = "delete" /\ job'.slot = job.slot
        /\ job'.left = job.left \ {x} /\ job'.done # 0
    <3>1. job.left \ {x} \in SUBSET RSlot /\ job.done + 1 \in Nat /\ job.done + 1 # 0
      BY <1>2 DEF Deletes
    <3>2. job' = [do |-> "delete", slot |-> job.slot, left |-> job.left \ {x},
                  done |-> job.done + 1]
      BY <1>2, <1>4, <1>9 DEF Deletes
    <3> QED BY <1>3, <3>1, <3>2 DEF Deletes
  <2>2. Typed'
    BY <1>1, <1>4, <1>7, <1>9, <2>1 DEF IInv, Typed
  <2>3. HeldOpens'
    BY <1>2, <1>4, <1>7, <1>9, HeldStays, Slots DEF IInv
  <2>4. AnswersHold'
    BY <1>3, <1>4, <1>9, NothingClaimed
  <2>5. AtWork'
    <3>1. \A r \in RSlot : IsRegistration(view'[r]) /\ view'[r].slot = job.slot =>
                             r \in job.left \ {x}
      BY <1>1, <1>7, Kinds, Slots DEF IInv, AtWork
    <3> QED BY <1>1, <1>3, <1>4, <1>9, <2>1, <3>1 DEF AtWork
  <2> QED BY <1>6, <1>8, <2>2, <2>3, <2>4, <2>5 DEF IInv
<1>10. CASE x \notin job.left
  <2>1. x = job.slot /\ x \in PSlot
    BY <1>2, <1>3, <1>10
  <2>2. held' \in [PSlot -> Passphrase] /\ held'[x] = Empty
        /\ \A y \in PSlot : y # x => held'[y] = held[y]
    BY <1>5, <1>10, <2>1 DEF IInv, Typed
  <2>3. Typed'
    BY <1>1, <1>5, <1>7, <1>10, <2>2 DEF IInv, Typed
  <2>4. HeldOpens'
    BY <1>7, <2>2, HeldStays, Slots DEF IInv
  <2>5. AnswersHold'
    <3>1. said'.what = "gone" /\ said'.slot = x
      BY <1>5, <1>10, <2>1
    <3>2. sure' => \A r \in RSlot : IsRegistration(flash'[r]) => flash'[r].slot # x
      BY <1>1, <1>2, <1>7, <1>10, <2>1, Slots
    <3> QED BY <1>7, <3>1, <3>2 DEF AnswersHold
  <2> QED BY <1>5, <1>6, <1>8, <1>10, <2>3, <2>4, <2>5 DEF IInv
<1> QED BY <1>9, <1>10

-----------------------------------------------------------------------------
(***************************************************************************)
(* Writes that fail.                                                       *)
(***************************************************************************)
LEMMA FailsKeep ==
  ASSUME IInv, NEW x \in Slot, NEW c \in Cell, PutFails(x, c), Trims,
         session = "unlocked", UNCHANGED <<session, saves>>,
         open' \in {open, None}, pending' \in {pending, None},
         open # None => approved \subseteq approved',
         held' \in [PSlot -> Passphrase], \A y \in PSlot : held'[y] \in {held[y], Empty},
         AnswersHold', job' = None \/ (job' \in Replaces /\ AtWork')
  PROVE  IInv'
<1>1. /\ flash' \in [Slot -> Cell] /\ view' \in [Slot -> Cell] /\ hits' \in Nat
      /\ sure' \in BOOLEAN /\ (sure' => sure)
      /\ view'[x] \in {view[x], Opaque}
      /\ \A y \in Slot : y # x => flash'[y] = flash[y] /\ view'[y] = view[y]
      /\ sure' => \/ flash' = flash
                  \/ x \in RSlot
  BY PutsNot DEF IInv
<1>2. Typed'
  BY <1>1 DEF IInv, Typed
<1>3. Mirrors' /\ NoOrphans'
  BY FailureLands DEF IInv
<1>4. HeldOpens'
  BY <1>1, HeldStays, Slots DEF IInv
<1>5. sure' => \A y \in PSlot : flash'[y] = flash[y]
  BY <1>1, Slots
<1>6. Opened'
  BY <1>1, <1>5, OpenedStays DEF IInv, Opened
<1>7. OpenIsApproved'
  BY <1>1, ApprovalStays DEF IInv
<1> QED BY <1>2, <1>3, <1>4, <1>6, <1>7 DEF IInv

\* A request that is refused at a write has written in no other slot.
LEMMA FailsElsewhere ==
  ASSUME Typed, NEW x \in Slot, NEW c \in Cell, PutFails(x, c), Elsewhere(x),
         before' = before
  PROVE  sure' => \A y \in Slot \ {x} : flash'[y] = before'[y]
BY PutsNot DEF Elsewhere

LEMMA SealFailsKeeps == ASSUME IInv, SealFails PROVE IInv'
<1> DEFINE x == job.slot
<1>1. /\ job # None /\ job.do = "seal" /\ PutFails(x, Draft(job.wallet))
      /\ approved' = {a \in approved : a[1] # x}
      /\ job' = None /\ Says("refused", x)
      /\ UNCHANGED <<session, held, open, pending, before, saves>>
  BY DEF SealFails
<1>2. session = "unlocked" /\ open = None /\ flash = before
  BY <1>1 DEF IInv, AtWork
<1>3. x \in Slot /\ Draft(job.wallet) \in Cell /\ Trims
  BY <1>1, SealIsSound DEF Sound
<1>4. AnswersHold'
  BY <1>1, <1>2, <1>3, FailsElsewhere, RefusalHolds DEF IInv, Elsewhere
<1> QED BY <1>1, <1>2, <1>3, <1>4, FailsKeep DEF IInv, Typed

LEMMA KeepFailsKeeps == ASSUME IInv, KeepFails PROVE IInv'
<1> DEFINE x == job.slot
<1>1. /\ job # None /\ job.do = "keep" /\ IsWallet(view[x]) /\ PutFails(x, Keeping(x))
      /\ job' = None
      /\ UNCHANGED <<session, held, open, pending, said, before, approved, saves>>
  BY DEF KeepFails
<1>2. session = "unlocked" /\ said.what \in {"nothing", "saved"} /\ x \in PSlot
  BY <1>1, JobTyped DEF IInv, AtWork, Keeps
<1>3. x \in Slot /\ Keeping(x) \in Cell /\ Trims
  BY <1>1, <1>2, KeepIsSound, ApprovalsKept DEF Sound
<1>4. AnswersHold'
  BY <1>1, <1>2, NothingClaimed
<1> QED BY <1>1, <1>2, <1>3, <1>4, FailsKeep DEF IInv, Typed

LEMMA RegisterFailsKeeps == ASSUME IInv, RegisterFails PROVE IInv'
<1> DEFINE r == Lowest(Frees(RSlot))
<1>1. /\ job # None /\ job.do \in {"register", "install"} /\ PutFails(r, Registration)
      /\ UNCHANGED <<session, held, open, before, approved, saves>>
  BY DEF RegisterFails
<1>2. r \in RSlot /\ r \in Slot /\ Registration \in RegistrationRec
      /\ Registration \in Cell /\ Registration # Free /\ Trims
  BY <1>1, RegisterIsSound, Kinds, Slots, ApprovalsKept DEF IsRegistration
<1>3. session = "unlocked" /\ Reviewed /\ said.what \in {"nothing", "saved"}
  BY <1>1 DEF IInv, AtWork
<1>4. CASE job.do = "register"
  <2>1. job' = None /\ pending' = None /\ Says("refused", r)
    BY <1>4 DEF RegisterFails
  <2>2. flash = before
    BY <1>1, <1>4 DEF IInv, AtWork
  <2> HIDE DEF r
  <2>3. AnswersHold'
    BY <1>1, <1>2, <2>1, <2>2, FailsElsewhere, RefusalHolds DEF IInv, Elsewhere
  <2> QED BY <1>1, <1>2, <1>3, <2>1, <2>3, FailsKeep DEF IInv, Typed
<1>5. CASE job.do = "install"
  <2>1. job' = [job EXCEPT !.do = "restore"] /\ UNCHANGED <<pending, said>>
    BY <1>5 DEF RegisterFails
  <2> HIDE DEF r
  <2>2. job \in Replaces /\ Elsewhere(job.slot) /\ (sure => Backed(job.saved))
    BY <1>1, <1>5, JobTyped DEF IInv, AtWork
  <2>3. /\ job' \in Replaces /\ job'.do = "restore" /\ job'.slot = job.slot
        /\ job'.saved = job.saved
    BY <2>1, <2>2 DEF Replaces
  <2>4. sure' => sure /\ flash' = flash
    BY <1>1, <1>2, PutsSure
  <2>5. AtWork'
    <3>1. Elsewhere(job.slot)'
      BY <1>1, <2>2, <2>3, <2>4 DEF Elsewhere
    <3>2. (sure => Backed(job.saved))'
      BY <1>1, <2>2, <2>3, <2>4 DEF Backed
    <3>3. Reviewed'
      BY <1>1, <1>3, <2>1 DEF Reviewed
    <3> QED BY <1>1, <1>3, <2>1, <2>3, <3>1, <3>2, <3>3 DEF AtWork
  <2>6. AnswersHold'
    BY <1>3, <2>1, NothingClaimed
  <2> QED BY <1>1, <1>2, <1>3, <2>1, <2>3, <2>5, <2>6, FailsKeep DEF IInv, Typed
<1> QED BY <1>1, <1>4, <1>5

LEMMA EraseFailsKeeps == ASSUME IInv, EraseFails PROVE IInv'
<1> DEFINE r == job.slot
<1>1. /\ job # None /\ job.do = "erase" /\ PutFails(r, Free)
      /\ job' = None /\ pending' = None /\ Says("refused", r)
      /\ UNCHANGED <<session, held, open, before, approved, saves>>
  BY DEF EraseFails
<1>2. session = "unlocked" /\ flash = before
  BY <1>1 DEF IInv, AtWork
<1>3. r \in Slot /\ Free \in Cell /\ Trims
  BY <1>1, ReplaceIsSound, ApprovalsKept, Kinds, Slots
<1>4. AnswersHold'
  BY <1>1, <1>2, <1>3, FailsElsewhere, RefusalHolds DEF IInv, Elsewhere
<1> QED BY <1>1, <1>2, <1>3, <1>4, FailsKeep DEF IInv, Typed

LEMMA RestoreFailsKeeps == ASSUME IInv, RestoreFails PROVE IInv'
<1> DEFINE r == job.slot
<1>1. /\ job # None /\ job.do = "restore" /\ PutFails(r, job.saved)
      /\ job' = None /\ pending' = None /\ said'.what = "lost"
      /\ UNCHANGED <<session, held, open, before, approved, saves>>
  BY DEF RestoreFails, Says
<1>2. session = "unlocked"
  BY <1>1 DEF IInv, AtWork
<1>3. r \in Slot /\ job.saved \in Cell /\ Trims
  BY <1>1, ReplaceIsSound, ApprovalsKept, Slots DEF Cell
<1>4. AnswersHold'
  BY <1>1, NothingClaimed
<1> QED BY <1>1, <1>2, <1>3, <1>4, FailsKeep DEF IInv, Typed

LEMMA DeleteFailsKeeps == ASSUME IInv, DeleteFails PROVE IInv'
<1> DEFINE x == NextErased
           what == IF job.done = 0 THEN "refused" ELSE "partial"
<1>1. /\ job # None /\ job.do = "delete" /\ PutFails(x, Free) /\ Says(what, x)
      /\ job' = None /\ held' = [held EXCEPT ![job.slot] = Empty]
      /\ UNCHANGED <<session, open, pending, before, approved, saves>>
  BY DEF DeleteFails, Answered
<1>2. job \in Deletes /\ x \in Slot /\ Free \in Cell /\ Trims
  BY <1>1, DeleteIsSound, Kinds, ApprovalsKept
<1>3. session = "unlocked" /\ job.slot \in PSlot /\ (job.done = 0 => flash = before)
  BY <1>1, <1>2 DEF IInv, AtWork, Deletes
<1> HIDE DEF x
<1>4. AnswersHold'
  <2>1. CASE job.done = 0
    BY <1>1, <1>2, <1>3, <2>1, FailsElsewhere, RefusalHolds DEF IInv, Elsewhere
  <2>2. CASE job.done # 0
    BY <1>1, <2>2, NothingClaimed DEF Says
  <2> QED BY <2>1, <2>2
<1>5. held' \in [PSlot -> Passphrase] /\ \A y \in PSlot : held'[y] \in {held[y], Empty}
  BY <1>1, <1>3 DEF IInv, Typed
<1> QED BY <1>1, <1>2, <1>3, <1>4, <1>5, FailsKeep DEF IInv, Typed

-----------------------------------------------------------------------------
(***************************************************************************)
(* Requests that are one write, and the cut.                               *)
(***************************************************************************)
LEMMA DeregisterKeeps ==
  ASSUME IInv, NEW r \in RSlot, DeleteRegistration(r) PROVE IInv'
<1>1. /\ session = "unlocked" /\ job = None /\ open # None /\ before' = flash
      /\ pending' = None /\ UNCHANGED <<session, held, job, approved, saves>>
      /\ r \in Slot /\ Free \in Cell /\ Sound(r, Free) /\ Trims
  BY Kinds, Slots, ApprovalsKept DEF DeleteRegistration, Asked, Ready, Sound
<1>2. CASE /\ Put(r, Free) /\ open' = WithoutEntry(r)
           /\ Says("deregistered", r) /\ UNCHANGED <<sure, hits>>
  <2>1. /\ open' \in Opens /\ open'.slot = open.slot /\ open'.entries \subseteq open.entries
    BY <1>1, <1>2, WithoutTyped DEF IInv
  <2>2. /\ flash' \in [Slot -> Cell] /\ view' \in [Slot -> Cell]
        /\ Mirrors' /\ NoOrphans' /\ HeldOpens' /\ Opened'
    BY <1>1, <1>2, <2>1, RegistryWrite
  <2>3. Typed'
    BY <1>1, <1>2, <2>1, <2>2 DEF IInv, Typed
  <2>4. OpenIsApproved'
    BY <1>1, <1>2, <2>1, ApprovalStays DEF IInv
  <2>5. AnswersHold'
    BY <1>2, NothingClaimed DEF Says
  <2> QED BY <1>1, <2>2, <2>3, <2>4, <2>5 DEF IInv
<1>3. CASE PutFails(r, Free) /\ UNCHANGED open /\ Says("refused", r)
  <2>1. sure' => \A y \in Slot \ {r} : flash'[y] = before'[y]
    BY <1>1, <1>3, PutsNot DEF IInv
  <2>2. AnswersHold'
    BY <1>3, <2>1, RefusalHolds
  <2> QED BY <1>1, <1>3, <2>2, FailsKeep DEF IInv, Typed
<1> QED BY <1>2, <1>3 DEF DeleteRegistration

LEMMA RestoredKeeps ==
  ASSUME IInv, NEW x \in PSlot, IsWallet(view[x]), NEW c, c \in {Keeping(x), Forgotten(x)},
         Restored(x, c)
  PROVE  IInv'
<1>1. /\ session = "unlocked" /\ job = None /\ said' = Nothing
      /\ UNCHANGED <<session, held, open, pending, job, approved, saves>>
      /\ x \in Slot /\ Trims
  BY Slots, ApprovalsKept DEF Restored, Asked, Ready
<1>2. Sound(x, c) /\ IsWallet(c) /\ c.wallet = view[x].wallet /\ c \in Cell
  BY KeepIsSound, Kinds
<1>3. AnswersHold'
  BY <1>1, NothingClaimed DEF Nothing
<1>4. CASE Put(x, c) /\ UNCHANGED <<sure, hits>>
  <2>1. /\ flash' \in [Slot -> Cell] /\ view' \in [Slot -> Cell]
        /\ flash'[x] = c /\ view'[x] = c
        /\ \A y \in Slot : y # x => flash'[y] = flash[y] /\ view'[y] = view[y]
    BY <1>1, <1>2, <1>4, Puts DEF IInv
  <2>2. Typed'
    BY <1>1, <1>4, <2>1 DEF IInv, Typed
  <2>3. Mirrors' /\ NoOrphans'
    BY <1>1, <1>2, <1>4, SoundLands DEF IInv
  <2>4. HeldOpens'
    BY <1>1, <1>2, <2>1, HeldStays, Slots DEF IInv
  <2>5. Opened'
    BY <1>1, <1>2, <1>4, <2>1, OpenedStays, Slots DEF IInv, Opened
  <2>6. OpenIsApproved'
    BY <1>1, <1>4, ApprovalStays DEF IInv
  <2> QED BY <1>1, <1>3, <2>2, <2>3, <2>4, <2>5, <2>6 DEF IInv
<1>5. CASE PutFails(x, c)
  BY <1>1, <1>2, <1>3, <1>5, FailsKeep DEF IInv, Typed
<1> QED BY <1>4, <1>5 DEF Restored

\* What the request is at, when it is cut, is sound as well.
LEMMA WritingIsSound ==
  ASSUME IInv, NEW a \in Writing
  PROVE  Sound(a[1], a[2]) /\ job # None
<1>1. job # None
  BY DEF Writing
<1>2. CASE job.do = "seal"
  <2>1. a = <<job.slot, Draft(job.wallet)>>
    BY <1>1, <1>2 DEF Writing
  <2> QED BY <1>1, <1>2, <2>1, SealIsSound
<1>3. CASE job.do = "keep"
  <2>1. a = <<job.slot, Keeping(job.slot)>> /\ IsWallet(view[job.slot])
    BY <1>1, <1>3 DEF Writing
  <2>2. job.slot \in PSlot
    BY <1>1, <1>3, JobTyped DEF IInv, Keeps
  <2> QED BY <1>1, <2>1, <2>2, KeepIsSound
<1>4. CASE job.do \in {"register", "install"}
  <2>1. a = <<Lowest(Frees(RSlot)), Registration>>
    BY <1>1, <1>4 DEF Writing
  <2> QED BY <1>1, <1>4, <2>1, RegisterIsSound
<1>5. CASE job.do = "erase"
  <2>1. a = <<job.slot, Free>>
    BY <1>1, <1>5 DEF Writing
  <2> QED BY <1>1, <1>5, <2>1, ReplaceIsSound
<1>6. CASE job.do = "restore"
  <2>1. a = <<job.slot, job.saved>>
    BY <1>1, <1>6 DEF Writing
  <2> QED BY <1>1, <1>6, <2>1, ReplaceIsSound
<1>7. CASE job.do = "delete"
  <2>1. a = <<NextErased, Free>>
    BY <1>1, <1>7 DEF Writing
  <2> QED BY <1>1, <1>7, <2>1, DeleteIsSound
<1> QED BY <1>1, <1>2, <1>3, <1>4, <1>5, <1>6, <1>7, JobTyped DEF IInv

LEMMA CutKeeps == ASSUME IInv, Cut PROVE IInv'
<1>1. /\ session # "off" /\ session' = "off" /\ held' = NoneHeld
      /\ open' = None /\ pending' = None /\ job' = None /\ said' = Nothing
      /\ UNCHANGED <<view, before, sure, saves>>
      /\ hits' \in {hits, hits + 1}
  BY DEF Cut
<1>2. Trims
  <2>1. CASE job # None /\ job.do = "seal"
    BY <2>1, SealIsSound DEF Cut
  <2>2. CASE ~(job # None /\ job.do = "seal")
    BY <2>2 DEF Cut, Trims
  <2> QED BY <2>1, <2>2
<1>3. Mirrors' /\ Opened' /\ OpenIsApproved'
  BY <1>1 DEF Mirrors, Opened, OpenIsApproved
<1>4. AnswersHold'
  BY <1>1, NothingClaimed DEF Nothing
<1>5. HeldOpens'
  BY <1>1 DEF HeldOpens, NoneHeld
<1>6. flash' \in [Slot -> Cell] => Typed'
  BY <1>1 DEF IInv, Typed, NoneHeld
<1>7. CASE flash' = flash
  <2>1. NoOrphans'
    BY <1>1, <1>2, <1>7, Names DEF IInv, NoOrphans, Trims
  <2> QED BY <1>1, <1>3, <1>4, <1>5, <1>6, <1>7, <2>1 DEF IInv, Typed
<1>8. CASE flash' # flash
  <2>1. PICK a \in Writing : flash' = [flash EXCEPT ![a[1]] = a[2]]
    BY <1>8 DEF Cut
  <2>2. Sound(a[1], a[2])
    BY <2>1, WritingIsSound
  <2>3. NoOrphans' /\ flash' \in [Slot -> Cell]
    BY <1>1, <1>2, <2>1, <2>2, SoundIsCut DEF IInv
  <2> QED BY <1>1, <1>3, <1>4, <1>5, <1>6, <2>3 DEF IInv
<1> QED BY <1>7, <1>8

-----------------------------------------------------------------------------
(***************************************************************************)
(* The theorems.                                                           *)
(***************************************************************************)
\* Every step keeps the invariant.
LEMMA StepKeeps == IInv /\ [Next]_vars => IInv'
<1> SUFFICES ASSUME IInv, [Next]_vars PROVE IInv'
  OBVIOUS
<1>1. CASE UNCHANGED vars
  <2>1. /\ flash' = flash /\ view' = view /\ session' = session /\ held' = held
        /\ open' = open /\ pending' = pending /\ job' = job /\ said' = said
        /\ before' = before /\ approved' = approved /\ sure' = sure
        /\ saves' = saves /\ hits' = hits
    BY <1>1 DEF vars, ghost
  <2>2. Typed' /\ Mirrors' /\ Opened'
    BY <2>1 DEF IInv, Typed, Mirrors, Backed, Opened
  <2>3. job' # None => AtWork'
    BY <2>1 DEF IInv, AtWork, Elsewhere, Backed, Reviewed, Frees
  <2>4. NoOrphans' /\ OpenIsApproved' /\ AnswersHold' /\ HeldOpens'
    BY <2>1 DEF IInv, NoOrphans, OpenIsApproved, AnswersHold, HeldOpens
  <2> QED BY <2>2, <2>3, <2>4 DEF IInv
<1>2. CASE Mount \/ Unseal \/ Lock \/ Close \/ Cut
  BY <1>2, MountKeeps, UnsealKeeps, LockKeeps, CloseKeeps, CutKeeps
<1>3. CASE \E w \in Drafts, store \in BOOLEAN : Persist(w, store)
  BY <1>3, PersistKeeps
<1>4. CASE Seal \/ SealFails \/ Keep \/ KeepFails
  BY <1>4, SealKeeps, SealFailsKeeps, KeepKeeps, KeepFailsKeeps
<1>5. ASSUME NEW x \in PSlot, OpenWallet(x) \/ \E p \in Passphrase : UnlockWallet(x, p)
      PROVE  IInv'
  BY <1>5, OpenKeeps, UnlockKeeps
<1>6. ASSUME NEW x \in PSlot, StorePassphrase(x) \/ ForgetPassphrase(x) PROVE IInv'
  <2>1. ASSUME StorePassphrase(x) PROVE IInv'
    BY <2>1, RestoredKeeps DEF StorePassphrase
  <2>2. ASSUME ForgetPassphrase(x) PROVE IInv'
    BY <2>2, RestoredKeeps DEF ForgetPassphrase
  <2> QED BY <1>6, <2>1, <2>2
<1>7. CASE \E id \in Multi : Import(id)
  BY <1>7, ImportKeeps
<1>8. CASE Approve \/ Register \/ RegisterFails
  BY <1>8, ApproveKeeps, RegisterKeeps, RegisterFailsKeeps
<1>9. CASE Erase \/ EraseFails \/ Restore \/ RestoreFails
  BY <1>9, EraseKeeps, EraseFailsKeeps, RestoreKeeps, RestoreFailsKeeps
<1>10. CASE \E r \in RSlot : DeleteRegistration(r)
  BY <1>10, DeregisterKeeps
<1>11. CASE Delete \/ DeleteNext \/ DeleteFails
  BY <1>11, DeleteKeeps, DeleteNextKeeps, DeleteFailsKeeps
<1> QED BY <1>1, <1>2, <1>3, <1>4, <1>5, <1>6, <1>7, <1>8, <1>9, <1>10, <1>11 DEF Next

\* The store, the session and the request under way agree in every reachable state.
THEOREM Invariant == Spec => []IInv
<1>1. Init => IInv
  BY Initially
<1> QED BY <1>1, StepKeeps, PTL DEF Spec

\* Deleting a wallet, replacing a registration or saving a wallet, whether it is cut
\* short or fails at any write, leaves no registration that names a slot without a
\* wallet, or a wallet it was not approved for (wallet/erase.rs, flow/replace.rs).
THEOREM RegistrationsHaveWallets == Spec => []NoOrphans
<1>1. IInv => NoOrphans
  BY DEF IInv
<1> QED BY <1>1, Invariant, PTL

\* An open wallet proves change against registrations only that were approved for it
\* (wallet/registry.rs load_registry, with the slots that others had before).
THEOREM OpenWalletsAreApproved == Spec => []OpenIsApproved
<1>1. IInv => OpenIsApproved
  BY DEF IInv
<1> QED BY <1>1, Invariant, PTL

\* What the last answer claimed, gone, refused or rolled back, is what the next mount
\* finds (firmware main.rs and flow/mod.rs, the answers).
THEOREM AnswersAreTrue == Spec => []AnswersHold
<1>1. IInv => AnswersHold
  BY DEF IInv
<1> QED BY <1>1, Invariant, PTL

\* A passphrase held in the session opens the wallet its slot has now (PassSession).
THEOREM HeldPassphrasesOpen == Spec => []HeldOpens
<1>1. IInv => HeldOpens
  BY DEF IInv
<1> QED BY <1>1, Invariant, PTL

=============================================================================
