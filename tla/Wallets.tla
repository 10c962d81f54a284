------------------------------ MODULE Wallets ------------------------------
(***************************************************************************)
(* The wallets and multisig registrations a person keeps on the device     *)
(* (firmware: wallet/, flow/replace.rs, the answers of main.rs and         *)
(* flow/mod.rs).  A wallet is a record in a payload slot; a registration   *)
(* is a record in a registry slot that names the payload slot of its       *)
(* wallet, and nothing else ties the two.  Deleting a wallet, replacing a  *)
(* registration and saving a wallet with its passphrase are several writes *)
(* to the store.                                                           *)
(*                                                                         *)
(* A write to the store is indivisible under a power cut (module           *)
(* VaultRecords implements WalletStore).  One that returns an error may    *)
(* have landed: the vault goes on reading the side it had elected, the     *)
(* next mount elects the new one.  flash is what the next mount finds,     *)
(* view what the store reads until then.                                   *)
(***************************************************************************)
EXTENDS Naturals, FiniteSets, FiniteSetsExt

CONSTANTS
  PSlot, RSlot,      \* payload and registry slots, in the order they are scanned
  Phrase, Passphrase, Empty,  \* Empty: no passphrase
  Multi,             \* multisig wallets, by the id of their descriptor
  Member,            \* which wallet holds a key of which
  Drafts,            \* the wallets that are created
  Free, Opaque, None,
  MaxSaves, MaxHits  \* bounds: wallets saved, cuts and errors

\* A wallet is its words and the passphrase that goes with them.
Wallet == Phrase \X Passphrase

ASSUME WalletsAssumption ==
  /\ PSlot \subseteq Nat /\ RSlot \subseteq Nat /\ PSlot \cap RSlot = {}
  /\ Empty \in Passphrase /\ Drafts \subseteq Wallet /\ Member \subseteq Wallet \X Multi
  /\ MaxSaves \in Nat /\ MaxHits \in Nat

VARIABLES
  flash,     \* slot -> what a mount finds in it
  view,      \* slot -> what the store reads from it
  session,   \* "off", "locked" or "unlocked"
  rows,      \* Ui.wallets: payload slot -> the wallet the list shows there
  held,      \* PassSession: payload slot -> the passphrase held for it, or Empty
  open,      \* Flow.wallet
  pending,   \* Flow.pending, while its review is on the screen: a refusal leaves it
  job,       \* what the request that is being answered has left to do
  said,      \* ghost: what the last answer claims, and of which slot
  before,    \* ghost: flash when the last request came in
  approved,  \* ghost: <<payload slot, id>> that the user approved for the wallet there
  sure,      \* ghost: no call that returned an error has landed, but for the erasure
             \* of a registration
  saves, hits

disk == <<flash, view>>
ghost == <<said, before, approved, sure, saves, hits>>
vars == <<flash, view, session, rows, held, open, pending, job, ghost>>

Slot == PSlot \cup RSlot

\* WalletRecord: the fingerprint is that of a wallet.  A passphrase that is stored
\* was certified against it (SealedWallet::confirmed), so that it is stored is all
\* there is to say.
WalletRec == [wallet : Wallet, pass : {"none", "applied", "stored"}]

RegistrationRec == [slot : PSlot, id : Multi]

ASSUME ValuesAssumption ==
  /\ Free # Opaque /\ {Free, Opaque} \cap (WalletRec \cup RegistrationRec) = {}
  /\ None \notin Wallet \cup [slot : PSlot, wallet : Wallet, entries : SUBSET (RSlot \X Multi)]

IsWallet(c) == c \in WalletRec

IsRegistration(c) == c \in RegistrationRec

-----------------------------------------------------------------------------
(***************************************************************************)
(* Reading the store.                                                      *)
(***************************************************************************)
Frees(slots) == {x \in slots : view[x] = Free}

\* free_payload_slot, free_registry_slot: the lowest.
Lowest(slots) == Min(slots)

\* StoredWallets::registrations_of: what cannot be read is left alone.
RegistrationsOf(x) == {r \in RSlot : IsRegistration(view[r]) /\ view[r].slot = x}

\* load_registry and reproven: the records that name the slot and whose wallet this
\* one is a member of.
LoadedOfAnySlot(x, w) ==  \* Mutant: whichever slot they name.
  {<<r, view[r].id>> : r \in {r \in RSlot : IsRegistration(view[r])
                                          /\ <<w, view[r].id>> \in Member}}

Loaded(x, w) ==
  {<<r, view[r].id>> : r \in {r \in RegistrationsOf(x) : <<w, view[r].id>> \in Member}}

\* wallet_rows.
Rows(v) == [x \in PSlot |-> IF IsWallet(v[x]) THEN v[x].wallet ELSE None]

\* slot_of_fingerprint: the first row with that fingerprint.
SlotOf(list, w) ==
  LET same == {x \in PSlot : list[x] = w} IN IF same = {} THEN None ELSE Min(same)

-----------------------------------------------------------------------------
(***************************************************************************)
(* Writing it.                                                             *)
(***************************************************************************)
Put(x, c) == flash' = [flash EXCEPT ![x] = c] /\ view' = [view EXCEPT ![x] = c]

\* The call returns an error: before the new side was sealed, after that, or with
\* the old side already erased in part.
PutFails(x, c) ==
  /\ hits < MaxHits /\ hits' = hits + 1
  /\ \/ UNCHANGED disk /\ UNCHANGED sure
     \/ /\ flash' = [flash EXCEPT ![x] = c]
        /\ view' \in {view, [view EXCEPT ![x] = Opaque]}
        /\ sure' = (sure /\ c = Free /\ x \in RSlot)

-----------------------------------------------------------------------------
(***************************************************************************)
(* Power and PIN.                                                          *)
(***************************************************************************)
NoRows == [x \in PSlot |-> None]
NoneHeld == [x \in PSlot |-> Empty]
Nothing == [what |-> "nothing", slot |-> None]

Init ==
  /\ flash = [x \in Slot |-> Free] /\ view = flash
  /\ session = "off" /\ rows = NoRows /\ held = NoneHeld
  /\ open = None /\ pending = None /\ job = None
  /\ said = Nothing /\ before = flash /\ approved = {} /\ sure = TRUE
  /\ saves = 0 /\ hits = 0

Mount ==
  /\ session = "off" /\ session' = "locked"
  /\ view' = flash
  /\ UNCHANGED <<flash, rows, held, open, pending, job, ghost>>

\* answer_unseal, once the PIN has opened the store.
Unseal ==
  /\ session = "locked" /\ session' = "unlocked"
  /\ rows' = Rows(view)
  /\ UNCHANGED <<disk, held, open, pending, job, ghost>>

\* The button, and the inactivity timer.
Lock ==
  /\ session = "unlocked" /\ job = None
  /\ session' = "locked"
  /\ rows' = NoRows /\ held' = NoneHeld /\ open' = None /\ pending' = None
  /\ UNCHANGED <<disk, job, ghost>>

Ready == session = "unlocked" /\ job = None

Close ==
  /\ Ready /\ open # None
  /\ open' = None /\ pending' = None
  /\ UNCHANGED <<disk, session, rows, held, job, ghost>>

Says(what, x) == said' = [what |-> what, slot |-> x]

\* A request that writes comes in.
Asked == Ready /\ before' = flash

-----------------------------------------------------------------------------
(***************************************************************************)
(* A new wallet: answer_persist_wallet.                                    *)
(***************************************************************************)
Draft(w) == [wallet |-> w, pass |-> IF w[2] = Empty THEN "none" ELSE "applied"]

Persist(w, store) ==
  /\ Asked /\ open = None
  /\ saves < MaxSaves /\ saves' = saves + 1
  /\ Frees(PSlot) # {}
  /\ job' = [do |-> "seal", slot |-> Lowest(Frees(PSlot)),
             wallet |-> w, store |-> store]
  /\ said' = Nothing
  /\ UNCHANGED <<disk, session, rows, held, open, pending, approved, sure, hits>>

\* The passphrase is held for the first row that shows the wallet.
Seal ==
  /\ job # None /\ job.do = "seal"
  /\ LET w == job.wallet
         list == Rows([view EXCEPT ![job.slot] = Draft(w)])
         x == SlotOf(list, w)
     IN /\ Put(job.slot, Draft(w))
        /\ rows' = list
        /\ held' = IF w[2] = Empty THEN held ELSE [held EXCEPT ![x] = w[2]]
        /\ job' = IF job.store /\ w[2] # Empty THEN [do |-> "keep", slot |-> x] ELSE None
  /\ approved' = {a \in approved : a[1] # job.slot}
  /\ Says("saved", job.slot)
  /\ UNCHANGED <<session, open, pending, before, sure, saves, hits>>

SealFails ==
  /\ job # None /\ job.do = "seal"
  /\ PutFails(job.slot, Draft(job.wallet))
  /\ approved' = {a \in approved : a[1] # job.slot}
  /\ job' = None /\ Says("refused", job.slot)
  /\ UNCHANGED <<session, rows, held, open, pending, before, saves>>

\* set_passphrase_storage, on a record that reads.
Keeping(x) == [view[x] EXCEPT !.pass = "stored"]

Keep ==
  /\ job # None /\ job.do = "keep"
  /\ IF IsWallet(view[job.slot])
     THEN Put(job.slot, Keeping(job.slot))
     ELSE UNCHANGED disk
  /\ job' = None
  /\ UNCHANGED <<session, rows, held, open, pending, ghost>>

KeepFails ==
  /\ job # None /\ job.do = "keep" /\ IsWallet(view[job.slot])
  /\ PutFails(job.slot, Keeping(job.slot))
  /\ job' = None
  /\ UNCHANGED <<session, rows, held, open, pending, said, before, approved, saves>>

-----------------------------------------------------------------------------
(***************************************************************************)
(* Opening one.                                                            *)
(***************************************************************************)
\* open_and_install.
Install(x, w) == open' = [slot |-> x, wallet |-> w, entries |-> Loaded(x, w)]

\* answer_open_wallet: with the passphrase of the record, or that of this session,
\* or none; a record that has one asks for it, which changes nothing here.
Attempt(x) == IF view[x].pass = "stored" THEN view[x].wallet[2] ELSE held[x]

OpenWallet(x) ==
  /\ Ready /\ open = None /\ rows[x] # None /\ IsWallet(view[x])
  /\ view[x].pass = "none" \/ Attempt(x) # Empty
  /\ IF Attempt(x) = view[x].wallet[2]
     THEN Install(x, view[x].wallet) /\ held' = [held EXCEPT ![x] = Attempt(x)]
     ELSE /\ held' = IF view[x].pass = "stored" THEN held ELSE [held EXCEPT ![x] = Empty]
          /\ UNCHANGED open
  /\ UNCHANGED <<disk, session, rows, pending, job, ghost>>

\* answer_unlock_wallet: a typed passphrase that fits; one that does not changes
\* nothing.
UnlockWallet(x, p) ==
  /\ Ready /\ open = None /\ rows[x] # None /\ IsWallet(view[x])
  /\ p = view[x].wallet[2]
  /\ Install(x, view[x].wallet) /\ held' = [held EXCEPT ![x] = p]
  /\ UNCHANGED <<disk, session, rows, pending, job, ghost>>

\* answer_passphrase_storage, both ways, for the wallet that is open.
Forgotten(x) == [view[x] EXCEPT !.pass = IF @ = "none" THEN "none" ELSE "applied"]

\* What is to be stored is certified against the record's fingerprint.
Restored(x, c) ==
  /\ Asked /\ open # None /\ open.slot = x /\ IsWallet(view[x])
  /\ \/ Put(x, c) /\ UNCHANGED <<sure, hits>>
     \/ PutFails(x, c)
  /\ said' = Nothing
  /\ UNCHANGED <<session, rows, held, open, pending, job, approved, saves>>

StorePassphrase(x) ==
  /\ held[x] # Empty /\ IsWallet(view[x]) /\ held[x] = view[x].wallet[2]
  /\ Restored(x, Keeping(x))

ForgetPassphrase(x) == IsWallet(view[x]) /\ Restored(x, Forgotten(x))

-----------------------------------------------------------------------------
(***************************************************************************)
(* Registrations of the open wallet.                                       *)
(***************************************************************************)
\* read_and_verify: a file that describes a multisig this wallet is a member of.
Import(id) ==
  /\ Ready /\ open # None /\ <<open.wallet, id>> \in Member
  /\ pending' = [id |-> id,
                 duplicate |-> LET same == {e \in open.entries : e[2] = id}
                               IN IF same = {} THEN None ELSE Min({e[1] : e \in same})]
  /\ UNCHANGED <<disk, session, rows, held, open, job, ghost>>

Registration == [slot |-> open.slot, id |-> pending.id]

\* approve: register, or replace_in_slot, which reads the old record first.
Approve ==
  /\ Asked /\ open # None /\ pending # None
  /\ approved' = approved \cup {<<open.slot, pending.id>>}
  /\ IF pending.duplicate = None
     THEN Frees(RSlot) # {} /\ job' = [do |-> "register"]
     ELSE IsRegistration(view[pending.duplicate]) /\
          job' = [do |-> "erase", slot |-> pending.duplicate,
                  saved |-> view[pending.duplicate]]
  /\ said' = Nothing
  /\ UNCHANGED <<disk, session, rows, held, open, pending, sure, saves, hits>>

Register ==
  /\ job # None /\ job.do \in {"register", "install"}
  /\ LET r == Lowest(Frees(RSlot))
     IN /\ Put(r, Registration)
        /\ open' = [open EXCEPT !.entries = @ \cup {<<r, pending.id>>}]
  /\ job' = None /\ pending' = None
  /\ Says(IF job.do = "install" THEN "replaced" ELSE "registered", None)
  /\ UNCHANGED <<session, rows, held, before, approved, sure, saves, hits>>

\* Of a plain registration that fails nothing is left to do; the one that was to
\* be replaced is put back.
RegisterFails ==
  /\ job # None /\ job.do \in {"register", "install"}
  /\ PutFails(Lowest(Frees(RSlot)), Registration)
  /\ IF job.do = "register"
     THEN job' = None /\ pending' = None /\ Says("refused", Lowest(Frees(RSlot)))
     ELSE job' = [job EXCEPT !.do = "restore"] /\ UNCHANGED <<pending, said>>
  /\ UNCHANGED <<session, rows, held, open, before, approved, saves>>

\* deregister, of the old registration or at the user's request.
WithoutEntry(r) == [open EXCEPT !.entries = {e \in @ : e[1] # r}]

Erase ==
  /\ job # None /\ job.do = "erase"
  /\ Put(job.slot, Free) /\ open' = WithoutEntry(job.slot)
  /\ job' = [job EXCEPT !.do = "install"]
  /\ UNCHANGED <<session, rows, held, pending, ghost>>

EraseFails ==
  /\ job # None /\ job.do = "erase"
  /\ PutFails(job.slot, Free)
  /\ job' = None /\ pending' = None /\ Says("refused", job.slot)
  /\ UNCHANGED <<session, rows, held, open, before, approved, saves>>

Restore ==
  /\ job # None /\ job.do = "restore"
  /\ Put(job.slot, job.saved)
  /\ job' = None /\ pending' = None /\ Says("rolled back", job.slot)
  /\ UNCHANGED <<session, rows, held, open, before, approved, sure, saves, hits>>

RestoreFails ==
  /\ job # None /\ job.do = "restore"
  /\ PutFails(job.slot, job.saved)
  /\ job' = None /\ pending' = None /\ Says("lost", job.slot)
  /\ UNCHANGED <<session, rows, held, open, before, approved, saves>>

DeleteRegistration(r) ==
  /\ Asked /\ open # None /\ \E id \in Multi : <<r, id>> \in open.entries
  /\ \/ /\ Put(r, Free) /\ open' = WithoutEntry(r)
        /\ Says("deregistered", r) /\ UNCHANGED <<sure, hits>>
     \/ PutFails(r, Free) /\ UNCHANGED open /\ Says("refused", r)
  /\ pending' = None
  /\ UNCHANGED <<session, rows, held, job, approved, saves>>

-----------------------------------------------------------------------------
(***************************************************************************)
(* Deleting a wallet: delete_wallet, erase::erase.  It is asked for from   *)
(* the wallet's own screens.  First its registrations, then its record.    *)
(***************************************************************************)
Delete ==
  /\ Asked /\ open # None
  /\ job' = [do |-> "delete", slot |-> open.slot,
             left |-> RegistrationsOf(open.slot), done |-> 0]
  /\ open' = None /\ pending' = None /\ said' = Nothing
  /\ UNCHANGED <<disk, session, rows, held, approved, sure, saves, hits>>

\* Mutant: the record first.
NextErasedRecordFirst ==
  IF job.left # {} /\ view[job.slot] = Free THEN Min(job.left) ELSE job.slot

NextErased == IF job.left # {} THEN Min(job.left) ELSE job.slot

\* Mutant: the passphrase stays.
AnsweredHolding(x, v) == job' = None /\ rows' = Rows(v) /\ UNCHANGED held

\* What the answer ends with, however the deletion went.
Answered(x, v) ==
  job' = None /\ rows' = Rows(v) /\ held' = [held EXCEPT ![x] = Empty]

DeleteNext ==
  /\ job # None /\ job.do = "delete"
  /\ LET x == NextErased
     IN /\ Put(x, Free)
        /\ IF x \in job.left
           THEN /\ job' = [job EXCEPT !.left = @ \ {x}, !.done = @ + 1]
                /\ UNCHANGED <<rows, held, said>>
           ELSE /\ Answered(job.slot, view')
                /\ Says("gone", job.slot)
  /\ UNCHANGED <<session, open, pending, before, approved, sure, saves, hits>>

\* Mutant: as if nothing had been erased before.
DeleteFailsAsRefusal ==
  /\ job # None /\ job.do = "delete"
  /\ PutFails(NextErased, Free)
  /\ Answered(job.slot, view') /\ Says("refused", NextErased)
  /\ UNCHANGED <<session, open, pending, before, approved, saves>>

DeleteFails ==
  /\ job # None /\ job.do = "delete"
  /\ PutFails(NextErased, Free)
  /\ Answered(job.slot, view')
  /\ Says(IF job.done = 0 THEN "refused" ELSE "partial", NextErased)
  /\ UNCHANGED <<session, open, pending, before, approved, saves>>

-----------------------------------------------------------------------------
\* The write the job is at.
Writing ==
  IF job = None THEN {}
  ELSE CASE job.do = "seal" -> {<<job.slot, Draft(job.wallet)>>}
         [] job.do = "keep" ->
              IF IsWallet(view[job.slot]) THEN {<<job.slot, Keeping(job.slot)>>} ELSE {}
         [] job.do \in {"register", "install"} -> {<<Lowest(Frees(RSlot)), Registration>>}
         [] job.do = "erase" -> {<<job.slot, Free>>}
         [] job.do = "restore" -> {<<job.slot, job.saved>>}
         [] job.do = "delete" -> {<<NextErased, Free>>}

\* Power is cut under it, before the record has landed or after.
Cut ==
  /\ session # "off" /\ session' = "off"
  /\ IF job = None THEN UNCHANGED hits ELSE hits < MaxHits /\ hits' = hits + 1
  /\ flash' \in {flash} \cup {[flash EXCEPT ![w[1]] = w[2]] : w \in Writing}
  /\ approved' = IF job # None /\ job.do = "seal"
                 THEN {a \in approved : a[1] # job.slot} ELSE approved
  /\ rows' = NoRows /\ held' = NoneHeld /\ open' = None /\ pending' = None /\ job' = None
  /\ said' = Nothing
  /\ UNCHANGED <<view, before, sure, saves>>

Next ==
  \/ Mount \/ Unseal \/ Lock \/ Close \/ Cut
  \/ \E w \in Drafts, store \in BOOLEAN : Persist(w, store)
  \/ Seal \/ SealFails \/ Keep \/ KeepFails
  \/ \E x \in PSlot :
       \/ OpenWallet(x) \/ StorePassphrase(x) \/ ForgetPassphrase(x)
       \/ \E p \in Passphrase : UnlockWallet(x, p)
  \/ \E id \in Multi : Import(id)
  \/ Approve \/ Register \/ RegisterFails
  \/ Erase \/ EraseFails \/ Restore \/ RestoreFails
  \/ \E r \in RSlot : DeleteRegistration(r)
  \/ Delete \/ DeleteNext \/ DeleteFails

Spec == Init /\ [][Next]_vars

-----------------------------------------------------------------------------
(***************************************************************************)
(* Properties.                                                             *)
(***************************************************************************)
\* No registration names a slot without a wallet, or a wallet it was not approved
\* for, whatever deletion or replacement was cut short or failed (wallet/erase.rs:
\* the other order "leaves ... registry records naming a payload slot that is now
\* free", and the next wallet stored there inherits them).
NoOrphans ==
  sure => \A r \in RSlot : IsRegistration(flash[r]) =>
            IsWallet(flash[flash[r].slot]) /\ <<flash[r].slot, flash[r].id>> \in approved

\* An open wallet proves change against registrations that were approved for it only,
\* whoever else has had its slot since.
OpenIsApproved ==
  sure /\ open # None => \A e \in open.entries : <<open.slot, e[2]>> \in approved

\* What the last answer claims the next mount confirms: a wallet that is gone is in
\* no slot and neither is a registration of it; a request that was refused has
\* touched no slot but the one whose write returned the error; a replacement that
\* was rolled back has its record where it was.
AnswersHold ==
  sure =>
    /\ said.what = "gone" =>
         /\ flash[said.slot] = Free
         /\ \A r \in RSlot : IsRegistration(flash[r]) => flash[r].slot # said.slot
    /\ said.what \in {"refused", "rolled back"} =>
         \A x \in Slot \ {said.slot} : flash[x] = before[x]
    /\ said.what = "rolled back" => IsRegistration(flash[said.slot])

\* A passphrase is held only for the wallet it opens, though slots are reused.
HeldOpens ==
  \A x \in PSlot :
    held[x] # Empty /\ view[x] # Opaque =>
      IsWallet(view[x]) /\ view[x].wallet[2] = held[x]

=============================================================================
