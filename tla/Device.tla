------------------------------- MODULE Device -------------------------------
(***************************************************************************)
(* The device as its user meets it: the panel and its stack of screens     *)
(* (crate notyas-ui, ui.rs and screens/), the main loop that answers what  *)
(* a screen asks for and ends the session (firmware, main.rs), and what    *)
(* the firmware holds for the wallet that is open (flow/mod.rs: Flow;      *)
(* session.rs: PassSession).                                               *)
(*                                                                         *)
(* The three know of each other only through slot numbers, screen ids and  *)
(* answers that arrive at whatever screen is showing.  A pass of the loop  *)
(* handles at most one tap or hold, answers what it asks for and closes    *)
(* the flow when the panel has left the wallet: it is one action.          *)
(*                                                                         *)
(* The sheets a screen shows over itself (consent, typed name, leave) are  *)
(* part of the tap that they let through.  Dice, seed words, passphrase    *)
(* entry, derivation and the backup quiz are one screen, Make; settings    *)
(* and the screens they lead to are another.  A passphrase is asked for    *)
(* unless this session holds it (module Wallets has stored ones), and what *)
(* a failing write leaves in the store is left to that module too.         *)
(***************************************************************************)
EXTENDS Naturals, Sequences, SequencesExt, FiniteSets, FiniteSetsExt

CONSTANTS
  Slots,          \* payload slots
  Wallet, Hidden, \* wallets; the ones that have a passphrase
  Tx,             \* transactions on the card
  None,
  IdleLimit,      \* passes without a touch that end the session
  MaxPrior        \* bound: a deletion leaves one more list of wallets below

ASSUME DeviceAssumption ==
  /\ Slots \subseteq Nat /\ 0 \in Slots /\ IsFiniteSet(Slots)
  /\ Hidden \subseteq Wallet /\ None \notin Wallet \cup Tx \cup Slots
  /\ IdleLimit \in Nat /\ MaxPrior \in Nat

VARIABLES
  disk,      \* slot -> the wallet whose record it holds
  pin,       \* the store is formatted
  session,   \* Store.session
  idle,      \* Session: passes since the last touch
  status,    \* Ui.lock.status
  screen,    \* Ui.state
  prior,     \* Ui.prior
  rows,      \* Ui.wallets
  listed,    \* Ui.registrations: the wallet whose registrations are listed
  flow,      \* Flow
  held,      \* PassSession: slots whose passphrase it holds
  erased     \* ghost: of the last deletion, the wallet confirmed and the wallet erased

store == <<disk, pin, session>>
panel == <<status, screen, prior>>
vars == <<store, idle, panel, rows, listed, flow, held, erased>>

-----------------------------------------------------------------------------
(***************************************************************************)
(* Screens.  A screen carries the slot and the wallet it names, whether    *)
(* that wallet is stored, whether it has the wallet's derived keys, and    *)
(* the transaction it shows.                                               *)
(***************************************************************************)
\* holds_a_wallet.
HoldsAWallet ==
  {"WalletHome", "Schemes", "Receive", "SignSource", "FilePicker", "Review", "Deliver",
   "Refusal", "MultisigList", "MultisigImport", "MultisigDetail"}

Plain(id) ==
  [id |-> id, slot |-> None, wallet |-> None, stored |-> FALSE, keys |-> FALSE,
   busy |-> FALSE, tx |-> None]

Naming(id, x, w) == [Plain(id) EXCEPT !.slot = x, !.wallet = w]

WalletHome(x, w, stored, keys) ==
  [Naming("WalletHome", x, w) EXCEPT !.stored = stored, !.keys = keys]

Showing(id, tx) == [Plain(id) EXCEPT !.tx = tx]

\* NameState::saved: the store has not said which slot, so it is slot 0.
SavedAs(x, w) == WalletHome(0, w, TRUE, FALSE)

\* Ui::floor.
FloorOf(s) ==
  Plain(CASE s = "unlocked" -> "Wallets" [] s = "locked" -> "Lock" [] OTHER -> "Home")

Frames == ToSet(prior) \cup {screen}

-----------------------------------------------------------------------------
(***************************************************************************)
(* Flow.                                                                   *)
(***************************************************************************)
Closed == [wallet |-> None, slot |-> None, loaded |-> None, signed |-> None,
           pending |-> FALSE]

Opened(x, w) == [Closed EXCEPT !.wallet = w, !.slot = x]

IsOpen == flow.wallet # None

\* Mutant: a screen that has left the wallet keeps it open.
FlowAfterStaying(next, f) == f

\* The end of a pass.
FlowAfter(next, f) ==
  IF next.id # screen.id /\ next.id \notin HoldsAWallet THEN Closed ELSE f

\* Ui::apply and Ui::reset, in a pass that leaves the flow as f.
Go(next, stack, f) == screen' = next /\ prior' = stack /\ flow' = FlowAfter(next, f)

Stay(f) == Go(screen, prior, f)
Push(next, f) == Go(next, Append(prior, screen), f)
Enter(next, f) == Go(next, prior, f)
Reset(next, f) == Go(next, <<>>, f)
Below(s) == IF prior = <<>> THEN FloorOf(s) ELSE Last(prior)
Pop(f) == Go(Below(status), IF prior = <<>> THEN prior ELSE Front(prior), f)

\* A touch, on one of these screens.
On(ids) == screen.id \in ids /\ idle' = 0

-----------------------------------------------------------------------------
NoRows == [x \in Slots |-> None]

\* Store::ui_status.
StoreStatus(p, s) == IF ~p THEN "blank" ELSE IF s THEN "unlocked" ELSE "locked"

\* Power-on: Ui::new, and Ui::lock when the store has a PIN.
Boot ==
  /\ session' = FALSE /\ idle' = 0 /\ status' = StoreStatus(pin, FALSE)
  /\ screen' = FloorOf(status') /\ prior' = <<>>
  /\ rows' = NoRows /\ listed' = None /\ flow' = Closed /\ held' = {}
  /\ erased' = None
  /\ UNCHANGED <<disk, pin>>

Init ==
  /\ disk = NoRows /\ pin = FALSE /\ session = FALSE /\ idle = 0
  /\ status = "blank" /\ screen = Plain("Home") /\ prior = <<>>
  /\ rows = NoRows /\ listed = None /\ flow = Closed /\ held = {}
  /\ erased = None

-----------------------------------------------------------------------------
(***************************************************************************)
(* The session ends.                                                       *)
(***************************************************************************)
\* Mutant: the wallet stays open.
LockedHolding ==
  /\ session' = FALSE /\ held' = {} /\ status' = StoreStatus(pin, FALSE)
  /\ rows' = NoRows /\ listed' = None
  /\ screen' = Plain("Lock") /\ prior' = <<>> /\ UNCHANGED flow
  /\ UNCHANGED <<disk, pin, erased>>

\* Store::lock, close_flow, clear_passphrases, refresh_lock_info and Ui::lock.
Locked ==
  /\ session' = FALSE /\ flow' = Closed /\ held' = {} /\ status' = StoreStatus(pin, FALSE)
  /\ IF pin
     THEN rows' = NoRows /\ listed' = None /\ screen' = Plain("Lock") /\ prior' = <<>>
     ELSE UNCHANGED <<rows, listed, screen, prior>>
  /\ UNCHANGED <<disk, pin, erased>>

LockSession ==
  /\ On({"Home", "Wallets", "WalletHome", "Settings", "MultisigList"})
  /\ status = "unlocked"
  /\ Locked

\* Mutant: time does not pass on a screen that waits.
PassUnlessWaiting ==
  /\ session /\ ~screen.busy
  /\ IF idle < IdleLimit
     THEN idle' = idle + 1 /\ UNCHANGED <<store, panel, rows, listed, flow, held, erased>>
     ELSE idle' = 0 /\ Locked

\* A pass without a touch: Store::tick.
Pass ==
  /\ session
  /\ IF idle < IdleLimit
     THEN idle' = idle + 1 /\ UNCHANGED <<store, panel, rows, listed, flow, held, erased>>
     ELSE idle' = 0 /\ Locked

-----------------------------------------------------------------------------
(***************************************************************************)
(* The PIN.                                                                *)
(***************************************************************************)
LockWake ==
  /\ On({"Lock"}) /\ Enter(Plain("Pin"), flow)
  /\ UNCHANGED <<store, status, rows, listed, held, erased>>

PinBack ==
  /\ On({"Pin"}) /\ Enter(Plain("Lock"), flow)
  /\ UNCHANGED <<store, status, rows, listed, held, erased>>

\* answer_unseal.
Unsealed ==
  /\ On({"Pin"}) /\ pin
  /\ session' = TRUE /\ status' = "unlocked" /\ rows' = disk
  /\ Reset(Plain("Wallets"), flow)
  /\ UNCHANGED <<disk, pin, listed, held, erased>>

Wiped ==
  /\ On({"Pin"}) /\ pin
  /\ pin' = FALSE /\ disk' = NoRows /\ status' = "blank"
  /\ Reset(Plain("Home"), flow)
  /\ UNCHANGED <<session, rows, listed, held, erased>>

\* Of a storage or hardware error; a wrong PIN stays.
Unreadable ==
  /\ On({"Pin"}) /\ status' = "unreadable" /\ Reset(Plain("Home"), flow)
  /\ UNCHANGED <<store, rows, listed, held, erased>>

\* answer_set_pin: format refuses a store that has a PIN.
SetPin ==
  /\ On({"SetPin"})
  /\ IF pin
     THEN /\ status' = StoreStatus(pin, session) /\ Stay(flow)
          /\ UNCHANGED <<store, rows>>
     ELSE /\ pin' = TRUE /\ session' = TRUE /\ status' = "unlocked"
          /\ IF Below("unlocked").id = "Fork"
             THEN Go(Naming("Name", None, Below("unlocked").wallet), prior, flow)
             ELSE Go(Below("unlocked"), <<>>, flow)
          /\ UNCHANGED <<disk, rows>>
  /\ UNCHANGED <<listed, held, erased>>

-----------------------------------------------------------------------------
(***************************************************************************)
(* A wallet is made, and kept for a session or saved.                      *)
(***************************************************************************)
MakeFromHome ==
  /\ On({"Home"}) /\ Enter(Plain("Make"), flow)
  /\ UNCHANGED <<store, status, rows, listed, held, erased>>

MakeFromWallets ==
  /\ On({"Wallets"}) /\ \E x \in Slots : rows[x] = None
  /\ Push(Plain("Make"), flow)
  /\ UNCHANGED <<store, status, rows, listed, held, erased>>

\* The same words with another passphrase.
MakeFromWallet ==
  /\ On({"WalletHome"}) /\ screen.stored /\ screen.keys /\ screen.wallet \notin Hidden
  /\ Enter(Plain("Make"), flow)
  /\ UNCHANGED <<store, status, rows, listed, held, erased>>

Made(w) ==
  /\ On({"Make"}) /\ Push(Naming("Fork", None, w), flow)
  /\ UNCHANGED <<store, status, rows, listed, held, erased>>

UseOnce ==
  /\ On({"Fork"}) /\ Enter(WalletHome(0, screen.wallet, FALSE, TRUE), flow)
  /\ UNCHANGED <<store, status, rows, listed, held, erased>>

SaveToDevice ==
  /\ On({"Fork"})
  /\ Push(IF status \in {"locked", "unlocked"}
          THEN Naming("Name", None, screen.wallet) ELSE Plain("SetPin"), flow)
  /\ UNCHANGED <<store, status, rows, listed, held, erased>>

Empty == {x \in Slots : disk[x] = None}

\* answer_persist_wallet: the passphrase is held for the first row of the wallet.
ConfirmSave ==
  /\ On({"Name"})
  /\ LET w == screen.wallet
         d == [disk EXCEPT ![Min(Empty)] = w]
     IN IF session /\ Empty # {}
        THEN /\ disk' = d /\ rows' = d /\ status' = "unlocked"
             /\ Reset(SavedAs(Min(Empty), w), flow)
             /\ held' = IF w \in Hidden
                        THEN held \cup {Min({x \in Slots : d[x] = w})} ELSE held
        ELSE /\ status' = StoreStatus(pin, session) /\ Stay(flow)
             /\ UNCHANGED <<disk, rows, held>>
  /\ UNCHANGED <<pin, session, listed, erased>>

-----------------------------------------------------------------------------
(***************************************************************************)
(* A stored wallet is opened.                                              *)
(***************************************************************************)
\* Mutant: the registrations of the wallet that was open before stay listed.
ListedForBefore(w) == listed

\* install_registrations.
ListedFor(w) == w

\* open_and_install and Ui::open_wallet, on the screen that asked.
OpenWallet(x) ==
  /\ On({"Wallets"}) /\ rows[x] # None /\ disk[x] # None
  /\ LET w == disk[x]
     IN IF w \in Hidden /\ x \notin held
        THEN Push(Naming("PassUnlock", x, w), flow) /\ UNCHANGED listed
        ELSE Push(WalletHome(x, w, TRUE, TRUE), Opened(x, w)) /\ listed' = ListedFor(w)
  /\ UNCHANGED <<store, status, rows, held, erased>>

\* answer_unlock_wallet.  A refusal stays, to be typed again.
UnlockWallet ==
  /\ On({"PassUnlock"}) /\ ~screen.busy
  /\ LET x == screen.slot
         w == disk[x]
     IN /\ w # None
        /\ Enter(WalletHome(x, w, TRUE, TRUE), Opened(x, w))
        /\ listed' = ListedFor(w) /\ held' = held \cup {x}
  /\ UNCHANGED <<store, status, rows, erased>>

\* The store returns an error: Ui::wallet_open_failed is for the wallet list only.
UnlockFails ==
  /\ On({"PassUnlock"}) /\ ~screen.busy
  /\ Enter([screen EXCEPT !.busy = TRUE], flow)
  /\ UNCHANGED <<store, status, rows, listed, held, erased>>

Export ==
  /\ On({"WalletHome"}) /\ screen.keys
  /\ Enter([screen EXCEPT !.id = "Schemes"], flow)
  /\ UNCHANGED <<store, status, rows, listed, held, erased>>

Receive ==
  /\ On({"WalletHome"}) /\ screen.keys /\ Push(Plain("Receive"), flow)
  /\ UNCHANGED <<store, status, rows, listed, held, erased>>

OpenSettings ==
  /\ On({"Wallets"}) /\ Push(Plain("Settings"), flow)
  /\ UNCHANGED <<store, status, rows, listed, held, erased>>

-----------------------------------------------------------------------------
(***************************************************************************)
(* And deleted: flow::delete_wallet and its answer, however it went.       *)
(***************************************************************************)
WalletDelete ==
  /\ On({"WalletHome"}) /\ screen.stored
  /\ Enter(Naming("Erase", screen.slot, screen.wallet), flow)
  /\ UNCHANGED <<store, status, rows, listed, held, erased>>

EraseNow(gone) ==
  /\ On({"Erase"}) /\ Len(prior) <= MaxPrior
  /\ LET x == screen.slot
         d == IF gone THEN [disk EXCEPT ![x] = None] ELSE disk
         f == IF flow.slot = x THEN Closed ELSE flow
     IN /\ disk' = d /\ rows' = d /\ held' = held \ {x}
        /\ listed' = f.wallet
        /\ erased' = IF gone THEN <<screen.wallet, disk[x]>> ELSE erased
        /\ Enter(Plain("Wallets"), f)
  /\ UNCHANGED <<pin, session, status>>

\* flow::recovery_words.
EraseShowWords ==
  /\ On({"Erase"}) /\ disk[screen.slot] # None
  /\ Push(Naming("Words", screen.slot, disk[screen.slot]), flow)
  /\ UNCHANGED <<store, status, rows, listed, held, erased>>

\* The wallet home asks for them too, and drops the answer.
ActWords ==
  /\ On({"WalletHome"}) /\ screen.stored /\ Stay(flow)
  /\ UNCHANGED <<store, status, rows, listed, held, erased>>

-----------------------------------------------------------------------------
(***************************************************************************)
(* A transaction is read from the card, reviewed, signed and delivered.    *)
(***************************************************************************)
\* SignSourceState::open: with several files on the card it is the picker.
ActSign(id) ==
  /\ On({"WalletHome"}) /\ screen.stored /\ screen.keys
  /\ Push(Plain(id), flow)
  /\ UNCHANGED <<store, status, rows, listed, held, erased>>

PickFile ==
  /\ On({"SignSource"}) /\ Enter(Plain("FilePicker"), flow)
  /\ UNCHANGED <<store, status, rows, listed, held, erased>>

PickDirectory ==
  /\ On({"FilePicker"}) /\ Below(status).id # "FilePicker"
  /\ Push(Plain("FilePicker"), flow)
  /\ UNCHANGED <<store, status, rows, listed, held, erased>>

\* read_and_review: whatever the card holds by now, or a refusal.
LoadPsbt(tx) ==
  /\ On({"SignSource", "FilePicker"})
  /\ IF IsOpen /\ tx # None
     THEN Push(Showing("Review", tx), [flow EXCEPT !.loaded = tx])
     ELSE Push(Plain("Refusal"), [flow EXCEPT !.loaded = None])
  /\ UNCHANGED <<store, status, rows, listed, held, erased>>

\* sign: the hold.  A refusal keeps what was loaded.
SignTx(ok) ==
  /\ On({"Review"})
  /\ IF IsOpen /\ flow.loaded # None /\ ok
     THEN Enter(Showing("Deliver", flow.loaded),
                [flow EXCEPT !.loaded = None,
                             !.signed = [tx |-> flow.loaded, by |-> flow.wallet]])
     ELSE Enter(Plain("Refusal"), flow)
  /\ UNCHANGED <<store, status, rows, listed, held, erased>>

\* Mutant: what was signed is kept when the screen is left.
DiscardedKept(f) == f

Discarded(f) == [f EXCEPT !.signed = None]

\* discard_signed, once it is delivered or delivery has failed often enough.  Writing
\* and showing it change nothing here.
DiscardSigned ==
  /\ On({"Deliver"})
  /\ IF flow.signed # None THEN Pop(Discarded(flow)) ELSE Stay(flow)
  /\ UNCHANGED <<store, status, rows, listed, held, erased>>

-----------------------------------------------------------------------------
(***************************************************************************)
(* Multisig registrations (module Wallets has their records).              *)
(***************************************************************************)
ActMultisig ==
  /\ On({"WalletHome"}) /\ screen.stored
  /\ Push(Naming("MultisigList", screen.slot, screen.wallet), flow)
  /\ UNCHANGED <<store, status, rows, listed, held, erased>>

\* read_and_verify.
ImportRegistration(ok) ==
  /\ On({"MultisigList"})
  /\ IF IsOpen /\ ok
     THEN Push(Plain("MultisigImport"), [flow EXCEPT !.pending = TRUE])
     ELSE Push(Plain("Refusal"), [flow EXCEPT !.pending = FALSE])
  /\ UNCHANGED <<store, status, rows, listed, held, erased>>

\* approve: of the refusals some keep what is pending.
Approve(ok, keep) ==
  /\ On({"MultisigImport"})
  /\ IF IsOpen /\ flow.pending /\ ok
     THEN Enter(Plain("MultisigDetail"), [flow EXCEPT !.pending = FALSE])
     ELSE Enter(Plain("Refusal"), [flow EXCEPT !.pending = @ /\ keep])
  /\ listed' = flow.wallet
  /\ UNCHANGED <<store, status, rows, held, erased>>

RegistrationDetail ==
  /\ On({"MultisigList"}) /\ listed # None
  /\ Push(Plain("MultisigDetail"), flow)
  /\ UNCHANGED <<store, status, rows, listed, held, erased>>

DeleteRegistration(ok) ==
  /\ On({"MultisigDetail"})
  /\ IF IsOpen /\ ok THEN Pop(flow) ELSE Stay(flow)
  /\ listed' = flow.wallet
  /\ UNCHANGED <<store, status, rows, held, erased>>

-----------------------------------------------------------------------------
\* Screens whose Back goes to the screen below.
Pops ==
  {"Settings", "SetPin", "Make", "Fork", "Name", "WalletHome", "PassUnlock", "Receive",
   "Erase", "Words", "SignSource", "FilePicker", "Review", "Refusal", "MultisigList",
   "MultisigImport", "MultisigDetail"}

Back ==
  /\ On(Pops) /\ ~screen.busy /\ Pop(flow)
  /\ UNCHANGED <<store, status, rows, listed, held, erased>>

SchemesBack ==
  /\ On({"Schemes"}) /\ Enter([screen EXCEPT !.id = "WalletHome"], flow)
  /\ UNCHANGED <<store, status, rows, listed, held, erased>>

\* A touch that changes nothing.
Touch ==
  /\ session /\ idle' = 0
  /\ UNCHANGED <<store, panel, rows, listed, flow, held, erased>>

Tap ==
  \/ LockSession \/ LockWake \/ PinBack \/ Unsealed \/ Wiped \/ Unreadable \/ SetPin
  \/ MakeFromHome \/ MakeFromWallets \/ MakeFromWallet \/ \E w \in Wallet : Made(w)
  \/ UseOnce \/ SaveToDevice \/ ConfirmSave
  \/ \E x \in Slots : OpenWallet(x)
  \/ UnlockWallet \/ UnlockFails \/ Export \/ Receive \/ OpenSettings
  \/ WalletDelete \/ EraseShowWords \/ ActWords
  \/ \E id \in {"SignSource", "FilePicker"} : ActSign(id)
  \/ PickFile \/ PickDirectory
  \/ \E tx \in Tx \cup {None} : LoadPsbt(tx)
  \/ DiscardSigned \/ ActMultisig \/ RegistrationDetail
  \/ \E ok \in BOOLEAN :
       \/ EraseNow(ok) \/ SignTx(ok) \/ ImportRegistration(ok) \/ DeleteRegistration(ok)
       \/ \E keep \in BOOLEAN : Approve(ok, keep)
  \/ Back \/ SchemesBack \/ Touch

Next == Tap \/ Pass \/ Boot

\* The loop keeps going round.
Spec == Init /\ [][Next]_vars /\ WF_vars(Pass)

-----------------------------------------------------------------------------
(***************************************************************************)
(* Properties.                                                             *)
(***************************************************************************)
\* Once a session is over nothing of it is left: no open wallet, no passphrase, no
\* list, and no screen of a stored wallet to come back to.
SessionLeavesNothing ==
  ~session =>
    /\ flow = Closed /\ held = {} /\ rows = NoRows /\ listed = None
    /\ \A f \in Frames : ~f.stored /\ f.id \notin {"PassUnlock", "Erase", "Words"}

\* A wallet is open only behind its own screens, and of them the panel has one that
\* names its slot and shows it; its keys are never shown for another slot's wallet
\* (main.rs: "a seed alive behind a screen nobody associates with a wallet").
OpenBehindItsScreens ==
  IsOpen =>
    /\ screen.id \in HoldsAWallet
    /\ disk[flow.slot] = flow.wallet
    /\ \E f \in Frames : f.id \in {"WalletHome", "Schemes"} /\ f.stored /\ f.keys
                           /\ f.slot = flow.slot
    /\ \A f \in Frames : f.id \in {"WalletHome", "Schemes"} =>
                           f.slot = flow.slot /\ f.wallet = flow.wallet

\* Behind every screen that signs, or leads there, its wallet is open: what is reviewed
\* is what would be signed, and what is on the delivery screen is what is delivered, of
\* that wallet; nothing that was signed outlives its screen.
SignsWhatIsShown ==
  /\ screen.id \in {"SignSource", "FilePicker", "Review", "Deliver"} => IsOpen
  /\ screen.id = "Review" => flow.loaded = screen.tx
  /\ screen.id = "Deliver" => flow.signed = [tx |-> screen.tx, by |-> flow.wallet]
  /\ flow.signed # None => screen.id = "Deliver"

\* What the screens list is what there is: the wallets are the store's, and the
\* registrations, while a wallet is open, are its own.
ListsAreCurrent == (session => rows = disk) /\ (IsOpen => listed = flow.wallet)

\* A deletion erases the wallet whose screen asked for it and whose name was typed.
DeletesWhatItNames == erased # None => erased[1] = erased[2]

\* A device that nobody touches any more ends the session and keeps nothing of it,
\* whatever was on the panel.
EndsTheSession ==
  <>[][Pass]_vars => <>[](~session /\ flow = Closed /\ held = {} /\ rows = NoRows)

=============================================================================
