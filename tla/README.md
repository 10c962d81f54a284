# notyas: TLA+ models of the sealed store and the device around it

notyas is an air-gapped Bitcoin signer that runs on an ESP32-P4. What it keeps, it keeps in flash
without a file system, and it is switched off by pulling the cable. The models here are about that:
the code that must hold its promises when any flash access is the last one, or fails. Above the store
they follow the wallets and multisig registrations kept in it, the screens through which a person
reaches them, and the one thing that leaves the device, a signed transaction on a card.

The reference is the Rust source; `PROJECT.json` names, for every definition, the lines it was
translated from.

## 1. The system

### Components, their state, operations and correctness

| component (source) | state | operations | what makes it correct |
|---|---|---|---|
| **Counter ledger, main pair** (`notyas-wallet/src/ledger.rs`) | two flash sectors, each a MACed head and six append-only logs (epoch, seq, attempt_entry, attempt_success, pin generations, policies); the scanned `LedgerState` in RAM | `scan`, `tidy_main_pair`, `create`, `rotate`, `tick_*`, `commit_pin_gen`, `commit_policy` | each counter changes in one indivisible step, whatever is cut; the two sides never tie; RAM agrees with flash |
| **Counter ledger, auxiliary pair** (same file) | two sectors with a boot log and an acknowledgement mark; `AuxState` in RAM | `scan_aux`, `tidy_aux_pair`, `create_aux`, `tick_boot`, `rotate_aux`, `set_acknowledged` | a counted boot is never lost; the mark is never ahead of the count |
| **Vault** (`vault.rs`) | ledger, policy, slot table, superblock, state, next sequence number in RAM | `mount`/`remount`, `format`, `unlock`, `write`, `clear`, `change_pin`, `add_identity`, `set_policy`, `remove_pin`, `wipe`, `record_boot`, `acknowledge_boots` | no guess goes uncounted; no sequence number is reused; a due wipe happens; the policy in force is one that was committed or the strict default |
| **Record slots** (`records.rs`, `slot.rs`) | two flash sides per slot, a header whose MAC is the commit | `write_sealed`, `write_plain`, `read_record`, `erase_side`, election in `refresh`, `cleanup` | a slot is one register: a cut write leaves the old or the new record; nothing of a retired PIN survives |
| **Settings record** (`settings.rs`) | two sectors outside the ledger, CRC and sequence number | `load`, `save`, `clear` | a save is atomic; the previous record survives a torn one |
| **Session, PIN, config** (`session.rs`, `pin.rs`, `config.rs`) | the epoch and generation a session was opened in | `check_session`, validation | a session does not outlive a wipe or a PIN change |
| **Crypto and encoding** (`crypto.rs`, `format.rs`) | none | key derivation, MACs, AEAD, cell and header codecs | pure functions |
| **Flash and MAC seams, simulator** (`hal.rs`, `sim.rs`, `fuzz.rs`) | the two regions; a countdown to a cut | `read`, `write`, `erase_sector` | bits only fall; an erase or a program may be cut |
| **SD layer** (`sd.rs`, `firmware/src/sd`) | a removable FAT volume | `Catalog::scan`, `read`, `deliver` | the final name never carries a partial body; what the screen says of the card is so; litter of an earlier delivery does no harm |
| **Animated QR transport** (`transport/`) | playback position, speed, density | `advance`, `set_density`, part schedules of UR and BBQr | every part is shown; a receiver can finish |
| **Wallet core** (`notyas-core`) | none | BIP-39/32/85, address and PSBT rules, signing | pure functions |
| **User interface** (`notyas-ui`) | a stack of screens, armed holds, a lock deadline | taps, holds, ticks | a screen names the wallet it acts on; locking drops every screen of a stored wallet |
| **Firmware flows** (`firmware/src/main.rs`, `flow/`, `store/`, `session.rs`, `unseal.rs`) | the store owner, the open session, the inactivity timer | unlock, lock, save, erase, format, commands of the UI | mount then `record_boot`; a wallet is open only behind its own screens; the session ends at the lock or by itself |
| **Signing and wallet records** (`firmware/src/signing.rs`, `wallet/`) | wallet and registration records; the transaction under review | save, store a passphrase, register, replace, delete, review, sign | no registration outlives its wallet or serves another; what is signed is what was reviewed |
| **eFuse HMAC, provisioning** (`esp-idf-hmac`) | one key block and its protection bits | burn, protect, verify | the key is never readable nor burnt twice |
| drivers, fonts, host tools | | | not a matter of state |

### How they interact

The firmware is one loop. A pass polls the clock and the touch panel, lets the panel's top screen
turn a tap into a request, answers the request, and closes the open wallet if the panel has left it.
The answer calls the store, which owns one `Vault`; the vault calls the ledger and the record engine,
which call the `Flash` seam. Screen, loop and store know of each other by slot numbers, screen ids and
answers that arrive at whatever screen is showing. Nothing runs concurrently, so the hard behaviours
are not interleavings of threads. They are:

* **power cuts** under any erase or program, with the page half done, and the mount that follows;
* **errors with the power on**: the caller gets `Err`, the RAM image stays, and the user tries again;
* **two copies of a fact**: flash and RAM, ledger and canary and superblock mirror, head and log, the
  store and the lists on the panel, a screen and what the flow holds behind it;
* **several writes to one request**: a wallet and its registrations, a replacement and its rollback;
* **logs at their limit** and the rotations they force in the middle of another operation;
* **ordering**: count before compare, epoch before erase, reserve before use, MAC last, registrations
  before their wallet;
* **reuse** of slots whose numbers are held elsewhere;
* **a session that ends anywhere**, and cards that come and go;
* **liveness**: a wipe that is due and cut each time it is tried, a device left alone, a signed
  transaction that no card takes.

`PROJECT.json` lists them one by one, at the line where each bites, under `hazards`.

## 2. The modules

```
RotationPair          two sectors, election, what a torn erase or program leaves
  |-- BootLog         auxiliary pair: record_boot, acknowledge_boots, scan, tidy, rotate, create
  |     |-- BootCounter        (abstract) a count and a mark
  |     |-- MCBootLog          instance for TLC
  |     `-- BootLogProofs      theorems
  |-- Ledger          main pair under the vault's operations
  |     |-- CounterStore       (abstract) six counters that change one at a time
  |     |-- MCLedger           instance for TLC
  |     `-- LedgerProofs       theorems
  |-- VaultRecords    the A/B slots under the vault's operations, over an abstract ledger
  |     |-- WalletStore        (abstract) slots and PINs that change one at a time
  |     |-- MCVaultRecords     instance for TLC
  |     |-- VaultInvariant     the inductive invariant of the proofs
  |     `-- VaultStepsProofs, VaultRecordsProofs
  |                            each step keeps it; the calls, the cuts and the theorems
  `-- Settings        the settings region under the two user actions that write it
        |-- SettingsRegister   (abstract) the value in force and the one behind it
        |-- MCSettings         instance for TLC
        `-- SettingsProofs     theorems
Wallets               wallet and registration records, over what WalletStore promises
Device                screens, main loop, open wallet and session
Delivery              a signed transaction goes to a card
                      each with its instance for TLC (MC...) and its theorems (...Proofs)
```

The layers meet at what the lower one is shown to implement: Ledger implements CounterStore, whose cells
are the ledger of VaultRecords; VaultRecords implements WalletStore, whose writes are those of Wallets.
Device and Delivery stand beside each other: the delivery screen of Device is the whole of Delivery.

**RotationPair.** A sector is `Blank`, `Garbage` (programmed, but without a head whose MAC verifies)
or live. `Elected` is the choice of `scan`: the live side with the greater rotation counter.
`ErasedOrTorn`, `HeadBodyOrTorn` and `HeadMacOrTorn` are what `sim.rs` lets a cut leave. A torn
erase takes the head first, because the head is the first page of the sector.

**BootLog.** One action per flash access. `pc` is the access that runs next: `record_boot` on a full
log is `RecordBoot`, `RotateErase`, `RotateHead`, `RotateMac`, `RotateRetire`, `TickBoot`. `aux` is the
`AuxState` the vault holds; it changes where the code assigns it, so that a `RotateRetire` that
returns an error leaves it on the old side as `rotate_aux_to` does. `Cut` may happen under every
step and leaves one of the outcomes of `Torn`; `Fault` is the same with an error return instead of a
power cut. A torn cell of a tick log counts as consumed, so a log is its length here.
`formatted` stands for the records region: whether there is a store to count boots for.

**Ledger.** The same discipline for the main pair, whose logs differ in how a torn cell is read:
a torn attempt, epoch or sequence cell counts; the success log stops at it; a torn generation cell
is skipped; a torn top policy cell puts the strict default in force. The vault operations are the
actions that start a `job` and the steps it goes through; `Through` inserts a rotation where the log
a step needs is full. `mount` and the `refresh` at the end of most operations are the same steps
(`Scan`, `ScanTidy`, `Tidy`), as they are one function in the code. The records region is the set of
epochs under which identity 0 has a canary, which is what `classify` and `wipe_is_due` need of it.
`Fault` is an error return with the power on. Some of them leave a ledger in RAM that is not the one on
flash, and no code notices (`LeavesAdrift`: a rotation after its new head, a policy cell, a format up to
the refresh that reads back the policy it has installed); `adrift` remembers that one has happened. Nothing
fails after it, and the properties that such a state breaks are stated as long as it has not: finding 1 and
the first two divergences of section 5 are of them.

Simplifications, each of which only removes detail the ledger does not depend on:

* The session is that of identity 0. `change_pin` of another identity differs by the generation cell.
* A seal is what it does to the ledger: take a sequence number, perhaps after a `seq` cell or a
  rotation. `change_pin` seals two records, `format` two, the filler one.
* Whether `mount` finds the policy mirror stale, and `unlock` the canary, is a nondeterministic choice
  (`Mounted`, `Settled`): it depends on the records, which are in VaultRecords.
* Integers have no width. The logs and the flash wear out long before 2^32.
* The mount's cleanup of records under retired epochs is part of `Mounted`.
* `remove_pin` is `wipe` after a PIN comparison that counts nothing.

**VaultRecords.** The slots. A side is blank, garbage or a record with its epoch, generation, key and
body; `Elect` is the election of `refresh`, over the sides that are candidates under the ledger's epoch
and generations. A call is a *plan*, the sequence of flash steps the code would make from the table in RAM
(`Format`, `Unlock`, `Write`, `Clear`, `ChangePin`, `AddIdentity`, `SetPolicy`, `Wipe`, `Mount`), and an
action for each kind of step runs the head of it. A step that is a loop in the code (`cleanup`, `fill`, the
re-sealing of a PIN change) stays in the plan until nothing is left for it, and takes the next slot from the
table as it is then. `Cut` and `Error` may take the place of any step and
leave one of the outcomes of `Torn`; after an error the caller may go on with the RAM the failed call
left, after a cut it mounts. The ledger under the slots is abstracted to what `ImplementsStore` shows of
it: its cells commit one at a time; a rotation, which may come with any seal, is one step (`Rotate`).
Ghosts: `found` is what the next mount would find in each slot and open with which PIN; `goal` and
`promised` are what the caller may count on. `kept` is that no call was made on a view which an earlier
failed call had left out of step with the flash: of the first such call the model follows the
consequences (that is finding 2), of the second it does not.

**WalletStore.** What the vault promises the code above it: slots of data owned by identities, and one
PIN each, every operation indivisible, as long as `kept`.

**Wallets.** The records of wallets and registrations, on a store whose writes are indivisible under a
cut, which is what `ImplementsWalletStore` shows. A registration names its wallet by payload slot and by
nothing else. A request that takes several writes is a `job` with one action per write; `Cut` may strike
before or after any, and each may return an error (`PutFails`), having landed or not. An error that
landed makes `flash`, what the next mount finds, differ from `view`, what the store reads until then; a
ghost, `sure`, excludes those from the properties about flash, except the erasure of a registration, where
either outcome is in order. Reads that fail are left out.

**Device.** The panel as a stack of screens, the answers that the loop gives, and what the flow and the
pass session hold. A screen carries what the program can tell apart by: the slot and the wallet it names,
whether the wallet is stored, whether it has the keys, the transaction it shows. One action is one pass of
the loop with one tap (or none: `Pass`), its answer and `FlowAfter`, the closing of the flow. The sheets a
screen lays over itself are part of the tap they let through; dice, words, passphrase and quiz are one
screen. `Boot` is a cut. `disk` is the store, one wallet per payload slot; what writes and errors do to it
is in Wallets.

**Delivery.** `deliver` one file operation at a time, with the screen in front of it and two cards. FAT is
external: an operation that fails or is cut may have landed in part (`Torn`). The card may be taken out or
exchanged between any two operations; a card may keep other bytes than it was given. `Persistence` is the
person: presses again, answers the question, leaves when the screen lets them.

**BootCounter, CounterStore.** What the two pairs are *for*: a handful of numbers that change one at
a time. `ImplementsCounter` and `ImplementsStore` say that under the mapping "what a mount would read
now" every flash step, cut and torn cell is one abstract step or none.

**Settings.** The two sectors of the settings region, `SettingsRegion::save` and `clear` one access at a
time, and around them what the firmware does: load the record, change one of its two values, save it,
and answer the interface. A record is live when header and CRC verify; the header is programmed last, so
anything less reads as garbage. `ReadFaults` lets a read return an error, which the firmware's `load`
answers with the defaults. `asked` is a ghost: per setting, the value last reported as stored and those
asked for since. `MaxSeq` stands for `u32::MAX` and is all that bounds the model. A device without a
settings partition is left out: it has no state.

**SettingsRegister.** The value a load returns, and the one before it, which is what a clear that is cut
between its two erases brings back.

## 3. The runs

| run | properties | what it shows | distinct states |
|---|---|---|---|
| `boot_log` | `TypeOK`, `BootsNeverForgotten`, `ImplementsCounter` | with power cuts under every flash step the auxiliary pair is an atomic counter with a mark, and no boot that was reported is lost | 3,893 |
| `boot_log_faults` | `ElectionDecided`, `MarkWithinCount` | with errors on top, the election is decided by the counter and the mark stays behind the count | 32,460 |
| `settings` | `TypeOK`, `StoredIsRead`, `OnlyWhatWasAsked`, `ImplementsRegister` | with cuts under every access and errors of erases and programs, the settings region is a register that a save changes in one step and only a clear empties, and nothing brings back a value that was replaced | 40,146 |
| `ledger` | seven invariants | with cuts and errors at every step and retries of what failed: no guess uncounted or beyond the limit, no phantom failure after a right PIN, no sequence number reused, no policy that nobody committed (each until an error has set RAM adrift), and the two sides never tie | 1,080,410 |
| `ledger_store` | `ImplementsStore`, `DueWipeHappens`, `RestsUnderLimit`, `ViewIsWhatBootSees` | with cuts alone every step of the main pair is one change of one counter; a store is handed out under its limit and as the next boot would see it; a due wipe is carried out or settled once the cuts stop | 41,993 |
| `vault_records` | `NothingLost`, `ViewIsWhatBootSees`, `FlashTellsNothing`, `ValidSessionsSeal`, `NoFalseTamper`, `ImplementsWalletStore` | with a cut or an error at any step of three calls: every slot and PIN is what the caller may count on, nothing old or empty shows on flash, a session that is let through seals what its PIN opens, after one cut or error the store of a single identity is not taken for tampered with, and the slots are an indivisible store | 410,885 |
| `wallets` | `NoOrphans`, `OpenIsApproved`, `AnswersHold`, `HeldOpens` | with cuts and refusals between any two writes: a registration is always of an approved wallet, the answers are true after the next mount, a held passphrase belongs to the wallet in its slot | 879,455 |
| `device` | `SessionLeavesNothing`, `OpenBehindItsScreens`, `SignsWhatIsShown`, `ListsAreCurrent`, `EndsTheSession` | over every path through the screens: what is open, shown, signed and listed agree, and a session ends with nothing left, also by itself | 56,461 |
| `delivery` | `FinalIsWhole`, `DeliveredIsThere`, `ReplacedOnRequest`, `FailsForCause`, `NotStranded` | whatever is cut, refused, exchanged or returned wrong: whole files only under the name, a true screen, no trap in the litter, and an end for who keeps at it | 357,720 |
| `ledger_retire` | `EveryGuessCharged` (violated) | finding 1 | |
| `vault_wipe` | `WipedNeverOpens` (violated) | finding 2 | |
| `device_wrong_slot` | `DeletesWhatItNames` (violated) | finding 3 | |

That `SettledAfterUnlock` and `NoGuessBeyondLimit` need `~adrift` shows on larger instances only: with
`EntryCells = 4`, `TailReserve = 0`, `MaxCtr = 4` and an error of the second erase of a rotation, an unlock
settles the log of the side that lost the election; with `PolicyCells = 2` and an error at a policy cell that
landed, RAM goes on guessing under the policy that was replaced. The proofs of section 4 hold for all sizes and
led there.

**Bounds.** The logs are one to three cells, so that each fills, and fills in the middle of another
operation; two identities, so that generations are compared; `FormatAfter = 2` and
`Afters` of 0 and 3, so that the policy is tightened, relaxed and switched off; one to three rotations
(`MaxCtr`), enough for A to B and back while the leftovers of an earlier rotation are in the pair;
one wipe (`MaxEpoch`), guesses up to the largest limit. `MaxCtr`, `MaxEpoch`, `MaxBoots` and
`MaxGuesses` are guards of the actions that *start* an operation: one that has begun always runs to its
end. The ledger instance of `ledger_store` leaves out the plain write, whose only effect on the ledger is
the sealing that the other operations contain. The settings instance has three names and two networks, and
four saves until the sequence numbers run out, so that each side is written twice and the refusal is
reached.

`vault_records` starts from a store that was never used, or one with two identities; three calls
(`MaxCalls`; unlocks and mounts are not counted) and one cut or error (`MaxHits`), so that a call, what
went wrong in it, its repetition and a look at the result fit; a generation log of two cells, so that the
third PIN change finds it full; two user slots, so that a PIN change re-seals one and has the other ahead.
`PinSymmetry` is sound: no definition chooses among PINs. `vault_wipe` needs one identity only.
`wallets` has two payload and two registry slots, one phrase with and without a passphrase (two wallets
that share words), one multisig wallet both are members of, two saves and two cuts or errors (`MaxSaves`,
`MaxHits`): a replacement whose installation and whose rollback both fail, and a slot that is freed and
used again. `device` has two slots, two wallets of which one has a passphrase, and two transactions, so
that what is shown and what is signed can differ; `IdleLimit = 1`; `MaxPrior = 2` stops deletions from
leaving ever more wallet lists below the top screen, which they do in the code, and bounds nothing else.
`delivery` has two cards and two artifacts of one name, two errors and two signings.

**Deadlock** is checked everywhere: the power can always be cut, and a device that is off mounts.

**Fairness.** `FairSpec` of Ledger (`ledger_store`): weak fairness of `Mount`, since the firmware mounts
as soon as it runs, and of `Run`, since it is one thread that carries on with what it has begun. No
operation the user starts is fair. `DueWipeHappens` assumes that cuts come to an end (`Quiet`); without
that a wipe can be cut for ever. Device: weak fairness of `Pass`, since the loop polls the clock whatever
the panel shows; `EndsTheSession` assumes that from some point nobody touches the panel. Delivery: weak
fairness of `Step`, a call that runs to its end, and, for a person who does not give up, of `Press`, with strong
fairness of `ConfirmOverwrite` and `Discard`, which that person may be kept from by what happens in between.
`NotStranded` is about that person; someone who declines every overwrite and scans no QR code stays on
the screen, as the code intends.

## 4. The proofs

`BootLogProofs` proves, for every number of cells, boots and rotations:

| theorem | states | assumes |
|---|---|---|
| `TypeCorrect` | `Spec => []TypeOK` | |
| `BootsKept` | `Spec => []BootsNeverForgotten` | no flash errors |
| `BootLogIsCounter` | `Spec => ImplementsCounter` | no flash errors |
| `ElectionIsDecided` | `Spec => []ElectionDecided` | |
| `MarkIsBehind` | `Spec => []MarkWithinCount` | |

`BootLogAssumption` is the only assumption on the constants, and `Faults = FALSE` for the two theorems
that the second half of finding 1 refutes otherwise.

*The argument.* `TypeOK` is not inductive: that a rotation may read the head of `aux` follows from
where it is. `Typed` adds, per step, that `aux` is there when the step uses it and that the log is not
yet full. Without errors, `Synced` adds that RAM is in step with flash: what `aux` says is what the
sector holds, and the target is blank, garbage or the new head according to how far the rotation got.
The lemma `StepIsTorn` then says that the flash after a completed step is one of the outcomes of
`Torn`: a completed step is nothing a cut may not leave too. So the refinement is proved once, for
`Torn` (`TornCounts`), and holds for steps and cuts alike. With errors `Synced` fails (finding 1); what remains is `Ordered`: distinct rotation counters, a mark within each head's base, and a
RAM head that is the head on its side. That is enough for the last two theorems.

`SettingsProofs` proves, for all names, networks and numbers of saves, with errors of erases and programs:

| theorem | states | assumes |
|---|---|---|
| `SettingsTyped` | `Spec => []TypeOK` | |
| `StoredMeansRead` | `Spec => []StoredIsRead` | |
| `SettingsAreRegister` | `Spec => ImplementsRegister` | |
| `SettingsAreAsked` | `Spec => []OnlyWhatWasAsked` | no read errors (section 5) |

*The argument.* `Saving`: while a save is under way its target is the side that lost on the flash *as it is
now*, and its sequence number is the next one; an erase or a program of that side leaves both unchanged
(`TargetIsFree`), and the header that follows wins (`HeaderWins`). An erase by `clear` takes the record
that is read, or the one behind it (`ClearTakesOne`). Cuts, errors and completed steps are again all
outcomes of `Torn`. `AskInv` adds that the record under way was asked for.

`LedgerProofs` proves, for all sizes of the logs, reserves, limits, policies and identities, with cuts anywhere
and, but for the last three, errors at any steps:

| theorem | states | |
|---|---|---|
| `TypeCorrect` | `Spec => []TypeOK` | |
| `ElectionIsDecided` | `Spec => []ElectionDecided` | whatever RAM holds |
| `EveryGuessIsCharged` | `Spec => []GuessesCharged` | until `adrift` |
| `UnlockSettles` | `Spec => []SettledAfterUnlock` | until `adrift` |
| `GuessesAreLimited` | `Spec => []NoGuessBeyondLimit` | until `adrift` |
| `SeqsAreFresh` | `Spec => []SeqNeverReused` | until `adrift` |
| `PolicyIsHeld` | `Spec => []PolicyHeld` | until `adrift` |
| `ViewIsBoots` | `Spec => []ViewIsWhatBootSees` | no flash errors |
| `RestIsUnderLimit` | `Spec => []RestsUnderLimit` | no flash errors |
| `LedgerIsStore` | `Spec => ImplementsStore` | no flash errors |

*The argument.* `IInv == Base /\ (~adrift => Agreed)`. `Base` holds through every error. It adds to the types
`Flow`, where a `job` may lead (a step that needs the ledger has it; a retire finds the head it wrote), and
`Behind`: the sector has of each log at most one cell more than RAM has counted, and of a success log only the
last cell can be bad. That is what makes a torn cell harmless: a rotation never folds more successes than
attempts. `Agreed` is what the errors of `LeavesAdrift` break. `FlashAnswers`: the
sector that is elected accounts for every guess, every sequence number and a policy that is allowed.
`RamAgrees`: so does RAM, which may settle or count on top of it. `AgreedAt` says step by step
what the operations rely on: the other side is not live before a rotation reaches its `retire`, the rotation
carries at least the guesses, the policy in force is that of the sector, there is room for one more failure when
an attempt is counted, and after a right PIN nothing is left to settle. `TornKeeps` proves once that each outcome
of `Torn` leaves the flash in order; cuts and errors both rest on it. `LedgerAssumption` bounds nothing; it asks that
the identities be finitely many, as they are an array in the code, since a scan takes the greatest generation.

The last three assume `FaultSteps = {}`, cuts anywhere but no error with the power on; an error of
`LeavesAdrift` refutes each. `Clean` then makes `Agreed` exact: RAM is the record a scan of its side returns
(`Exact`), the state is what `classify` makes of it (`Told`), the next generation is one above one in force
(`GensFollow`), and an identity with a canary has failures below the limit at every step but those that are about
to look (`LimitedAt`). `TornOutcomes` sorts what any step may leave, completed or cut, into five kinds:
nothing, a side that is not elected loses its head, one more cell, the head of a rotation, the first head.
`Moved` says for each how the counters of the sector that is elected may change, and `MovedIsStep` that each such
change is a step of `CounterStore`.

`WalletsProofs`, for any slots, phrases, memberships and numbers of saves, cuts and errors:

| theorem | states |
|---|---|
| `RegistrationsHaveWallets` | `Spec => []NoOrphans` |
| `OpenWalletsAreApproved` | `Spec => []OpenIsApproved` |
| `AnswersAreTrue` | `Spec => []AnswersHold` |
| `HeldPassphrasesOpen` | `Spec => []HeldOpens` |

*The argument.* None of the four is inductive: a write in a registry slot is right because of what an earlier
step of the same request found. `AtWork` says what each kind of job relies on at its next write (the slot of a
seal is free, a replacement has written in no other slot, a deletion has still to erase every registration it
sees), `Mirrors` that the view is the flash but for an erasure that landed and reported an error. With these every
write is `Sound` (`SealIsSound` ... `DeleteIsSound`): a registration it writes is backed, a wallet it erases has no
registration left. A sound write keeps the registry right if it lands (`SoundLands`), if it is
cut (`SoundIsCut`), and if it fails with or without landing (`FailureLands`). `ValuesAssumption` says that `None`,
`Free` and `Opaque` are none of the values they stand beside.

`DeviceProofs`, for any slots, wallets and transactions and every depth of the stack:

| theorem | states |
|---|---|
| `NothingIsLeft` | `Spec => []SessionLeavesNothing` |
| `OpenIsShown` | `Spec => []OpenBehindItsScreens` |
| `SignedIsShown` | `Spec => []SignsWhatIsShown` |
| `ListsStayCurrent` | `Spec => []ListsAreCurrent` |

*The argument.* Going back shows a screen that was pushed long before, so the invariant is about the whole
stack. `Shape`: which screens lie on which (only those from which one is pushed lie below; one that is shown
over an open wallet has its home screen beneath). `Fits`: what each screen in the stack, seen or not, says of the open
wallet and the session. `Shows`: what the one on top says of the transaction. `StoreAgrees` and `FlowAgrees`
tie the panel's lists and the open wallet to the store. A push, a replacement, a return and a reset each have
one lemma (`PushMoves`, `EnterMoves`, `PopMoves`, `StartsOver`); the actions cite them.

`VaultStepsProofs` and `VaultRecordsProofs`, for any slots, identities, PINs, data and policies, every size of the
generation log and any number of calls, cuts and errors:

| theorem | states |
|---|---|
| `NothingIsLost` | `Spec => []NothingLost` |
| `ViewIsBoots` | `Spec => []ViewIsWhatBootSees` |
| `FlashIsSilent` | `Spec => []FlashTellsNothing` |
| `SessionsSeal` | `Spec => []ValidSessionsSeal` |
| `NoOneDistrusted` | `Spec => []NoFalseTamper` |
| `VaultIsStore` | `Spec => ImplementsWalletStore` |

*The argument.* What the flash amounts to is a function of the records that are elected (`FoundOf`), so the
invariant (module `VaultInvariant`) speaks of those. `Owned`: each of them opens, a canary under a PIN, user data
under the canary of the identity whose generation it carries, everything else under the filler key; no two
identities share a generation. `SessOK`: a session of the current epoch and generation has the key of its identity.
With that the flash is as promised at every step (`Universal`). That alone is not inductive, because a step
is right only because of the steps before it. A call is the sequence of its steps, so the invariant reads what is
left of it: `Phase` lists the points a call can be at. At most of them the call settles (`Settle`): nothing is left
to do that changes what the flash amounts to, RAM agrees with the flash or is read anew first, and there is a cleanup
to come if there is something to clean. At the others the next step is a commit, the program of a record or the
cell of a generation, a policy or an epoch, and the phase says what the flash will amount to once it has landed, that
this is promised, and that `WalletStore` allows it (`Ahead`). A PIN change is the longest of them: while records are
re-sealed none of the new sides is elected, as their generation is not committed, and when it is they all are,
and none of the old ones (`Moved`, `Resealing`, `Canary`, `Commit`). `Atrest` is what a call that succeeded leaves.

`VaultStepsProofs` has a lemma for each action of `Step`; `VaultRecordsProofs` one for each call, and for
`Cut` and `Error`: what such a step leaves is what was there, what the step makes of it, or a torn side, cell or head
that no mount elects (`TornSame`, `TornThere`, `TornAway`). Each lemma also concludes `Allowed(found, found')`, that
`WalletStore` has such a step, so the refinement is proved along with the invariant. `VaultAssumption` and
`NamesAssumption` are assumed: the identities are finitely many numbers of which `First` is the least, and slots, keys
and plaintexts can be told apart. All claims end where `kept` does (section 5, finding 2).

`NoOneDistrusted` needs a second invariant beside it, `JInv`: as long as there is one identity, and not more than one
call was cut or failed, how far the policy in its canary may be behind the one in the ledger (`Near`). It is one
behind between the two writes of a policy change, and after a cut or an error there; and then the next unlock seals
it anew before anything else may change the policy. So the invariant again reads what is left of the call, of which
only the steps count that tell of a policy (`Telling`: the first canary sealed under a PIN, a policy, a new head):
what is sealed is the policy that will be in force by then (`Witnessing`, `Entered`), a policy is written only
where a canary with it is still to follow (`Changing`), a new head only over a canary that format is to replace (`Heading`). Most
steps and calls tell of nothing and have this from a few lemmas (`Quiet`, `QuietTail`, `CallQuiet`); a cut or an error
uses up the one that is allowed (`BehindIs`).

`DeliveryProofs`, for any cards, artifacts and numbers of errors:

| theorem | states |
|---|---|
| `FinalNamesAreWhole` | `Spec => []FinalIsWhole` |
| `DeliveredStays` | `Spec => []DeliveredIsThere` |
| `FailuresHaveCause` | `Spec => []FailsForCause` |
| `ReplacedWhenAsked` | `Spec => ReplacedOnRequest`, an action property |

*The argument.* `Underway`: each operation finds on its card what the ones before it left (a staging file that is
whole or a cause for its not being so, no file of the name before the rename). `Kept`: what the screen says was
delivered is there, but in the moment between the removal and the rename.

Every inductive invariant was first checked by TLC on the instances of section 3.

*Only model-checked.* Liveness, which the prover does not do: `DueWipeHappens`, `EndsTheSession`,
`NotStranded`. `EveryGuessCharged`, `WipedNeverOpens` and `DeletesWhatItNames` are false (section 5).

## 5. Findings

1. **A guess is not counted after a rotation whose second erase failed** (`ledger_retire`). `rotate`
   (ledger.rs) commits the new head, then returns the error of the erase of the old side before it assigns
   the new state. The retried unlock counts its attempt in the side that lost the election. `rotate_aux_to`
   has the same shape: with `Faults = TRUE`, `BootsNeverForgotten` fails, as the next `acknowledge_boots`
   erases the elected side.
2. **A wiped store opens until the next mount** (`vault_wipe`). `wipe` bumps the epoch and then erases; when
   an erase returns an error, `erase_all_records` leaves table, superblock and state in RAM and `wipe`
   returns before its remount. The old PIN then opens the canary of the past epoch and a session is handed
   out, although the comment of `wipe_inner` says that such a record "can never be elected or opened".
3. **A wallet that was just saved is deleted by the wrong slot** (`device_wrong_slot`). `NameState::saved`
   gives the wallet home slot 0 "until [the embedder] answers", but the answer changes the list, not the
   screen. Saved into slot 1 and deleted from the screen that the save led to, it is the wallet in slot 0
   that is erased, under the name that was typed for the other.

The first two need a flash access that returns an error while the power stays on; the third needs nothing.

Where the code also departs from its comments, or from what one would expect, and no run asks:

* A `set_policy` whose cell landed but reported an error is repeated at the next index with the same
  generation; the scan wants consecutive ones, so the next mount puts the strict default in force
  (ledger.rs:589). `PolicyHeld` is stated without such an error (`adrift`).
* `format_inner` takes the ledger out of the vault before `rotate` can fail; a repeated format then creates
  one over it and the wipe epoch starts at zero (vault.rs:935).
* When the region cannot be read, the firmware's `load` of the settings answers the defaults, and the save
  that follows stores them over the other setting (firmware/src/settings.rs:222).
* A device name whose save failed is not in force, although the comment of `answer_set_device_name` says it
  is (ui.rs:641, main.rs:1794).
* A `change_pin` that fails at its commit cell reports that the old PIN is valid, as it is on flash, while the
  table in RAM has the new sides (vault.rs:1501). The caller that mounts first is safe; `kept` says so.
* Filler that a cut kept from being written is not written by the next mount, although `format_inner` says so
  (vault.rs:1003); only another PIN change or format writes it. `FlashTellsNothing` excludes it (`gap`).
* A superblock that did not read back is left where it is, unlike a sealed record (records.rs, `write_plain`);
  it may win the next election.
* A registration whose replacement was rolled back can be imported once more, and gets a second slot
  (flow/mod.rs:1083 warns of it and asks for a lock).
* A storage error under a typed passphrase goes to `wallet_open_failed`, which only the wallet list takes: the
  unlock screen keeps waiting until the session times out (main.rs:1385 says that the panel "must not be
  left on it").
* After a save, the registrations on the panel are those of the wallet that was open before, until another
  is opened.
* "View recovery words" on the wallet home shows none: the firmware reads them and answers, and the wallet home
  takes the answer as having been shown elsewhere (`answered`, screens/wallet.rs:671); only the erase screen
  pushes the words (screens/erase.rs:374). ui.rs:967 says "The words are pushed onto the navigation stack inside
  the screen that shows them". In `Device` this is `ActWords`, which leaves the panel as it is.
* The question whether to overwrite names a file, not a card: answered after the card was exchanged it
  overwrites the file of that name on the other.

## 6. Not modelled, and what could follow

* The settings screens (device name, wipe policy, verification of the device), card listing, card
  formatting and the export of an address: each is one request and one answer that holds nothing of a wallet.
* `Playback`: the position, speed and density of an animated QR code.
* The eFuse key: burn, protect, verify. The peripheral is external and the sequence runs once per device.

Left out for good: the wallet core, which is by far the largest part of the repository's program, crypto
and encodings (functions over byte strings and curve points: there is nothing for a model checker to
enumerate that resembles their inputs), the layout, text and drawing of the screens, drivers, boards, fonts and
host tools (no states worth checking, or not part of the device program). This is why the mapped lines are a small share
of all lines.
