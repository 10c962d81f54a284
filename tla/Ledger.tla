-------------------------------- MODULE Ledger ------------------------------
(***************************************************************************)
(* The main counter ledger of notyas-wallet (ledger.rs) under the          *)
(* operations of the vault that commit to it (vault.rs), one flash erase   *)
(* or program per step.  Power may be cut under any step; a step of        *)
(* FaultSteps may also return an error while the power stays on.           *)
(*                                                                         *)
(* Sealing a record is here only as what it does to the ledger: it takes a *)
(* sequence number (reserve_seq).  The records region is one fact, the     *)
(* epochs under which identity 0 has a canary and the store a superblock.  *)
(***************************************************************************)
EXTENDS RotationPair, Sequences, FiniteSets

CONSTANTS
  Identity,     \* identity slots
  First,        \* identity 0
  EntryCells,   \* attempt_entry cells; attempt_success has as many
  TailReserve,  \* rotate at an unlock when this few entry cells are left
  EpochCells, SeqCells, GenCells, PolicyCells,
  Reserve,      \* sequence numbers one seq cell stands for (SEQ_RESERVE)
  FormatAfter,  \* wipe_after of the format policy
  Afters,       \* values of wipe_after the owner may ask for; 0 is "off"
  Ops,          \* operations this instance runs besides mount, format, unlock
  MaxCtr, MaxEpoch, MaxGuesses,  \* bounds of the model
  FaultSteps    \* steps at which a flash access may fail with the power on

Steps == {"off", "scan", "tidy", "mounted", "mirror", "ready",
          "entry", "verify", "settle", "due", "open",
          "seal", "canary", "gen", "policy", "fill", "session", "epoch", "destroy",
          "erase", "head", "mac", "retire", "createA", "createB", "createHead", "createMac"}

ASSUME LedgerAssumption ==
  /\ First \in Identity /\ IsFiniteSet(Identity)
  /\ EntryCells \in Nat \ {0} /\ TailReserve \in Nat
  /\ EpochCells \in Nat \ {0} /\ SeqCells \in Nat \ {0}
  /\ GenCells \in Nat \ {0} /\ PolicyCells \in Nat \ {0}
  /\ Reserve \in Nat \ {0}
  /\ FormatAfter \in Nat \ {0}
  /\ Afters \subseteq Nat
  /\ Ops \subseteq {"write", "gen", "policy", "wipe"}
  /\ MaxCtr \in Nat /\ MaxEpoch \in Nat /\ MaxGuesses \in Nat
  /\ FaultSteps \subseteq Steps

VARIABLES
  pair,      \* flash: the two sectors of the main pair
  canary,    \* flash: epochs under which identity 0 has a sealed canary
  ledger,    \* RAM: LedgerState, or NoLedger
  policy,    \* RAM: the policy in force (Vault.policy)
  nextSeq,   \* RAM: Vault.next_seq
  state,     \* RAM: Vault.state
  session,   \* the epoch of the open session, if there is one
  pc,        \* the step that runs next
  job,       \* what the rotation, the scan or the sealing under way is for
  guesses,   \* ghost: wrong PINs compared since the last right one
  topSeq,    \* ghost: one past the greatest sequence number handed out
  allowed,   \* ghost: the values of wipe_after that may be in force
  adrift     \* ghost: an error has left RAM and flash in disagreement

flash == <<pair, canary>>
ram == <<ledger, policy, nextSeq, state>>
ghost == <<guesses, topSeq, allowed, adrift>>
vars == <<pair, canary, ledger, policy, nextSeq, state, session, pc, job,
          guesses, topSeq, allowed, adrift>>

-----------------------------------------------------------------------------
(***************************************************************************)
(* Data.  A cell of a tick log is "ok" or "torn"; a cell that carries a    *)
(* value also says whether its MAC verifies.                               *)
(***************************************************************************)
TickLog == {"epoch", "seq", "entry", "success"}

Cells == [epoch |-> EpochCells, seq |-> SeqCells,
          entry |-> EntryCells, success |-> EntryCells]

Tick == {"ok", "torn"}

Policy == [after : Nat, gen : Nat]

LedgerHead == [ctr : Nat, epoch : Nat, seq : Nat, fails : Nat,
         gens : [Identity -> Nat], policy : Policy]

GenCell == [ok : BOOLEAN, id : Identity, gen : Nat]

PolicyCell == [ok : BOOLEAN, policy : Policy]

Sector ==
  {Blank, Garbage} \cup
  [kind : {"live"}, head : LedgerHead, ticks : [TickLog -> Seq(Tick)],
   gens : Seq(GenCell), policies : Seq(PolicyCell)]

LedgerState ==
  [side : Side, head : LedgerHead, len : [TickLog -> Nat],
   gens : [Identity -> Nat], genNext : Nat, policyUsed : Nat]

NoLedger == [side |-> "none"]

StrictPolicy(g) == [after |-> FormatAfter, gen |-> g]

NewSector(h) ==
  [kind |-> "live", head |-> h, ticks |-> [f \in TickLog |-> <<>>],
   gens |-> <<>>, policies |-> <<>>]

NewState(s, h, next) ==
  [side |-> s, head |-> h, len |-> [f \in TickLog |-> 0],
   gens |-> h.gens, genNext |-> next, policyUsed |-> 0]

-----------------------------------------------------------------------------
(***************************************************************************)
(* Scanning.                                                               *)
(***************************************************************************)

\* scan_success_log: truncate at the first cell that is not well formed.
SuccessLen(log) ==
  CHOOSE n \in 0 .. Len(log) :
    /\ \A i \in 1 .. n : log[i] = "ok"
    /\ n < Len(log) => log[n + 1] # "ok"

\* scan_tick_log counts every cell, torn ones too; success never outruns entry.
TickLens(ticks) ==
  [f \in TickLog |->
     IF f # "success" THEN Len(ticks[f])
     ELSE IF SuccessLen(ticks[f]) < Len(ticks["entry"])
          THEN SuccessLen(ticks[f]) ELSE Len(ticks["entry"])]

\* scan_pin_gen_log: torn cells are ignored.
GoodCells(sec) == {n \in 1 .. Len(sec.gens) : sec.gens[n].ok}

ScanGens(sec) ==
  [i \in Identity |->
     LET mine == {n \in GoodCells(sec) : sec.gens[n].id = i}
     IN IF mine = {} THEN sec.head.gens[i]
        ELSE sec.gens[CHOOSE n \in mine : \A m \in mine : m <= n].gen]

ScanGenNext(sec) ==
  LET seen == {sec.head.gens[i] : i \in Identity}
              \cup {sec.gens[n].gen : n \in GoodCells(sec)}
  IN 1 + CHOOSE g \in seen : \A h \in seen : h <= g

\* scan_policy_log and resolve_policy: the top cell decides, and if it is torn
\* or out of sequence the strict default is in force.
ScanPolicy(sec) ==
  LET used == Len(sec.policies)
      want == sec.head.policy.gen + used
  IN IF used = 0 THEN sec.head.policy
     ELSE IF sec.policies[used].ok /\ sec.policies[used].policy.gen = want
          THEN sec.policies[used].policy
          ELSE StrictPolicy(want)

Scanned(p) ==
  IF LiveSides(p) = {} THEN NoLedger
  ELSE LET sec == p[Elected(p)]
       IN [side |-> Elected(p), head |-> sec.head, len |-> TickLens(sec.ticks),
           gens |-> ScanGens(sec), genNext |-> ScanGenNext(sec),
           policyUsed |-> Len(sec.policies)]

ScannedPolicy(p) ==
  IF LiveSides(p) = {} THEN StrictPolicy(0) ELSE ScanPolicy(p[Elected(p)])

WipeEpoch(l) == IF l = NoLedger THEN 0 ELSE l.head.epoch + l.len["epoch"]

HighWater(l) == (l.head.seq + l.len["seq"]) * Reserve

Failures(l) ==
  IF l = NoLedger THEN 0 ELSE l.head.fails + l.len["entry"] - l.len["success"]

-----------------------------------------------------------------------------
(***************************************************************************)
(* What the vault makes of a scan.                                         *)
(***************************************************************************)
Formatted(l) == l # NoLedger /\ WipeEpoch(l) \in canary /\ l.gens[First] # 0

\* Mutant: one attempt too many.
OverLimitLate(l, p) == p.after # 0 /\ Failures(l) > p.after

OverLimit(l, p) == p.after # 0 /\ Failures(l) >= p.after

\* classify: a store without a ledger beside records that are not blank is
\* refused.
Classified(l) ==
  IF l = NoLedger /\ canary # {} THEN "inconsistent"
  ELSE IF Formatted(l) THEN "formatted" ELSE "unformatted"

WipeDue == state = "formatted" /\ OverLimit(ledger, policy)

\* check_session, for the epoch.
SessionValid == state = "formatted" /\ WipeEpoch(ledger) \in session

\* Mutant: a count that a rotation carried is left standing.
RotationDueByLength == ledger.len["entry"] + TailReserve >= EntryCells

RotationDue ==
  /\ ledger # NoLedger
  /\ ledger.len["entry"] + TailReserve >= EntryCells \/ ledger.head.fails # 0

Full(f) == ledger.len[f] >= Cells[f]

-----------------------------------------------------------------------------
(***************************************************************************)
(* Flash steps and what each may leave behind if it does not complete.     *)
(***************************************************************************)
Target == Other(ledger.side)

Source == pair[ledger.side]

HeadOf(ctr, seq, fails, p) ==
  [ctr |-> ctr, epoch |-> WipeEpoch(ledger), seq |-> seq, fails |-> fails,
   gens |-> ledger.gens, policy |-> p]

SeqCarried == ledger.head.seq + ledger.len["seq"]

\* Mutants of the head a rotation writes: the failures are not carried, or one
\* too few; the policy is that of the last head; the rotation counter stays;
\* the sequence cells are not folded in.
NextHeadForgives == HeadOf(ledger.head.ctr + 1, SeqCarried, 0, job.install)

NextHeadOneLess == HeadOf(ledger.head.ctr + 1, SeqCarried, job.carry - 1, job.install)

NextHeadOldPolicy == HeadOf(ledger.head.ctr + 1, SeqCarried, job.carry, ledger.head.policy)

NextHeadSameCtr == HeadOf(ledger.head.ctr, SeqCarried, job.carry, job.install)

NextHeadOldSeq == HeadOf(ledger.head.ctr + 1, ledger.head.seq, job.carry, job.install)

NextHead == HeadOf(ledger.head.ctr + 1, SeqCarried, job.carry, job.install)

FirstHead ==
  [ctr |-> 1, epoch |-> 0, seq |-> 0, fails |-> 0,
   gens |-> [i \in Identity |-> 0], policy |-> StrictPolicy(0)]

\* A sector without a head takes a cell without a murmur.
Programmed(sec) ==
  [pair EXCEPT ![ledger.side] = IF Source.kind = "live" THEN sec ELSE Garbage]

\* Cell i of a log: the next one, or one that is there already, whose missing
\* bits are then cleared.
SetCell(log, i, cell) ==
  IF i < Len(log) THEN [log EXCEPT ![i + 1] = cell] ELSE Append(log, cell)

WithTick(f, cell) ==
  Programmed([Source EXCEPT !.ticks[f] = SetCell(@, ledger.len[f], cell)])

\* commit_pin_gen and commit_policy find the first free cell by scanning.
FreeGenCell == Source.kind = "live" => Len(Source.gens) < GenCells

FreePolicyCell == Source.kind = "live" => Len(Source.policies) < PolicyCells

WithGen(cell) == Programmed([Source EXCEPT !.gens = Append(@, cell)])

WithPolicy(cell) == Programmed([Source EXCEPT !.policies = Append(@, cell)])

NewGen == [ok |-> TRUE, id |-> job.id, gen |-> job.gen]

NewPolicy == [ok |-> TRUE, policy |-> job.want]

TornGen == [ok |-> FALSE, id |-> First, gen |-> 0]

TornPolicy == [ok |-> FALSE, policy |-> StrictPolicy(0)]

\* Mutant: the reserve is drawn after the number is used.
ExhaustedLate == nextSeq > HighWater(ledger)

Exhausted == nextSeq >= HighWater(ledger)

\* The tick log the step at pc programs, if it programs one.
TickOf ==
  {f \in TickLog :
     \/ pc = "entry" /\ f = "entry"
     \/ pc = "settle" /\ f = "success" /\ ledger.len[f] < ledger.len["entry"]
     \/ pc = "seal" /\ f = "seq" /\ Exhausted /\ ~Full("seq")
     \/ pc = "epoch" /\ f = "epoch"}

\* A cell that is programmed already is not torn by programming it again.
TornTick(f) ==
  LET again == Source.kind = "live" /\ ledger.len[f] < Len(Source.ticks[f])
  IN {WithTick(f, "ok")} \cup (IF again THEN {} ELSE {WithTick(f, "torn")})

Torn ==
  \/ UNCHANGED pair
  \/ pc = "tidy"       /\ pair' \in ErasedOrTorn(pair, Other(Elected(pair)))
  \/ pc = "erase"      /\ pair' \in ErasedOrTorn(pair, Target)
  \/ pc = "retire"     /\ pair' \in ErasedOrTorn(pair, ledger.side)
  \/ pc = "createA"    /\ pair' \in ErasedOrTorn(pair, "A")
  \/ pc = "createB"    /\ pair' \in ErasedOrTorn(pair, "B")
  \/ pc = "head"       /\ pair' \in HeadBodyOrTorn(pair, Target)
  \/ pc = "createHead" /\ pair' \in HeadBodyOrTorn(pair, "A")
  \/ pc = "mac"        /\ pair' \in HeadMacOrTorn(pair, Target, NewSector(NextHead))
  \/ pc = "createMac"  /\ pair' \in HeadMacOrTorn(pair, "A", NewSector(FirstHead))
  \/ pc = "gen" /\ FreeGenCell       /\ pair' \in {WithGen(TornGen), WithGen(NewGen)}
  \/ pc = "policy" /\ FreePolicyCell /\ pair' \in {WithPolicy(TornPolicy), WithPolicy(NewPolicy)}
  \/ \E f \in TickOf : pair' \in TornTick(f)

\* cleanup, as far as it matters here: the records of other epochs go.
CurrentRecords == canary \cap {WipeEpoch(ledger)}

\* What the records region may hold then.
TornRecords ==
  \/ UNCHANGED canary
  \/ pc = "destroy" /\ canary' = {}
  \/ pc = "mounted" /\ ~WipeDue /\ canary' = CurrentRecords
  \/ pc = "canary" /\ canary' = {WipeEpoch(ledger)}

-----------------------------------------------------------------------------
(***************************************************************************)
(* rotated: the step after the rotation under way; scanned: the step after *)
(* the refresh; sealed: the step after the last of the "left" records to   *)
(* seal.  carry, install: what the rotation puts in the head.  id, gen,    *)
(* want: what the generation or policy cell will hold.  mounting: mount    *)
(* has not returned yet.                                                   *)
(***************************************************************************)
Job == [rotated : Steps, scanned : Steps, sealed : Steps, left : Nat,
        carry : Nat, install : Policy, id : Identity, gen : Nat, want : Policy,
        mounting : BOOLEAN]

NoJob == [rotated |-> "ready", scanned |-> "ready", sealed |-> "ready", left |-> 0,
          carry |-> 0, install |-> StrictPolicy(0), id |-> First, gen |-> 0,
          want |-> StrictPolicy(0), mounting |-> FALSE]

Init ==
  /\ pair = [s \in Side |-> Blank] /\ canary = {}
  /\ ledger = NoLedger /\ policy = StrictPolicy(0) /\ nextSeq = 0 /\ state = "unformatted"
  /\ session = {}
  /\ pc = "off" /\ job = NoJob
  /\ guesses = 0 /\ topSeq = 0 /\ allowed = {FormatAfter} /\ adrift = FALSE

Goto(step, j) == pc' = step /\ job' = IF step = "ready" THEN NoJob ELSE j

\* Go to a step, through a rotation first if the log it needs is full.
Through(full, carry, step, j) ==
  IF full
  THEN Goto("erase", [j EXCEPT !.carry = carry, !.install = policy, !.rotated = step])
  ELSE Goto(step, j)

\* Seal n records, then go on.
Sealing(n, step, j) == [j EXCEPT !.left = n, !.sealed = step]

\* The model starts no operation beyond this number of rotations.
Room == ledger # NoLedger => ledger.head.ctr < MaxCtr

(***************************************************************************)
(* Mount, and the refresh at its heart: elect, complete the rotation that  *)
(* was interrupted, and take over what was scanned.  Without a ledger no   *)
(* record is sealed (NotFormatted).                                       *)
(***************************************************************************)
Adopt ==
  /\ ledger' = Scanned(pair')
  /\ policy' = ScannedPolicy(pair')
  /\ nextSeq' = IF ledger' = NoLedger THEN 0 ELSE HighWater(ledger')
  /\ state' = Classified(ledger')
  /\ Goto(IF ledger' = NoLedger /\ job.scanned \in {"seal", "fill"}
          THEN "ready" ELSE job.scanned, job)
  /\ UNCHANGED <<canary, session, ghost>>

Mount ==
  /\ pc = "off"
  /\ Goto("scan", [NoJob EXCEPT !.scanned = "mounted", !.mounting = TRUE])
  /\ UNCHANGED <<flash, ram, session, ghost>>

Leftover == LiveSides(pair) # {} /\ pair[Other(Elected(pair))] # Blank

Scan == pc = "scan" /\ ~Leftover /\ UNCHANGED pair /\ Adopt

ScanTidy == pc = "scan" /\ Leftover /\ Goto("tidy", job) /\ UNCHANGED <<flash, ram, session, ghost>>

Tidy ==
  /\ pc = "tidy"
  /\ pair' = [pair EXCEPT ![Other(Elected(pair))] = Blank]
  /\ Adopt

\* M8: a store over its limit is wiped before any unlock.  Otherwise the records
\* are cleaned up, and the policy mirror in the superblock may lag, which is for
\* the records to say.
\* Mutant: mount does not look at the limit.
MountedLenient == pc = "mounted" /\ Goto("ready", job) /\ UNCHANGED <<flash, ram, session, ghost>>

Mounted ==
  /\ pc = "mounted"
  /\ \/ WipeDue /\ Through(Full("epoch"), Failures(ledger), "epoch", job)
     \/ ~WipeDue /\ Goto("ready", job)
     \/ ~WipeDue /\ state = "formatted" /\ "policy" \in Ops /\ Room /\ Goto("mirror", job)
  /\ canary' = IF WipeDue THEN canary ELSE CurrentRecords
  /\ UNCHANGED <<pair, ram, session, ghost>>

Mirror ==
  /\ pc = "mirror"
  /\ IF state = "formatted"
     THEN Goto("seal", Sealing(1, "scan", [job EXCEPT !.scanned = "ready"]))
     ELSE Goto("ready", job)
  /\ UNCHANGED <<flash, ram, session, ghost>>

(***************************************************************************)
(* Unlock.                                                                 *)
(***************************************************************************)
ProgramTick(f) ==
  /\ pair' = WithTick(f, "ok")
  /\ ledger' = [ledger EXCEPT !.len[f] = @ + 1]
  /\ UNCHANGED <<canary, policy, nextSeq, state>>

Attempt ==
  /\ pc = "ready" /\ state = "formatted" /\ ~WipeDue
  /\ guesses < MaxGuesses /\ Room
  /\ Through(Full("entry"), Failures(ledger), "entry", NoJob)
  /\ UNCHANGED <<flash, ram, session, ghost>>

CountAttempt ==
  /\ pc = "entry" /\ ~Full("entry")
  /\ ProgramTick("entry")
  /\ Goto("verify", NoJob)
  /\ UNCHANGED <<session, ghost>>

WrongPin ==
  /\ pc = "verify"
  /\ guesses' = guesses + 1
  /\ IF OverLimit(ledger, policy)
     THEN Through(Full("epoch"), Failures(ledger), "epoch", NoJob)
     ELSE Goto("ready", NoJob)
  /\ UNCHANGED <<flash, ram, session, topSeq, allowed, adrift>>

RightPin ==
  /\ pc = "verify"
  /\ guesses' = 0
  /\ Goto("settle", NoJob)
  /\ UNCHANGED <<flash, ram, session, topSeq, allowed, adrift>>

\* catch_up_success, one cell at a time.
CatchUp ==
  /\ pc = "settle" /\ ledger.len["success"] < ledger.len["entry"]
  /\ ProgramTick("success")
  /\ UNCHANGED <<session, pc, job, ghost>>

\* reconcile_policy: the canary is sealed anew if its witness is one behind,
\* which is for the records to say.
Settled ==
  /\ pc = "settle" /\ ledger.len["success"] >= ledger.len["entry"]
  /\ \/ Goto("due", job)
     \/ "policy" \in Ops /\ Room /\ Goto("seal", Sealing(1, "scan", [job EXCEPT !.scanned = "due"]))
  /\ UNCHANGED <<flash, ram, session, ghost>>

DueRotation ==
  /\ pc = "due"
  /\ Through(RotationDue, 0, "open", NoJob)
  /\ UNCHANGED <<flash, ram, session, ghost>>

Open ==
  /\ pc = "open"
  /\ session' = {WipeEpoch(ledger)}
  /\ Goto("ready", job)
  /\ UNCHANGED <<flash, ram, ghost>>

(***************************************************************************)
(* Sealing: reserve_seq advances the high-water mark before it hands out a *)
(* number at or above it.                                                  *)
(***************************************************************************)
Seal ==
  /\ pc = "seal" /\ ~Exhausted
  /\ nextSeq' = nextSeq + 1
  /\ topSeq' = IF nextSeq' > topSeq THEN nextSeq' ELSE topSeq
  /\ IF job.left > 1 THEN Goto("seal", [job EXCEPT !.left = @ - 1])
                     ELSE Goto(job.sealed, [job EXCEPT !.left = 0])
  /\ UNCHANGED <<flash, ledger, policy, state, session, guesses, allowed, adrift>>

SealReserve ==
  /\ pc = "seal" /\ Exhausted /\ ~Full("seq")
  /\ ProgramTick("seq")
  /\ UNCHANGED <<session, pc, job, ghost>>

SealRotate ==
  /\ pc = "seal" /\ Exhausted /\ Full("seq")
  /\ Through(TRUE, Failures(ledger), "seal", job)
  /\ UNCHANGED <<flash, ram, session, ghost>>

\* write and clear.
Write ==
  /\ pc = "ready" /\ "write" \in Ops /\ SessionValid /\ Room
  /\ Goto("seal", Sealing(1, "ready", NoJob))
  /\ UNCHANGED <<flash, ram, session, ghost>>

(***************************************************************************)
(* change_pin of identity 0 and add_identity of the others: a record and a *)
(* canary are sealed under the next generation, then its cell commits them.*)
(* change_pin consumes the session and returns a new one.                  *)
(***************************************************************************)
ChangeGen(i) ==
  /\ pc = "ready" /\ "gen" \in Ops /\ SessionValid /\ Room
  /\ session' = IF i = First THEN {} ELSE session
  /\ Goto("seal", Sealing(IF i = First THEN 2 ELSE 1, "gen",
                          [NoJob EXCEPT !.id = i, !.gen = ledger.genNext,
                             !.scanned = IF i = First THEN "fill" ELSE "ready"]))
  /\ UNCHANGED <<flash, ram, ghost>>

CommitGen ==
  /\ pc = "gen" /\ FreeGenCell
  /\ pair' = WithGen(NewGen)
  /\ ledger' = [ledger EXCEPT !.gens[job.id] = job.gen,
                  !.genNext = IF job.gen < @ THEN @ ELSE job.gen + 1]
  /\ Goto("scan", job)
  /\ UNCHANGED <<canary, policy, nextSeq, state, session, ghost>>

\* The generation log is full and nothing rotates it: Capacity.
GenRefused ==
  /\ pc = "gen" /\ ~FreeGenCell
  /\ Goto("ready", job)
  /\ UNCHANGED <<flash, ram, session, ghost>>

\* fill_unoccupied and the refresh after it.
Fill ==
  /\ pc = "fill"
  /\ Goto("seal", Sealing(1, "scan", [job EXCEPT !.scanned = "session"]))
  /\ UNCHANGED <<flash, ram, session, ghost>>

NewSession ==
  /\ pc = "session"
  /\ session' = {WipeEpoch(ledger)}
  /\ Goto("ready", job)
  /\ UNCHANGED <<flash, ram, ghost>>

(***************************************************************************)
(* set_policy: the policy cell commits, then the canary is sealed with it, *)
(* then the mirror.                                                        *)
(***************************************************************************)
SetPolicy(a) ==
  /\ pc = "ready" /\ "policy" \in Ops /\ SessionValid /\ Room
  /\ a # 0 => a > Failures(ledger)
  /\ Through(ledger.policyUsed >= PolicyCells, Failures(ledger), "policy",
             [NoJob EXCEPT !.want = [after |-> a, gen |-> policy.gen + 1]])
  /\ UNCHANGED <<flash, ram, session, ghost>>

CommitPolicy ==
  /\ pc = "policy" /\ FreePolicyCell
  /\ pair' = WithPolicy(NewPolicy)
  /\ ledger' = [ledger EXCEPT !.policyUsed =
                  IF Source.kind = "live" THEN Len(Source.policies) + 1 ELSE 1]
  /\ policy' = job.want
  /\ allowed' = {job.want.after}
  /\ Goto("seal", Sealing(1, "scan", [NoJob EXCEPT !.scanned = "mirror"]))
  /\ UNCHANGED <<canary, nextSeq, state, session, guesses, topSeq, adrift>>

PolicyRefused ==
  /\ pc = "policy" /\ ~FreePolicyCell
  /\ Goto("ready", job)
  /\ UNCHANGED <<flash, ram, session, ghost>>

(***************************************************************************)
(* Wipe: the epoch cell commits, the records are erased after it, and the  *)
(* store is mounted again.                                                 *)
(***************************************************************************)
Wipe ==
  /\ pc = "ready" /\ "wipe" \in Ops /\ Room
  /\ IF ledger = NoLedger THEN Goto("destroy", NoJob)
     ELSE /\ WipeEpoch(ledger) < MaxEpoch
          /\ Through(Full("epoch"), Failures(ledger), "epoch", NoJob)
  /\ UNCHANGED <<flash, ram, session, ghost>>

BumpEpoch ==
  /\ pc = "epoch" /\ ~Full("epoch")
  /\ ProgramTick("epoch")
  /\ Goto("destroy", job)
  /\ UNCHANGED <<session, ghost>>

\* Mutant: no mount after the wipe.
DestroyOnly ==
  pc = "destroy" /\ canary' = {} /\ Goto("ready", job) /\ UNCHANGED <<pair, ram, session, ghost>>

Destroy ==
  /\ pc = "destroy"
  /\ canary' = {}
  /\ Goto("scan", [job EXCEPT !.scanned = "mounted"])
  /\ UNCHANGED <<pair, ram, session, ghost>>

(***************************************************************************)
(* Format: an existing ledger is rotated, which keeps its epoch; a store   *)
(* that never had one gets a first head.  Then the superblock, the canary, *)
(* the generation if it is new, and the filler.                            *)
(***************************************************************************)
Format ==
  /\ pc = "ready" /\ state = "unformatted" /\ Room
  /\ LET then == [Sealing(2, "canary", NoJob) EXCEPT !.rotated = "scan", !.scanned = "seal"]
     IN IF ledger = NoLedger THEN Goto("createA", then)
        ELSE /\ WipeEpoch(ledger) <= MaxEpoch
             /\ Goto("erase", [then EXCEPT !.install =
                                 StrictPolicy(ledger.head.policy.gen + ledger.policyUsed + 1)])
  /\ guesses' = 0
  /\ UNCHANGED <<flash, ram, session, topSeq, allowed, adrift>>

Formatting == job.sealed = "canary" /\ job.rotated = "scan"

\* The canary of identity 0; its generation is committed only if it is new.
SealCanary ==
  /\ pc = "canary"
  /\ canary' = {WipeEpoch(ledger)}
  /\ LET then == [NoJob EXCEPT !.scanned = "fill", !.gen = ledger.genNext]
     IN IF ledger.gens[First] = 0 THEN Goto("gen", then) ELSE Goto("scan", then)
  /\ UNCHANGED <<pair, ram, session, ghost>>

Erase(s, at, next) ==
  /\ pc = at
  /\ pair' = [pair EXCEPT ![s] = Blank]
  /\ Goto(next, job)
  /\ UNCHANGED <<canary, ram, session, ghost>>

CreateHead ==
  /\ pc = "createHead"
  /\ pair' = [pair EXCEPT !["A"] = Garbage]
  /\ Goto("createMac", job)
  /\ UNCHANGED <<canary, ram, session, ghost>>

CreateMac ==
  /\ pc = "createMac"
  /\ pair' = [pair EXCEPT !["A"] = NewSector(FirstHead)]
  /\ ledger' = NewState("A", FirstHead, 1)
  /\ allowed' = {FormatAfter}
  /\ Goto("scan", job)
  /\ UNCHANGED <<canary, policy, nextSeq, state, session, guesses, topSeq, adrift>>

(***************************************************************************)
(* rotate: erase the target, write its head, erase the source.             *)
(***************************************************************************)
RotateErase ==
  /\ pc = "erase"
  /\ pair' = [pair EXCEPT ![Target] = Blank]
  /\ Goto("head", job)
  /\ UNCHANGED <<canary, ram, session, ghost>>

RotateHead ==
  /\ pc = "head"
  /\ pair' = [pair EXCEPT ![Target] = Garbage]
  /\ Goto("mac", job)
  /\ UNCHANGED <<canary, ram, session, ghost>>

RotateMac ==
  /\ pc = "mac"
  /\ pair' = [pair EXCEPT ![Target] = NewSector(NextHead)]
  /\ allowed' = IF Formatting THEN {FormatAfter} ELSE allowed
  /\ Goto("retire", job)
  /\ UNCHANGED <<canary, ram, session, guesses, topSeq, adrift>>

RotateRetire ==
  /\ pc = "retire"
  /\ pair' = [pair EXCEPT ![ledger.side] = Blank]
  /\ ledger' = NewState(Target, NextHead, ledger.genNext)
  /\ Goto(job.rotated, job)
  /\ UNCHANGED <<canary, policy, nextSeq, state, session, ghost>>

-----------------------------------------------------------------------------
(***************************************************************************)
(* The step at pc does not complete.                                       *)
(***************************************************************************)
Interrupted ==
  /\ Torn /\ TornRecords
  /\ allowed' = allowed \cup (IF pc = "policy" THEN {job.want.after, FormatAfter} ELSE {})
                         \cup (IF pc = "mac" /\ Formatting THEN {FormatAfter} ELSE {})
  /\ UNCHANGED <<guesses, topSeq>>

Cut ==
  /\ pc # "off" /\ Interrupted
  /\ ledger' = NoLedger /\ policy' = StrictPolicy(0) /\ nextSeq' = 0 /\ state' = "unformatted"
  /\ session' = {} /\ adrift' = adrift
  /\ Goto("off", NoJob)

\* The errors after which the ledger in RAM may not be the one on flash, and
\* nothing says so: the old sector of a rotation stands beside the new one, a
\* policy cell may or may not have taken, a format has dropped the ledger it had or
\* has not read back the policy it has installed.
LeavesAdrift ==
  \/ pc \in {"policy", "mac", "retire"}
  \/ pc \in {"erase", "head", "createA", "createB", "createHead", "createMac",
              "scan", "tidy"} /\ Formatting

\* An error return: the operation is abandoned and RAM is as it was, except
\* that format_inner has taken the ledger it rotates or replaces.  Nothing fails
\* after an error that left RAM and flash apart (a bound of the model).
Fault ==
  /\ ~adrift /\ adrift' = LeavesAdrift
  /\ pc \in FaultSteps \ {"off", "mounted", "mirror", "ready", "verify", "due", "open",
                          "fill", "session"}
  /\ Interrupted
  /\ ledger' = IF Formatting /\ pc \in {"erase", "head", "mac", "retire"} THEN NoLedger ELSE ledger
  /\ IF job.mounting THEN Goto("off", NoJob) ELSE Goto("ready", NoJob)
  /\ UNCHANGED <<policy, nextSeq, state, session>>

\* The steps the firmware takes on its own once an operation has begun.
Run ==
  \/ Scan \/ ScanTidy \/ Tidy \/ Mounted \/ Mirror
  \/ CountAttempt \/ WrongPin \/ RightPin \/ CatchUp \/ Settled \/ DueRotation \/ Open
  \/ Seal \/ SealReserve \/ SealRotate \/ Fill \/ NewSession
  \/ CommitGen \/ GenRefused \/ CommitPolicy \/ PolicyRefused
  \/ BumpEpoch \/ Destroy \/ SealCanary
  \/ Erase("A", "createA", "createB") \/ Erase("B", "createB", "createHead")
  \/ CreateHead \/ CreateMac
  \/ RotateErase \/ RotateHead \/ RotateMac \/ RotateRetire

Next ==
  \/ Mount \/ Run
  \/ Attempt \/ Write \/ Wipe \/ Format
  \/ \E i \in Identity : ChangeGen(i)
  \/ \E a \in Afters : SetPolicy(a)
  \/ Cut \/ Fault

Spec == Init /\ [][Next]_vars

\* The firmware mounts when it has power, and runs what it has begun.
FairSpec == Spec /\ WF_vars(Mount) /\ WF_vars(Run)

-----------------------------------------------------------------------------
(***************************************************************************)
(* Properties.                                                             *)
(***************************************************************************)

\* What a mount would make of the flash as it is at this instant.
OnFlash == Scanned(pair)

PolicyOnFlash == ScannedPolicy(pair)

\* Every variable has its type.
TypeOK ==
  /\ pair \in [Side -> Sector]
  /\ canary \subseteq Nat
  /\ ledger \in LedgerState \cup {NoLedger}
  /\ policy \in Policy
  /\ nextSeq \in Nat
  /\ state \in {"unformatted", "formatted", "inconsistent"}
  /\ session \subseteq Nat
  /\ pc \in Steps /\ job \in Job
  /\ guesses \in Nat /\ topSeq \in Nat
  /\ allowed \subseteq Nat
  /\ adrift \in BOOLEAN

\* Every wrong PIN compared since the last right one is in the count a mount
\* would read (vault.rs counted_unlock U4: "the counter is decremented before the
\* verification"; rotation "is therefore not a counter reset").  An error at the
\* second erase of a rotation refutes it.
EveryGuessCharged == Formatted(OnFlash) => guesses <= Failures(OnFlash)

\* It holds whatever was cut, torn, rotated or tried again since, as long as no
\* error has left RAM and flash apart; so do those below that say ~adrift.
GuessesCharged == ~adrift => EveryGuessCharged

\* When an unlock hands out its session the failure count on flash is zero,
\* what interrupted unlocks and torn cells left behind and what an earlier
\* rotation carried included (vault.rs U7: without this the device "slowly
\* accumulates phantom failures until it wipes itself").
SettledAfterUnlock == ~adrift /\ pc = "open" => Failures(OnFlash) = 0

\* A PIN is compared only while the policy on flash leaves an attempt for it.
NoGuessBeyondLimit ==
  ~adrift /\ pc = "verify" /\ PolicyOnFlash.after # 0 => guesses < PolicyOnFlash.after

\* Every sequence number that was handed out is below the high-water mark a
\* mount would read, so none is handed out twice and no mount takes a good
\* record for evidence of a rollback (vault.rs refresh M7, reserve_seq).
SeqNeverReused ==
  ~adrift =>
    /\ OnFlash # NoLedger => topSeq <= HighWater(OnFlash)
    /\ pc = "seal" => nextSeq >= topSeq

\* The wipe policy a mount would put in force is the one last committed, or,
\* until a commit that was interrupted has been repeated, what that commit asked
\* for or the strict default; rotation, cuts and retries install no other
\* (vault.rs set_policy Y4, ledger.rs commit_policy).
PolicyHeld == ~adrift /\ OnFlash # NoLedger => PolicyOnFlash.after \in allowed

\* No caller is handed a store that owes a wipe (vault.rs remount, M8).
RestsUnderLimit ==
  pc = "ready" => ~(Formatted(OnFlash) /\ OverLimit(OnFlash, PolicyOnFlash))

\* Two sides that verify never have the same rotation counter: the election is
\* never ambiguous (ledger.rs scan, TamperKind::LedgerAmbiguous).
ElectionDecided ==
  \A s, t \in LiveSides(pair) : s # t => pair[s].head.ctr # pair[t].head.ctr

\* Between operations RAM is what the next boot would read (vault.rs remount:
\* "a post-operation view can never diverge from what the next boot would see").
ViewIsWhatBootSees ==
  pc = "ready" =>
    /\ OnFlash = ledger
    /\ PolicyOnFlash = policy
    /\ Classified(OnFlash) = state

Store == INSTANCE CounterStore WITH
  exists <- LiveSides(pair) # {},
  epoch  <- WipeEpoch(OnFlash),
  high   <- IF LiveSides(pair) = {} THEN 0 ELSE OnFlash.head.seq + OnFlash.len["seq"],
  fails  <- Failures(OnFlash),
  gens   <- IF LiveSides(pair) = {} THEN [i \in Identity |-> 0]
            ELSE ScanGens(pair[Elected(pair)]),
  policy <- PolicyOnFlash

\* Without transient faults the pair is a store of counters that change one at
\* a time: every erase, program, cut and torn cell is one abstract step or none.
ImplementsStore == Store!Spec

DueOnFlash == Formatted(OnFlash) /\ OverLimit(OnFlash, PolicyOnFlash)

Quiet == <>[][~Cut /\ ~Fault]_vars

\* If the cuts come to an end, a formatted store that is over its limit does not
\* stay so: the wipe is carried out or a right PIN settles the count (vault.rs
\* remount, M8).
DueWipeHappens == Quiet => (DueOnFlash ~> ~DueOnFlash)

=============================================================================
