------------------------------ MODULE Delivery ------------------------------
(***************************************************************************)
(* A signed transaction goes to the card: the delivery screen              *)
(* (notyas-ui, screens/deliver.rs), the write that answers it (firmware,   *)
(* flow/mod.rs) and the sequence of file operations that makes it up       *)
(* (notyas-wallet, sd.rs: deliver): stage, read back, remove, rename.      *)
(* FAT is outside the repository and external: an operation that fails or  *)
(* is cut may have landed, in part or whole.                               *)
(*                                                                         *)
(* A person takes cards out and puts them in, also in the middle of a      *)
(* delivery; a card may return other bytes than it was given; power is     *)
(* cut anywhere.  Every artifact here has the same name, as spend.psbt and *)
(* spend.txt give the same -signed.psbt.                                   *)
(***************************************************************************)
EXTENDS Naturals

CONSTANTS
  Card, Artifact, Theirs,  \* Theirs: of a file that came with the card
  Absent,
  FailuresBeforeOverride,
  MaxHits, MaxSigned       \* bounds: errors and cuts, transactions signed

ASSUME DeliveryAssumption ==
  /\ Theirs \notin Artifact /\ Absent \notin Card
  /\ FailuresBeforeOverride \in Nat \ {0} /\ MaxHits \in Nat /\ MaxSigned \in Nat

VARIABLES
  final,     \* card -> the file with the name of the artifacts
  stage,     \* card -> the file with that name and .part
  inserted,  \* the card in the slot
  shown,     \* DeliverState and Flow.signed
  job,       \* deliver, while it runs
  wrote,     \* ghost: the card that the screen says the transaction is on
  cause,     \* ghost: since the screen came up a card was missing or did wrong
  hits, signed

card == <<final, stage>>
bounds == <<hits, signed>>
vars == <<card, inserted, shown, job, wrote, cause, bounds>>

Whole(a) == [of |-> a, whole |-> TRUE]
Broken(a) == [of |-> a, whole |-> FALSE]

Idle == [step |-> "none"]

NoScreen == [of |-> Absent]

\* DeliverState::new: failures counts only up to the override.
Fresh(a) == [of |-> a, ask |-> FALSE, delivered |-> FALSE, failures |-> 0]

Init ==
  /\ final \in [Card -> {Absent, Whole(Theirs)}] /\ stage = [c \in Card |-> Absent]
  /\ inserted \in Card \cup {Absent} /\ shown = NoScreen /\ job = Idle
  /\ wrote = Absent /\ cause = FALSE /\ hits = 0 /\ signed = 0

-----------------------------------------------------------------------------
(***************************************************************************)
(* The screen.                                                             *)
(***************************************************************************)
Sign(a) ==
  /\ shown = NoScreen /\ signed < MaxSigned /\ signed' = signed + 1
  /\ shown' = Fresh(a) /\ wrote' = Absent /\ cause' = FALSE
  /\ UNCHANGED <<card, inserted, job, hits>>

AtRest == shown # NoScreen /\ job = Idle

Failed == [shown EXCEPT !.failures = IF @ < FailuresBeforeOverride THEN @ + 1 ELSE @]

Mounted(overwrite) ==
  [step |-> "look", replace |-> overwrite, occupied |-> FALSE, card |-> inserted]

\* The card is mounted, or there is none.
Write(overwrite) ==
  IF inserted = Absent
  THEN shown' = [Failed EXCEPT !.ask = FALSE] /\ cause' = TRUE /\ UNCHANGED job
  ELSE /\ job' = Mounted(overwrite) /\ UNCHANGED cause
       /\ shown' = [shown EXCEPT !.ask = FALSE]

\* DeliverSd, DeliverRetry.
Press ==
  /\ AtRest /\ ~shown.ask /\ Write(FALSE)
  /\ UNCHANGED <<card, inserted, wrote, bounds>>

ConfirmOverwrite ==
  /\ AtRest /\ shown.ask /\ Write(TRUE)
  /\ UNCHANGED <<card, inserted, wrote, bounds>>

CancelOverwrite ==
  /\ AtRest /\ shown.ask /\ shown' = [shown EXCEPT !.ask = FALSE]
  /\ UNCHANGED <<card, inserted, job, wrote, cause, bounds>>

\* "My wallet has it", on the QR.
ClaimDelivered ==
  /\ AtRest /\ ~shown.ask /\ ~shown.delivered
  /\ shown' = [shown EXCEPT !.delivered = TRUE]
  /\ UNCHANGED <<card, inserted, job, wrote, cause, bounds>>

\* Mutant: there is no override.
DiscardDelivered ==
  /\ AtRest /\ ~shown.ask /\ shown.delivered
  /\ shown' = NoScreen /\ wrote' = Absent
  /\ UNCHANGED <<card, inserted, job, cause, bounds>>

\* DeliverDone, and the override.
Discard ==
  /\ AtRest /\ ~shown.ask
  /\ shown.delivered \/ shown.failures >= FailuresBeforeOverride
  /\ shown' = NoScreen /\ wrote' = Absent
  /\ UNCHANGED <<card, inserted, job, cause, bounds>>

-----------------------------------------------------------------------------
(***************************************************************************)
(* deliver, one file operation at a time.                                  *)
(***************************************************************************)
At(step) == job.step = step

\* The operation reaches the card that was mounted.
Reached == inserted = job.card

Then(step) == job' = [job EXCEPT !.step = step]

Ends(s) == job' = Idle /\ shown' = s

On(c, f, x) == [f EXCEPT ![c] = x]

\* Mutant: what is there is replaced without asking.
LookAnyway ==
  /\ At("look") /\ Reached
  /\ job' = [job EXCEPT !.step = "litter", !.occupied = final[job.card] # Absent]
  /\ UNCHANGED <<card, inserted, shown, wrote, cause, bounds>>

Look ==
  /\ At("look") /\ Reached
  /\ LET there == final[job.card] # Absent
     IN IF there /\ ~job.replace
        THEN Ends([shown EXCEPT !.ask = TRUE])
        ELSE /\ job' = [job EXCEPT !.step = "litter", !.occupied = there]
             /\ UNCHANGED shown
  /\ UNCHANGED <<card, inserted, wrote, cause, bounds>>

\* Mutant: what an earlier delivery has left is not removed.
LitterKept ==
  /\ At("litter") /\ Reached /\ Then("create")
  /\ UNCHANGED <<card, inserted, shown, wrote, cause, bounds>>

Litter ==
  /\ At("litter") /\ Reached /\ Then("create")
  /\ stage' = On(job.card, stage, Absent)
  /\ UNCHANGED <<final, inserted, shown, wrote, cause, bounds>>

\* create_exclusive: a worn card may keep other bytes.
Create ==
  /\ At("create") /\ Reached
  /\ IF stage[job.card] = Absent
     THEN /\ \/ stage' = On(job.card, stage, Whole(shown.of)) /\ UNCHANGED <<hits, cause>>
             \/ /\ stage' = On(job.card, stage, Broken(shown.of))
                /\ hits < MaxHits /\ hits' = hits + 1 /\ cause' = TRUE
          /\ Then("verify") /\ UNCHANGED shown
     ELSE Ends(Failed) /\ UNCHANGED <<stage, hits, cause>>
  /\ UNCHANGED <<final, inserted, wrote, signed>>

\* Mutant: what was read back is not compared.
MatchesAnything(c) == TRUE

\* The staged bytes are those that were handed in.
Matches(c) == stage[c] = Whole(shown.of)

Verify ==
  /\ At("verify") /\ Reached
  /\ IF Matches(job.card)
     THEN Then(IF job.occupied THEN "remove" ELSE "rename") /\ UNCHANGED shown
     ELSE Ends(Failed)
  /\ UNCHANGED <<card, inserted, wrote, cause, bounds>>

Remove ==
  /\ At("remove") /\ Reached
  /\ IF final[job.card] # Absent
     THEN final' = On(job.card, final, Absent) /\ Then("rename") /\ UNCHANGED shown
     ELSE Ends(Failed) /\ UNCHANGED final
  /\ UNCHANGED <<stage, inserted, wrote, cause, bounds>>

Written == [shown EXCEPT !.delivered = TRUE, !.failures = 0]

\* FatFs does not rename onto a file.
Rename ==
  /\ At("rename") /\ Reached
  /\ IF final[job.card] = Absent
     THEN /\ final' = On(job.card, final, stage[job.card])
          /\ stage' = On(job.card, stage, Absent)
          /\ wrote' = job.card /\ Ends(Written)
     ELSE Ends(Failed) /\ UNCHANGED <<card, wrote>>
  /\ UNCHANGED <<inserted, cause, bounds>>

\* What an operation leaves that returned an error or was cut.
Torn ==
  LET c == job.card
      FS(f, s) == final' = f /\ stage' = s
  IN \/ UNCHANGED card
     \/ At("litter") /\ FS(final, On(c, stage, Absent))
     \/ At("create") /\ stage[c] = Absent /\
        \E x \in {Broken(shown.of), Whole(shown.of)} : FS(final, On(c, stage, x))
     \/ At("remove") /\ FS(On(c, final, Absent), stage)
     \/ At("rename") /\ final[c] = Absent /\
        \E s \in {stage[c], Absent} : FS(On(c, final, stage[c]), On(c, stage, s))

\* Mutant: the error of the rename is dropped.
FailsUnnoticed ==
  /\ job # Idle /\ Reached /\ hits < MaxHits /\ hits' = hits + 1
  /\ Torn /\ cause' = TRUE
  /\ IF At("rename")
     THEN Ends(Written) /\ wrote' = job.card
     ELSE Ends(Failed) /\ UNCHANGED wrote
  /\ UNCHANGED <<inserted, signed>>

Fails ==
  /\ job # Idle /\ Reached /\ hits < MaxHits /\ hits' = hits + 1
  /\ Torn /\ Ends(Failed) /\ cause' = TRUE
  /\ UNCHANGED <<inserted, wrote, signed>>

\* The card is no longer there.
FailsWithoutCard ==
  /\ job # Idle /\ ~Reached /\ Ends(Failed) /\ cause' = TRUE
  /\ UNCHANGED <<card, inserted, wrote, bounds>>

-----------------------------------------------------------------------------
Eject ==
  /\ inserted # Absent /\ inserted' = Absent
  /\ UNCHANGED <<card, shown, job, wrote, cause, bounds>>

\* A card that was out of the slot is mounted again by the next delivery only.
Insert(c) ==
  /\ inserted = Absent /\ (job # Idle => c # job.card) /\ inserted' = c
  /\ UNCHANGED <<card, shown, job, wrote, cause, bounds>>

\* Power is cut; the device is locked, or times out, between deliveries only.
Cut ==
  /\ shown # NoScreen
  /\ IF job = Idle
     THEN UNCHANGED <<card, hits>>
     ELSE hits < MaxHits /\ hits' = hits + 1 /\ IF Reached THEN Torn ELSE UNCHANGED card
  /\ shown' = NoScreen /\ job' = Idle /\ wrote' = Absent
  /\ UNCHANGED <<inserted, cause, signed>>

Step ==
  \/ Look \/ Litter \/ Create \/ Verify \/ Remove \/ Rename \/ Fails \/ FailsWithoutCard

Next ==
  \/ \E a \in Artifact : Sign(a)
  \/ Press \/ ConfirmOverwrite \/ CancelOverwrite \/ ClaimDelivered \/ Discard
  \/ Step \/ Eject \/ Cut
  \/ \E c \in Card : Insert(c)

\* A delivery runs to its end, and the person at the panel keeps at it: answers what
\* is asked, presses again, leaves when that is offered.
Persistence ==
  WF_vars(Step) /\ WF_vars(Press) /\ SF_vars(ConfirmOverwrite) /\ SF_vars(Discard)

Spec == Init /\ [][Next]_vars /\ Persistence

-----------------------------------------------------------------------------
(***************************************************************************)
(* Properties.                                                             *)
(***************************************************************************)
\* "The final name never appears carrying a partial body" (sd.rs), on any card,
\* whatever is cut, refused, taken out or returned wrong.
FinalIsWhole == \A c \in Card : final[c] # Absent => final[c].whole

\* While the screen says that the card has the transaction, the card that was in the
\* slot then has it, under its name.
DeliveredIsThere ==
  shown # NoScreen /\ wrote # Absent /\ job = Idle =>
    \/ final[wrote] = Whole(shown.of)
    \/ shown.failures > 0  \* an overwrite of it failed since

\* A file under the name goes only in a delivery that was let replace it, and what
\* replaces it has been read back from that card.
ReplacedOnRequest ==
  [][\A c \in Card :
       final[c] # Absent /\ final'[c] # final[c] =>
         job.replace /\ final'[c] = Absent /\ stage[c] = Whole(shown.of)]_vars

\* A staging file "is cleared by the next deliver to the same name, so a cut leaves
\* litter rather than a trap": a delivery fails only if since it was signed the card
\* was missing or went wrong, whatever earlier deliveries have left on it.
FailsForCause == shown # NoScreen /\ shown.failures > 0 => cause

\* Someone who keeps at it gets the transaction delivered or is offered to give it up:
\* "no flow ends with one stranded in RAM" (deliver.rs).
NotStranded == shown # NoScreen ~> shown = NoScreen

=============================================================================
