--------------------------- MODULE DeliveryProofs ---------------------------
(***************************************************************************)
(* Theorems about Delivery, for any number of cards and transactions,      *)
(* however often an operation fails, power is cut or a card is changed.    *)
(***************************************************************************)
EXTENDS Delivery, TLAPS

USE DeliveryAssumption

File == {Absent} \cup [of : Artifact \cup {Theirs}, whole : BOOLEAN]

Screens == [of : Artifact, ask : BOOLEAN, delivered : BOOLEAN, failures : Nat]

Steps == {"look", "litter", "create", "verify", "remove", "rename"}

Jobs == [step : Steps, replace : BOOLEAN, occupied : BOOLEAN, card : Card]

-----------------------------------------------------------------------------
(***************************************************************************)
(* The inductive invariant.  Every operation of deliver relies on what the *)
(* ones before it have found or left on the card, and nothing but the      *)
(* delivery writes to the card that it has mounted.                        *)
(***************************************************************************)
Typed ==
  /\ final \in [Card -> File] /\ stage \in [Card -> File]
  /\ inserted \in Card \cup {Absent}
  /\ shown \in {NoScreen} \cup Screens /\ job \in {Idle} \cup Jobs
  /\ wrote \in Card \cup {Absent} /\ cause \in BOOLEAN
  /\ hits \in Nat /\ signed \in Nat

Underway ==
  LET c == job.card
  IN /\ shown # NoScreen
     /\ job.step \in {"litter", "create", "verify"} =>
          (job.occupied <=> final[c] # Absent) /\ (job.occupied => job.replace)
     /\ job.step = "create" => stage[c] = Absent
     /\ job.step = "verify" => stage[c] = Whole(shown.of) \/ cause
     /\ job.step \in {"remove", "rename"} => stage[c] = Whole(shown.of)
     /\ job.step = "remove" => final[c] # Absent /\ job.replace
     /\ job.step = "rename" => final[c] = Absent

\* The file that is replaced is gone before the new one has its name.
Replacing(c) == job # Idle /\ job.step = "rename" /\ job.card = c

Kept ==
  wrote # Absent =>
    /\ shown # NoScreen
    /\ final[wrote] = Whole(shown.of) \/ shown.failures > 0 \/ Replacing(wrote)

IInv == Typed /\ FinalIsWhole /\ FailsForCause /\ (job # Idle => Underway) /\ Kept

-----------------------------------------------------------------------------
(* Types. *)

\* What a screen and a delivery are told by.
LEMMA Told ==
  /\ NoScreen \notin Screens /\ Idle \notin Jobs
  /\ Idle.step \notin Steps
<1>1. NoScreen \notin Screens
  <2>1. SUFFICES ASSUME NoScreen \in Screens PROVE FALSE
    OBVIOUS
  <2>2. DOMAIN NoScreen = {"of"} /\ "ask" \in DOMAIN NoScreen
    BY <2>1 DEF NoScreen, Screens
  <2> QED BY <2>2
<1>2. Idle \notin Jobs
  BY DEF Idle, Jobs, Steps
<1>3. Idle.step \notin Steps
  BY DEF Idle, Steps
<1> QED BY <1>1, <1>2, <1>3

LEMMA FilesTyped ==
  ASSUME NEW a \in Artifact \cup {Theirs}
  PROVE  /\ Whole(a) \in File /\ Broken(a) \in File
         /\ Whole(a).whole
BY DEF File, Whole, Broken

\* A delivery at one of its operations is under way.
LEMMA Running ==
  ASSUME Typed, job # Idle \/ \E s \in Steps : At(s)
  PROVE  /\ job # Idle /\ job \in Jobs /\ job.card \in Card
         /\ shown # NoScreen => shown \in Screens /\ shown.of \in Artifact
BY Told DEF Typed, At, Jobs, Screens

\* What the screen shows after a delivery has failed.
LEMMA FailedTyped ==
  ASSUME shown \in Screens
  PROVE  Failed \in Screens /\ Failed.of = shown.of /\ Failed.failures > 0
BY DEF Failed, Screens, DeliveryAssumption

LEMMA Initially == ASSUME Init PROVE IInv
<1>1. Typed
  BY FilesTyped DEF Init, Typed, File
<1>2. FinalIsWhole
  BY FilesTyped DEF Init, FinalIsWhole
<1> QED BY <1>1, <1>2 DEF Init, IInv, FailsForCause, Kept

-----------------------------------------------------------------------------
(* The screen. *)

LEMMA SignKeeps == ASSUME IInv, NEW a \in Artifact, Sign(a) PROVE IInv'
<1>1. Fresh(a) \in Screens /\ Fresh(a).failures = 0
  BY DEF Fresh, Screens
<1>2. job = Idle
  BY DEF Sign, IInv, Underway
<1>3. Typed'
  <2>1. shown' \in Screens /\ wrote' \in Card \cup {Absent} /\ cause' \in BOOLEAN /\ signed' \in Nat
    <3>1. shown' = Fresh(a) /\ wrote' = Absent
      BY DEF Sign
    <3>2. cause' \in BOOLEAN
      BY DEF Sign
    <3>3. signed' \in Nat
      BY DEF Sign, IInv, Typed
    <3> QED BY <1>1, <3>1, <3>2, <3>3
  <2>2. UNCHANGED <<final, stage, inserted, job, hits>>
    BY DEF Sign, card
  <2>3. Typed
    BY DEF IInv
  <2> QED BY <2>1, <2>2, <2>3 DEF Typed
<1> QED BY <1>1, <1>2, <1>3 DEF Sign, IInv, FinalIsWhole, FailsForCause, Kept, card

\* A delivery that starts, or finds no card.
LEMMA WriteKeeps ==
  ASSUME IInv, AtRest, NEW o \in BOOLEAN, Write(o), UNCHANGED <<card, inserted, wrote, bounds>>
  PROVE  IInv'
<1>1. shown \in Screens
  BY DEF IInv, Typed, AtRest
<1>2. CASE inserted = Absent
  <2>1. Failed \in Screens /\ Failed.of = shown.of /\ Failed.failures > 0
    BY <1>1, FailedTyped
  <2>2. shown' \in Screens /\ shown'.of = shown.of /\ shown'.failures > 0 /\ cause' /\ job' = Idle
    BY <1>2, <2>1 DEF Write, AtRest, Screens
  <2> QED BY <1>1, <2>2, Told
       DEF IInv, Typed, FinalIsWhole, FailsForCause, Kept, card, bounds
<1>3. CASE inserted # Absent
  <2>1. /\ shown' \in Screens /\ shown'.of = shown.of /\ shown'.failures = shown.failures
        /\ cause' = cause
    BY <1>1, <1>3 DEF Write, Screens
  <2>2. job' \in Jobs /\ job'.step = "look"
    <3>1. job' = Mounted(o) /\ inserted \in Card
      BY <1>3 DEF Write, IInv, Typed
    <3>2. "look" \in Steps
      BY DEF Steps
    <3> QED BY <3>1, <3>2 DEF Mounted, Jobs
  <2>3. Typed'
    BY <2>1, <2>2 DEF IInv, Typed, card, bounds
  <2>4. FinalIsWhole' /\ FailsForCause'
    BY <1>1, <2>1, Told DEF IInv, FinalIsWhole, FailsForCause, card
  <2>5. Underway'
    BY <2>1, <2>2, Told DEF Underway
  <2>6. Kept'
    BY <1>1, <2>1, Told DEF IInv, Kept, Replacing, AtRest, card
  <2> QED BY <2>3, <2>4, <2>5, <2>6 DEF IInv
<1> QED BY <1>2, <1>3

LEMMA PressKeeps == ASSUME IInv, Press \/ ConfirmOverwrite PROVE IInv'
BY WriteKeeps DEF Press, ConfirmOverwrite

LEMMA AnswerKeeps == ASSUME IInv, CancelOverwrite \/ ClaimDelivered PROVE IInv'
<1>1. shown \in Screens /\ job = Idle
  BY DEF IInv, Typed, CancelOverwrite, ClaimDelivered, AtRest
<1>2. shown' \in Screens /\ shown'.of = shown.of /\ shown'.failures = shown.failures
  BY <1>1 DEF CancelOverwrite, ClaimDelivered, Screens
<1>3. UNCHANGED <<card, inserted, job, wrote, cause, bounds>>
  BY DEF CancelOverwrite, ClaimDelivered
<1> QED BY <1>1, <1>2, <1>3, Told
     DEF IInv, Typed, FinalIsWhole, FailsForCause, Kept, Replacing, card, bounds

LEMMA DiscardKeeps == ASSUME IInv, Discard PROVE IInv'
BY DEF Discard, AtRest, IInv, Typed, FinalIsWhole, FailsForCause, Kept, card, bounds

-----------------------------------------------------------------------------
(* The operations of deliver. *)

\* A delivery that ends with an error has spoilt nothing.
LEMMA FailureKeeps ==
  ASSUME IInv, job # Idle, Ends(Failed), cause', Typed', FinalIsWhole', wrote' = wrote
  PROVE  IInv'
<1>1. shown \in Screens
  BY Running, Told DEF IInv, Underway
<1>2. shown' \in Screens /\ shown'.failures > 0 /\ job' = Idle
  BY <1>1, FailedTyped DEF Ends
<1> QED BY <1>2, Told DEF IInv, FailsForCause, Kept

LEMMA EndTyped ==
  ASSUME IInv, job # Idle
  PROVE  /\ shown \in Screens /\ Failed \in Screens /\ Underway
         /\ job \in Jobs /\ job.card \in Card /\ shown.of \in Artifact
BY Running, FailedTyped, Told DEF IInv, Underway

LEMMA LookKeeps == ASSUME IInv, Look PROVE IInv'
<1> DEFINE c == job.card
<1>1. At("look") /\ job # Idle /\ "look" \in Steps
  BY Told DEF Look, At, Steps
<1>2. shown \in Screens /\ job \in Jobs /\ c \in Card
  BY <1>1, EndTyped
<1>3. UNCHANGED <<card, inserted, wrote, cause, bounds>>
  BY DEF Look
<1>4. CASE final[c] # Absent /\ ~job.replace
  <2>1. job' = Idle /\ shown' = [shown EXCEPT !.ask = TRUE]
    BY <1>4 DEF Look, Ends
  <2>2. shown' \in Screens /\ shown'.of = shown.of /\ shown'.failures = shown.failures
    BY <1>2, <2>1 DEF Screens
  <2>3. wrote # Absent => final[wrote] = Whole(shown.of) \/ shown.failures > 0
    BY <1>1 DEF IInv, Kept, Replacing, At
  <2> QED BY <1>2, <1>3, <2>1, <2>2, <2>3, Told
       DEF IInv, Typed, FinalIsWhole, FailsForCause, Kept, card, bounds
<1>5. CASE final[c] = Absent \/ job.replace
  <2>1. /\ job' = [job EXCEPT !.step = "litter", !.occupied = final[c] # Absent]
        /\ shown' = shown
    BY <1>5 DEF Look
  <2>2. /\ job' \in Jobs /\ job'.step = "litter" /\ job'.card = c /\ job'.replace = job.replace
        /\ job'.occupied <=> final[c] # Absent
    BY <1>2, <2>1 DEF Jobs, Steps
  <2>3. Typed'
    BY <1>3, <2>1, <2>2 DEF IInv, Typed, card, bounds
  <2>4. Underway'
    BY <1>2, <1>3, <1>5, <2>1, <2>2, Told DEF Underway, card
  <2>5. Kept'
    BY <1>1, <1>3, <2>1 DEF IInv, Kept, Replacing, At, card
  <2>6. FinalIsWhole' /\ FailsForCause'
    BY <1>3, <2>1 DEF IInv, FinalIsWhole, FailsForCause, card
  <2> QED BY <2>3, <2>4, <2>5, <2>6 DEF IInv
<1> QED BY <1>4, <1>5

\* An operation that goes on to the next one and leaves the screen alone.
LEMMA NextOperation ==
  ASSUME IInv, job # Idle, NEW s \in Steps, Then(s), Typed', FinalIsWhole', Underway',
         shown' = shown, wrote' = wrote, cause => cause',
         wrote # Absent =>
           final'[wrote] = Whole(shown.of) \/ shown.failures > 0 \/ Replacing(wrote)'
  PROVE  IInv'
<1>1. FailsForCause'
  BY DEF IInv, FailsForCause
<1>2. Kept'
  BY DEF IInv, Kept
<1> QED BY <1>1, <1>2 DEF IInv

\* Where Then leads.
LEMMA ThenAt ==
  ASSUME job \in Jobs, NEW s \in Steps, Then(s)
  PROVE  /\ job' \in Jobs /\ job'.step = s /\ job'.card = job.card
         /\ job'.occupied = job.occupied /\ job'.replace = job.replace
         /\ job' # Idle
BY Told DEF Then, Jobs

\* Before a rename, what the screen says is on a card is there.
LEMMA StillThere ==
  ASSUME IInv, job # Idle, job.step # "rename", wrote # Absent
  PROVE  final[wrote] = Whole(shown.of) \/ shown.failures > 0
BY DEF IInv, Kept, Replacing

LEMMA LitterKeeps == ASSUME IInv, Litter PROVE IInv'
<1> DEFINE c == job.card
<1>1. At("litter") /\ job # Idle /\ "create" \in Steps /\ Then("create")
  BY Told DEF Litter, At, Steps
<1>2. job \in Jobs /\ c \in Card /\ Underway
  BY <1>1, EndTyped
<1>3. /\ job' \in Jobs /\ job'.step = "create" /\ job'.card = c
      /\ job'.occupied = job.occupied /\ job'.replace = job.replace
  BY <1>1, <1>2, ThenAt
<1>4. stage' \in [Card -> File] /\ stage'[c] = Absent
  <2>1. stage \in [Card -> File] /\ stage' = [stage EXCEPT ![c] = Absent] /\ Absent \in File
    BY DEF Litter, On, IInv, Typed, File
  <2> QED BY <1>2, <2>1
<1>5. UNCHANGED <<final, inserted, shown, wrote, cause, bounds>>
  BY DEF Litter
<1>6. Typed'
  BY <1>3, <1>4, <1>5 DEF IInv, Typed, bounds
<1>7. FinalIsWhole'
  BY <1>5 DEF IInv, FinalIsWhole
<1>8. Underway'
  BY <1>1, <1>2, <1>3, <1>4, <1>5 DEF Underway, At
<1>9. wrote # Absent => final'[wrote] = Whole(shown.of) \/ shown.failures > 0
  BY <1>1, <1>5, StillThere DEF At
<1> QED BY <1>1, <1>5, <1>6, <1>7, <1>8, <1>9, NextOperation

LEMMA CreateKeeps == ASSUME IInv, Create PROVE IInv'
<1> DEFINE c == job.card
<1>1. At("create") /\ job # Idle /\ "verify" \in Steps
  BY Told DEF Create, At, Steps
<1>2. job \in Jobs /\ c \in Card /\ Underway /\ shown.of \in Artifact
  BY <1>1, EndTyped
<1>3. stage[c] = Absent
  BY <1>1, <1>2 DEF Underway, At
<1>4. /\ Then("verify") /\ UNCHANGED <<final, inserted, shown, wrote, signed>>
      /\ \/ stage' = On(c, stage, Whole(shown.of)) /\ UNCHANGED <<hits, cause>>
         \/ stage' = On(c, stage, Broken(shown.of)) /\ hits' = hits + 1 /\ cause' = TRUE
  BY <1>3 DEF Create
<1>5. /\ job' \in Jobs /\ job'.step = "verify" /\ job'.card = c
      /\ job'.occupied = job.occupied /\ job'.replace = job.replace
  BY <1>1, <1>2, <1>4, ThenAt
<1>6. stage' \in [Card -> File] /\ (stage'[c] = Whole(shown.of) \/ cause')
  <2>1. stage \in [Card -> File] /\ Whole(shown.of) \in File /\ Broken(shown.of) \in File
    BY <1>2, FilesTyped DEF IInv, Typed
  <2> QED BY <1>2, <1>4, <2>1 DEF On
<1>7. hits' \in Nat /\ cause' \in BOOLEAN /\ (cause => cause')
  <2>1. hits \in Nat /\ cause \in BOOLEAN
    BY DEF IInv, Typed
  <2>2. hits' \in Nat
    BY <1>4, <2>1
  <2>3. cause' \in BOOLEAN
    BY <1>4, <2>1
  <2>4. cause => cause'
    BY <1>4
  <2> QED BY <2>2, <2>3, <2>4
<1>8. Typed'
  BY <1>4, <1>5, <1>6, <1>7 DEF IInv, Typed
<1>9. FinalIsWhole'
  BY <1>4 DEF IInv, FinalIsWhole
<1>10. Underway'
  BY <1>1, <1>2, <1>4, <1>5, <1>6 DEF Underway, At
<1>11. wrote # Absent => final'[wrote] = Whole(shown.of) \/ shown.failures > 0
  BY <1>1, <1>4, StillThere DEF At
<1> QED BY <1>1, <1>4, <1>7, <1>8, <1>9, <1>10, <1>11, NextOperation

LEMMA VerifyKeeps == ASSUME IInv, Verify PROVE IInv'
<1> DEFINE c == job.card
<1>1. At("verify") /\ job # Idle /\ "remove" \in Steps /\ "rename" \in Steps
  BY Told DEF Verify, At, Steps
<1>2. job \in Jobs /\ c \in Card /\ Underway /\ Failed \in Screens
  BY <1>1, EndTyped
<1>3. UNCHANGED <<final, stage, inserted, wrote, cause, bounds>>
  BY DEF Verify, card
<1>4. FinalIsWhole'
  BY <1>3 DEF IInv, FinalIsWhole
<1>5. CASE Matches(c)
  <2>1. PICK s \in {"remove", "rename"} :
          Then(s) /\ (s = "remove" <=> job.occupied) /\ shown' = shown
    <3>1. CASE job.occupied
      BY <1>5, <3>1 DEF Verify
    <3>2. CASE ~job.occupied
      BY <1>5, <3>2 DEF Verify
    <3> QED BY <3>1, <3>2
  <2>2. /\ job' \in Jobs /\ job'.step = s /\ job'.card = c
        /\ job'.occupied = job.occupied /\ job'.replace = job.replace
    BY <1>1, <1>2, <2>1, ThenAt
  <2>3. Typed'
    BY <1>3, <2>1, <2>2 DEF IInv, Typed, bounds
  <2>4. stage[c] = Whole(shown.of)
    BY <1>5 DEF Matches
  <2>5. Underway'
    BY <1>1, <1>2, <1>3, <2>1, <2>2, <2>4 DEF Underway, At
  <2>6. wrote # Absent => final'[wrote] = Whole(shown.of) \/ shown.failures > 0
    BY <1>1, <1>3, StillThere DEF At
  <2> QED BY <1>1, <1>3, <1>4, <2>1, <2>3, <2>5, <2>6, NextOperation
<1>6. CASE ~Matches(c)
  <2>1. Ends(Failed)
    BY <1>6 DEF Verify
  <2>2. cause
    BY <1>1, <1>2, <1>6 DEF Underway, Matches, At
  <2>3. Typed'
    BY <1>2, <1>3, <2>1 DEF Ends, IInv, Typed, bounds
  <2> QED BY <1>1, <1>3, <1>4, <2>1, <2>2, <2>3, FailureKeeps
<1> QED BY <1>5, <1>6

LEMMA RemoveKeeps == ASSUME IInv, Remove PROVE IInv'
<1> DEFINE c == job.card
<1>1. At("remove") /\ job # Idle /\ "rename" \in Steps
  BY Told DEF Remove, At, Steps
<1>2. job \in Jobs /\ c \in Card /\ Underway
  BY <1>1, EndTyped
<1>3. final[c] # Absent /\ stage[c] = Whole(shown.of)
  BY <1>1, <1>2 DEF Underway, At
<1>4. /\ final' = On(c, final, Absent) /\ Then("rename")
      /\ UNCHANGED <<stage, inserted, shown, wrote, cause, bounds>>
  BY <1>3 DEF Remove
<1>5. /\ job' \in Jobs /\ job'.step = "rename" /\ job'.card = c /\ job' # Idle
      /\ job'.occupied = job.occupied /\ job'.replace = job.replace
  BY <1>1, <1>2, <1>4, ThenAt
<1>6. /\ final' \in [Card -> File] /\ final'[c] = Absent
      /\ \A d \in Card \ {c} : final'[d] = final[d]
  <2>1. final \in [Card -> File] /\ Absent \in File
    BY DEF IInv, Typed, File
  <2> QED BY <1>2, <1>4, <2>1 DEF On
<1>7. Typed'
  BY <1>4, <1>5, <1>6 DEF IInv, Typed, bounds
<1>8. FinalIsWhole'
  BY <1>6 DEF IInv, FinalIsWhole
<1>9. Underway'
  BY <1>2, <1>3, <1>4, <1>5, <1>6 DEF Underway
<1>10. wrote # Absent =>
         final'[wrote] = Whole(shown.of) \/ shown.failures > 0 \/ Replacing(wrote)'
  <2>1. CASE wrote = c
    BY <1>4, <1>5, <2>1 DEF Replacing
  <2>2. CASE wrote # c
    BY <1>1, <1>6, <2>2, StillThere DEF At, IInv, Typed
  <2> QED BY <2>1, <2>2
<1> QED BY <1>1, <1>4, <1>7, <1>8, <1>9, <1>10, NextOperation

LEMMA RenameKeeps == ASSUME IInv, Rename PROVE IInv'
<1> DEFINE c == job.card
<1>1. At("rename") /\ job # Idle
  BY Told DEF Rename, At, Steps
<1>2. job \in Jobs /\ c \in Card /\ Underway /\ shown \in Screens /\ shown.of \in Artifact
  BY <1>1, EndTyped
<1>3. final[c] = Absent /\ stage[c] = Whole(shown.of)
  BY <1>1, <1>2 DEF Underway, At
<1>4. /\ final' = On(c, final, stage[c]) /\ stage' = On(c, stage, Absent)
      /\ wrote' = c /\ job' = Idle /\ shown' = Written
      /\ UNCHANGED <<inserted, cause, bounds>>
  BY <1>3 DEF Rename, Ends
<1>5. shown' \in Screens /\ shown'.of = shown.of /\ shown'.failures = 0
  BY <1>2, <1>4 DEF Written, Screens
<1>6. /\ final' \in [Card -> File] /\ final'[c] = Whole(shown.of)
      /\ stage' \in [Card -> File]
      /\ \A d \in Card \ {c} : final'[d] = final[d]
  <2>1. final \in [Card -> File] /\ stage \in [Card -> File] /\ Absent \in File
    BY DEF IInv, Typed, File
  <2> QED BY <1>2, <1>3, <1>4, <2>1 DEF On
<1>7. Typed'
  BY <1>2, <1>4, <1>5, <1>6 DEF IInv, Typed, bounds
<1>8. FinalIsWhole'
  BY <1>2, <1>6, FilesTyped DEF IInv, FinalIsWhole
<1>9. FailsForCause' /\ Kept'
  BY <1>4, <1>5, <1>6, Told DEF FailsForCause, Kept
<1> QED BY <1>4, <1>7, <1>8, <1>9 DEF IInv

-----------------------------------------------------------------------------
(* Errors, cuts and cards that are changed. *)

\* Whatever an operation has done when it is cut, a file of the final name is whole.
LEMMA TornKeeps ==
  ASSUME IInv, job # Idle, Torn
  PROVE  /\ final' \in [Card -> File] /\ stage' \in [Card -> File]
         /\ FinalIsWhole'
<1> DEFINE c == job.card
<1>1. /\ job \in Jobs /\ c \in Card /\ Underway /\ shown.of \in Artifact
      /\ final \in [Card -> File] /\ stage \in [Card -> File] /\ FinalIsWhole
      /\ Absent \in File
  BY EndTyped DEF IInv, Typed, File
<1>2. CASE UNCHANGED card
  BY <1>1, <1>2 DEF card, FinalIsWhole
<1>3. CASE At("litter") /\ final' = final /\ stage' = On(c, stage, Absent)
  BY <1>1, <1>3 DEF On, FinalIsWhole
<1>4. ASSUME NEW x \in {Broken(shown.of), Whole(shown.of)}, final' = final,
             stage' = On(c, stage, x)
      PROVE  final' \in [Card -> File] /\ stage' \in [Card -> File] /\ FinalIsWhole'
  <2>1. x \in File
    BY <1>1, FilesTyped
  <2> QED BY <1>1, <1>4, <2>1 DEF On, FinalIsWhole
<1>5. CASE final' = On(c, final, Absent) /\ stage' = stage
  BY <1>1, <1>5 DEF On, FinalIsWhole
<1>6. ASSUME At("rename"), NEW s \in {stage[c], Absent}, final' = On(c, final, stage[c]),
             stage' = On(c, stage, s)
      PROVE  final' \in [Card -> File] /\ stage' \in [Card -> File] /\ FinalIsWhole'
  <2>1. stage[c] = Whole(shown.of) /\ stage[c] \in File /\ s \in File
    BY <1>1, <1>6 DEF Underway, At
  <2>2. final'[c] = Whole(shown.of) /\ \A d \in Card \ {c} : final'[d] = final[d]
    BY <1>1, <1>6, <2>1 DEF On
  <2>3. FinalIsWhole'
    BY <1>1, <2>2, FilesTyped DEF FinalIsWhole
  <2> QED BY <1>1, <1>6, <2>1, <2>3 DEF On
<1> QED BY <1>2, <1>3, <1>4, <1>5, <1>6 DEF Torn

LEMMA FailsKeeps == ASSUME IInv, Fails \/ FailsWithoutCard PROVE IInv'
<1>1. /\ job # Idle /\ Ends(Failed) /\ cause' = TRUE
      /\ UNCHANGED <<inserted, wrote, signed>>
  BY DEF Fails, FailsWithoutCard, bounds
<1>2. hits' \in Nat
  BY DEF Fails, FailsWithoutCard, bounds, IInv, Typed
<1>3. final' \in [Card -> File] /\ stage' \in [Card -> File] /\ FinalIsWhole'
  BY TornKeeps DEF Fails, FailsWithoutCard, card, IInv, Typed, FinalIsWhole
<1>4. Failed \in Screens
  BY <1>1, EndTyped
<1>5. Typed'
  <2>1. cause' \in BOOLEAN
    BY <1>1
  <2>2. shown' \in Screens /\ job' = Idle
    BY <1>1, <1>4 DEF Ends
  <2> QED BY <1>1, <1>2, <1>3, <2>1, <2>2 DEF IInv, Typed
<1> QED BY <1>1, <1>3, <1>5, FailureKeeps

LEMMA SlotKeeps == ASSUME IInv, Eject \/ \E c \in Card : Insert(c) PROVE IInv'
<1>1. inserted' \in Card \cup {Absent} /\ UNCHANGED <<card, shown, job, wrote, cause, bounds>>
  BY DEF Eject, Insert
<1>2. Typed'
  BY <1>1 DEF IInv, Typed, card, bounds
<1>3. FinalIsWhole' /\ FailsForCause' /\ Kept'
  BY <1>1 DEF IInv, FinalIsWhole, FailsForCause, Kept, Replacing, card
<1>4. job' # Idle => Underway'
  BY <1>1 DEF IInv, Underway, card
<1> QED BY <1>2, <1>3, <1>4 DEF IInv

LEMMA CutKeeps == ASSUME IInv, Cut PROVE IInv'
<1>1. /\ shown' = NoScreen /\ job' = Idle /\ wrote' = Absent
      /\ UNCHANGED <<inserted, cause, signed>>
  BY DEF Cut
<1>2. hits' \in Nat
  BY DEF Cut, IInv, Typed
<1>3. final' \in [Card -> File] /\ stage' \in [Card -> File] /\ FinalIsWhole'
  <2>1. CASE UNCHANGED card
    BY <2>1 DEF card, IInv, Typed, FinalIsWhole
  <2>2. CASE job # Idle /\ Torn
    BY <2>2, TornKeeps
  <2> QED BY <2>1, <2>2 DEF Cut
<1>4. Typed'
  BY <1>1, <1>2, <1>3 DEF IInv, Typed
<1> QED BY <1>1, <1>3, <1>4 DEF IInv, FailsForCause, Kept

-----------------------------------------------------------------------------
LEMMA StepKeeps == IInv /\ [Next]_vars => IInv'
<1> SUFFICES ASSUME IInv, [Next]_vars PROVE IInv'
  OBVIOUS
<1>1. ASSUME NEW a \in Artifact, Sign(a) PROVE IInv'
  BY <1>1, SignKeeps
<1>2. CASE Press \/ ConfirmOverwrite
  BY <1>2, PressKeeps
<1>3. CASE CancelOverwrite \/ ClaimDelivered
  BY <1>3, AnswerKeeps
<1>4. CASE Discard
  BY <1>4, DiscardKeeps
<1>5. CASE Step
  BY <1>5, LookKeeps, LitterKeeps, CreateKeeps, VerifyKeeps, RemoveKeeps, RenameKeeps,
     FailsKeeps DEF Step
<1>6. CASE Eject \/ \E c \in Card : Insert(c)
  BY <1>6, SlotKeeps
<1>7. CASE Cut
  BY <1>7, CutKeeps
<1>8. CASE UNCHANGED vars
  BY <1>8 DEF vars, card, bounds, IInv, Typed, FinalIsWhole, FailsForCause, Underway, Kept,
     Replacing
<1> QED BY <1>1, <1>2, <1>3, <1>4, <1>5, <1>6, <1>7, <1>8 DEF Next

\* Every state that can be reached satisfies the invariant.
THEOREM Invariant == Spec => []IInv
<1> QED BY Initially, StepKeeps, PTL DEF Spec

\* A file of the final name is whole on every card, though power is cut, an operation
\* fails or the card is taken out anywhere in deliver.
THEOREM FinalNamesAreWhole == Spec => []FinalIsWhole
<1>1. IInv => FinalIsWhole
  BY DEF IInv
<1> QED BY <1>1, Invariant, PTL

\* While the screen says that a card has the transaction, it does.
THEOREM DeliveredStays == Spec => []DeliveredIsThere
<1>1. IInv => DeliveredIsThere
  BY DEF IInv, Kept, Replacing, DeliveredIsThere
<1> QED BY <1>1, Invariant, PTL

\* A delivery does not fail because of what an earlier one has left on the card.
THEOREM FailuresHaveCause == Spec => []FailsForCause
<1>1. IInv => FailsForCause
  BY DEF IInv
<1> QED BY <1>1, Invariant, PTL

-----------------------------------------------------------------------------
\* No step takes a file from a card but a delivery that was let replace it, and only
\* when what replaces it was read back whole.
Replaces == \A c \in Card :
  final[c] # Absent /\ final'[c] # final[c] =>
    job.replace /\ final'[c] = Absent /\ stage[c] = Whole(shown.of)

\* A delivery writes to its own card and, short of the removal, not onto a file.
LEMMA TornReplaces == ASSUME IInv, job # Idle, Torn PROVE Replaces
<1> DEFINE c == job.card
<1>1. c \in Card /\ Underway /\ final \in [Card -> File]
  BY EndTyped DEF IInv, Typed
<1>2. CASE final' = final
  BY <1>2 DEF Replaces
<1>3. CASE At("remove") /\ final' = On(c, final, Absent)
  <2>1. job.replace /\ stage[c] = Whole(shown.of)
    BY <1>1, <1>3 DEF Underway, At
  <2> QED BY <1>1, <1>3, <2>1 DEF Replaces, On
<1>4. CASE At("rename") /\ final[c] = Absent /\ final' = On(c, final, stage[c])
  BY <1>1, <1>4 DEF Replaces, On
<1> QED BY <1>2, <1>3, <1>4 DEF Torn, card

LEMMA StepReplaces == ASSUME IInv, Next PROVE Replaces
<1>1. CASE final' = final
  BY <1>1 DEF Replaces
<1>2. CASE Remove
  <2>1. At("remove") /\ job # Idle
    BY <1>2, Told DEF Remove, At, Steps
  <2>2. Torn \/ final' = final
    BY <1>2, <2>1 DEF Remove, Torn
  <2> QED BY <1>1, <2>1, <2>2, TornReplaces
<1>3. CASE Rename
  <2>1. At("rename") /\ job # Idle
    BY <1>3, Told DEF Rename, At, Steps
  <2>2. Torn \/ final' = final
    BY <1>3, <2>1 DEF Rename, Torn, card
  <2> QED BY <1>1, <2>1, <2>2, TornReplaces
<1>4. CASE Fails
  BY <1>4, TornReplaces DEF Fails
<1>5. CASE Cut
  BY <1>1, <1>5, TornReplaces DEF Cut, card
<1> QED BY <1>1, <1>2, <1>3, <1>4, <1>5
     DEF Next, Step, Sign, Press, ConfirmOverwrite, CancelOverwrite, ClaimDelivered, Discard,
         Look, Litter, Create, Verify, FailsWithoutCard, Eject, Insert, card

\* A file under the final name is replaced on request only, by one that was verified.
THEOREM ReplacedWhenAsked == Spec => ReplacedOnRequest
<1>1. IInv /\ [Next]_vars => [Replaces]_vars
  BY StepReplaces
<1> QED BY <1>1, Invariant, PTL DEF Spec, ReplacedOnRequest, Replaces

=============================================================================
