------------------------------ MODULE Settings ------------------------------
(***************************************************************************)
(* The settings region of notyas (notyas-wallet/src/settings.rs) under the *)
(* two user actions of the firmware that write it (firmware/src/main.rs):  *)
(* naming the device and choosing the network.                             *)
(*                                                                         *)
(* Two sectors hold one record each.  A record is live when its header     *)
(* parses and its CRC verifies; the live one with the greater sequence     *)
(* number, head.ctr here, is the one that is read.  Nothing is kept in     *)
(* RAM between two calls: every save reads both sides again.               *)
(*                                                                         *)
(* One action is one access to flash.  Any of them may be the last before  *)
(* a power cut, or return an error.                                        *)
(***************************************************************************)
EXTENDS RotationPair

CONSTANTS
  Names, Networks,     \* the values of the two settings
  NoName, Mainnet,     \* their defaults
  MaxSeq,              \* u32::MAX, the sequence number that is never used
  Faults,              \* may an erase or a program return an error?
  ReadFaults           \* may a read return an error?

ASSUME SettingsAssumption ==
  /\ NoName \in Names /\ Mainnet \in Networks
  /\ MaxSeq \in Nat /\ MaxSeq > 1
  /\ Faults \in BOOLEAN /\ ReadFaults \in BOOLEAN

VARIABLES
  pair,                \* the two sectors
  pc,                  \* the access that runs next; "idle" or "off" when none
  job,                 \* the save under way
  ui,                  \* the name and the network the interface shows
  asked                \* (ghost) per setting: the value last reported as
                       \* stored, and those asked for since

vars == <<pair, pc, job, ui, asked>>

-----------------------------------------------------------------------------
(* The region. *)

Records == [name : Names, network : Networks]

Defaults == [name |-> NoName, network |-> Mainnet]

Slot(seq, record) ==
  [kind |-> "live", head |-> [ctr |-> seq], record |-> record]

\* load: a region without a valid slot reads as the defaults.
Stored(p) == IF LiveSides(p) = {} THEN Defaults ELSE p[Elected(p)].record

\* Mutant: the record to change starts from the defaults.
LoadedFresh == {Defaults}

\* The firmware's load: an error of the backend reads as the defaults too.
Loaded == {Stored(pair)} \cup {d \in {Defaults} : ReadFaults}

\* Mutant: the side that is read is the one that is written.
TargetWinner(p) == IF LiveSides(p) = {} THEN "A" ELSE Elected(p)

Target(p) == IF LiveSides(p) = {} THEN "A" ELSE Other(Elected(p))

\* Mutants: counting from zero; a new record under the number of the old one.
NextSeqFromZero(p) == IF LiveSides(p) = {} THEN 0 ELSE p[Elected(p)].head.ctr + 1

NextSeqSame(p) == IF LiveSides(p) = {} THEN 1 ELSE p[Elected(p)].head.ctr

NextSeq(p) == IF LiveSides(p) = {} THEN 1 ELSE p[Elected(p)].head.ctr + 1

NoJob ==
  [field |-> "none", record |-> Defaults, target |-> "A", seq |-> 0,
   stored |-> FALSE]

Jobs ==
  [field : {"none", "name", "network"}, record : Records, target : Side,
   seq : 0 .. MaxSeq, stored : BOOLEAN]

Init ==
  /\ pair \in [Side -> {Blank, Garbage}]
  /\ pc = "off"
  /\ job = NoJob
  /\ ui = Defaults
  /\ asked = [name |-> {NoName}, network |-> {Mainnet}]

-----------------------------------------------------------------------------
(* Boot, and the two user actions. *)

Boot ==
  /\ pc = "off"
  /\ ui' \in Loaded
  /\ pc' = "idle"
  /\ UNCHANGED <<pair, job, asked>>

\* Load, change one field, and save the result.
Update(field, changed) ==
  /\ pc = "idle"
  /\ \E r \in changed : job' = [NoJob EXCEPT !.field = field, !.record = r]
  /\ pc' = "load_current"
  /\ UNCHANGED pair

\* answer_set_device_name.  The interface installs the name with the answer.
SetName(n) ==
  /\ Update("name", {[r EXCEPT !.name = n] : r \in Loaded})
  /\ asked' = [asked EXCEPT !.name = @ \cup {n}]
  /\ UNCHANGED ui

\* The main loop finds that the interface has another network than before.
SetNetwork(w) ==
  /\ w # ui.network
  /\ Update("network", {[r EXCEPT !.network = w] : r \in Loaded})
  /\ asked' = [asked EXCEPT !.network = @ \cup {w}]
  /\ ui' = [ui EXCEPT !.network = w]

-----------------------------------------------------------------------------
(* SettingsRegion::save. *)

Elect ==
  /\ pc = "load_current"
  /\ NextSeq(pair) < MaxSeq
  /\ job' = [job EXCEPT !.target = Target(pair), !.seq = NextSeq(pair)]
  /\ pc' = "erase"
  /\ UNCHANGED <<pair, ui, asked>>

\* The sequence numbers are used up, or a side cannot be read.
RefuseSave ==
  /\ pc = "load_current"
  /\ NextSeq(pair) >= MaxSeq \/ ReadFaults
  /\ pc' = "answer"
  /\ UNCHANGED <<pair, job, ui, asked>>

Erase ==
  /\ pc = "erase"
  /\ pair' = [pair EXCEPT ![job.target] = Blank]
  /\ pc' = "payload"
  /\ UNCHANGED <<job, ui, asked>>

WritePayload ==
  /\ pc = "payload"
  /\ pair' = [pair EXCEPT ![job.target] = Garbage]
  /\ pc' = "header"
  /\ UNCHANGED <<job, ui, asked>>

\* The header is what makes a slot claimable, and it comes last.
WriteHeader ==
  /\ pc = "header"
  /\ pair' = [pair EXCEPT ![job.target] = Slot(job.seq, job.record)]
  /\ job' = [job EXCEPT !.stored = TRUE]
  /\ pc' = "answer"
  /\ UNCHANGED <<ui, asked>>

\* A name that was not stored is not installed (Ui::device_name_result); the
\* network is in the interface already.
Answer ==
  /\ pc = "answer"
  /\ ui' = IF job.field = "name" /\ job.stored
             THEN [ui EXCEPT !.name = job.record.name] ELSE ui
  /\ asked' =
       IF ~job.stored THEN asked
       ELSE IF job.field = "name"
              THEN [asked EXCEPT !.name = {job.record.name}]
              ELSE [asked EXCEPT !.network = {job.record.network}]
  /\ job' = NoJob
  /\ pc' = "idle"
  /\ UNCHANGED pair

-----------------------------------------------------------------------------
(* SettingsRegion::clear: side A, then side B.  While it runs, and if it is *)
(* not finished, nothing has been promised.                                *)

Clear ==
  /\ pc = "idle"
  /\ asked' = [name |-> Names, network |-> Networks]
  /\ pc' = "clear_a"
  /\ UNCHANGED <<pair, job, ui>>

ClearA ==
  /\ pc = "clear_a"
  /\ pair' = [pair EXCEPT !["A"] = Blank]
  /\ pc' = "clear_b"
  /\ UNCHANGED <<job, ui, asked>>

ClearB ==
  /\ pc = "clear_b"
  /\ pair' = [pair EXCEPT !["B"] = Blank]
  /\ asked' = [name |-> {NoName}, network |-> {Mainnet}]
  /\ pc' = "idle"
  /\ UNCHANGED <<job, ui>>

-----------------------------------------------------------------------------
(* Power cuts and errors. *)

\* What the access that runs next may leave when it is cut.
Torn ==
  CASE pc = "erase" -> ErasedOrTorn(pair, job.target)
    [] pc = "payload" -> HeadBodyOrTorn(pair, job.target)
    [] pc = "header" ->
         HeadMacOrTorn(pair, job.target, Slot(job.seq, job.record))
    [] pc = "clear_a" -> ErasedOrTorn(pair, "A")
    [] pc = "clear_b" -> ErasedOrTorn(pair, "B")
    [] OTHER -> {pair}

Cut ==
  /\ pc # "off"
  /\ pair' \in Torn
  /\ pc' = "off"
  /\ job' = NoJob
  /\ UNCHANGED <<ui, asked>>

SaveSteps == {"erase", "payload", "header"}

ClearSteps == {"clear_a", "clear_b"}

\* save and clear return the error at once.
Fault ==
  /\ Faults
  /\ pc \in SaveSteps \cup ClearSteps
  /\ pair' \in Torn
  /\ pc' = IF pc \in SaveSteps THEN "answer" ELSE "idle"
  /\ UNCHANGED <<job, ui, asked>>

Next ==
  \/ Boot
  \/ \E n \in Names : SetName(n)
  \/ \E w \in Networks : SetNetwork(w)
  \/ Elect
  \/ RefuseSave
  \/ Erase
  \/ WritePayload
  \/ WriteHeader
  \/ Answer
  \/ Clear
  \/ ClearA
  \/ ClearB
  \/ Cut
  \/ Fault

Spec == Init /\ [][Next]_vars

-----------------------------------------------------------------------------
(* Properties. *)

Live ==
  [kind : {"live"}, head : [ctr : 1 .. (MaxSeq - 1)], record : Records]

\* The values the variables take: sequence number 0 and u32::MAX, which an
\* erased and a zeroed header read as, are never on flash (Header::parse).
TypeOK ==
  /\ pair \in [Side -> {Blank, Garbage} \cup Live]
  /\ pc \in {"off", "idle", "load_current", "answer"}
             \cup SaveSteps \cup ClearSteps
  /\ job \in Jobs
  /\ ui \in Records
  /\ asked \in [name : SUBSET Names, network : SUBSET Networks]

\* A save that reports success is what the next load reads: it took the side
\* that lost, and the number it took wins the next election.
StoredIsRead == pc = "answer" /\ job.stored => Stored(pair) = job.record

\* Each setting on flash is the one last reported as stored or one asked for
\* since: no cut, error or retry brings back a value that was replaced, and
\* saving one setting does not revert the other (firmware settings::update).
OnlyWhatWasAsked ==
  /\ Stored(pair).name \in asked.name
  /\ Stored(pair).network \in asked.network

\* The record behind the one that is read.
Older(p) ==
  IF LiveSides(p) = Side THEN p[Other(Elected(p))].record ELSE Defaults

Register ==
  INSTANCE SettingsRegister
    WITH Default <- Defaults, value <- Stored(pair), older <- Older(pair),
         clearing <- pc \in ClearSteps

\* Under cuts and errors at every access, the region is a register: a save
\* replaces its value in one step, and only a clear takes the value away.
ImplementsRegister == Register!Spec

=============================================================================
