------------------------------- MODULE BootLog ------------------------------
(***************************************************************************)
(* The auxiliary ledger pair of notyas-wallet: the boot log and the        *)
(* owner's acknowledgement mark, at the granularity of one flash erase or  *)
(* program.  Operations are Vault::record_boot, Vault::acknowledge_boots,  *)
(* the part of mount and of format that reads or creates the pair.  Power  *)
(* may be cut under any flash step, and with Faults a step may also fail   *)
(* with an error while the power stays on.                                 *)
(***************************************************************************)
EXTENDS RotationPair

CONSTANTS BootCells,  \* cells in the boot log (496 on the device)
          MaxBoots,   \* bound of the model: boots recorded
          MaxCtr,     \* bound of the model: rotations
          Faults      \* may a flash access fail without a power cut?

ASSUME BootLogAssumption ==
  /\ BootCells \in Nat \ {0}
  /\ MaxBoots \in Nat
  /\ MaxCtr \in Nat
  /\ Faults \in BOOLEAN

VARIABLES
  pair,       \* flash: the two auxiliary sectors
  formatted,  \* flash: the records region holds a formatted store
  aux,        \* RAM: the scanned AuxState, or NoAux
  pc,         \* the flash step that runs next; "ready" between operations
  ackTo,      \* the mark the rotation under way installs
  after,      \* what the rotation or creation under way is for
  booted,     \* record_boot has been called since this power-up
  reported    \* ghost: the last count record_boot returned

vars == <<pair, formatted, aux, pc, ackTo, after, booted, reported>>

NoAux == [side |-> "none"]

AuxHead == [ctr : Nat, base : Nat, ack : Nat]

AuxState == [side : Side, head : AuxHead, len : 0 .. BootCells]

Sector == {Blank, Garbage} \cup [kind : {"live"}, head : AuxHead, len : 0 .. BootCells]

LiveSector(h, n) == [kind |-> "live", head |-> h, len |-> n]

BootCount(a) == a.head.base + a.len

\* Mutant: one boot is programmed past the last cell.
FullTooLate == aux.len > BootCells

Full == aux.len >= BootCells

(***************************************************************************)
(* A cell that is torn counts as consumed (scan_tick_log), so the length   *)
(* of the log is all a scan sees of it.                                    *)
(***************************************************************************)
ScanAux(p) ==
  IF LiveSides(p) = {} THEN NoAux
  ELSE [side |-> Elected(p), head |-> p[Elected(p)].head, len |-> p[Elected(p)].len]

Target == Other(aux.side)

\* The boot is counted, on the pair there was or on one created for it.
Ticking == {"tick", "tickNew"}

FirstHead == [ctr |-> 1, base |-> 0, ack |-> 0]

\* Mutants of the head a rotation writes: the log is not folded into the base;
\* it is taken to be full; the rotation counter does not advance.
NextHeadDropsLog == [ctr |-> aux.head.ctr + 1, base |-> aux.head.base, ack |-> ackTo]

NextHeadFullLog == [ctr |-> aux.head.ctr + 1, base |-> aux.head.base + BootCells, ack |-> ackTo]

NextHeadSameCtr == [ctr |-> aux.head.ctr, base |-> BootCount(aux), ack |-> ackTo]

NextHead == [ctr |-> aux.head.ctr + 1, base |-> BootCount(aux), ack |-> ackTo]

\* Cell number aux.len of the live log is programmed.
WithBootCell ==
  [pair EXCEPT ![aux.side] = LiveSector(@.head, IF @.len > aux.len THEN @.len ELSE aux.len + 1)]

-----------------------------------------------------------------------------
Init ==
  /\ pair = [s \in Side |-> Blank]
  /\ formatted = FALSE
  /\ aux = NoAux
  /\ pc = "off"
  /\ ackTo = 0
  /\ after = "ready"
  /\ booted = FALSE
  /\ reported = 0

Idle(b) == IF b THEN "ready" ELSE "boot"

\* refresh: elect, erase the other side if anything is in it, and only then
\* replace the state in RAM.
Scan ==
  LET leftover == LiveSides(pair) # {} /\ pair[Other(Elected(pair))] # Blank
  IN /\ pc' = IF leftover THEN "tidy" ELSE Idle(booted')
     /\ aux' = IF leftover THEN aux ELSE ScanAux(pair)
     /\ UNCHANGED <<pair, ackTo, after, reported>>

Mount == pc = "off" /\ booted' = FALSE /\ UNCHANGED formatted /\ Scan

\* The operations that are not modelled here (set_policy, change_pin,
\* add_identity) end in a refresh of the live store.
Refresh == pc = "ready" /\ UNCHANGED <<booted, formatted>> /\ Scan

Tidy ==
  /\ pc = "tidy"
  /\ pair' = [pair EXCEPT ![Other(Elected(pair))] = Blank]
  /\ aux' = ScanAux(pair)
  /\ pc' = Idle(booted)
  /\ UNCHANGED <<formatted, ackTo, after, booted, reported>>

\* The first thing after mount, and only then (firmware main.rs): counts this
\* boot if there is a formatted store, and writes nothing if there is not.
RecordBoot ==
  /\ pc = "boot"
  /\ aux # NoAux => BootCount(aux) < MaxBoots
  /\ booted' = TRUE
  /\ after' = IF aux = NoAux THEN "tickNew" ELSE "tick"
  /\ pc' = IF ~formatted THEN "ready"
           ELSE IF aux = NoAux THEN "createA"
           ELSE IF Full THEN "erase" ELSE "tick"
  /\ ackTo' = IF aux = NoAux THEN 0 ELSE aux.head.ack
  /\ UNCHANGED <<pair, formatted, aux, reported>>

Acknowledge ==
  /\ pc = "ready" /\ formatted /\ aux # NoAux
  /\ aux.head.ctr < MaxCtr
  /\ ackTo' = BootCount(aux)
  /\ after' = "ready"
  /\ pc' = "erase"
  /\ UNCHANGED <<pair, formatted, aux, booted, reported>>

\* format_inner: the pair is created only if the scan found none.
Format ==
  /\ pc = "ready" /\ ~formatted
  /\ after' = "format"
  /\ pc' = IF aux = NoAux THEN "createA" ELSE "format"
  /\ UNCHANGED <<pair, formatted, aux, ackTo, booted, reported>>

Formatted ==
  /\ pc = "format"
  /\ formatted' = TRUE /\ UNCHANGED booted
  /\ Scan

\* A wipe destroys records and mounts again; the auxiliary pair is left alone.
Wipe ==
  /\ pc = "ready" /\ formatted
  /\ formatted' = FALSE /\ UNCHANGED booted
  /\ Scan

-----------------------------------------------------------------------------
(***************************************************************************)
(* create_aux: erase both sectors, then the head of side A, MAC last.      *)
(***************************************************************************)
CreateErase(s, at, next) ==
  /\ pc = at
  /\ pair' = [pair EXCEPT ![s] = Blank]
  /\ pc' = next
  /\ UNCHANGED <<formatted, aux, ackTo, after, booted, reported>>

CreateHead ==
  /\ pc = "createHead"
  /\ pair' = [pair EXCEPT !["A"] = Garbage]
  /\ pc' = "createMac"
  /\ UNCHANGED <<formatted, aux, ackTo, after, booted, reported>>

CreateMac ==
  /\ pc = "createMac"
  /\ pair' = [pair EXCEPT !["A"] = LiveSector(FirstHead, 0)]
  /\ aux' = [side |-> "A", head |-> FirstHead, len |-> 0]
  /\ pc' = after
  /\ UNCHANGED <<formatted, ackTo, after, booted, reported>>

(***************************************************************************)
(* rotate_aux_to: erase the target, write its head, erase the source.      *)
(***************************************************************************)
RotateErase ==
  /\ pc = "erase"
  /\ pair' = [pair EXCEPT ![Target] = Blank]
  /\ pc' = "head"
  /\ UNCHANGED <<formatted, aux, ackTo, after, booted, reported>>

RotateHead ==
  /\ pc = "head"
  /\ pair' = [pair EXCEPT ![Target] = Garbage]
  /\ pc' = "mac"
  /\ UNCHANGED <<formatted, aux, ackTo, after, booted, reported>>

RotateMac ==
  /\ pc = "mac"
  /\ pair' = [pair EXCEPT ![Target] = LiveSector(NextHead, 0)]
  /\ pc' = "retire"
  /\ UNCHANGED <<formatted, aux, ackTo, after, booted, reported>>

RotateRetire ==
  /\ pc = "retire"
  /\ pair' = [pair EXCEPT ![aux.side] = Blank]
  /\ aux' = [side |-> Target, head |-> NextHead, len |-> 0]
  /\ pc' = after
  /\ UNCHANGED <<formatted, ackTo, after, booted, reported>>

TickBoot ==
  /\ pc \in Ticking
  /\ pair' = WithBootCell
  /\ aux' = [aux EXCEPT !.len = @ + 1]
  /\ reported' = BootCount(aux')
  /\ pc' = "ready"
  /\ UNCHANGED <<formatted, ackTo, after, booted>>

-----------------------------------------------------------------------------
(***************************************************************************)
(* The step at pc does not complete: what the flash may hold then.         *)
(***************************************************************************)
Torn ==
  \/ UNCHANGED pair
  \/ pc = "tidy"       /\ pair' \in ErasedOrTorn(pair, Other(Elected(pair)))
  \/ pc = "erase"      /\ pair' \in ErasedOrTorn(pair, Target)
  \/ pc = "retire"     /\ pair' \in ErasedOrTorn(pair, aux.side)
  \/ pc = "createA"    /\ pair' \in ErasedOrTorn(pair, "A")
  \/ pc = "createB"    /\ pair' \in ErasedOrTorn(pair, "B")
  \/ pc = "head"       /\ pair' \in HeadBodyOrTorn(pair, Target)
  \/ pc = "createHead" /\ pair' \in HeadBodyOrTorn(pair, "A")
  \/ pc = "mac"        /\ pair' \in HeadMacOrTorn(pair, Target, LiveSector(NextHead, 0))
  \/ pc = "createMac"  /\ pair' \in HeadMacOrTorn(pair, "A", LiveSector(FirstHead, 0))
  \/ pc \in Ticking    /\ pair' = WithBootCell

Cut ==
  /\ pc # "off"
  /\ Torn
  /\ aux' = NoAux
  /\ pc' = "off"
  /\ UNCHANGED <<formatted, ackTo, after, booted, reported>>

\* The step returns an error: the operation is abandoned and the RAM state is
\* what it was; a pair created for this boot is taken over only once the boot is
\* counted.  An error while mounting leaves no store until the next boot.
Fault ==
  /\ Faults
  /\ pc \notin {"off", "boot", "ready", "format"}
  /\ Torn
  /\ pc' = IF booted THEN "ready" ELSE "off"
  /\ aux' = IF pc = "tickNew" THEN NoAux ELSE aux
  /\ UNCHANGED <<formatted, ackTo, after, booted, reported>>

Next ==
  \/ Mount \/ Refresh \/ Tidy
  \/ RecordBoot \/ Acknowledge \/ Format \/ Formatted \/ Wipe
  \/ CreateErase("A", "createA", "createB")
  \/ CreateErase("B", "createB", "createHead")
  \/ CreateHead \/ CreateMac
  \/ RotateErase \/ RotateHead \/ RotateMac \/ RotateRetire
  \/ TickBoot
  \/ Cut \/ Fault

Spec == Init /\ [][Next]_vars

-----------------------------------------------------------------------------
(***************************************************************************)
(* Properties.                                                             *)
(***************************************************************************)
Steps == {"off", "tidy", "boot", "ready", "format", "createA", "createB", "createHead",
          "createMac", "erase", "head", "mac", "retire", "tick", "tickNew"}

\* Every variable has its type.
TypeOK ==
  /\ pair \in [Side -> Sector]
  /\ formatted \in BOOLEAN
  /\ aux \in AuxState \cup {NoAux}
  /\ pc \in Steps
  /\ ackTo \in Nat
  /\ after \in {"ready", "tick", "tickNew", "format"}
  /\ booted \in BOOLEAN
  /\ reported \in Nat

\* What a mount would read from the flash as it is at this instant.
ScannedCount == IF LiveSides(pair) = {} THEN 0 ELSE BootCount(ScanAux(pair))

ScannedMark == IF LiveSides(pair) = {} THEN 0 ELSE ScanAux(pair).head.ack

\* A boot that record_boot reported is in every later scan, whatever was cut,
\* torn, rotated or refused with an error since (vault.rs record_boot: a
\* counter that exists to reveal unattended power-ups).
BootsNeverForgotten == reported <= ScannedCount

\* The mark is never ahead of the count, so the boots since the mark
\* (vault.rs boots_since_acknowledged) is a true difference and the saturating
\* subtraction there never hides a negative one.
MarkWithinCount == ScannedMark <= ScannedCount

\* Two sides that both verify never have the same rotation counter, so the
\* election is decided by the counter and not by the order of the scan.
ElectionDecided ==
  \A s, t \in LiveSides(pair) : s # t => pair[s].head.ctr # pair[t].head.ctr

Counter == INSTANCE BootCounter WITH count <- ScannedCount, acked <- ScannedMark

\* Without transient faults the pair is an atomic counter with a mark: every
\* flash step and every cut counts one boot, sets the mark to the count, or
\* changes neither.
ImplementsCounter == Counter!Spec

=============================================================================
