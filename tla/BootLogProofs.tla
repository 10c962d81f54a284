---------------------------- MODULE BootLogProofs ---------------------------
(***************************************************************************)
(* Theorems about BootLog, for every number of cells and of boots.  Two of *)
(* them need the absence of transient faults: with Faults = TRUE, TLC      *)
(* finds a rotation whose last erase fails, after which a boot is lost.    *)
(***************************************************************************)
EXTENDS BootLog, TLAPS

-----------------------------------------------------------------------------
(***************************************************************************)
(* The election.                                                           *)
(***************************************************************************)
\* Rotation counters of live sides are numbers.
Counted(p) == \A s \in LiveSides(p) : p[s].head.ctr \in Nat

\* The other side is a side, another one, and there is no third.
LEMMA TwoSides ==
  ASSUME NEW s \in Side
  PROVE  Other(s) \in Side /\ Other(s) # s /\ \A t \in Side : t = s \/ t = Other(s)
BY DEF Side, Other

\* The elected side is live, and no live side has a greater rotation counter.
LEMMA ElectedIsLive ==
  ASSUME NEW p, LiveSides(p) # {}, Counted(p)
  PROVE  /\ Elected(p) \in LiveSides(p)
         /\ \A t \in LiveSides(p) :
              \/ p[t].head.ctr < p[Elected(p)].head.ctr
              \/ p[t].head.ctr = p[Elected(p)].head.ctr /\ (Elected(p) = "A" \/ t = Elected(p))
<1> DEFINE Best(s) == \A t \in LiveSides(p) :
                        \/ p[t].head.ctr < p[s].head.ctr
                        \/ p[t].head.ctr = p[s].head.ctr /\ (s = "A" \/ t = s)
<1>1. LiveSides(p) \subseteq {"A", "B"}
  BY DEF LiveSides, Side
<1>2. \E s \in LiveSides(p) : Best(s)
  <2>1. CASE LiveSides(p) = {"A"}
    BY <2>1
  <2>2. CASE LiveSides(p) = {"B"}
    BY <2>2
  <2>3. CASE LiveSides(p) = {"A", "B"}
    <3>1. p["A"].head.ctr \in Nat /\ p["B"].head.ctr \in Nat
      BY <2>3 DEF Counted
    <3>2. CASE p["A"].head.ctr < p["B"].head.ctr
      BY <2>3, <3>2
    <3>3. CASE p["B"].head.ctr <= p["A"].head.ctr
      BY <2>3, <3>1, <3>3
    <3> QED BY <3>1, <3>2, <3>3
  <2> QED BY <1>1, <2>1, <2>2, <2>3
<1>3. Elected(p) = CHOOSE s \in LiveSides(p) : Best(s)
  BY DEF Elected
<1> HIDE DEF Best
<1>4. Elected(p) \in LiveSides(p) /\ Best(Elected(p))
  BY <1>2, <1>3
<1> QED BY <1>4 DEF Best

\* A side that is the only live one is elected.
LEMMA OnlyLiveIsElected ==
  ASSUME NEW p, NEW s, LiveSides(p) = {s}, Counted(p)
  PROVE  Elected(p) = s
BY ElectedIsLive

\* Of two live sides the one with the greater counter is elected.
LEMMA GreaterIsElected ==
  ASSUME NEW p, NEW s, Counted(p), s \in LiveSides(p),
         \A t \in LiveSides(p) : t # s => p[t].head.ctr < p[s].head.ctr
  PROVE  Elected(p) = s
<1>1. Elected(p) \in LiveSides(p)
  BY ElectedIsLive
<1>2. SUFFICES ASSUME Elected(p) # s PROVE FALSE
  OBVIOUS
<1>3. p[Elected(p)].head.ctr < p[s].head.ctr
  BY <1>1, <1>2
<1>4. p[s].head.ctr <= p[Elected(p)].head.ctr
  BY ElectedIsLive DEF Counted
<1> QED BY <1>1, <1>3, <1>4 DEF Counted

\* Whatever is left of the side that lost, the side that won is elected still.
LEMMA LoserIsErased ==
  ASSUME NEW S, NEW p \in [Side -> S], LiveSides(p) # {}, Counted(p),
         NEW q \in ErasedOrTorn(p, Other(Elected(p)))
  PROVE  /\ LiveSides(q) # {} /\ Counted(q)
         /\ Elected(q) = Elected(p) /\ q[Elected(p)] = p[Elected(p)]
<1> DEFINE w == Elected(p)
           l == Other(w)
<1>1. w \in LiveSides(p) /\ w \in Side
  BY ElectedIsLive DEF LiveSides
<1>2. l \in Side /\ l # w /\ \A t \in Side : t = w \/ t = l
  BY <1>1, TwoSides
<1>3. PICK left \in {p[l], Garbage, Blank} : q = [p EXCEPT ![l] = left]
  BY DEF ErasedOrTorn
<1> HIDE DEF w, l
<1>4. CASE left = p[l]
  BY <1>3, <1>4, <1>2 DEF w
<1>5. CASE left \in {Garbage, Blank}
  <2>1. q[w] = p[w] /\ q[l] = left
    BY <1>1, <1>2, <1>3
  <2>2. LiveSides(q) = {w}
    BY <1>1, <1>2, <1>5, <2>1 DEF LiveSides, Garbage, Blank
  <2>3. Counted(q)
    BY <1>1, <2>1, <2>2 DEF Counted
  <2> QED BY <2>1, <2>2, <2>3, OnlyLiveIsElected DEF w
<1> QED BY <1>3, <1>4, <1>5

-----------------------------------------------------------------------------
USE BootLogAssumption

-----------------------------------------------------------------------------
(***************************************************************************)
(* Type correctness.  TypeOK needs to know that RAM agrees with the flash  *)
(* when a boot is to be counted: the cell is programmed behind a head that *)
(* verifies, and it is a cell of the log.                                  *)
(***************************************************************************)
OnRotation == {"erase", "head", "mac", "retire"}

Typed ==
  /\ TypeOK
  /\ pc = "tidy" => LiveSides(pair) # {}
  /\ pc \in OnRotation \cup Ticking => aux # NoAux
  /\ pc = "boot" => aux = ScanAux(pair)
  /\ pc = "retire" => pair[Target] = LiveSector(NextHead, 0)
  /\ pc \in Ticking => pair[aux.side].kind = "live" /\ aux.len < BootCells

\* A live sector has a head and a log that is no longer than it may be.
LEMMA LiveIsSector ==
  ASSUME NEW p \in [Side -> Sector], NEW s \in LiveSides(p)
  PROVE  s \in Side /\ p[s].head \in AuxHead /\ p[s].len \in 0 .. BootCells
         /\ p[s] = LiveSector(p[s].head, p[s].len)
BY DEF LiveSides, Sector, LiveSector, Blank, Garbage

\* Rotation counters of a well-typed pair are numbers.
LEMMA SectorsCounted ==
  ASSUME NEW p \in [Side -> Sector]
  PROVE  Counted(p)
BY LiveIsSector DEF Counted, AuxHead

\* What a scan returns has its type.
LEMMA ScanTyped ==
  ASSUME NEW p \in [Side -> Sector]
  PROVE  ScanAux(p) \in AuxState \cup {NoAux}
<1>1. CASE LiveSides(p) = {}
  BY <1>1 DEF ScanAux
<1>2. CASE LiveSides(p) # {}
  <2>1. Elected(p) \in LiveSides(p)
    BY <1>2, ElectedIsLive, SectorsCounted
  <2> QED BY <1>2, <2>1, LiveIsSector DEF ScanAux, AuxState
<1> QED BY <1>1, <1>2

\* The heads that are written have their type.
LEMMA HeadsTyped ==
  ASSUME TypeOK, aux # NoAux
  PROVE  /\ NextHead \in AuxHead /\ Target \in Side /\ aux.side \in Side /\ aux \in AuxState
         /\ LiveSector(NextHead, 0) \in Sector
BY TwoSides DEF TypeOK, NextHead, AuxHead, AuxState, BootCount, Target, LiveSector, Sector

LEMMA FirstHeadTyped ==
  FirstHead \in AuxHead /\ LiveSector(FirstHead, 0) \in Sector
BY DEF FirstHead, AuxHead, LiveSector, Sector

\* The flash with one more boot counted is a pair of sectors, and the side it
\* is counted on stays live.
LEMMA BootCellTyped ==
  ASSUME Typed, pc \in Ticking
  PROVE  WithBootCell \in [Side -> Sector] /\ WithBootCell[aux.side].kind = "live"
<1>1. aux \in AuxState /\ aux.side \in LiveSides(pair) /\ aux.len < BootCells
  BY HeadsTyped DEF Typed, LiveSides
<1>2. pair \in [Side -> Sector] /\ pair[aux.side].head \in AuxHead
      /\ pair[aux.side].len \in 0 .. BootCells /\ aux.side \in Side
  BY <1>1, LiveIsSector DEF Typed, TypeOK
<1>3. aux.len + 1 \in 0 .. BootCells
  BY <1>1 DEF AuxState
<1> QED BY <1>2, <1>3 DEF WithBootCell, LiveSector, Sector

\* What a step leaves if it does not complete is a pair of sectors.
LEMMA TornTyped ==
  ASSUME Typed, Torn
  PROVE  pair' \in [Side -> Sector]
<1>1. pair \in [Side -> Sector] /\ Blank \in Sector /\ Garbage \in Sector
  BY DEF Typed, TypeOK, Sector
<1>2. \A s \in Side : ErasedOrTorn(pair, s) \subseteq [Side -> Sector]
  BY <1>1 DEF ErasedOrTorn
<1>3. \A s \in Side : HeadBodyOrTorn(pair, s) \subseteq [Side -> Sector]
  BY <1>1 DEF HeadBodyOrTorn
<1>4. \A s \in Side, v \in Sector : HeadMacOrTorn(pair, s, v) \subseteq [Side -> Sector]
  BY <1>1 DEF HeadMacOrTorn
<1>5. "A" \in Side /\ "B" \in Side
  BY DEF Side
<1>6. CASE pc = "tidy" /\ pair' \in ErasedOrTorn(pair, Other(Elected(pair)))
  <2>1. Elected(pair) \in Side
    BY <1>6, <1>1, ElectedIsLive, SectorsCounted DEF Typed, LiveSides
  <2> QED BY <1>6, <1>2, <2>1, TwoSides
<1>7. CASE pc \in OnRotation /\ (\/ pair' \in ErasedOrTorn(pair, Target)
                                \/ pair' \in ErasedOrTorn(pair, aux.side)
                                \/ pair' \in HeadBodyOrTorn(pair, Target)
                                \/ pair' \in HeadMacOrTorn(pair, Target, LiveSector(NextHead, 0)))
  BY <1>7, <1>2, <1>3, <1>4, HeadsTyped DEF Typed
<1>8. CASE \/ pair' \in ErasedOrTorn(pair, "A")
           \/ pair' \in ErasedOrTorn(pair, "B")
           \/ pair' \in HeadBodyOrTorn(pair, "A")
           \/ pair' \in HeadMacOrTorn(pair, "A", LiveSector(FirstHead, 0))
  BY <1>8, <1>2, <1>3, <1>4, <1>5, FirstHeadTyped
<1>9. CASE pc \in Ticking /\ pair' = WithBootCell
  BY <1>9, BootCellTyped
<1> QED BY <1>1, <1>6, <1>7, <1>8, <1>9 DEF Torn, OnRotation

\* A scan of the flash that leaves nothing to tidy, or finds something to tidy.
LEMMA RescanTyped ==
  ASSUME Typed, Scan, formatted' \in BOOLEAN, booted' \in BOOLEAN
  PROVE  Typed'
<1>1. pair \in [Side -> Sector] /\ ScanAux(pair) \in AuxState \cup {NoAux}
  BY ScanTyped DEF Typed, TypeOK
<1>2. pair' = pair /\ pc' \in {"tidy", "ready", "boot"}
  BY DEF Scan, Idle
<1>3. TypeOK'
  BY <1>1, <1>2 DEF Typed, TypeOK, Scan, Steps
<1>4. pc' = "tidy" => LiveSides(pair') # {}
  BY <1>2 DEF Scan, Idle
<1>5. pc' = "boot" => aux' = ScanAux(pair')
  BY <1>2 DEF Scan, Idle
<1> QED BY <1>2, <1>3, <1>4, <1>5 DEF Typed, OnRotation, Ticking

\* The state of RAM a tidy ends with is what the flash it leaves scans to.
LEMMA TidyScans ==
  ASSUME Typed, Tidy
  PROVE  ScanAux(pair') = ScanAux(pair) /\ pair' \in [Side -> Sector]
<1>1. pair \in [Side -> Sector] /\ LiveSides(pair) # {} /\ Counted(pair)
  BY SectorsCounted DEF Typed, TypeOK, Tidy
<1>2. Elected(pair) \in Side
  BY <1>1, ElectedIsLive DEF LiveSides
<1>3. pair' \in ErasedOrTorn(pair, Other(Elected(pair)))
  BY DEF Tidy, ErasedOrTorn
<1>4. /\ LiveSides(pair') # {} /\ Elected(pair') = Elected(pair)
      /\ pair'[Elected(pair)] = pair[Elected(pair)]
  BY <1>1, <1>3, LoserIsErased
<1>5. pair' \in [Side -> Sector]
  BY <1>1, <1>2, TwoSides DEF Tidy, Sector
<1> QED BY <1>1, <1>4, <1>5 DEF ScanAux

\* Every step preserves the strengthened type invariant.
LEMMA TypedStep ==
  ASSUME Typed, [Next]_vars
  PROVE  Typed'
<1> USE DEF OnRotation, Ticking
<1>0. CASE UNCHANGED vars
  BY <1>0 DEF vars, Typed, TypeOK, Target, NextHead, BootCount
<1>1. CASE Mount
  BY <1>1, RescanTyped DEF Mount, Typed, TypeOK
<1>2. CASE Refresh
  BY <1>2, RescanTyped DEF Refresh, Typed, TypeOK
<1>3. CASE Tidy
  <2>1. ScanAux(pair) \in AuxState \cup {NoAux}
    BY ScanTyped DEF Typed, TypeOK
  <2> QED BY <1>3, <2>1, TidyScans DEF Tidy, Idle, Typed, TypeOK, Steps
<1>4. CASE RecordBoot
  <2>1. aux # NoAux => aux.head.ack \in Nat
    BY DEF Typed, TypeOK, AuxState, AuxHead
  <2>2. TypeOK'
    BY <1>4, <2>1 DEF RecordBoot, Typed, TypeOK, Steps
  <2>3. pc' \in Ticking => pair[aux.side].kind = "live" /\ aux.len < BootCells
    <3>1. SUFFICES ASSUME pc' \in Ticking PROVE pair[aux.side].kind = "live" /\ aux.len < BootCells
      OBVIOUS
    <3>2. aux # NoAux /\ ~Full /\ aux = ScanAux(pair) /\ LiveSides(pair) # {}
      BY <1>4, <3>1 DEF RecordBoot, Typed, ScanAux
    <3>3. aux.side \in LiveSides(pair)
      BY <3>2, ElectedIsLive, SectorsCounted DEF ScanAux, Typed, TypeOK
    <3>4. aux.len \in Nat
      BY <3>2 DEF Typed, TypeOK, AuxState
    <3> QED BY <3>2, <3>3, <3>4 DEF LiveSides, Full
  <2> QED BY <1>4, <2>2, <2>3 DEF RecordBoot, Typed
<1>5. CASE Acknowledge
  <2>1. BootCount(aux) \in Nat
    BY <1>5 DEF Acknowledge, Typed, TypeOK, AuxState, AuxHead, BootCount
  <2> QED BY <1>5, <2>1 DEF Acknowledge, Typed, TypeOK, Steps
<1>6. CASE Format
  BY <1>6 DEF Format, Typed, TypeOK, Steps
<1>7. CASE Formatted
  BY <1>7, RescanTyped DEF Formatted, Typed, TypeOK
<1>8. CASE Wipe
  BY <1>8, RescanTyped DEF Wipe, Typed, TypeOK
<1>9. CASE CreateErase("A", "createA", "createB") \/ CreateErase("B", "createB", "createHead")
  BY <1>9 DEF CreateErase, Typed, TypeOK, Steps, Sector
<1>10. CASE CreateHead
  BY <1>10 DEF CreateHead, Typed, TypeOK, Steps, Sector
<1>11. CASE CreateMac
  <2>1. pair' \in [Side -> Sector] /\ pair'["A"].kind = "live"
    BY <1>11, FirstHeadTyped DEF CreateMac, Typed, TypeOK, LiveSector, Side
  <2>2. aux' \in AuxState /\ aux'.side = "A" /\ aux'.len = 0 /\ aux' # NoAux
    BY <1>11, FirstHeadTyped DEF CreateMac, AuxState, Side, NoAux
  <2> QED BY <1>11, <2>1, <2>2 DEF CreateMac, Typed, TypeOK, Steps
<1>12. CASE RotateErase
  BY <1>12 DEF RotateErase, Typed, TypeOK, Steps, Sector
<1>13. CASE RotateHead
  BY <1>13 DEF RotateHead, Typed, TypeOK, Steps, Sector
<1>14. CASE RotateMac
  <2>1. pair' \in [Side -> Sector]
    BY <1>14, HeadsTyped DEF RotateMac, Typed, TypeOK
  <2>2. pair'[Target] = LiveSector(NextHead, 0) /\ Target' = Target /\ NextHead' = NextHead
    BY <1>14, HeadsTyped DEF RotateMac, Typed, TypeOK, Target, NextHead, BootCount
  <2> QED BY <1>14, <2>1, <2>2 DEF RotateMac, Typed, TypeOK, Steps
<1>15. CASE RotateRetire
  <2>1. /\ NextHead \in AuxHead /\ Target \in Side /\ aux.side \in Side /\ Target # aux.side
        /\ pair[Target] = LiveSector(NextHead, 0)
    BY <1>15, HeadsTyped, TwoSides DEF RotateRetire, Typed, Target
  <2>2. pair' \in [Side -> Sector] /\ pair'[Target].kind = "live"
    BY <1>15, <2>1 DEF RotateRetire, Typed, TypeOK, LiveSector, Sector
  <2>3. aux' \in AuxState /\ aux'.side = Target /\ aux'.len = 0 /\ aux' # NoAux
    BY <1>15, <2>1 DEF RotateRetire, AuxState, Side, NoAux
  <2> QED BY <1>15, <2>2, <2>3 DEF RotateRetire, Typed, TypeOK, Steps
<1>16. CASE TickBoot
  <2>1. pair' \in [Side -> Sector]
    BY <1>16, BootCellTyped DEF TickBoot
  <2>2. aux' \in AuxState /\ BootCount(aux') \in Nat
    BY <1>16, HeadsTyped DEF TickBoot, Typed, AuxState, AuxHead, BootCount
  <2> QED BY <1>16, <2>1, <2>2 DEF TickBoot, Typed, TypeOK, Steps
<1>17. CASE Cut
  BY <1>17, TornTyped DEF Cut, Typed, TypeOK, Steps
<1>18. CASE Fault
  BY <1>18, TornTyped DEF Fault, Typed, TypeOK, Steps
<1> QED BY <1>0, <1>1, <1>2, <1>3, <1>4, <1>5, <1>6, <1>7, <1>8, <1>9, <1>10, <1>11, <1>12,
           <1>13, <1>14, <1>15, <1>16, <1>17, <1>18 DEF Next

LEMMA TypedInit == Init => Typed
<1>1. ASSUME Init PROVE TypeOK
  <2>1. pair \in [Side -> Sector]
    BY <1>1 DEF Init, Sector
  <2> QED BY <1>1, <2>1 DEF Init, TypeOK, Steps
<1>2. Init => pc = "off"
  BY DEF Init
<1> QED BY <1>1, <1>2 DEF Typed, OnRotation, Ticking

\* Every variable keeps its type, whether or not a flash access may fail: in
\* particular the log never grows past its last cell and a boot is never
\* counted behind a head that does not verify (ledger.rs tick_boot).
THEOREM TypeCorrect == Spec => []TypeOK
<1>1. Typed => TypeOK
  BY DEF Typed
<1> QED BY <1>1, TypedInit, TypedStep, PTL DEF Spec

-----------------------------------------------------------------------------
(***************************************************************************)
(* Without transient faults the state in RAM is the state a mount would    *)
(* read, except while a rotation has both sides live; and then it is the   *)
(* new side that a mount would read.                                       *)
(***************************************************************************)
InStep ==
  IF aux = NoAux THEN LiveSides(pair) = {}
  ELSE LiveSides(pair) = {aux.side} /\ pair[aux.side] = LiveSector(aux.head, aux.len)

OnCreation == {"createA", "createB", "createHead", "createMac"}

Synced ==
  /\ Typed
  /\ pc \notin {"off", "tidy", "retire"} => InStep
  /\ pc \in OnCreation => aux = NoAux
  /\ pc = "retire" => pair[aux.side] = LiveSector(aux.head, aux.len)
  /\ pc \in OnRotation => ackTo \in {aux.head.ack, BootCount(aux)}

\* A live side whose counter no other live side reaches is what a scan reads.
LEMMA ScanOfGreatest ==
  ASSUME NEW p \in [Side -> Sector], NEW s \in Side, NEW h, NEW n,
         p[s] = LiveSector(h, n),
         \A t \in LiveSides(p) : t # s => p[t].head.ctr < h.ctr
  PROVE  LiveSides(p) # {} /\ ScanAux(p) = [side |-> s, head |-> h, len |-> n]
<1>1. s \in LiveSides(p) /\ p[s].head = h /\ p[s].len = n
  BY DEF LiveSides, LiveSector
<1>2. Elected(p) = s
  BY <1>1, SectorsCounted, GreaterIsElected
<1> QED BY <1>1, <1>2 DEF ScanAux

\* In step, a scan reads what is in RAM.
LEMMA InStepScan ==
  ASSUME Typed, InStep
  PROVE  ScanAux(pair) = aux
<1>1. CASE aux = NoAux
  BY <1>1 DEF InStep, ScanAux
<1>2. CASE aux # NoAux
  <2>1. aux = [side |-> aux.side, head |-> aux.head, len |-> aux.len] /\ aux.side \in Side
    BY <1>2 DEF Typed, TypeOK, AuxState
  <2>2. ScanAux(pair) = [side |-> aux.side, head |-> aux.head, len |-> aux.len]
    BY <1>2, <2>1, ScanOfGreatest DEF InStep, Typed, TypeOK
  <2> QED BY <2>1, <2>2
<1> QED BY <1>1, <1>2

\* While the old side waits to be erased, a scan reads the new one.
LEMMA RetireScan ==
  ASSUME Synced, pc = "retire"
  PROVE  /\ ScanAux(pair) = [side |-> Target, head |-> NextHead, len |-> 0]
         /\ LiveSides(pair) # {} /\ Elected(pair) = Target /\ Other(Target) = aux.side
<1>1. /\ Target \in Side /\ aux.side \in Side /\ aux.side = Other(Target)
      /\ \A t \in Side : t = Target \/ t = aux.side
      /\ pair \in [Side -> Sector]
  BY HeadsTyped, TwoSides DEF Synced, Typed, TypeOK, OnRotation, Target, Other, Side
<1>2. /\ pair[Target] = LiveSector(NextHead, 0)
      /\ pair[aux.side].head.ctr < NextHead.ctr
  BY HeadsTyped DEF Synced, Typed, OnRotation, LiveSector, NextHead, AuxState, AuxHead
<1>3. \A t \in LiveSides(pair) : t # Target => pair[t].head.ctr < NextHead.ctr
  BY <1>1, <1>2 DEF LiveSides
<1>4. LiveSides(pair) # {} /\ ScanAux(pair) = [side |-> Target, head |-> NextHead, len |-> 0]
  BY <1>1, <1>2, <1>3, ScanOfGreatest
<1>5. Elected(pair) = Target
  BY <1>4 DEF ScanAux
<1> QED BY <1>1, <1>4, <1>5

\* A side that is not live may change, as long as it does not become live.
LEMMA DeadSideChanges ==
  ASSUME Typed, InStep, NEW t \in Side, t \notin LiveSides(pair),
         NEW left \in {pair[t], Garbage, Blank},
         NEW q, q = [pair EXCEPT ![t] = left]
  PROVE  /\ LiveSides(q) = LiveSides(pair) /\ ScanAux(q) = aux
         /\ \A s \in LiveSides(pair) : q[s] = pair[s]
<1>1. pair \in [Side -> Sector] /\ q \in [Side -> Sector]
  BY DEF Typed, TypeOK, Sector
<1>2. \A s \in Side : s # t => q[s] = pair[s]
  BY <1>1
<1>3. left.kind # "live"
  BY DEF LiveSides, Garbage, Blank
<1>4. LiveSides(q) = LiveSides(pair) /\ \A s \in LiveSides(pair) : q[s] = pair[s]
  BY <1>1, <1>2, <1>3 DEF LiveSides
<1>5. CASE aux = NoAux
  BY <1>4, <1>5 DEF InStep, ScanAux
<1>6. CASE aux # NoAux
  <2>1. aux = [side |-> aux.side, head |-> aux.head, len |-> aux.len] /\ aux.side \in Side
    BY <1>6 DEF Typed, TypeOK, AuxState
  <2>2. LiveSides(q) = {aux.side} /\ q[aux.side] = LiveSector(aux.head, aux.len)
    BY <1>4, <1>6 DEF InStep
  <2>3. \A u \in LiveSides(q) : u # aux.side => q[u].head.ctr < aux.head.ctr
    BY <2>2
  <2>4. ScanAux(q) = [side |-> aux.side, head |-> aux.head, len |-> aux.len]
    <3>1. q \in [Side -> Sector] /\ aux.side \in Side
      BY <1>1, <2>1
    <3>2. q[aux.side] = LiveSector(aux.head, aux.len)
      BY <2>2
    <3> QED BY <3>1, <3>2, <2>3, ScanOfGreatest, Zenon
  <2> QED BY <1>4, <2>1, <2>4
<1> QED BY <1>4, <1>5, <1>6

\* Equal scans have equal counts and marks.
LEMMA SameScan ==
  ASSUME ScanAux(pair') = ScanAux(pair), LiveSides(pair') = {} <=> LiveSides(pair) = {}
  PROVE  UNCHANGED <<ScannedCount, ScannedMark>>
BY DEF ScannedCount, ScannedMark, BootCount

\* In step, the count and the mark are those in RAM.
LEMMA InStepCounts ==
  ASSUME Typed, InStep
  PROVE  /\ aux = NoAux => ScannedCount = 0 /\ ScannedMark = 0
         /\ aux # NoAux => ScannedCount = BootCount(aux) /\ ScannedMark = aux.head.ack
BY InStepScan DEF InStep, ScannedCount, ScannedMark

\* What programming the MAC of a rotated head may leave: a mount still reads
\* the old side, or it reads the same count from the new side.
LEMMA MacCounts ==
  ASSUME Synced, pc = "mac", pair' \in HeadMacOrTorn(pair, Target, LiveSector(NextHead, 0))
  PROVE  [Counter!Next]_<<ScannedCount, ScannedMark>>
<1>1. /\ Typed /\ InStep /\ aux # NoAux /\ ackTo \in {aux.head.ack, BootCount(aux)}
      /\ pair \in [Side -> Sector] /\ LiveSides(pair) = {aux.side}
  BY DEF Synced, Typed, TypeOK, OnRotation, InStep
<1>2. /\ Target \in Side /\ Target # aux.side /\ aux.side \in Side
      /\ \A t \in Side : t = Target \/ t = aux.side
  BY <1>1, HeadsTyped, TwoSides DEF Typed, Target
<1>3. ScannedCount = BootCount(aux) /\ ScannedMark = aux.head.ack
  BY <1>1, InStepCounts
<1>4. CASE pair' = [pair EXCEPT ![Target] = Garbage]
  <2>1. LiveSides(pair') = LiveSides(pair) /\ ScanAux(pair') = aux
    BY <1>1, <1>2, <1>4, DeadSideChanges
  <2> QED BY <2>1, <1>1, InStepScan, SameScan
<1>5. CASE pair' = [pair EXCEPT ![Target] = LiveSector(NextHead, 0)]
  <2>1. pair' \in [Side -> Sector] /\ pair'[Target] = LiveSector(NextHead, 0)
        /\ pair'[aux.side] = LiveSector(aux.head, aux.len)
    BY <1>1, <1>2, <1>5, HeadsTyped DEF Typed, InStep
  <2>2. aux.head.ctr < NextHead.ctr
    BY <1>1, HeadsTyped DEF Typed, NextHead, AuxState, AuxHead
  <2>3. \A t \in LiveSides(pair') : t # Target => pair'[t].head.ctr < NextHead.ctr
    BY <1>2, <2>1, <2>2 DEF LiveSides, LiveSector
  <2>4. LiveSides(pair') # {} /\ ScanAux(pair') = [side |-> Target, head |-> NextHead, len |-> 0]
    BY <1>2, <2>1, <2>3, ScanOfGreatest, Zenon
  <2>5. BootCount(aux) \in Nat
    BY <1>1, HeadsTyped DEF Typed, AuxState, AuxHead, BootCount
  <2>6. ScannedCount' = BootCount(aux) /\ ScannedMark' = ackTo
    BY <2>4, <2>5 DEF ScannedCount, ScannedMark, BootCount, NextHead
  <2> QED BY <1>1, <1>3, <2>6 DEF Counter!Next, Counter!MarkSeen
<1> QED BY <1>4, <1>5 DEF HeadMacOrTorn

\* The cell of one more boot counts one more boot.
LEMMA TickCounts ==
  ASSUME Synced, pc \in Ticking, pair' = WithBootCell
  PROVE  /\ ScannedCount' = ScannedCount + 1 /\ ScannedMark' = ScannedMark
         /\ pair'[aux.side] = LiveSector(aux.head, aux.len + 1)
         /\ LiveSides(pair') = {aux.side}
<1>1. /\ Typed /\ InStep /\ aux # NoAux /\ aux \in AuxState
      /\ pair \in [Side -> Sector] /\ LiveSides(pair) = {aux.side}
      /\ pair[aux.side] = LiveSector(aux.head, aux.len)
  BY DEF Synced, Typed, TypeOK, OnRotation, Ticking, InStep
<1>2. aux.side \in Side /\ aux.len \in Nat /\ aux.head.base \in Nat
  BY <1>1 DEF AuxState, AuxHead
<1>3. pair' = [pair EXCEPT ![aux.side] = LiveSector(aux.head, aux.len + 1)]
  <2>1. pair[aux.side].head = aux.head /\ ~(pair[aux.side].len > aux.len)
    BY <1>1, <1>2 DEF LiveSector
  <2> QED BY <2>1, Zenon DEF WithBootCell
<1>4. pair'[aux.side] = LiveSector(aux.head, aux.len + 1) /\ LiveSides(pair') = {aux.side}
  BY <1>1, <1>2, <1>3 DEF LiveSides, LiveSector
<1>5. pair' \in [Side -> Sector]
  BY <1>1, BootCellTyped
<1>6. \A t \in LiveSides(pair') : t # aux.side => pair'[t].head.ctr < aux.head.ctr
  BY <1>4
<1>7. ScanAux(pair') = [side |-> aux.side, head |-> aux.head, len |-> aux.len + 1]
  BY <1>2, <1>4, <1>5, <1>6, ScanOfGreatest, Zenon
<1>8. ScannedCount' = aux.head.base + (aux.len + 1) /\ ScannedMark' = aux.head.ack
  BY <1>4, <1>7 DEF ScannedCount, ScannedMark, BootCount
<1>9. ScannedCount = aux.head.base + aux.len /\ ScannedMark = aux.head.ack
  BY <1>1, InStepCounts DEF BootCount
<1> QED BY <1>2, <1>4, <1>8, <1>9

\* A step that does not complete counts one boot, sets the mark, or changes
\* neither.
LEMMA TornCounts ==
  ASSUME Synced, Torn
  PROVE  [Counter!Next]_<<ScannedCount, ScannedMark>>
<1>1. Typed /\ pair \in [Side -> Sector] /\ Counted(pair)
  BY SectorsCounted DEF Synced, Typed, TypeOK
<1>2. CASE UNCHANGED pair
  BY <1>2 DEF ScannedCount, ScannedMark, ScanAux
<1>3. CASE LiveSides(pair) # {} /\ pair' \in ErasedOrTorn(pair, Other(Elected(pair)))
  <2>1. /\ LiveSides(pair') # {} /\ Elected(pair') = Elected(pair)
        /\ pair'[Elected(pair)] = pair[Elected(pair)]
    BY <1>1, <1>3, LoserIsErased
  <2> QED BY <1>3, <2>1, SameScan DEF ScanAux
<1>4. CASE /\ InStep
           /\ \E t \in Side \ LiveSides(pair) :
                pair' \in ErasedOrTorn(pair, t) \cup HeadBodyOrTorn(pair, t)
  <2>1. PICK t \in Side : /\ t \notin LiveSides(pair)
                          /\ pair' \in ErasedOrTorn(pair, t) \cup HeadBodyOrTorn(pair, t)
    BY <1>4
  <2>2. PICK left \in {pair[t], Garbage, Blank} : pair' = [pair EXCEPT ![t] = left]
    BY <2>1 DEF ErasedOrTorn, HeadBodyOrTorn
  <2>3. LiveSides(pair') = LiveSides(pair) /\ ScanAux(pair') = aux
    BY <1>1, <1>4, <2>1, <2>2, DeadSideChanges
  <2> QED BY <1>1, <1>4, <2>3, InStepScan, SameScan
<1>5. pc \in OnRotation => Target \in Side /\ Target # aux.side /\ aux # NoAux
  BY <1>1, HeadsTyped, TwoSides DEF Typed, Target
<1>6. CASE pc = "tidy" /\ pair' \in ErasedOrTorn(pair, Other(Elected(pair)))
  BY <1>1, <1>3, <1>6 DEF Typed
<1>7. CASE pc = "retire" /\ pair' \in ErasedOrTorn(pair, aux.side)
  BY <1>3, <1>7, RetireScan
<1>8. CASE /\ pc \in {"erase", "head"}
           /\ pair' \in ErasedOrTorn(pair, Target) \cup HeadBodyOrTorn(pair, Target)
  BY <1>4, <1>5, <1>8 DEF Synced, InStep, OnRotation
<1>9. CASE /\ pc \in {"createA", "createB", "createHead"}
           /\ pair' \in ErasedOrTorn(pair, "A") \cup ErasedOrTorn(pair, "B")
                        \cup HeadBodyOrTorn(pair, "A")
  BY <1>4, <1>9 DEF Synced, InStep, OnCreation, Side
<1>10. CASE pc = "mac" /\ pair' \in HeadMacOrTorn(pair, Target, LiveSector(NextHead, 0))
  BY <1>10, MacCounts
<1>11. CASE pc = "createMac" /\ pair' \in HeadMacOrTorn(pair, "A", LiveSector(FirstHead, 0))
  <2>1. InStep /\ LiveSides(pair) = {} /\ aux = NoAux /\ ScannedCount = 0 /\ ScannedMark = 0
    BY <1>1, <1>11, InStepCounts DEF Synced, InStep, OnCreation
  <2>2. CASE pair' = [pair EXCEPT !["A"] = Garbage]
    BY <1>4, <2>1, <2>2 DEF HeadBodyOrTorn, Side
  <2>3. CASE pair' = [pair EXCEPT !["A"] = LiveSector(FirstHead, 0)]
    <3>1. pair' \in [Side -> Sector] /\ "A" \in Side /\ pair'["A"] = LiveSector(FirstHead, 0)
      BY <1>1, <2>3, FirstHeadTyped DEF Side
    <3>2. \A t \in LiveSides(pair') : t = "A"
      BY <2>1, <2>3, <1>1 DEF LiveSides
    <3>3. LiveSides(pair') # {} /\ ScanAux(pair') = [side |-> "A", head |-> FirstHead, len |-> 0]
      BY <3>1, <3>2, ScanOfGreatest, Zenon
    <3>4. ScannedCount' = 0 /\ ScannedMark' = 0
      BY <3>3 DEF ScannedCount, ScannedMark, BootCount, FirstHead
    <3> QED BY <2>1, <3>4
  <2> QED BY <1>11, <2>2, <2>3 DEF HeadMacOrTorn
<1>12. CASE pc \in Ticking /\ pair' = WithBootCell
  BY <1>12, TickCounts DEF Counter!Next, Counter!CountBoot
<1> QED BY <1>2, <1>6, <1>7, <1>8, <1>9, <1>10, <1>11, <1>12 DEF Torn

\* A step that completes leaves the flash in one of the states it may leave if
\* it does not.
LEMMA StepIsTorn ==
  ASSUME Next
  PROVE  Torn
<1> USE DEF ErasedOrTorn, HeadBodyOrTorn, HeadMacOrTorn, Torn
<1>1. CASE Mount \/ Refresh \/ RecordBoot \/ Acknowledge \/ Format \/ Formatted \/ Wipe
  BY <1>1 DEF Mount, Refresh, RecordBoot, Acknowledge, Format, Formatted, Wipe, Scan
<1>2. CASE Tidy \/ RotateErase \/ RotateHead
  BY <1>2 DEF Tidy, RotateErase, RotateHead
<1>3. CASE RotateMac \/ RotateRetire \/ TickBoot
  BY <1>3 DEF RotateMac, RotateRetire, TickBoot
<1>4. CASE CreateErase("A", "createA", "createB") \/ CreateErase("B", "createB", "createHead")
  BY <1>4 DEF CreateErase
<1>5. CASE CreateHead \/ CreateMac
  BY <1>5 DEF CreateHead, CreateMac
<1>6. CASE Cut \/ Fault
  BY <1>6 DEF Cut, Fault
<1> QED BY <1>1, <1>2, <1>3, <1>4, <1>5, <1>6 DEF Next

\* After a scan with nothing to tidy, RAM is in step.
LEMMA ScanInStep ==
  ASSUME NEW p \in [Side -> Sector], NEW a, a = ScanAux(p),
         LiveSides(p) # {} => p[Other(Elected(p))].kind # "live"
  PROVE  IF a = NoAux THEN LiveSides(p) = {}
         ELSE LiveSides(p) = {a.side} /\ p[a.side] = LiveSector(a.head, a.len)
<1>1. CASE LiveSides(p) = {}
  BY <1>1 DEF ScanAux
<1>2. CASE LiveSides(p) # {}
  <2>1. Elected(p) \in LiveSides(p) /\ Elected(p) \in Side
    BY <1>2, ElectedIsLive, SectorsCounted DEF LiveSides
  <2>2. LiveSides(p) = {Elected(p)}
    BY <1>2, <2>1, TwoSides DEF LiveSides
  <2>3. /\ a = [side |-> Elected(p), head |-> p[Elected(p)].head, len |-> p[Elected(p)].len]
        /\ a # NoAux
    BY <1>2, <2>1 DEF ScanAux, NoAux, Side
  <2> QED BY <2>1, <2>2, <2>3, LiveIsSector
<1> QED BY <1>1, <1>2

LEMMA RescanSynced ==
  ASSUME Synced, Scan, formatted' \in BOOLEAN, booted' \in BOOLEAN
  PROVE  Synced'
<1>1. Typed' /\ pair' = pair /\ pair \in [Side -> Sector]
  BY RescanTyped DEF Synced, Scan, Typed, TypeOK
<1>2. CASE pc' = "tidy"
  BY <1>1, <1>2 DEF Synced, OnCreation, OnRotation
<1>3. CASE pc' # "tidy"
  <2>1. aux' = ScanAux(pair) /\ pc' \in {"ready", "boot"}
        /\ (LiveSides(pair) # {} => pair[Other(Elected(pair))] = Blank)
    BY <1>3 DEF Scan, Idle
  <2>2. InStep'
    BY <1>1, <2>1, ScanInStep DEF InStep, Blank
  <2> QED BY <1>1, <2>1, <2>2 DEF Synced, OnCreation, OnRotation
<1> QED BY <1>2, <1>3

\* A step on a side that is not live, with RAM unchanged, leaves RAM in step.
LEMMA DeadSideInStep ==
  ASSUME Typed, InStep, NEW t \in Side, t \notin LiveSides(pair), aux' = aux,
         NEW left \in {Garbage, Blank}, pair' = [pair EXCEPT ![t] = left]
  PROVE  InStep'
<1>1. /\ LiveSides(pair') = LiveSides(pair)
      /\ \A s \in LiveSides(pair) : pair'[s] = pair[s]
  BY DeadSideChanges
<1> QED BY <1>1 DEF InStep

\* Every step of a system without transient faults keeps RAM in step.
LEMMA SyncedStep ==
  ASSUME Synced, [Next]_vars, ~Faults
  PROVE  Synced'
<1> USE DEF OnRotation, OnCreation, Ticking
<1>0. Typed /\ Typed'
  BY TypedStep DEF Synced
<1>1. CASE UNCHANGED vars
  BY <1>0, <1>1 DEF vars, Synced, InStep, BootCount
<1>2. CASE Mount \/ Refresh \/ Formatted \/ Wipe
  BY <1>2, RescanSynced DEF Mount, Refresh, Formatted, Wipe, Typed, TypeOK, Synced
<1>3. CASE Tidy
  <2>1. aux' = ScanAux(pair') /\ pair' \in [Side -> Sector]
    BY <1>0, <1>3, TidyScans DEF Tidy
  <2>2. /\ LiveSides(pair') # {} /\ Elected(pair') = Elected(pair)
        /\ pair'[Other(Elected(pair))] = Blank
    <3>1. pair \in [Side -> Sector] /\ LiveSides(pair) # {} /\ Counted(pair)
      BY <1>3, SectorsCounted DEF Tidy, Synced, Typed, TypeOK
    <3>2. Elected(pair) \in Side
      BY <3>1, ElectedIsLive DEF LiveSides
    <3>3. pair' \in ErasedOrTorn(pair, Other(Elected(pair)))
      BY <1>3 DEF Tidy, ErasedOrTorn
    <3>4. pair'[Other(Elected(pair))] = Blank
      BY <1>3, <3>1, <3>2, TwoSides DEF Tidy
    <3> QED BY <3>1, <3>3, <3>4, LoserIsErased
  <2>3. InStep'
    BY <2>1, <2>2, ScanInStep DEF InStep, Blank
  <2> QED BY <1>0, <1>3, <2>3 DEF Tidy, Idle, Synced
<1>4. CASE RecordBoot \/ Acknowledge
  BY <1>0, <1>4 DEF RecordBoot, Acknowledge, Synced, InStep, BootCount
<1>5. CASE Format
  BY <1>0, <1>5 DEF Format, Synced, InStep
<1>6. CASE CreateErase("A", "createA", "createB") \/ CreateErase("B", "createB", "createHead")
  <2>1. /\ pc \in OnCreation /\ InStep /\ aux = NoAux /\ LiveSides(pair) = {}
        /\ aux' = aux /\ pc' \in OnCreation /\ "A" \in Side /\ "B" \in Side
    BY <1>6 DEF CreateErase, Synced, InStep, Side
  <2>2. InStep'
    BY <1>0, <1>6, <2>1, DeadSideInStep DEF CreateErase
  <2> QED BY <1>0, <2>1, <2>2 DEF Synced
<1>7. CASE CreateHead
  <2>1. /\ InStep /\ aux = NoAux /\ LiveSides(pair) = {}
        /\ aux' = aux /\ pc' \in OnCreation /\ "A" \in Side
    BY <1>7 DEF CreateHead, Synced, InStep, Side
  <2>2. InStep'
    BY <1>0, <1>7, <2>1, DeadSideInStep DEF CreateHead
  <2> QED BY <1>0, <2>1, <2>2 DEF Synced
<1>8. CASE CreateMac
  <2>1. LiveSides(pair) = {} /\ pair \in [Side -> Sector] /\ "A" \in Side
    BY <1>8 DEF CreateMac, Synced, InStep, Typed, TypeOK, Side
  <2>2. LiveSides(pair') = {"A"} /\ pair'["A"] = LiveSector(FirstHead, 0)
    BY <1>8, <2>1 DEF CreateMac, LiveSides, LiveSector
  <2>3. aux' # NoAux /\ aux'.side = "A" /\ aux'.head = FirstHead /\ aux'.len = 0
    BY <1>8 DEF CreateMac, NoAux
  <2>4. InStep'
    BY <2>2, <2>3 DEF InStep
  <2> QED BY <1>0, <1>8, <2>4 DEF CreateMac, Synced, Typed, TypeOK
<1>9. CASE RotateErase \/ RotateHead
  <2>1. /\ InStep /\ aux # NoAux /\ Target \in Side /\ Target # aux.side
    BY <1>0, <1>9, HeadsTyped, TwoSides DEF RotateErase, RotateHead, Synced, Typed, Target
  <2>2. Target \notin LiveSides(pair) /\ aux' = aux
    BY <1>9, <2>1 DEF InStep, RotateErase, RotateHead
  <2>3. InStep'
    BY <1>0, <1>9, <2>1, <2>2, DeadSideInStep DEF RotateErase, RotateHead
  <2> QED BY <1>0, <1>9, <2>3 DEF RotateErase, RotateHead, Synced, BootCount
<1>10. CASE RotateMac
  <2>1. /\ InStep /\ aux # NoAux /\ Target # aux.side /\ pair \in [Side -> Sector]
        /\ aux.side \in Side /\ aux' = aux
    BY <1>0, <1>10, HeadsTyped, TwoSides DEF RotateMac, Synced, Typed, TypeOK, Target
  <2>2. pair'[aux.side] = LiveSector(aux.head, aux.len)
    BY <1>10, <2>1 DEF RotateMac, InStep
  <2> QED BY <1>0, <1>10, <2>1, <2>2 DEF RotateMac, Synced, BootCount
<1>11. CASE RotateRetire
  <2>1. /\ pair \in [Side -> Sector] /\ aux.side \in Side /\ Target \in Side
        /\ Target # aux.side /\ \A t \in Side : t = Target \/ t = aux.side
        /\ pair[Target] = LiveSector(NextHead, 0)
    BY <1>0, <1>11, HeadsTyped, TwoSides DEF RotateRetire, Synced, Typed, TypeOK, Target
  <2>2. pair'[Target] = LiveSector(NextHead, 0) /\ LiveSides(pair') = {Target}
    BY <1>11, <2>1 DEF RotateRetire, LiveSides, LiveSector, Blank
  <2>3. aux' # NoAux /\ aux'.side = Target /\ aux'.head = NextHead /\ aux'.len = 0
    BY <1>11 DEF RotateRetire, NoAux
  <2>4. InStep'
    BY <2>2, <2>3 DEF InStep
  <2> QED BY <1>0, <1>11, <2>4 DEF RotateRetire, Synced, Typed, TypeOK
<1>12. CASE TickBoot
  <2>1. LiveSides(pair') = {aux.side} /\ pair'[aux.side] = LiveSector(aux.head, aux.len + 1)
    BY <1>12, TickCounts DEF TickBoot
  <2>2. aux \in AuxState /\ aux' = [aux EXCEPT !.len = @ + 1]
    BY <1>0, <1>12, HeadsTyped DEF TickBoot, Typed
  <2>3. aux'.side = aux.side /\ aux'.head = aux.head /\ aux'.len = aux.len + 1
    BY <2>2 DEF AuxState
  <2>4. aux' # NoAux
    BY <2>2 DEF AuxState, NoAux
  <2>5. InStep'
    BY <2>1, <2>3, <2>4 DEF InStep
  <2> QED BY <1>0, <1>12, <2>5 DEF TickBoot, Synced
<1>13. CASE Cut
  BY <1>0, <1>13 DEF Cut, Synced
<1>14. CASE Fault
  BY <1>14 DEF Fault
<1> QED BY <1>1, <1>2, <1>3, <1>4, <1>5, <1>6, <1>7, <1>8, <1>9, <1>10, <1>11, <1>12, <1>13,
           <1>14 DEF Next

LEMMA SyncedInit ==
  ASSUME Init
  PROVE  Synced /\ ScannedCount = 0 /\ ScannedMark = 0 /\ reported = 0
<1>1. Typed /\ pc = "off" /\ reported = 0
  BY TypedInit DEF Init
<1>2. LiveSides(pair) = {}
  BY DEF Init, LiveSides, Blank
<1> QED BY <1>1, <1>2 DEF Synced, OnCreation, OnRotation, ScannedCount, ScannedMark

\* Each step maps to a step of the abstract counter or to a stutter.
LEMMA StepImplements ==
  ASSUME Synced, [Next]_vars
  PROVE  [Counter!Next]_<<ScannedCount, ScannedMark>>
<1>1. CASE Next
  BY <1>1, StepIsTorn, TornCounts
<1>2. CASE UNCHANGED vars
  BY <1>2 DEF vars, ScannedCount, ScannedMark, ScanAux
<1> QED BY <1>1, <1>2

\* Without transient faults the auxiliary pair, with its rotations, torn
\* writes, recoveries and re-creation, is an atomic counter with a mark
\* (vault.rs record_boot, acknowledge_boots).
THEOREM BootLogIsCounter ==
  ASSUME Faults = FALSE
  PROVE  Spec => ImplementsCounter
<1>1. Init => Synced /\ Counter!Init
  BY SyncedInit DEF Counter!Init
<1>2. Synced /\ [Next]_vars => Synced'
  BY SyncedStep
<1>3. Synced /\ [Next]_vars => [Counter!Next]_<<ScannedCount, ScannedMark>>
  BY StepImplements
<1> QED BY <1>1, <1>2, <1>3, PTL DEF Spec, ImplementsCounter, Counter!Spec

\* The invariant that keeps boots: what was reported was counted, and the
\* count never shrinks.
Kept == Synced /\ BootsNeverForgotten

LEMMA CountIsNat ==
  ASSUME Typed
  PROVE  ScannedCount \in Nat
<1>1. ScanAux(pair) \in AuxState \cup {NoAux}
  BY ScanTyped DEF Typed, TypeOK
<1>2. LiveSides(pair) # {} => ScanAux(pair) \in AuxState
  BY <1>1, ElectedIsLive, SectorsCounted, LiveIsSector DEF Typed, TypeOK, ScanAux, AuxState
<1> QED BY <1>2 DEF ScannedCount, AuxState, AuxHead, BootCount

LEMMA KeptStep ==
  ASSUME Kept, [Next]_vars, ~Faults
  PROVE  Kept'
<1>1. Synced' /\ ScannedCount \in Nat /\ reported \in Nat
  BY SyncedStep, CountIsNat DEF Kept, Synced, Typed, TypeOK
<1>2. ScannedCount <= ScannedCount' /\ ScannedCount' \in Nat
  <2>1. [Counter!Next]_<<ScannedCount, ScannedMark>>
    BY StepImplements DEF Kept
  <2>2. ScannedCount' = ScannedCount \/ ScannedCount' = ScannedCount + 1
    BY <2>1 DEF Counter!Next, Counter!CountBoot, Counter!MarkSeen
  <2> QED BY <1>1, <2>2
<1>3. CASE TickBoot
  <2>1. ScannedCount = BootCount(aux) /\ ScannedCount' = ScannedCount + 1
    BY <1>3, InStepCounts, TickCounts DEF Kept, Synced, Typed, OnRotation, Ticking, TickBoot
  <2>2. BootCount(aux') = BootCount(aux) + 1
    BY <1>3, HeadsTyped DEF TickBoot, Kept, Synced, Typed, AuxState, AuxHead, BootCount
  <2> QED BY <1>1, <1>3, <2>1, <2>2 DEF TickBoot, Kept, BootsNeverForgotten
<1>4. CASE ~TickBoot
  <2>1. reported' = reported
    BY <1>4 DEF Next, vars, Mount, Refresh, Tidy, RecordBoot, Acknowledge, Format, Formatted,
                Wipe, Scan, CreateErase, CreateHead, CreateMac, RotateErase, RotateHead,
                RotateMac, RotateRetire, Cut, Fault
  <2> QED BY <1>1, <1>2, <2>1 DEF Kept, BootsNeverForgotten
<1> QED BY <1>3, <1>4

\* Without transient faults no boot that was reported is ever missing from
\* what a later mount reads (vault.rs record_boot).
THEOREM BootsKept ==
  ASSUME Faults = FALSE
  PROVE  Spec => []BootsNeverForgotten
<1>1. Init => Kept
  BY SyncedInit DEF Kept, BootsNeverForgotten
<1>2. Kept /\ [Next]_vars => Kept'
  BY KeptStep
<1>3. Kept => BootsNeverForgotten
  BY DEF Kept
<1> QED BY <1>1, <1>2, <1>3, PTL DEF Spec

-----------------------------------------------------------------------------
(***************************************************************************)
(* What holds of the heads themselves, transient faults included: RAM may  *)
(* then be behind the flash, but where it names a live side it has that    *)
(* side's head, so the head a rotation writes is newer than the one beside *)
(* it, and no head marks more boots than it counts.                        *)
(***************************************************************************)
MarkInHead(h) == h.ack <= h.base

HeadsOrdered(p) ==
  /\ \A r, s \in LiveSides(p) : r # s => p[r].head.ctr # p[s].head.ctr
  /\ \A s \in LiveSides(p) : MarkInHead(p[s].head)

SameHead(p, s) == s \in LiveSides(pair) /\ p[s].head = pair[s].head

Ordered ==
  /\ Typed
  /\ HeadsOrdered(pair)
  /\ aux # NoAux => /\ MarkInHead(aux.head)
                    /\ aux.side \in LiveSides(pair) => pair[aux.side].head = aux.head
  /\ pc \in OnRotation => ackTo <= BootCount(aux)
  /\ pc \in OnCreation => aux = NoAux
  /\ pc \in {"createHead", "createMac"} => "B" \notin LiveSides(pair)

\* What is left of a pair of which one side changed, and the new side is not
\* live, or has the head it had, or a newer head than the side it stands beside.
LEMMA HeadsStayOrdered ==
  ASSUME Ordered, NEW t \in Side, NEW left \in Sector, NEW q, q = [pair EXCEPT ![t] = left],
         left.kind = "live" =>
           /\ MarkInHead(left.head)
           /\ Other(t) \in LiveSides(pair) => left.head.ctr # pair[Other(t)].head.ctr
  PROVE  HeadsOrdered(q) /\ \A s \in LiveSides(q) : s = t \/ SameHead(q, s)
<1>1. pair \in [Side -> Sector]
  BY DEF Ordered, Typed, TypeOK
<1>2. \A s \in Side : s = t \/ s = Other(t)
  BY TwoSides
<1>3. Other(t) \in Side /\ Other(t) # t /\ q[t] = left /\ q[Other(t)] = pair[Other(t)]
  BY <1>1, TwoSides
<1>4. LiveSides(q) \subseteq {t, Other(t)}
      /\ (t \in LiveSides(q) => left.kind = "live")
      /\ (Other(t) \in LiveSides(q) => Other(t) \in LiveSides(pair))
  BY <1>2, <1>3 DEF LiveSides
<1>5. \A r, s \in LiveSides(q) : r # s => q[r].head.ctr # q[s].head.ctr
  BY <1>3, <1>4
<1>6. \A s \in LiveSides(q) : MarkInHead(q[s].head)
  BY <1>3, <1>4 DEF Ordered, HeadsOrdered
<1> QED BY <1>3, <1>4, <1>5, <1>6 DEF HeadsOrdered, SameHead

\* The head a rotation writes is newer than the one beside it, and marks no more
\* than it counts.
LEMMA NextHeadOrdered ==
  ASSUME Ordered, pc \in OnRotation
  PROVE  /\ MarkInHead(NextHead) /\ Other(Target) = aux.side
         /\ aux.side \in LiveSides(pair) => NextHead.ctr # pair[aux.side].head.ctr
<1>1. aux \in AuxState /\ aux # NoAux /\ aux.side \in Side
  BY HeadsTyped DEF Ordered, Typed
<1>2. Other(Target) = aux.side
  BY <1>1 DEF Target, Other, Side
<1>3. aux.head.ctr + 1 # aux.head.ctr
  BY <1>1 DEF AuxState, AuxHead
<1> QED BY <1>1, <1>2, <1>3 DEF Ordered, NextHead, MarkInHead

\* What a step that does not complete may change of the heads on flash.
LEMMA TornOrdered ==
  ASSUME Ordered, Torn
  PROVE  /\ HeadsOrdered(pair')
         /\ \A s \in LiveSides(pair') : \/ SameHead(pair', s)
                                        \/ pc = "mac" /\ s = Target
                                        \/ pc = "createMac" /\ s = "A"
<1> DEFINE AsBefore(p) == HeadsOrdered(p) /\ \A s \in LiveSides(p) : SameHead(p, s)
           Written(p, s) == HeadsOrdered(p) /\ \A r \in LiveSides(p) : r = s \/ SameHead(p, r)
<1>1. pair \in [Side -> Sector] /\ Blank \in Sector /\ Garbage \in Sector
      /\ Blank.kind # "live" /\ Garbage.kind # "live"
  BY DEF Ordered, Typed, TypeOK, Sector, Blank, Garbage
<1>2. ASSUME NEW t \in Side, NEW left \in Sector, pair' = [pair EXCEPT ![t] = left],
             left.kind = "live" =>
               /\ MarkInHead(left.head)
               /\ Other(t) \in LiveSides(pair) => left.head.ctr # pair[Other(t)].head.ctr
      PROVE  Written(pair', t)
  BY <1>2, HeadsStayOrdered
<1>3. ASSUME UNCHANGED pair PROVE AsBefore(pair')
  BY <1>3 DEF Ordered, SameHead
<1> HIDE DEF Written
<1>4. ASSUME NEW t \in Side, NEW left \in {Blank, Garbage, pair[t]},
             pair' = [pair EXCEPT ![t] = left]
      PROVE  AsBefore(pair')
  <2>1. CASE left = pair[t]
    BY <1>1, <1>3, <1>4, <2>1
  <2>2. CASE left \in {Blank, Garbage}
    <3>1. t \notin LiveSides(pair')
      BY <1>1, <1>4, <2>2 DEF LiveSides
    <3>2. Written(pair', t)
      BY <1>1, <1>2, <1>4, <2>2
    <3> QED BY <3>1, <3>2 DEF Written
  <2> QED BY <1>4, <2>1, <2>2
<1>5. ASSUME NEW t \in Side, pair' \in ErasedOrTorn(pair, t) \cup HeadBodyOrTorn(pair, t)
      PROVE  AsBefore(pair')
  BY <1>4, <1>5 DEF ErasedOrTorn, HeadBodyOrTorn
<1>6. pc \in OnRotation => aux.side \in Side /\ Target \in Side /\ Target # aux.side
  BY HeadsTyped, TwoSides DEF Ordered, Typed, Target
<1>7. pc = "tidy" => Other(Elected(pair)) \in Side
  BY <1>1, ElectedIsLive, SectorsCounted, TwoSides DEF Ordered, Typed, LiveSides
<1>8. CASE pc = "mac" /\ pair' \in HeadMacOrTorn(pair, Target, LiveSector(NextHead, 0))
  <2>1. CASE pair' = [pair EXCEPT ![Target] = Garbage]
    BY <1>4, <1>6, <1>8, <2>1 DEF OnRotation
  <2>2. CASE pair' = [pair EXCEPT ![Target] = LiveSector(NextHead, 0)]
    <3>1. /\ Target \in Side /\ LiveSector(NextHead, 0) \in Sector
          /\ LiveSector(NextHead, 0).head = NextHead
      BY <1>8, HeadsTyped DEF Ordered, Typed, OnRotation, LiveSector
    <3>2. Written(pair', Target)
      BY <1>2, <1>8, <2>2, <3>1, NextHeadOrdered DEF OnRotation
    <3> QED BY <1>8, <3>2 DEF Written
  <2> QED BY <1>8, <2>1, <2>2 DEF HeadMacOrTorn
<1>9. CASE pc = "createMac" /\ pair' \in HeadMacOrTorn(pair, "A", LiveSector(FirstHead, 0))
  <2>1. CASE pair' = [pair EXCEPT !["A"] = Garbage]
    BY <1>4, <2>1 DEF Side
  <2>2. CASE pair' = [pair EXCEPT !["A"] = LiveSector(FirstHead, 0)]
    <3>1. /\ LiveSector(FirstHead, 0) \in Sector /\ LiveSector(FirstHead, 0).head = FirstHead
          /\ MarkInHead(FirstHead) /\ "A" \in Side
      BY FirstHeadTyped DEF LiveSector, MarkInHead, FirstHead, Side
    <3>2. Other("A") \notin LiveSides(pair)
      BY <1>9 DEF Ordered, Other
    <3>3. Written(pair', "A")
      BY <1>2, <2>2, <3>1, <3>2
    <3> QED BY <1>9, <3>3 DEF Written
  <2> QED BY <1>9, <2>1, <2>2 DEF HeadMacOrTorn
<1>10. CASE pc \in Ticking /\ pair' = WithBootCell
  <2>1. /\ aux.side \in Side /\ aux.side \in LiveSides(pair)
        /\ pair' \in [Side -> Sector]
    BY <1>10, HeadsTyped, BootCellTyped DEF Ordered, Typed, LiveSides
  <2>2. pair' = [pair EXCEPT ![aux.side] = pair'[aux.side]]
        /\ pair'[aux.side].head = pair[aux.side].head /\ pair'[aux.side] \in Sector
    BY <1>1, <1>10, <2>1 DEF WithBootCell, LiveSector
  <2>3. /\ MarkInHead(pair[aux.side].head)
        /\ Other(aux.side) \in LiveSides(pair) =>
             pair[aux.side].head.ctr # pair[Other(aux.side)].head.ctr
    BY <2>1, TwoSides DEF Ordered, HeadsOrdered
  <2>4. Written(pair', aux.side)
    BY <1>2, <2>1, <2>2, <2>3
  <2> QED BY <2>1, <2>2, <2>4 DEF Written, SameHead
<1>11. CASE \/ UNCHANGED pair
            \/ \E t \in Side : pair' \in ErasedOrTorn(pair, t) \cup HeadBodyOrTorn(pair, t)
  BY <1>3, <1>5, <1>11
<1> HIDE DEF AsBefore
<1> QED BY <1>6, <1>7, <1>8, <1>9, <1>10, <1>11 DEF Torn, OnRotation, Side

\* Every step, of a system with transient faults too, preserves the order.
LEMMA OrderedStep ==
  ASSUME Ordered, [Next]_vars
  PROVE  Ordered'
<1> USE DEF OnRotation, OnCreation, Ticking
<1> DEFINE RamOrdered == aux # NoAux =>
             /\ MarkInHead(aux.head)
             /\ aux.side \in LiveSides(pair) => pair[aux.side].head = aux.head
<1>0. CASE UNCHANGED vars
  <2>1. Typed'
    BY TypedStep DEF Ordered
  <2> QED BY <1>0, <2>1 DEF vars, Ordered, BootCount, HeadsOrdered
<1> SUFFICES ASSUME Next PROVE Ordered'
  BY <1>0
<1>1. Typed /\ Typed' /\ HeadsOrdered(pair')
  BY TypedStep, StepIsTorn, TornOrdered DEF Ordered
<1>2. \A s \in LiveSides(pair') : \/ SameHead(pair', s)
                                  \/ pc = "mac" /\ s = Target
                                  \/ pc = "createMac" /\ s = "A"
  BY StepIsTorn, TornOrdered
<1>3. ASSUME aux' = aux PROVE RamOrdered'
  <2>1. SUFFICES ASSUME aux # NoAux, aux.side \in LiveSides(pair')
                 PROVE  pair'[aux.side].head = aux.head
    BY <1>3 DEF Ordered
  <2>2. pc = "mac" => Target # aux.side
    BY <1>1, HeadsTyped, TwoSides DEF Typed, Target
  <2> QED BY <1>2, <2>1, <2>2 DEF Ordered, SameHead
<1>4. ASSUME aux' = ScanAux(pair), UNCHANGED pair PROVE RamOrdered'
  <2>1. SUFFICES ASSUME LiveSides(pair) # {} PROVE RamOrdered'
    BY <1>4 DEF ScanAux
  <2>2. Elected(pair) \in LiveSides(pair)
    BY <1>1, <2>1, ElectedIsLive, SectorsCounted DEF Typed, TypeOK
  <2> QED BY <1>4, <2>1, <2>2 DEF ScanAux, Ordered, HeadsOrdered
<1>5. CASE Mount \/ Refresh \/ Formatted \/ Wipe
  <2>1. UNCHANGED pair /\ aux' \in {aux, ScanAux(pair)} /\ pc' \in {"tidy", "ready", "boot"}
    BY <1>5 DEF Mount, Refresh, Formatted, Wipe, Scan, Idle
  <2>2. RamOrdered'
    BY <1>3, <1>4, <2>1
  <2> QED BY <1>1, <2>1, <2>2 DEF Ordered
<1>6. CASE Tidy
  <2>1. LiveSides(pair) # {} /\ pc' \in {"ready", "boot"} /\ aux' = ScanAux(pair)
    BY <1>1, <1>6 DEF Tidy, Typed, Idle
  <2>2. Elected(pair) \in LiveSides(pair)
    BY <1>1, <2>1, ElectedIsLive, SectorsCounted DEF Typed, TypeOK
  <2>3. aux'.side = Elected(pair) /\ aux'.head = pair[Elected(pair)].head
    BY <2>1 DEF ScanAux
  <2>4. RamOrdered'
    BY <1>2, <1>6, <2>2, <2>3 DEF Tidy, SameHead, Ordered, HeadsOrdered
  <2> QED BY <1>1, <2>1, <2>4 DEF Ordered
<1>7. CASE RecordBoot
  <2>1. UNCHANGED <<pair, aux>> /\ pc' \in {"ready", "createA", "erase", "tick"}
        /\ (pc' = "createA" => aux = NoAux)
        /\ (pc' = "erase" => aux # NoAux /\ ackTo' = aux.head.ack)
    BY <1>7 DEF RecordBoot
  <2>2. pc' = "erase" => aux.head.ack <= BootCount(aux)
    BY <1>1, <2>1 DEF Ordered, Typed, TypeOK, AuxState, AuxHead, BootCount, MarkInHead
  <2>3. RamOrdered'
    BY <1>3, <2>1
  <2> QED BY <1>1, <2>1, <2>2, <2>3 DEF Ordered, BootCount
<1>8. CASE Acknowledge
  <2>1. BootCount(aux) \in Nat
    BY <1>1, <1>8 DEF Acknowledge, Typed, TypeOK, AuxState, AuxHead, BootCount
  <2>2. RamOrdered'
    BY <1>3, <1>8 DEF Acknowledge
  <2> QED BY <1>1, <1>8, <2>1, <2>2 DEF Acknowledge, Ordered, BootCount
<1>9. CASE Format
  <2>1. RamOrdered'
    BY <1>3, <1>9 DEF Format
  <2> QED BY <1>1, <1>9, <2>1 DEF Format, Ordered
<1>10. CASE CreateErase("A", "createA", "createB") \/ CreateErase("B", "createB", "createHead")
  <2>1. RamOrdered'
    BY <1>3, <1>10 DEF CreateErase
  <2>2. pc' = "createHead" => "B" \notin LiveSides(pair')
    BY <1>1, <1>10 DEF CreateErase, LiveSides, Blank, Typed, TypeOK, Side
  <2> QED BY <1>1, <1>10, <2>1, <2>2 DEF CreateErase, Ordered
<1>11. CASE CreateHead
  <2>1. RamOrdered'
    BY <1>3, <1>11 DEF CreateHead
  <2>2. "B" \notin LiveSides(pair')
    BY <1>1, <1>11 DEF CreateHead, LiveSides, Typed, TypeOK, Ordered
  <2> QED BY <1>1, <1>11, <2>1, <2>2 DEF CreateHead, Ordered
<1>12. CASE CreateMac
  <2>1. aux'.side = "A" /\ aux'.head = FirstHead /\ pair'["A"].head = FirstHead
        /\ pc' \in {"ready", "tick", "tickNew", "format"}
    BY <1>1, <1>12 DEF CreateMac, Typed, TypeOK, LiveSector, Side
  <2> QED BY <1>1, <2>1 DEF Ordered, MarkInHead, FirstHead
<1>13. CASE RotateErase \/ RotateHead \/ RotateMac
  <2>1. RamOrdered'
    BY <1>3, <1>13 DEF RotateErase, RotateHead, RotateMac
  <2> QED BY <1>1, <1>13, <2>1 DEF RotateErase, RotateHead, RotateMac, Ordered, BootCount
<1>14. CASE RotateRetire
  <2>1. aux'.side = Target /\ aux'.head = NextHead /\ pc' \in {"ready", "tick", "tickNew", "format"}
    BY <1>1, <1>14 DEF RotateRetire, Typed, TypeOK
  <2>2. MarkInHead(NextHead) /\ pair[Target] = LiveSector(NextHead, 0)
    BY <1>1, <1>14, NextHeadOrdered DEF RotateRetire, Typed
  <2>3. pair'[Target].head = NextHead
    BY <1>1, <1>14, <2>2, HeadsTyped, TwoSides DEF RotateRetire, LiveSector, Typed, TypeOK, Target
  <2> QED BY <1>1, <2>1, <2>2, <2>3 DEF Ordered
<1>15. CASE TickBoot
  <2>1. aux'.side = aux.side /\ aux'.head = aux.head /\ aux # NoAux /\ pc' = "ready"
    BY <1>1, <1>15, HeadsTyped DEF TickBoot, Typed, AuxState
  <2>2. aux'.side \in LiveSides(pair') => pair'[aux.side].head = aux.head
    BY <1>2, <1>15, <2>1 DEF SameHead, Ordered, TickBoot
  <2> QED BY <1>1, <2>1, <2>2 DEF Ordered
<1>16. CASE Cut
  BY <1>1, <1>16 DEF Cut, Ordered
<1>17. CASE Fault
  <2>1. RamOrdered'
    BY <1>3, <1>17 DEF Fault
  <2> QED BY <1>1, <1>17, <2>1 DEF Fault, Ordered
<1> QED BY <1>5, <1>6, <1>7, <1>8, <1>9, <1>10, <1>11, <1>12, <1>13, <1>14, <1>15, <1>16, <1>17
        DEF Next

LEMMA OrderedInit == Init => Ordered
<1> SUFFICES ASSUME Init PROVE Ordered
  OBVIOUS
<1>1. Typed
  BY TypedInit
<1>2. LiveSides(pair) = {} /\ pc = "off" /\ aux = NoAux
  BY DEF Init, LiveSides, Blank
<1> QED BY <1>1, <1>2 DEF Ordered, HeadsOrdered, OnRotation, OnCreation

\* Whatever faults there are, the election between the two sides is decided by
\* their rotation counters (ledger.rs scan_aux).
THEOREM ElectionIsDecided == Spec => []ElectionDecided
<1>1. Ordered => ElectionDecided
  BY DEF Ordered, HeadsOrdered, ElectionDecided
<1> QED BY <1>1, OrderedInit, OrderedStep, PTL DEF Spec

\* Whatever faults there are, the mark is never ahead of the count, so the
\* saturating subtraction of boots_since_acknowledged is exact (vault.rs).
THEOREM MarkIsBehind == Spec => []MarkWithinCount
<1>1. ASSUME Ordered PROVE MarkWithinCount
  <2>1. pair \in [Side -> Sector]
    BY <1>1 DEF Ordered, Typed, TypeOK
  <2>2. CASE LiveSides(pair) = {}
    BY <2>2 DEF MarkWithinCount, ScannedMark, ScannedCount
  <2>3. CASE LiveSides(pair) # {}
    <3>1. Elected(pair) \in LiveSides(pair)
      BY <2>1, <2>3, ElectedIsLive, SectorsCounted
    <3>2. /\ pair[Elected(pair)].head \in AuxHead /\ pair[Elected(pair)].len \in Nat
          /\ MarkInHead(pair[Elected(pair)].head)
      BY <1>1, <2>1, <3>1, LiveIsSector DEF Ordered, HeadsOrdered
    <3>3. /\ ScannedMark = pair[Elected(pair)].head.ack
          /\ ScannedCount = pair[Elected(pair)].head.base + pair[Elected(pair)].len
      BY <2>3 DEF ScannedMark, ScannedCount, ScanAux, BootCount
    <3> QED BY <3>2, <3>3 DEF MarkWithinCount, MarkInHead, AuxHead
  <2> QED BY <2>2, <2>3
<1> QED BY <1>1, OrderedInit, OrderedStep, PTL DEF Spec

=============================================================================
