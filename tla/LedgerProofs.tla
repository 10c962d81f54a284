----------------------------- MODULE LedgerProofs ---------------------------
(***************************************************************************)
(* Theorems about Ledger, for every size of its logs, every reserve, limit *)
(* and policy, any finite number of identities, and errors at any set of   *)
(* steps.                                                                  *)
(*                                                                         *)
(* The inductive invariant has two parts.  Base holds always, also after   *)
(* an error has left RAM and flash apart: types, what each step may rely   *)
(* on, and how far the ledger in RAM may lag behind the side it is kept    *)
(* on.  Agreed holds until such an error: RAM is what the flash says, but  *)
(* for the one cell a step may have left behind it.                        *)
(*                                                                         *)
(* Where no step fails but by a power cut, Clean is added to it: RAM is    *)
(* the scan, cell for cell.  The refinement of CounterStore rests on that. *)
(***************************************************************************)
EXTENDS Ledger, FiniteSetTheorems, TLAPS

-----------------------------------------------------------------------------
(***************************************************************************)
(* The election.                                                           *)
(***************************************************************************)
\* Rotation counters of live sides are numbers.
Counted(p) == \A s \in LiveSides(p) : p[s].head.ctr \in Nat

\* The other side is a side, another one, and there is no third.
LEMMA TwoSides ==
  ASSUME NEW s \in Side
  PROVE  Other(s) \in Side /\ Other(s) # s /\ \A t \in Side : t = s \/ t = Other(s)
BY DEF Side, Other

\* The elected side is live, and no live side has a greater rotation counter.
LEMMA ElectedIsLive ==
  ASSUME NEW p, LiveSides(p) # {}, Counted(p)
  PROVE  /\ Elected(p) \in LiveSides(p)
         /\ \A t \in LiveSides(p) :
              \/ p[t].head.ctr < p[Elected(p)].head.ctr
              \/ p[t].head.ctr = p[Elected(p)].head.ctr /\ (Elected(p) = "A" \/ t = Elected(p))
<1> DEFINE Best(s) == \A t \in LiveSides(p) :
                        \/ p[t].head.ctr < p[s].head.ctr
                        \/ p[t].head.ctr = p[s].head.ctr /\ (s = "A" \/ t = s)
<1>1. LiveSides(p) \subseteq {"A", "B"}
  BY DEF LiveSides, Side
<1>2. \E s \in LiveSides(p) : Best(s)
  <2>1. CASE LiveSides(p) = {"A"}
    BY <2>1
  <2>2. CASE LiveSides(p) = {"B"}
    BY <2>2
  <2>3. CASE LiveSides(p) = {"A", "B"}
    <3>1. p["A"].head.ctr \in Nat /\ p["B"].head.ctr \in Nat
      BY <2>3 DEF Counted
    <3>2. CASE p["A"].head.ctr < p["B"].head.ctr
      BY <2>3, <3>2
    <3>3. CASE p["B"].head.ctr <= p["A"].head.ctr
      BY <2>3, <3>1, <3>3
    <3> QED BY <3>1, <3>2, <3>3
  <2> QED BY <1>1, <2>1, <2>2, <2>3
<1>3. Elected(p) = CHOOSE s \in LiveSides(p) : Best(s)
  BY DEF Elected
<1> HIDE DEF Best
<1>4. Elected(p) \in LiveSides(p) /\ Best(Elected(p))
  BY <1>2, <1>3
<1> QED BY <1>4 DEF Best

\* A side that is the only live one is elected.
LEMMA OnlyLiveIsElected ==
  ASSUME NEW p, NEW s, LiveSides(p) = {s}, Counted(p)
  PROVE  Elected(p) = s
BY ElectedIsLive

\* Of two live sides the one with the greater counter is elected.
LEMMA GreaterIsElected ==
  ASSUME NEW p, NEW s, Counted(p), s \in LiveSides(p),
         \A t \in LiveSides(p) : t # s => p[t].head.ctr < p[s].head.ctr
  PROVE  Elected(p) = s
<1>1. Elected(p) \in LiveSides(p)
  BY ElectedIsLive
<1>2. SUFFICES ASSUME Elected(p) # s PROVE FALSE
  OBVIOUS
<1>3. p[Elected(p)].head.ctr < p[s].head.ctr
  BY <1>1, <1>2
<1>4. p[s].head.ctr <= p[Elected(p)].head.ctr
  BY ElectedIsLive DEF Counted
<1> QED BY <1>1, <1>3, <1>4 DEF Counted

\* Whatever is left of the side that lost, the side that won is elected still.
LEMMA LoserIsErased ==
  ASSUME NEW S, NEW p \in [Side -> S], LiveSides(p) # {}, Counted(p),
         NEW q \in ErasedOrTorn(p, Other(Elected(p)))
  PROVE  /\ LiveSides(q) # {} /\ Counted(q)
         /\ Elected(q) = Elected(p) /\ q[Elected(p)] = p[Elected(p)]
<1> DEFINE w == Elected(p)
           l == Other(w)
<1>1. w \in LiveSides(p) /\ w \in Side
  BY ElectedIsLive DEF LiveSides
<1>2. l \in Side /\ l # w /\ \A t \in Side : t = w \/ t = l
  BY <1>1, TwoSides
<1>3. PICK left \in {p[l], Garbage, Blank} : q = [p EXCEPT ![l] = left]
  BY DEF ErasedOrTorn
<1> HIDE DEF w, l
<1>4. CASE left = p[l]
  BY <1>3, <1>4, <1>2 DEF w
<1>5. CASE left \in {Garbage, Blank}
  <2>1. q[w] = p[w] /\ q[l] = left
    BY <1>1, <1>2, <1>3
  <2>2. LiveSides(q) = {w}
    BY <1>1, <1>2, <1>5, <2>1 DEF LiveSides, Garbage, Blank
  <2>3. Counted(q)
    BY <1>1, <2>1, <2>2 DEF Counted
  <2> QED BY <2>1, <2>2, <2>3, OnlyLiveIsElected DEF w
<1> QED BY <1>3, <1>4, <1>5

-----------------------------------------------------------------------------
(***************************************************************************)
(* Naturals.  A scan takes the greatest generation it has seen, and a new  *)
(* one is greater than any committed, so there must be one.                *)
(***************************************************************************)
\* A set of naturals that is not empty has a least element.
LEMMA LeastNatural ==
  ASSUME NEW T \in SUBSET Nat, T # {}
  PROVE  \E m \in T : \A k \in T : m <= k
<1>1. PICK m \in T : \A k \in T : <<k, m>> \notin OpToRel(<, Nat)
  BY WFMin, NatLessThanWellFounded
<1>2. \A k \in T : ~(k < m)
  BY <1>1 DEF OpToRel
<1> QED BY <1>2

\* And a greatest one, if it is bounded.
LEMMA GreatestNatural ==
  ASSUME NEW S \in SUBSET Nat, S # {}, NEW b \in Nat, \A k \in S : k <= b
  PROVE  \E m \in S : \A k \in S : k <= m
<1> DEFINE T == {n \in Nat : \E k \in S : n = b - k}
<1>1. T # {} /\ T \in SUBSET Nat
  <2>1. PICK k \in S : TRUE
    OBVIOUS
  <2>2. b - k \in T
    OBVIOUS
  <2> QED BY <2>2
<1>2. PICK n \in T : \A j \in T : n <= j
  <2> HIDE DEF T
  <2> QED BY <1>1, LeastNatural
<1>3. PICK m \in S : n = b - m
  BY <1>2
<1>4. \A k \in S : b - k \in T
  OBVIOUS
<1> QED BY <1>2, <1>3, <1>4

\* Finitely many naturals have a bound.
LEMMA ListBounded ==
  ASSUME NEW n \in Nat, NEW h \in [1 .. n -> Nat]
  PROVE  \E b \in Nat : \A i \in 1 .. n : h[i] <= b
<1> DEFINE Bounded(k) == \E b \in Nat : \A i \in 1 .. k : h[i] <= b
           T == {k \in 0 .. n : ~Bounded(k)}
<1>1. SUFFICES ASSUME T # {} PROVE FALSE
  <2>1. n \in 0 .. n
    OBVIOUS
  <2> QED BY <2>1
<1>2. PICK m \in T : \A k \in T : m <= k
  <2>1. T \in SUBSET Nat
    OBVIOUS
  <2> HIDE DEF T
  <2> QED BY <1>1, <2>1, LeastNatural
<1>3. m # 0
  <2>1. \A i \in 1 .. 0 : h[i] <= 0
    OBVIOUS
  <2>2. Bounded(0)
    BY <2>1
  <2> QED BY <2>2
<1>4. Bounded(m - 1)
  <2>1. m \in 0 .. n /\ m - 1 \in 0 .. n /\ ~(m <= m - 1)
    BY <1>3
  <2>2. m - 1 \notin T
    BY <1>2, <2>1
  <2> HIDE DEF Bounded
  <2> QED BY <2>1, <2>2
<1>5. PICK b \in Nat : \A i \in 1 .. (m - 1) : h[i] <= b
  BY <1>4
<1>6. m \in 1 .. n /\ h[m] \in Nat
  BY <1>3
<1>7. \A i \in 1 .. m : h[i] <= b + h[m]
  <2>1. TAKE i \in 1 .. m
  <2>2. CASE i = m
    BY <1>6, <2>2
  <2>3. CASE i # m
    <3>1. i \in 1 .. (m - 1) /\ h[i] \in Nat
      BY <1>6, <2>3
    <3> QED BY <1>5, <1>6, <3>1
  <2> QED BY <2>2, <2>3
<1>8. Bounded(m)
  <2>1. b + h[m] \in Nat
    BY <1>6
  <2> QED BY <1>7, <2>1
<1> QED BY <1>8

LEMMA FamilyBounded ==
  ASSUME NEW I, IsFiniteSet(I), NEW g \in [I -> Nat]
  PROVE  \E b \in Nat : \A i \in I : g[i] <= b
<1>1. PICK n \in Nat : ExistsSurjection(1 .. n, I)
  BY FS_NatSurjection
<1>2. PICK e \in [1 .. n -> I] : \A i \in I : \E j \in 1 .. n : e[j] = i
  BY <1>1 DEF ExistsSurjection, Surjection
<1> DEFINE h == [j \in 1 .. n |-> g[e[j]]]
<1>3. h \in [1 .. n -> Nat]
  OBVIOUS
<1>4. PICK b \in Nat : \A j \in 1 .. n : h[j] <= b
  <2> HIDE DEF h
  <2> QED BY <1>3, ListBounded
<1> QED BY <1>2, <1>4

-----------------------------------------------------------------------------
USE LedgerAssumption

-----------------------------------------------------------------------------
(***************************************************************************)
(* Logs.  A success log is read up to its first bad cell; only the last    *)
(* cell of one can be bad.                                                 *)
(***************************************************************************)
BadAtMostLast(log) == \A n \in 1 .. Len(log) : n < Len(log) => log[n] = "ok"

GoodUpTo(log, k) == \A n \in 1 .. k : log[n] = "ok"

\* How far a success log is read.
LEMMA SuccessRead ==
  ASSUME NEW log \in Seq(Tick), BadAtMostLast(log)
  PROVE  /\ SuccessLen(log) \in 0 .. Len(log)
         /\ Len(log) <= SuccessLen(log) + 1
         /\ GoodUpTo(log, SuccessLen(log))
         /\ \A k \in 0 .. Len(log) : GoodUpTo(log, k) => k <= SuccessLen(log)
<1> DEFINE Stop(n) == /\ \A i \in 1 .. n : log[i] = "ok"
                      /\ n < Len(log) => log[n + 1] # "ok"
           k == IF Len(log) = 0 \/ log[Len(log)] = "ok" THEN Len(log) ELSE Len(log) - 1
<1>1. k \in 0 .. Len(log) /\ Stop(k)
  BY DEF BadAtMostLast
<1>2. SuccessLen(log) \in 0 .. Len(log) /\ Stop(SuccessLen(log))
  <2>1. SuccessLen(log) = CHOOSE n \in 0 .. Len(log) : Stop(n)
    BY DEF SuccessLen
  <2> HIDE DEF Stop, k
  <2> QED BY <1>1, <2>1
<1>3. \A j \in 0 .. Len(log) : GoodUpTo(log, j) => j <= SuccessLen(log)
  BY <1>2 DEF GoodUpTo
<1>4. GoodUpTo(log, k) /\ Len(log) <= k + 1
  BY <1>1 DEF GoodUpTo
<1> HIDE DEF k
<1>5. k <= SuccessLen(log)
  BY <1>1, <1>3, <1>4
<1> QED BY <1>1, <1>2, <1>3, <1>4, <1>5 DEF GoodUpTo

\* A log has a cell i next, or has programmed it already and nothing after it.
AtCell(log, i) == Len(log) = i \/ Len(log) = i + 1

\* new is the log with cell i programmed.
Programs(new, log, i, c) ==
  /\ new \in Seq(Tick) /\ Len(new) = i + 1
  /\ \A n \in 1 .. i : new[n] = log[n]
  /\ new[i + 1] = c

\* Programming the cell a log is at: the log grows by one cell, or the cell that was
\* there already is set.
LEMMA CellSet ==
  ASSUME NEW log \in Seq(Tick), NEW i \in Nat, NEW c \in Tick, AtCell(log, i)
  PROVE  Programs(SetCell(log, i, c), log, i, c)
<1>1. CASE Len(log) = i
  BY <1>1 DEF SetCell, Programs
<1>2. CASE Len(log) = i + 1
  <2>1. SetCell(log, i, c) = [log EXCEPT ![i + 1] = c]
    BY <1>2 DEF SetCell
  <2> QED BY <1>2, <2>1 DEF Programs
<1> QED BY <1>1, <1>2 DEF AtCell

-----------------------------------------------------------------------------
(***************************************************************************)
(* Scanning.                                                               *)
(***************************************************************************)
\* The parts of a live sector.
LEMMA LiveParts ==
  ASSUME NEW x \in Sector, x.kind = "live"
  PROVE  /\ x = [kind |-> "live", head |-> x.head, ticks |-> x.ticks, gens |-> x.gens,
                 policies |-> x.policies]
         /\ x.head \in LedgerHead /\ x.ticks \in [TickLog -> Seq(Tick)]
         /\ x.gens \in Seq(GenCell) /\ x.policies \in Seq(PolicyCell)
BY DEF Sector, Blank, Garbage

LEMMA MakeSector ==
  ASSUME NEW h \in LedgerHead, NEW t \in [TickLog -> Seq(Tick)], NEW g \in Seq(GenCell),
         NEW p \in Seq(PolicyCell)
  PROVE  [kind |-> "live", head |-> h, ticks |-> t, gens |-> g, policies |-> p] \in Sector
BY DEF Sector

LEMMA SectorsCounted ==
  ASSUME NEW p \in [Side -> Sector]
  PROVE  Counted(p)
BY LiveParts DEF Counted, LiveSides, LedgerHead

\* The generations a scan returns are numbers, of the head or of a cell.
LEMMA GensTyped ==
  ASSUME NEW x \in Sector, x.kind = "live"
  PROVE  ScanGens(x) \in [Identity -> Nat]
<1>1. x.head.gens \in [Identity -> Nat] /\ x.gens \in Seq(GenCell)
  BY LiveParts DEF LedgerHead
<1>2. SUFFICES ASSUME NEW i \in Identity PROVE ScanGens(x)[i] \in Nat
  BY DEF ScanGens
<1> DEFINE mine == {n \in GoodCells(x) : x.gens[n].id = i}
           last == CHOOSE n \in mine : \A m \in mine : m <= n
<1>3. mine \in SUBSET Nat /\ \A n \in mine : n <= Len(x.gens) /\ x.gens[n] \in GenCell
  BY <1>1 DEF GoodCells
<1>4. CASE mine = {}
  BY <1>1, <1>4 DEF ScanGens
<1>5. CASE mine # {}
  <2>1. ScanGens(x)[i] = x.gens[last].gen
    BY <1>5 DEF ScanGens
  <2>2. last \in mine
    <3>1. Len(x.gens) \in Nat
      BY <1>1
    <3> HIDE DEF mine
    <3>2. \E n \in mine : \A m \in mine : m <= n
      BY <1>3, <1>5, <3>1, GreatestNatural
    <3> QED BY <3>2
  <2>3. x.gens[last] \in GenCell
    <3> HIDE DEF mine, last
    <3> QED BY <1>3, <2>2
  <2> QED BY <2>1, <2>3 DEF GenCell
<1> QED BY <1>4, <1>5

LEMMA GenNextTyped ==
  ASSUME NEW x \in Sector, x.kind = "live"
  PROVE  /\ ScanGenNext(x) \in Nat
         /\ \A i \in Identity : x.head.gens[i] < ScanGenNext(x)
         /\ \A n \in GoodCells(x) : x.gens[n].gen < ScanGenNext(x)
<1>1. x.head.gens \in [Identity -> Nat] /\ x.gens \in Seq(GenCell)
  BY LiveParts DEF LedgerHead
<1> DEFINE seen == {x.head.gens[i] : i \in Identity} \cup {x.gens[n].gen : n \in GoodCells(x)}
           h == [n \in 1 .. Len(x.gens) |-> x.gens[n].gen]
           top == CHOOSE g \in seen : \A k \in seen : k <= g
<1>2. h \in [1 .. Len(x.gens) -> Nat] /\ Len(x.gens) \in Nat
  <2>1. \A n \in 1 .. Len(x.gens) : x.gens[n] \in GenCell
    BY <1>1
  <2>2. \A n \in 1 .. Len(x.gens) : x.gens[n].gen \in Nat
    BY <2>1 DEF GenCell
  <2> QED BY <1>1, <2>2
<1>3. PICK a \in Nat : \A n \in 1 .. Len(x.gens) : h[n] <= a
  <2> HIDE DEF h
  <2> QED BY <1>2, ListBounded
<1>4. PICK b \in Nat : \A i \in Identity : x.head.gens[i] <= b
  BY <1>1, FamilyBounded
<1>5. \A k \in seen : k \in Nat /\ k <= a + b
  <2>1. \A i \in Identity : x.head.gens[i] \in Nat /\ x.head.gens[i] <= a + b
    BY <1>1, <1>4
  <2>2. \A n \in GoodCells(x) : x.gens[n].gen \in Nat /\ x.gens[n].gen <= a + b
    <3>1. \A n \in 1 .. Len(x.gens) : h[n] \in Nat /\ h[n] <= a + b
      <4> HIDE DEF h
      <4> QED BY <1>2, <1>3
    <3> QED BY <3>1 DEF GoodCells
  <2> QED BY <2>1, <2>2
<1>6. seen # {} /\ a + b \in Nat
  <2>1. First \in Identity
    OBVIOUS
  <2>2. x.head.gens[First] \in {x.head.gens[i] : i \in Identity}
    BY <2>1
  <2>3. seen # {}
    BY <2>2
  <2>4. a + b \in Nat
    OBVIOUS
  <2> QED BY <2>3, <2>4
<1>7. ScanGenNext(x) = 1 + top
  BY DEF ScanGenNext
<1>8. top \in seen /\ \A k \in seen : k <= top
  <2> HIDE DEF seen
  <2>1. \E g \in seen : \A k \in seen : k <= g
    BY <1>5, <1>6, GreatestNatural
  <2> QED BY <2>1
<1>9. \A k \in seen : k < 1 + top
  <2> HIDE DEF seen, top
  <2> QED BY <1>5, <1>8
<1>10. 1 + top \in Nat
  <2> HIDE DEF seen, top
  <2> QED BY <1>5, <1>8
<1>11. /\ \A i \in Identity : x.head.gens[i] \in seen
       /\ \A n \in GoodCells(x) : x.gens[n].gen \in seen
  OBVIOUS
<1> HIDE DEF seen, top
<1> QED BY <1>7, <1>9, <1>10, <1>11

\* The policy a scan returns has its type, and as generation that of the head, one up
\* for every cell of the log, torn or not.
LEMMA PolicyTyped ==
  ASSUME NEW x \in Sector, x.kind = "live"
  PROVE  /\ ScanPolicy(x) \in Policy
         /\ ScanPolicy(x).gen = x.head.policy.gen + Len(x.policies)
<1>1. x.head.policy \in Policy /\ x.policies \in Seq(PolicyCell)
  BY LiveParts DEF LedgerHead
<1> DEFINE used == Len(x.policies)
           want == x.head.policy.gen + used
<1>2. used \in Nat /\ want \in Nat
  BY <1>1 DEF Policy
<1>3. StrictPolicy(want) \in Policy /\ StrictPolicy(want).gen = want
  BY <1>2 DEF StrictPolicy, Policy
<1>4. CASE used = 0
  BY <1>1, <1>4 DEF ScanPolicy, Policy
<1>5. CASE used # 0
  <2>1. x.policies[used] \in PolicyCell
    BY <1>1, <1>2, <1>5
  <2>2. x.policies[used].policy \in Policy
    BY <2>1 DEF PolicyCell
  <2> QED BY <1>2, <1>3, <1>5, <2>2 DEF ScanPolicy
<1> QED BY <1>4, <1>5

LEMMA StrictTyped == ASSUME NEW g \in Nat PROVE StrictPolicy(g) \in Policy
BY DEF StrictPolicy, Policy

\* What is asked of every sector, live or not: of a success log only the last cell can
\* be bad, and it is no longer than the entry log.
CellsInOrder(x) ==
  x.kind = "live" =>
    /\ BadAtMostLast(x.ticks["success"])
    /\ Len(x.ticks["success"]) <= Len(x.ticks["entry"])

\* The lengths a scan returns.
LEMMA LensRead ==
  ASSUME NEW x \in Sector, x.kind = "live", CellsInOrder(x)
  PROVE  /\ TickLens(x.ticks) \in [TickLog -> Nat]
         /\ \A f \in TickLog \ {"success"} : TickLens(x.ticks)[f] = Len(x.ticks[f])
         /\ TickLens(x.ticks)["success"] = SuccessLen(x.ticks["success"])
         /\ TickLens(x.ticks)["success"] <= TickLens(x.ticks)["entry"]
<1>1. \A f \in TickLog : x.ticks[f] \in Seq(Tick) /\ Len(x.ticks[f]) \in Nat
  BY LiveParts
<1>2. "success" \in TickLog /\ "entry" \in TickLog
  BY DEF TickLog
<1>3. /\ SuccessLen(x.ticks["success"]) \in 0 .. Len(x.ticks["success"])
      /\ SuccessLen(x.ticks["success"]) \in Nat
      /\ SuccessLen(x.ticks["success"]) <= Len(x.ticks["entry"])
  BY <1>1, <1>2, SuccessRead DEF CellsInOrder
<1> QED BY <1>1, <1>2, <1>3 DEF TickLens

\* What the ledger in RAM, l, and the sector it is kept in, x, have to do with each
\* other at least: the head is the same, and of each log the sector may hold one cell
\* more.
Behind(l, x) ==
  /\ x.head = l.head
  /\ \A f \in TickLog : Len(x.ticks[f]) \in {l.len[f], l.len[f] + 1}
  /\ GoodUpTo(x.ticks["success"], l.len["success"])
  /\ l.len["success"] <= l.len["entry"]

\* A scan returns a ledger that is right behind what was scanned.
LEMMA ScanReturns ==
  ASSUME NEW p \in [Side -> Sector], LiveSides(p) # {}, \A s \in Side : CellsInOrder(p[s])
  PROVE  /\ Elected(p) \in LiveSides(p)
         /\ Scanned(p) \in LedgerState /\ Scanned(p) # NoLedger
         /\ Scanned(p).side = Elected(p)
         /\ Scanned(p).len = TickLens(p[Elected(p)].ticks)
         /\ Behind(Scanned(p), p[Elected(p)])
<1> DEFINE s == Elected(p)
           x == p[s]
<1>1. s \in LiveSides(p)
  BY ElectedIsLive, SectorsCounted
<1>2. s \in Side /\ x \in Sector /\ x.kind = "live" /\ CellsInOrder(x)
  BY <1>1 DEF LiveSides
<1>3. Scanned(p) = [side |-> s, head |-> x.head, len |-> TickLens(x.ticks),
                    gens |-> ScanGens(x), genNext |-> ScanGenNext(x),
                    policyUsed |-> Len(x.policies)]
  BY DEF Scanned
<1> HIDE DEF s, x
<1>4. Scanned(p) \in LedgerState
  <2>1. x.head \in LedgerHead /\ Len(x.policies) \in Nat
    BY <1>2, LiveParts
  <2> QED BY <1>2, <1>3, <2>1, LensRead, GensTyped, GenNextTyped DEF LedgerState
<1>5. Scanned(p) # NoLedger
  BY <1>2, <1>3 DEF NoLedger, Side
<1>6. Behind(Scanned(p), x)
  <2>1. \A f \in TickLog : x.ticks[f] \in Seq(Tick)
    BY <1>2, LiveParts
  <2>2. "success" \in TickLog
    BY DEF TickLog
  <2>3. /\ GoodUpTo(x.ticks["success"], SuccessLen(x.ticks["success"]))
        /\ Len(x.ticks["success"]) \in {SuccessLen(x.ticks["success"]),
                                        SuccessLen(x.ticks["success"]) + 1}
    BY <1>2, <2>1, <2>2, SuccessRead DEF CellsInOrder
  <2>4. \A f \in TickLog : Len(x.ticks[f]) \in {TickLens(x.ticks)[f], TickLens(x.ticks)[f] + 1}
    BY <1>2, <2>1, <2>3, LensRead
  <2> QED BY <1>2, <1>3, <2>3, <2>4, LensRead DEF Behind
<1> QED BY <1>1, <1>3, <1>4, <1>5, <1>6 DEF s, x

LEMMA ScannedPolicyTyped ==
  ASSUME NEW p \in [Side -> Sector]
  PROVE  ScannedPolicy(p) \in Policy
<1>1. CASE LiveSides(p) = {}
  BY <1>1, StrictTyped DEF ScannedPolicy
<1>2. CASE LiveSides(p) # {}
  <2>1. Elected(p) \in LiveSides(p)
    BY <1>2, ElectedIsLive, SectorsCounted
  <2> QED BY <1>2, <2>1, PolicyTyped DEF ScannedPolicy, LiveSides
<1> QED BY <1>1, <1>2

-----------------------------------------------------------------------------
(***************************************************************************)
(* What the steps write.                                                   *)
(***************************************************************************)
LEMMA SideNames == "A" \in Side /\ "B" \in Side /\ "none" \notin Side
BY DEF Side

LEMMA StateTyped ==
  ASSUME TypeOK, ledger # NoLedger
  PROVE  /\ ledger \in LedgerState /\ ledger.side \in Side /\ Target \in Side
         /\ Target # ledger.side /\ \A s \in Side : s = Target \/ s = ledger.side
         /\ ledger.head \in LedgerHead /\ ledger.len \in [TickLog -> Nat]
         /\ ledger.gens \in [Identity -> Nat] /\ ledger.genNext \in Nat
         /\ ledger.policyUsed \in Nat
         /\ Source \in Sector
BY TwoSides DEF TypeOK, LedgerState, Target, Source

LEMMA LogNames ==
  TickLog = {"epoch", "seq", "entry", "success"}
BY DEF TickLog

LEMMA CountsTyped ==
  ASSUME TypeOK, ledger # NoLedger
  PROVE  /\ WipeEpoch(ledger) \in Nat /\ SeqCarried \in Nat
         /\ HighWater(ledger) = SeqCarried * Reserve
<1>1. /\ ledger.head.epoch \in Nat /\ ledger.head.seq \in Nat
      /\ ledger.len["epoch"] \in Nat /\ ledger.len["seq"] \in Nat
  BY StateTyped, LogNames DEF LedgerHead
<1> QED BY <1>1 DEF WipeEpoch, SeqCarried, HighWater

LEMMA FailuresTyped ==
  ASSUME TypeOK, ledger # NoLedger, ledger.len["success"] <= ledger.len["entry"]
  PROVE  /\ Failures(ledger) \in Nat
         /\ Failures(ledger) = ledger.head.fails + ledger.len["entry"] - ledger.len["success"]
<1>1. ledger.head.fails \in Nat /\ ledger.len["entry"] \in Nat /\ ledger.len["success"] \in Nat
  BY StateTyped, LogNames DEF LedgerHead
<1> QED BY <1>1 DEF Failures

\* A new sector has empty logs; RAM is right behind it.
LEMMA NewSectorFacts ==
  ASSUME NEW h \in LedgerHead
  PROVE  /\ NewSector(h) \in Sector /\ NewSector(h).kind = "live" /\ NewSector(h).head = h
         /\ CellsInOrder(NewSector(h))
         /\ \A f \in TickLog : NewSector(h).ticks[f] = <<>>
         /\ NewSector(h).policies = <<>>
         /\ ScanPolicy(NewSector(h)) = h.policy
<1> DEFINE t == [f \in TickLog |-> <<>>]
<1>1. t \in [TickLog -> Seq(Tick)]
  OBVIOUS
<1>2. NewSector(h) = [kind |-> "live", head |-> h, ticks |-> t, gens |-> <<>>, policies |-> <<>>]
  BY DEF NewSector
<1>3. <<>> \in Seq(GenCell) /\ <<>> \in Seq(PolicyCell)
  OBVIOUS
<1>4. NewSector(h) \in Sector
  <2> HIDE DEF t
  <2> QED BY <1>1, <1>2, <1>3, MakeSector
<1>5. CellsInOrder(NewSector(h))
  BY <1>2, LogNames DEF CellsInOrder, BadAtMostLast
<1> QED BY <1>2, <1>4, <1>5 DEF ScanPolicy

LEMMA NewStateFacts ==
  ASSUME NEW s \in Side, NEW h \in LedgerHead, NEW g \in Nat
  PROVE  /\ NewState(s, h, g) \in LedgerState /\ NewState(s, h, g) # NoLedger
         /\ NewState(s, h, g).side = s /\ NewState(s, h, g).head = h
         /\ \A f \in TickLog : NewState(s, h, g).len[f] = 0
         /\ NewState(s, h, g).policyUsed = 0
         /\ Behind(NewState(s, h, g), NewSector(h))
<1> DEFINE n == NewState(s, h, g)
<1>1. n = [side |-> s, head |-> h, len |-> [f \in TickLog |-> 0], gens |-> h.gens,
           genNext |-> g, policyUsed |-> 0]
  BY DEF NewState
<1>2. h.gens \in [Identity -> Nat] /\ [f \in TickLog |-> 0] \in [TickLog -> Nat]
  BY DEF LedgerHead
<1>3. n \in LedgerState
  BY <1>1, <1>2 DEF LedgerState
<1>4. n # NoLedger
  BY <1>1, SideNames DEF NoLedger
<1>5. Behind(n, NewSector(h))
  BY <1>1, NewSectorFacts, LogNames DEF Behind, GoodUpTo
<1> QED BY <1>1, <1>3, <1>4, <1>5

LEMMA FirstHeadTyped == FirstHead \in LedgerHead
BY StrictTyped DEF FirstHead, LedgerHead

\* The head a rotation writes.
LEMMA NextHeadTyped ==
  ASSUME TypeOK, ledger # NoLedger
  PROVE  /\ NextHead \in LedgerHead
         /\ NextHead.ctr = ledger.head.ctr + 1 /\ NextHead.seq = SeqCarried
         /\ NextHead.fails = job.carry /\ NextHead.policy = job.install
<1>1. ledger.head.ctr \in Nat /\ ledger.gens \in [Identity -> Nat]
  BY StateTyped DEF LedgerHead
<1>2. job.carry \in Nat /\ job.install \in Policy
  BY DEF TypeOK, Job
<1> QED BY <1>1, <1>2, CountsTyped DEF NextHead, HeadOf, LedgerHead

\* A live sector with one of its logs replaced.
Relogged(x, f, log) == [x EXCEPT !.ticks[f] = log]

LEMMA TicksReplaced ==
  ASSUME NEW x \in Sector, x.kind = "live", NEW f \in TickLog, NEW log \in Seq(Tick),
         NEW y, y = Relogged(x, f, log)
  PROVE  /\ y \in Sector /\ y.kind = "live" /\ y.head = x.head
         /\ y.ticks = [x.ticks EXCEPT ![f] = log]
         /\ y.gens = x.gens /\ y.policies = x.policies
<1>1. PICK h \in LedgerHead, t \in [TickLog -> Seq(Tick)], g \in Seq(GenCell), p \in Seq(PolicyCell) :
        x = [kind |-> "live", head |-> h, ticks |-> t, gens |-> g, policies |-> p]
  BY LiveParts
<1>2. y = [kind |-> "live", head |-> h, ticks |-> [t EXCEPT ![f] = log], gens |-> g, policies |-> p]
  BY <1>1 DEF Relogged
<1>3. [t EXCEPT ![f] = log] \in [TickLog -> Seq(Tick)]
  OBVIOUS
<1>4. [kind |-> "live", head |-> h, ticks |-> [t EXCEPT ![f] = log], gens |-> g, policies |-> p] \in Sector
  BY <1>3, MakeSector
<1>5. y \in Sector
  BY <1>2, <1>4, Zenon
<1>6. x.head = h /\ x.ticks = t /\ x.gens = g /\ x.policies = p
  BY <1>1
<1>7. /\ y.kind = "live" /\ y.head = h /\ y.ticks = [t EXCEPT ![f] = log] /\ y.gens = g
      /\ y.policies = p
  BY <1>2
<1> QED BY <1>5, <1>6, <1>7

GenAdded(x, c) == [x EXCEPT !.gens = Append(x.gens, c)]

LEMMA GensReplaced ==
  ASSUME NEW x \in Sector, x.kind = "live", NEW c \in GenCell,
         NEW y, y = GenAdded(x, c)
  PROVE  /\ y \in Sector /\ y.kind = "live" /\ y.head = x.head /\ y.ticks = x.ticks
         /\ y.gens = Append(x.gens, c) /\ y.policies = x.policies
<1>1. PICK h \in LedgerHead, t \in [TickLog -> Seq(Tick)], g \in Seq(GenCell), p \in Seq(PolicyCell) :
        x = [kind |-> "live", head |-> h, ticks |-> t, gens |-> g, policies |-> p]
  BY LiveParts
<1>2. y = [kind |-> "live", head |-> h, ticks |-> t, gens |-> Append(g, c), policies |-> p]
  BY <1>1 DEF GenAdded
<1>3. Append(g, c) \in Seq(GenCell)
  OBVIOUS
<1>4. [kind |-> "live", head |-> h, ticks |-> t, gens |-> Append(g, c), policies |-> p] \in Sector
  BY <1>3, MakeSector
<1>5. y \in Sector
  BY <1>2, <1>4, Zenon
<1> QED BY <1>1, <1>2, <1>5

PolicyAdded(x, c) == [x EXCEPT !.policies = Append(x.policies, c)]

LEMMA PoliciesReplaced ==
  ASSUME NEW x \in Sector, x.kind = "live", NEW c \in PolicyCell,
         NEW y, y = PolicyAdded(x, c)
  PROVE  /\ y \in Sector /\ y.kind = "live" /\ y.head = x.head /\ y.ticks = x.ticks
         /\ y.gens = x.gens /\ y.policies = Append(x.policies, c)
<1>1. PICK h \in LedgerHead, t \in [TickLog -> Seq(Tick)], g \in Seq(GenCell), p \in Seq(PolicyCell) :
        x = [kind |-> "live", head |-> h, ticks |-> t, gens |-> g, policies |-> p]
  BY LiveParts
<1>2. y = [kind |-> "live", head |-> h, ticks |-> t, gens |-> g, policies |-> Append(p, c)]
  BY <1>1 DEF PolicyAdded
<1>3. Append(p, c) \in Seq(PolicyCell)
  OBVIOUS
<1>4. [kind |-> "live", head |-> h, ticks |-> t, gens |-> g, policies |-> Append(p, c)] \in Sector
  BY <1>3, MakeSector
<1>5. y \in Sector
  BY <1>2, <1>4, Zenon
<1> QED BY <1>1, <1>2, <1>5

-----------------------------------------------------------------------------
(***************************************************************************)
(* The invariant.  What depends on the step that runs next takes that step *)
(* and its job as arguments: most actions change nothing else.             *)
(***************************************************************************)
Rotating == {"erase", "head", "mac", "retire"}

Creating == {"createA", "createB", "createHead", "createMac"}

Scanning == {"scan", "tidy"}

\* Steps that work on the ledger in RAM.
OnLedger ==
  Rotating \cup {"entry", "verify", "settle", "due", "open", "seal", "canary", "gen",
                 "policy", "fill", "session", "epoch"}

Live(s) == pair[s].kind = "live"

Formats(j) == j.sealed = "canary" /\ j.rotated = "scan"

\* The head the rotation under way writes, for a job.
HeadFor(j) == HeadOf(ledger.head.ctr + 1, SeqCarried, j.carry, j.install)

\* Where a job may lead: what is sealed, scanned or rotated is always followed by the
\* steps the operation wants, and a step that needs the ledger has it.
Flow(p, j) ==
  /\ j.rotated \in {"ready", "scan", "epoch", "entry", "open", "seal", "policy"}
  /\ j.scanned \in {"ready", "mounted", "seal", "fill", "due", "session", "mirror"}
  /\ j.sealed \in {"ready", "scan", "gen", "canary"}
  /\ j.sealed = "scan" => j.scanned \in {"ready", "due", "session", "mirror"}
  /\ j.sealed = "gen" => j.scanned \in {"ready", "fill"}
  /\ j.sealed = "canary" =>
       /\ j.scanned = "seal" /\ j.rotated \in {"scan", "seal"}
       /\ p \in Rotating \cup Creating \cup Scanning \cup {"seal", "canary"}
  /\ p = "gen" => j.scanned \in {"ready", "fill"}
  /\ p \in {"mounted", "epoch", "destroy"} \/ (p \in Rotating /\ j.rotated = "epoch")
       => j.sealed = "ready"
  /\ p \in Rotating /\ j.rotated = "scan" => j.sealed = "canary"
  /\ p \in Creating => Formats(j) /\ ledger = NoLedger
  /\ p \in Rotating /\ Formats(j) => state # "formatted"
  /\ p \in OnLedger => ledger # NoLedger
  /\ p \in Scanning /\ j.scanned \in {"due", "session"} => ledger # NoLedger
  /\ p = "tidy" => LiveSides(pair) # {}
  /\ ledger # NoLedger /\ p \notin {"head", "mac"} => LiveSides(pair) # {}
  /\ p \in {"createHead", "createMac"} => ~Live("B")
  /\ p = "retire" => pair[Target] = NewSector(HeadFor(j))

\* n is no more than the failures a mount would read, whether or not it would count
\* an attempt that RAM has not counted.
Charged(n) ==
  n <= ledger.head.fails + ledger.len["entry"] - SuccessLen(Source.ticks["success"])

\* The policy in force leaves n failures.
Leaves(n) == policy.after = 0 \/ n <= policy.after

\* Between the right PIN and the rotation that may be due, a canary that is sealed
\* anew included.
Settling(p, j) ==
  \/ p = "due"
  \/ j.scanned = "due" /\ (p \in Scanning \cup {"seal"} \/ (p \in Rotating /\ j.rotated = "seal"))

EveryAttemptSeen == Len(Source.ticks["entry"]) = ledger.len["entry"]

SettledRam == ledger.len["success"] = ledger.len["entry"] /\ EveryAttemptSeen

\* What holds at a step while RAM and flash agree, with g guesses.
AgreedAt(p, j, g) ==
  /\ ledger # NoLedger /\ p # "retire" => ~Live(Target)
  /\ ledger = NoLedger /\ p # "off" /\ ~(p \in Scanning /\ j.mounting) => LiveSides(pair) = {}
  /\ ledger # NoLedger /\ ~(p \in Scanning /\ Formats(j)) => policy = ScanPolicy(Source)
  /\ p \in Rotating => /\ g <= j.carry
                       /\ IF Formats(j) THEN j.install.after = FormatAfter ELSE j.install = policy
  /\ p = "policy" \/ (p \in Rotating /\ j.rotated = "policy") => j.want.gen = policy.gen + 1
  /\ p = "entry" => Leaves(Failures(ledger) + 1)
  /\ p \in Rotating /\ j.rotated = "entry" => Leaves(j.carry + 1)
  /\ p = "verify" => Charged(g + 1) /\ Leaves(Failures(ledger)) /\ EveryAttemptSeen
  /\ p = "settle" => g = 0 /\ EveryAttemptSeen
  /\ Settling(p, j) => g = 0 /\ SettledRam
  /\ p = "open" => SettledRam /\ ledger.head.fails = 0
  /\ p \in Rotating /\ j.rotated = "open" => j.carry = 0

\* The failures, the high-water mark and the policy of a sector are enough for the
\* guesses, the sequence numbers and the policies there have been.
FailsOf(x) == x.head.fails + Len(x.ticks["entry"]) - SuccessLen(x.ticks["success"])

HighOf(x) == (x.head.seq + Len(x.ticks["seq"])) * Reserve

Answers(x, g, t, al) == g <= FailsOf(x) /\ t <= HighOf(x) /\ ScanPolicy(x).after \in al

FlashAnswers(p, g, t, al) ==
  IF LiveSides(p) = {} THEN g = 0 /\ t = 0 /\ FormatAfter \in al
  ELSE Answers(p[Elected(p)], g, t, al)

Ordered(p) == \A s \in Side : CellsInOrder(p[s])

\* Always.
Base ==
  /\ TypeOK
  /\ ElectionDecided
  /\ Ordered(pair)
  /\ state = "formatted" => ledger # NoLedger
  /\ ledger # NoLedger => /\ ledger.len["success"] <= ledger.len["entry"]
                          /\ Live(ledger.side) => Behind(ledger, Source)
  /\ Flow(pc, job)

\* As long as no error has left RAM and flash apart.
RamAgrees(g) ==
  ledger # NoLedger =>
    /\ Live(ledger.side) /\ Len(Source.policies) = ledger.policyUsed
    /\ Charged(g) /\ topSeq <= nextSeq /\ topSeq <= HighWater(ledger)

Agreed ==
  /\ FlashAnswers(pair, guesses, topSeq, allowed)
  /\ RamAgrees(guesses)
  /\ AgreedAt(pc, job, guesses)

IInv == Base /\ (~adrift => Agreed)

-----------------------------------------------------------------------------
(***************************************************************************)
(* Steps that leave the pair and the ledger as they are.                   *)
(***************************************************************************)
LEMMA FlowStill ==
  ASSUME UNCHANGED <<pair, ledger, state>>, Flow(pc', job')
  PROVE  Flow(pc, job)'
<1>1. /\ Live("B")' = Live("B") /\ Target' = Target /\ LiveSides(pair)' = LiveSides(pair)
      /\ pair[Target]' = pair[Target] /\ Formats(job)' = Formats(job')
      /\ NewSector(HeadFor(job))' = NewSector(HeadFor(job'))
  BY DEF Live, Target, LiveSides, Formats, NewSector, HeadFor, HeadOf, SeqCarried, WipeEpoch
<1> QED BY <1>1 DEF Flow

LEMMA AgreedStill ==
  ASSUME UNCHANGED <<pair, ledger, policy>>, AgreedAt(pc', job', guesses')
  PROVE  AgreedAt(pc, job, guesses)'
<1>1. /\ Target' = Target /\ Live(Target)' = Live(Target) /\ Source' = Source
      /\ LiveSides(pair)' = LiveSides(pair) /\ ScanPolicy(Source)' = ScanPolicy(Source)
      /\ Formats(job)' = Formats(job') /\ Failures(ledger)' = Failures(ledger)
      /\ EveryAttemptSeen' = EveryAttemptSeen /\ SettledRam' = SettledRam
      /\ Settling(pc, job)' = Settling(pc', job')
      /\ Charged(guesses + 1)' = Charged(guesses' + 1)
      /\ \A n : Leaves(n)' = Leaves(n)
  BY DEF Live, Target, Source, LiveSides, Formats, Failures, EveryAttemptSeen, SettledRam,
         Settling, Charged, Leaves, ScanPolicy
<1> QED BY <1>1 DEF AgreedAt

LEMMA Still ==
  ASSUME IInv, UNCHANGED <<pair, ledger, policy, nextSeq, state, topSeq, allowed, adrift>>,
         canary' \in SUBSET Nat, session' \in SUBSET Nat, guesses' \in Nat,
         pc' \in Steps, job' \in Job, Flow(pc', job'),
         ~adrift => /\ FlashAnswers(pair, guesses', topSeq, allowed) /\ RamAgrees(guesses')
                    /\ AgreedAt(pc', job', guesses')
  PROVE  IInv'
<1>1. TypeOK'
  BY DEF IInv, Base, TypeOK
<1>2. ElectionDecided' /\ Ordered(pair)'
  BY DEF IInv, Base, ElectionDecided, Ordered, LiveSides
<1>3. /\ (state = "formatted" => ledger # NoLedger)'
      /\ (ledger # NoLedger => /\ ledger.len["success"] <= ledger.len["entry"]
                               /\ Live(ledger.side) => Behind(ledger, Source))'
  BY DEF IInv, Base, Live, Source, Behind
<1>4. Base'
  BY <1>1, <1>2, <1>3, FlowStill DEF Base
<1>5. ASSUME ~adrift' PROVE Agreed'
  <2>1. ~adrift
    BY <1>5
  <2>2. FlashAnswers(pair, guesses, topSeq, allowed)'
    BY <2>1 DEF FlashAnswers, LiveSides, Elected
  <2>3. RamAgrees(guesses)'
    BY <2>1 DEF RamAgrees, Live, Source, Charged
  <2> QED BY <2>1, <2>2, <2>3, AgreedStill DEF Agreed
<1> QED BY <1>4, <1>5 DEF IInv

LEMMA StillGuessing ==
  ASSUME IInv, UNCHANGED <<pair, ledger, policy, nextSeq, state, guesses, topSeq, allowed, adrift>>,
         canary' \in SUBSET Nat, session' \in SUBSET Nat, pc' \in Steps, job' \in Job,
         Flow(pc', job'), ~adrift => AgreedAt(pc', job', guesses)
  PROVE  IInv'
<1>1. guesses' \in Nat
  BY DEF IInv, Base, TypeOK
<1>2. ~adrift => /\ FlashAnswers(pair, guesses', topSeq, allowed) /\ RamAgrees(guesses')
                 /\ AgreedAt(pc', job', guesses')
  BY DEF IInv, Agreed
<1> QED BY <1>1, <1>2, Still

LEMMA NoJobTyped == NoJob \in Job
BY StrictTyped DEF NoJob, Job, Steps

LEMMA Typed ==
  ASSUME IInv
  PROVE  /\ TypeOK /\ job \in Job /\ pc \in Steps /\ guesses \in Nat /\ policy \in Policy
         /\ session \in SUBSET Nat /\ canary \in SUBSET Nat /\ job.carry \in Nat
         /\ Flow(pc, job)
         /\ ledger # NoLedger => WipeEpoch(ledger) \in Nat /\ Failures(ledger) \in Nat
         /\ WipeEpoch(ledger) \in Nat
<1>1. TypeOK
  BY DEF IInv, Base
<1>2. job.carry \in Nat
  BY <1>1 DEF TypeOK, Job
<1>3. CASE ledger = NoLedger
  <2>1. WipeEpoch(ledger) \in Nat
    BY <1>3 DEF WipeEpoch
  <2> QED BY <1>1, <1>2, <1>3, <2>1 DEF TypeOK, IInv, Base
<1>4. CASE ledger # NoLedger
  <2>1. WipeEpoch(ledger) \in Nat /\ Failures(ledger) \in Nat
    BY <1>1, <1>4, CountsTyped, FailuresTyped DEF IInv, Base
  <2> QED BY <1>1, <1>2, <2>1 DEF TypeOK, IInv, Base
<1> QED BY <1>3, <1>4

\* An operation is over.
LEMMA FlowReady ==
  ASSUME IInv, pc \notin {"head", "mac"}
  PROVE  Flow("ready", NoJob)
BY Typed DEF Flow, NoJob, Formats, Rotating, Creating, Scanning, OnLedger

LEMMA AgreedReady ==
  ASSUME IInv, ~adrift, pc \notin {"off", "retire"}, ~(pc \in Scanning /\ (job.mounting \/ Formats(job)))
  PROVE  AgreedAt("ready", NoJob, guesses)
<1>1. AgreedAt(pc, job, guesses)
  BY DEF IInv, Agreed
<1> QED BY <1>1 DEF AgreedAt, NoJob, Formats, Rotating, Scanning, Settling

\* The plain steps of an operation.
LEMMA MountKeeps == ASSUME IInv, Mount PROVE IInv'
<1>1. pc = "off" /\ pc' = "scan" /\ job' = [NoJob EXCEPT !.scanned = "mounted", !.mounting = TRUE]
  BY DEF Mount, Goto
<1>2. pc' \in Steps /\ job' \in Job
  BY <1>1, NoJobTyped DEF Steps, Job
<1>3. Flow(pc', job')
  BY <1>1, Typed DEF Flow, NoJob, Formats, Rotating, Creating, Scanning, OnLedger
<1>4. ASSUME ~adrift PROVE AgreedAt(pc', job', guesses)
  <2>1. AgreedAt(pc, job, guesses)
    BY <1>4 DEF IInv, Agreed
  <2> QED BY <1>1, <2>1 DEF AgreedAt, NoJob, Formats, Rotating, Scanning, Settling
<1> QED BY <1>2, <1>3, <1>4, Typed, StillGuessing DEF Mount, flash, ram, ghost

LEMMA ScanTidyKeeps == ASSUME IInv, ScanTidy PROVE IInv'
<1>1. pc = "scan" /\ pc' = "tidy" /\ job' = job /\ LiveSides(pair) # {}
  BY DEF ScanTidy, Goto, Leftover
<1>2. Flow(pc', job')
  BY <1>1, Typed DEF Flow, NoJob, Formats, Rotating, Creating, Scanning, OnLedger
<1>3. ASSUME ~adrift PROVE AgreedAt(pc', job', guesses)
  <2>1. AgreedAt(pc, job, guesses)
    BY <1>3 DEF IInv, Agreed
  <2> QED BY <1>1, <2>1 DEF AgreedAt, Formats, Rotating, Scanning, Settling
<1>4. pc' \in Steps
  BY <1>1 DEF Steps
<1> QED BY <1>1, <1>2, <1>3, <1>4, Typed, StillGuessing DEF ScanTidy, flash, ram, ghost

LEMMA OpenKeeps == ASSUME IInv, Open \/ NewSession PROVE IInv'
<1>1. pc \in {"open", "session"} /\ pc' = "ready" /\ job' = NoJob
  BY DEF Open, NewSession, Goto
<1>2. pc' \in Steps /\ job' \in Job
  BY <1>1, NoJobTyped DEF Steps
<1>3. Flow(pc', job')
  BY <1>1, FlowReady
<1>4. ~adrift => AgreedAt(pc', job', guesses)
  BY <1>1, AgreedReady DEF Scanning
<1>5. session' \in SUBSET Nat
  BY Typed DEF Open, NewSession
<1> QED BY <1>2, <1>3, <1>4, <1>5, Typed, StillGuessing DEF Open, NewSession, flash, ram, ghost

\* What a full log refuses.
LEMMA RefusedKeeps == ASSUME IInv, GenRefused \/ PolicyRefused PROVE IInv'
<1>1. pc \in {"gen", "policy"} /\ pc' = "ready" /\ job' = NoJob
  BY DEF GenRefused, PolicyRefused, Goto
<1>2. pc' \in Steps /\ job' \in Job
  BY <1>1, NoJobTyped DEF Steps
<1>3. Flow(pc', job')
  BY <1>1, FlowReady
<1>4. ~adrift => AgreedAt(pc', job', guesses)
  BY <1>1, AgreedReady DEF Scanning
<1> QED BY <1>2, <1>3, <1>4, Typed, StillGuessing DEF GenRefused, PolicyRefused, flash, ram, ghost

\* The numbers of a sector.
LEMMA SectorNumbers ==
  ASSUME NEW x \in Sector, x.kind = "live", CellsInOrder(x)
  PROVE  /\ \A f \in TickLog : x.ticks[f] \in Seq(Tick) /\ Len(x.ticks[f]) \in Nat
         /\ x.head.ctr \in Nat /\ x.head.epoch \in Nat /\ x.head.seq \in Nat /\ x.head.fails \in Nat
         /\ x.head.policy \in Policy
         /\ SuccessLen(x.ticks["success"]) \in Nat
         /\ SuccessLen(x.ticks["success"]) <= Len(x.ticks["success"])
         /\ Len(x.ticks["success"]) <= SuccessLen(x.ticks["success"]) + 1
         /\ Len(x.ticks["success"]) <= Len(x.ticks["entry"])
         /\ FailsOf(x) \in Nat /\ HighOf(x) \in Nat
         /\ ScanPolicy(x) \in Policy
<1>1. /\ \A f \in TickLog : x.ticks[f] \in Seq(Tick) /\ Len(x.ticks[f]) \in Nat
      /\ x.head.ctr \in Nat /\ x.head.epoch \in Nat /\ x.head.seq \in Nat /\ x.head.fails \in Nat
      /\ x.head.policy \in Policy
  <2>1. x.head \in LedgerHead /\ x.ticks \in [TickLog -> Seq(Tick)]
    BY LiveParts
  <2>2. \A f \in TickLog : x.ticks[f] \in Seq(Tick) /\ Len(x.ticks[f]) \in Nat
    BY <2>1
  <2> QED BY <2>1, <2>2 DEF LedgerHead
<1>2. /\ SuccessLen(x.ticks["success"]) \in Nat
      /\ SuccessLen(x.ticks["success"]) <= Len(x.ticks["success"])
      /\ Len(x.ticks["success"]) <= SuccessLen(x.ticks["success"]) + 1
      /\ Len(x.ticks["success"]) <= Len(x.ticks["entry"])
  BY <1>1, LogNames, SuccessRead DEF CellsInOrder
<1>3. FailsOf(x) \in Nat
  <2>1. Len(x.ticks["entry"]) \in Nat /\ Len(x.ticks["success"]) \in Nat
    BY <1>1, LogNames
  <2>2. SuccessLen(x.ticks["success"]) <= Len(x.ticks["entry"])
    BY <1>2, <2>1
  <2>3. x.head.fails \in Nat /\ SuccessLen(x.ticks["success"]) \in Nat
    BY <1>1, <1>2
  <2> DEFINE e == Len(x.ticks["entry"])
             s == SuccessLen(x.ticks["success"])
             h == x.head.fails
  <2>4. e \in Nat /\ s \in Nat /\ h \in Nat /\ s <= e
    BY <2>1, <2>2, <2>3
  <2>5. FailsOf(x) = h + e - s
    BY DEF FailsOf
  <2> HIDE DEF e, s, h
  <2>6. h + e - s \in Nat
    BY <2>4
  <2> QED BY <2>5, <2>6
<1>4. HighOf(x) \in Nat
  <2> DEFINE n == x.head.seq + Len(x.ticks["seq"])
  <2>1. n \in Nat
    BY <1>1, LogNames
  <2>2. HighOf(x) = n * Reserve
    BY DEF HighOf
  <2> HIDE DEF n
  <2>3. n * Reserve \in Nat
    BY <2>1, LedgerAssumption DEF LedgerAssumption
  <2> QED BY <2>2, <2>3
<1> QED BY <1>1, <1>2, <1>3, <1>4, PolicyTyped

\* The ledger in RAM and the sector it is kept in, while RAM and flash agree.
LEMMA RamNumbers ==
  ASSUME IInv, ~adrift, ledger # NoLedger
  PROVE  /\ Live(ledger.side) /\ Source \in Sector /\ Source.kind = "live" /\ CellsInOrder(Source)
         /\ Behind(ledger, Source)
         /\ \A f \in TickLog : ledger.len[f] \in Nat
         /\ ledger.head.fails \in Nat /\ ledger.head.seq \in Nat
         /\ ledger.len["success"] <= ledger.len["entry"]
         /\ ledger.len["success"] <= SuccessLen(Source.ticks["success"])
         /\ Failures(ledger) = ledger.head.fails + ledger.len["entry"] - ledger.len["success"]
<1>1. /\ Live(ledger.side) /\ Behind(ledger, Source) /\ CellsInOrder(Source) /\ Source \in Sector
      /\ Source.kind = "live"
  BY StateTyped DEF IInv, Base, Agreed, RamAgrees, Ordered, Source, Live
<1>2. /\ \A f \in TickLog : ledger.len[f] \in Nat
      /\ ledger.head.fails \in Nat /\ ledger.head.seq \in Nat
      /\ ledger.len["success"] <= ledger.len["entry"]
  BY StateTyped DEF IInv, Base, LedgerHead
<1>3. ledger.len["success"] <= SuccessLen(Source.ticks["success"])
  <2>1. ledger.len["success"] \in 0 .. Len(Source.ticks["success"])
    <3>1. Len(Source.ticks["success"]) \in {ledger.len["success"], ledger.len["success"] + 1}
      BY <1>1, LogNames DEF Behind
    <3>2. ledger.len["success"] \in Nat
      BY <1>2, LogNames
    <3> QED BY <3>1, <3>2
  <2>2. /\ Source.ticks["success"] \in Seq(Tick) /\ BadAtMostLast(Source.ticks["success"])
        /\ GoodUpTo(Source.ticks["success"], ledger.len["success"])
    BY <1>1, SectorNumbers, LogNames DEF Behind, CellsInOrder
  <2> QED BY <2>1, <2>2, SuccessRead
<1>4. Failures(ledger) = ledger.head.fails + ledger.len["entry"] - ledger.len["success"]
  BY <1>2, FailuresTyped DEF IInv, Base
<1> QED BY <1>1, <1>2, <1>3, <1>4

\* What was charged is in the count RAM has.
LEMMA ChargedIsCounted ==
  ASSUME IInv, ~adrift, ledger # NoLedger, NEW n \in Nat, Charged(n)
  PROVE  n <= Failures(ledger)
<1> DEFINE h == ledger.head.fails
           e == ledger.len["entry"]
           s == ledger.len["success"]
           r == SuccessLen(Source.ticks["success"])
<1>1. h \in Nat /\ e \in Nat /\ s \in Nat /\ s <= r /\ Failures(ledger) = h + e - s
  BY RamNumbers, LogNames
<1>2. r \in Nat
  BY RamNumbers, SectorNumbers
<1>3. n <= h + e - r
  BY DEF Charged
<1> HIDE DEF h, e, s, r
<1> QED BY <1>1, <1>2, <1>3

LEMMA ChargedFailures ==
  ASSUME IInv, ~adrift, ledger # NoLedger
  PROVE  guesses <= Failures(ledger)
BY ChargedIsCounted, Typed DEF IInv, Agreed, RamAgrees

\* Outside of a rotation that is about to erase its source, what the flash answers is
\* what the side of the ledger in RAM answers.
LEMMA FlashIsSource ==
  ASSUME IInv, ~adrift, ledger # NoLedger, pc # "retire"
  PROVE  /\ LiveSides(pair) = {ledger.side} /\ Elected(pair) = ledger.side
         /\ \A g, t, al : FlashAnswers(pair, g, t, al) <=> Answers(Source, g, t, al)
         /\ \A g \in Nat : Charged(g) => g <= FailsOf(Source)
<1>1. LiveSides(pair) = {ledger.side}
  BY StateTyped DEF IInv, Base, Agreed, RamAgrees, AgreedAt, Live, LiveSides
<1>2. Elected(pair) = ledger.side
  BY <1>1, OnlyLiveIsElected, SectorsCounted DEF IInv, Base, TypeOK
<1>3. \A g, t, al : FlashAnswers(pair, g, t, al) <=> Answers(Source, g, t, al)
  BY <1>1, <1>2 DEF FlashAnswers, Source
<1>4. \A g \in Nat : Charged(g) => g <= FailsOf(Source)
  <2>1. /\ Source.head.fails = ledger.head.fails /\ Len(Source.ticks["entry"]) \in Nat
        /\ ledger.len["entry"] <= Len(Source.ticks["entry"])
    <3>1. Behind(ledger, Source) /\ "entry" \in TickLog /\ ledger.len["entry"] \in Nat
      BY RamNumbers, LogNames
    <3> QED BY <3>1 DEF Behind
  <2>2. /\ ledger.head.fails \in Nat /\ ledger.len["entry"] \in Nat
        /\ SuccessLen(Source.ticks["success"]) \in Nat
    BY RamNumbers, SectorNumbers, LogNames
  <2>3. SUFFICES ASSUME NEW g \in Nat, Charged(g) PROVE g <= FailsOf(Source)
    OBVIOUS
  <2> QED BY <2>1, <2>2, <2>3 DEF Charged, FailsOf
<1> QED BY <1>1, <1>2, <1>3, <1>4

\* No guess at all is always charged.
LEMMA NoGuesses ==
  ASSUME IInv, ~adrift
  PROVE  /\ FlashAnswers(pair, 0, topSeq, allowed)
         /\ RamAgrees(0)
<1>1. FlashAnswers(pair, guesses, topSeq, allowed) /\ RamAgrees(guesses) /\ guesses \in Nat
  BY Typed DEF IInv, Agreed
<1>2. FlashAnswers(pair, 0, topSeq, allowed)
  <2>1. CASE LiveSides(pair) = {}
    BY <1>1, <2>1 DEF FlashAnswers
  <2>2. CASE LiveSides(pair) # {}
    <3>1. Elected(pair) \in LiveSides(pair)
      BY <2>2, ElectedIsLive, SectorsCounted DEF IInv, Base, TypeOK
    <3>2. FailsOf(pair[Elected(pair)]) \in Nat
      BY <3>1, SectorNumbers DEF LiveSides, IInv, Base, TypeOK, Ordered
    <3> QED BY <1>1, <2>2, <3>2 DEF FlashAnswers, Answers
  <2> QED BY <2>1, <2>2
<1>3. RamAgrees(0)
  <2>1. ledger # NoLedger => SuccessLen(Source.ticks["success"]) \in Nat
    BY RamNumbers, SectorNumbers
  <2> QED BY <1>1, <2>1, RamNumbers, LogNames DEF RamAgrees, Charged
<1> QED BY <1>2, <1>3

\* A rotation on the way to a step.
RotateTo(c, step, j) == [j EXCEPT !.carry = c, !.install = policy, !.rotated = step]

LEMMA RotateToTyped ==
  ASSUME IInv, NEW c \in Nat, NEW step \in Steps, NEW j \in Job
  PROVE  RotateTo(c, step, j) \in Job /\ "erase" \in Steps
<1>1. policy \in Policy
  BY Typed
<1>2. RotateTo(c, step, j) \in Job
  BY <1>1 DEF RotateTo, Job
<1> QED BY <1>2 DEF Steps

LEMMA RotateToFacts ==
  ASSUME NEW c, NEW step, NEW j \in Job
  PROVE  LET r == RotateTo(c, step, j)
         IN /\ r.carry = c /\ r.install = policy /\ r.rotated = step
            /\ r.scanned = j.scanned /\ r.sealed = j.sealed /\ r.want = j.want
            /\ r.gen = j.gen /\ r.mounting = j.mounting
BY DEF RotateTo, Job

LEMMA NoJobFacts ==
  /\ NoJob.rotated = "ready" /\ NoJob.scanned = "ready" /\ NoJob.sealed = "ready"
  /\ NoJob.carry = 0 /\ ~NoJob.mounting
BY DEF NoJob

LEMMA StepNames ==
  {"epoch", "entry", "open", "seal", "policy", "gen", "canary", "scan"} \subseteq Steps \ {"ready"}
BY DEF Steps

LEMMA SealingTyped ==
  ASSUME NEW n \in Nat, NEW step \in Steps, NEW j \in Job
  PROVE  /\ Sealing(n, step, j) \in Job
         /\ Sealing(n, step, j) = [j EXCEPT !.left = n, !.sealed = step]
BY DEF Sealing, Job

LEMMA MountedKeeps == ASSUME IInv, Mounted PROVE IInv'
<1>1. canary' \in SUBSET Nat
  BY Typed DEF Mounted, CurrentRecords
<1>2. CASE WipeDue /\ Through(Full("epoch"), Failures(ledger), "epoch", job)
  <2>1. ledger # NoLedger /\ Failures(ledger) \in Nat /\ pc = "mounted"
    BY <1>2, Typed DEF WipeDue, Mounted, IInv, Base
  <2>2. \/ pc' = "epoch" /\ job' = job
        \/ pc' = "erase" /\ job' = RotateTo(Failures(ledger), "epoch", job)
    BY <1>2 DEF Through, Goto, RotateTo
  <2>3. Flow(pc', job')
    BY <2>1, <2>2, Typed, RotateToFacts DEF Flow, Formats, Rotating, Creating, Scanning, OnLedger
  <2>4. ASSUME ~adrift PROVE AgreedAt(pc', job', guesses)
    <3>1. AgreedAt(pc, job, guesses) /\ RamAgrees(guesses)
      BY <2>4 DEF IInv, Agreed
    <3>2. guesses <= Failures(ledger)
      BY <2>1, <2>4, ChargedFailures
    <3> QED BY <2>1, <2>2, <3>1, <3>2, Typed, RotateToFacts DEF AgreedAt, Formats, Rotating, Scanning, Settling, Flow
  <2>5. pc' \in Steps /\ job' \in Job
    BY <2>1, <2>2, Typed, StepNames, RotateToTyped
  <2> QED BY <1>1, <2>3, <2>4, <2>5, Typed, StillGuessing DEF Mounted, ram, ghost
<1>3. CASE Goto("ready", job)
  <2>1. pc = "mounted" /\ pc' = "ready" /\ job' = NoJob
    BY <1>3 DEF Mounted, Goto
  <2>2. pc' \in Steps /\ job' \in Job /\ Flow(pc', job')
    BY <2>1, NoJobTyped, FlowReady DEF Steps
  <2>3. ~adrift => AgreedAt(pc', job', guesses)
    BY <2>1, AgreedReady DEF Scanning
  <2> QED BY <1>1, <2>2, <2>3, Typed, StillGuessing DEF Mounted, ram, ghost
<1>4. CASE state = "formatted" /\ Goto("mirror", job)
  <2>1. pc = "mounted" /\ pc' = "mirror" /\ job' = job /\ ledger # NoLedger
    BY <1>4 DEF Mounted, Goto, IInv, Base
  <2>2. pc' \in Steps
    BY <2>1 DEF Steps
  <2>3. Flow(pc', job')
    BY <2>1, Typed DEF Flow, Formats, Rotating, Creating, Scanning, OnLedger
  <2>4. ASSUME ~adrift PROVE AgreedAt(pc', job', guesses)
    <3>1. AgreedAt(pc, job, guesses)
      BY <2>4 DEF IInv, Agreed
    <3> QED BY <2>1, <3>1, Typed DEF AgreedAt, Formats, Rotating, Scanning, Settling, Flow
  <2> QED BY <1>1, <2>1, <2>2, <2>3, <2>4, Typed, StillGuessing DEF Mounted, ram, ghost
<1> QED BY <1>2, <1>3, <1>4 DEF Mounted

LEMMA MirrorKeeps == ASSUME IInv, Mirror PROVE IInv'
<1>1. CASE state = "formatted"
  <2>1. pc = "mirror" /\ pc' = "seal" /\ ledger # NoLedger
        /\ job' = Sealing(1, "scan", [job EXCEPT !.scanned = "ready"])
    BY <1>1 DEF Mirror, Goto, IInv, Base
  <2>2. pc' \in Steps /\ job' \in Job
    BY <2>1, Typed, StepNames DEF Sealing, Job, Steps
  <2>3. Flow(pc', job')
    BY <2>1, Typed DEF Sealing, Job, Flow, Formats, Rotating, Creating, Scanning, OnLedger
  <2>4. ASSUME ~adrift PROVE AgreedAt(pc', job', guesses)
    <3>1. AgreedAt(pc, job, guesses)
      BY <2>4 DEF IInv, Agreed
    <3> QED BY <2>1, <3>1, Typed DEF Sealing, Job, AgreedAt, Formats, Rotating, Scanning, Settling
  <2> QED BY <2>2, <2>3, <2>4, Typed, StillGuessing DEF Mirror, flash, ram, ghost
<1>2. CASE state # "formatted"
  <2>1. pc = "mirror" /\ pc' = "ready" /\ job' = NoJob
    BY <1>2 DEF Mirror, Goto
  <2>2. pc' \in Steps /\ job' \in Job /\ Flow(pc', job')
    BY <2>1, NoJobTyped, FlowReady DEF Steps
  <2>3. ~adrift => AgreedAt(pc', job', guesses)
    BY <2>1, AgreedReady DEF Scanning
  <2> QED BY <2>2, <2>3, Typed, StillGuessing DEF Mirror, flash, ram, ghost
<1> QED BY <1>1, <1>2

\* An attempt is let through only if the policy leaves one.
LEMMA AttemptKeeps == ASSUME IInv, Attempt PROVE IInv'
<1>1. /\ pc = "ready" /\ ledger # NoLedger /\ ~OverLimit(ledger, policy)
      /\ \/ pc' = "entry" /\ job' = NoJob
         \/ pc' = "erase" /\ job' = RotateTo(Failures(ledger), "entry", NoJob)
  BY DEF Attempt, Through, Goto, RotateTo, WipeDue, IInv, Base
<1>2. pc' \in Steps /\ job' \in Job
  BY <1>1, Typed, StepNames, NoJobTyped, RotateToTyped
<1>3. Flow(pc', job')
  BY <1>1, Typed, NoJobTyped, RotateToFacts, NoJobFacts DEF Attempt, Flow, Formats, Rotating, Creating, Scanning, OnLedger
<1>4. ASSUME ~adrift PROVE AgreedAt(pc', job', guesses)
  <2>1. AgreedAt(pc, job, guesses) /\ guesses <= Failures(ledger)
    BY <1>1, <1>4, ChargedFailures DEF IInv, Agreed
  <2>2. Leaves(Failures(ledger) + 1)
    BY <1>1, Typed DEF OverLimit, Leaves, Policy
  <2> QED BY <1>1, <2>1, <2>2, Typed, NoJobTyped, RotateToFacts, NoJobFacts DEF AgreedAt, Formats, Rotating, Scanning, Settling
<1> QED BY <1>2, <1>3, <1>4, Typed, StillGuessing DEF Attempt, flash, ram, ghost

\* A wrong PIN was charged before it was compared.
LEMMA WrongPinKeeps == ASSUME IInv, WrongPin PROVE IInv'
<1>1. /\ pc = "verify" /\ ledger # NoLedger /\ guesses' = guesses + 1
      /\ \/ pc' = "epoch" /\ job' = NoJob
         \/ pc' = "erase" /\ job' = RotateTo(Failures(ledger), "epoch", NoJob)
         \/ pc' = "ready" /\ job' = NoJob
  BY Typed DEF WrongPin, Through, Goto, RotateTo, Flow, OnLedger
<1>2. pc' \in Steps /\ job' \in Job /\ guesses' \in Nat
  BY <1>1, Typed, StepNames, NoJobTyped, RotateToTyped DEF Steps
<1>3. Flow(pc', job')
  BY <1>1, Typed, NoJobTyped, RotateToFacts, NoJobFacts DEF Flow, Formats, Rotating, Creating, Scanning, OnLedger
<1>4. ASSUME ~adrift PROVE /\ FlashAnswers(pair, guesses', topSeq, allowed) /\ RamAgrees(guesses')
                           /\ AgreedAt(pc', job', guesses')
  <2>1. AgreedAt(pc, job, guesses) /\ RamAgrees(guesses) /\ FlashAnswers(pair, guesses, topSeq, allowed)
    BY <1>4 DEF IInv, Agreed
  <2>2. Charged(guesses') /\ RamAgrees(guesses')
    BY <1>1, <2>1 DEF AgreedAt, RamAgrees
  <2>3. guesses' <= Failures(ledger)
    BY <1>1, <1>2, <1>4, <2>2, ChargedIsCounted
  <2>4. FlashAnswers(pair, guesses', topSeq, allowed)
    <3>1. Answers(Source, guesses, topSeq, allowed) /\ guesses' <= FailsOf(Source)
      BY <1>1, <1>2, <1>4, <2>1, <2>2, FlashIsSource
    <3>2. Answers(Source, guesses', topSeq, allowed)
      BY <3>1 DEF Answers
    <3> QED BY <1>1, <1>4, <3>2, FlashIsSource
  <2> QED BY <1>1, <2>1, <2>2, <2>3, <2>4, Typed, NoJobTyped, RotateToFacts, NoJobFacts DEF AgreedAt, Formats, Rotating, Scanning, Settling
<1> QED BY <1>2, <1>3, <1>4, Typed, Still DEF WrongPin, flash, ram

LEMMA RightPinKeeps == ASSUME IInv, RightPin PROVE IInv'
<1>1. pc = "verify" /\ ledger # NoLedger /\ guesses' = 0 /\ pc' = "settle" /\ job' = NoJob
  BY Typed DEF RightPin, Goto, Flow, OnLedger
<1>2. pc' \in Steps /\ job' \in Job /\ guesses' \in Nat
  BY <1>1, NoJobTyped DEF Steps
<1>3. Flow(pc', job')
  BY <1>1, Typed DEF NoJob, Flow, Formats, Rotating, Creating, Scanning, OnLedger
<1>4. ASSUME ~adrift PROVE /\ FlashAnswers(pair, guesses', topSeq, allowed) /\ RamAgrees(guesses')
                           /\ AgreedAt(pc', job', guesses')
  <2>1. AgreedAt(pc, job, guesses) /\ FlashAnswers(pair, guesses', topSeq, allowed) /\ RamAgrees(guesses')
    BY <1>1, <1>4, NoGuesses DEF IInv, Agreed
  <2> QED BY <1>1, <2>1 DEF NoJob, AgreedAt, Formats, Rotating, Scanning, Settling
<1> QED BY <1>2, <1>3, <1>4, Typed, Still DEF RightPin, flash, ram

LEMMA SettledKeeps == ASSUME IInv, Settled PROVE IInv'
<1>1. /\ pc = "settle" /\ ledger # NoLedger /\ ledger.len["success"] >= ledger.len["entry"]
      /\ \/ pc' = "due" /\ job' = job
         \/ pc' = "seal" /\ job' = Sealing(1, "scan", [job EXCEPT !.scanned = "due"])
  BY Typed DEF Settled, Goto, Flow, OnLedger
<1>2. pc' \in Steps /\ job' \in Job
  <2>1. {"due", "seal", "scan"} \subseteq Steps
    BY DEF Steps
  <2>2. Sealing(1, "scan", [job EXCEPT !.scanned = "due"]) \in Job
    BY <2>1, Typed DEF Sealing, Job
  <2> QED BY <1>1, <2>1, <2>2, Typed
<1>3. Flow(pc', job')
  BY <1>1, Typed DEF Sealing, Job, Flow, Formats, Rotating, Creating, Scanning, OnLedger
<1>4. ASSUME ~adrift PROVE AgreedAt(pc', job', guesses)
  <2>1. AgreedAt(pc, job, guesses)
    BY <1>4 DEF IInv, Agreed
  <2>2. guesses = 0 /\ SettledRam
    <3>1. ledger.len["success"] = ledger.len["entry"]
      BY <1>1, <1>4, RamNumbers, LogNames
    <3> QED BY <1>1, <2>1, <3>1 DEF AgreedAt, SettledRam
  <2> QED BY <1>1, <2>1, <2>2, Typed DEF Sealing, Job, AgreedAt, Formats, Rotating, Scanning, Settling, Flow
<1> QED BY <1>2, <1>3, <1>4, Typed, StillGuessing DEF Settled, flash, ram, ghost

\* A rotation that forgets the failures forgets none that was not settled.
LEMMA DueRotationKeeps == ASSUME IInv, DueRotation PROVE IInv'
<1>1. /\ pc = "due" /\ ledger # NoLedger
      /\ \/ pc' = "open" /\ job' = NoJob /\ ledger.head.fails = 0
         \/ pc' = "erase" /\ job' = RotateTo(0, "open", NoJob)
  BY Typed DEF DueRotation, RotationDue, Through, Goto, RotateTo, Flow, OnLedger
<1>2. pc' \in Steps /\ job' \in Job
  BY <1>1, Typed, StepNames, NoJobTyped, RotateToTyped
<1>3. Flow(pc', job')
  BY <1>1, Typed, NoJobTyped, RotateToFacts, NoJobFacts
     DEF Flow, Formats, Rotating, Creating, Scanning, OnLedger
<1>4. ASSUME ~adrift PROVE AgreedAt(pc', job', guesses)
  <2>1. AgreedAt(pc, job, guesses) /\ guesses = 0 /\ SettledRam
    BY <1>1, <1>4 DEF IInv, Agreed, AgreedAt, Settling
  <2> QED BY <1>1, <2>1, NoJobTyped, RotateToFacts, NoJobFacts
          DEF AgreedAt, Formats, Rotating, Scanning, Settling
<1> QED BY <1>2, <1>3, <1>4, Typed, StillGuessing DEF DueRotation, flash, ram, ghost

LEMMA SealRotateKeeps == ASSUME IInv, SealRotate PROVE IInv'
<1>1. /\ pc = "seal" /\ ledger # NoLedger
      /\ pc' = "erase" /\ job' = RotateTo(Failures(ledger), "seal", job)
  BY Typed DEF SealRotate, Through, Goto, RotateTo, Flow, OnLedger
<1>2. pc' \in Steps /\ job' \in Job
  BY <1>1, Typed, StepNames, RotateToTyped
<1>3. Flow(pc', job')
  BY <1>1, Typed, RotateToFacts DEF Flow, Formats, Rotating, Creating, Scanning, OnLedger
<1>4. ASSUME ~adrift PROVE AgreedAt(pc', job', guesses)
  <2>1. AgreedAt(pc, job, guesses) /\ guesses <= Failures(ledger)
    BY <1>1, <1>4, ChargedFailures DEF IInv, Agreed
  <2> QED BY <1>1, <2>1, Typed, RotateToFacts DEF AgreedAt, Formats, Rotating, Scanning, Settling
<1> QED BY <1>2, <1>3, <1>4, Typed, StillGuessing DEF SealRotate, flash, ram, ghost

LEMMA WriteKeeps == ASSUME IInv, Write PROVE IInv'
<1>1. /\ pc = "ready" /\ ledger # NoLedger
      /\ pc' = "seal" /\ job' = Sealing(1, "ready", NoJob)
  BY DEF Write, SessionValid, Goto, IInv, Base
<1>2. pc' \in Steps /\ job' \in Job
  BY <1>1, NoJobTyped DEF Sealing, Job, Steps
<1>3. Flow(pc', job')
  BY <1>1, Typed DEF Sealing, NoJob, Flow, Formats, Rotating, Creating, Scanning, OnLedger
<1>4. ASSUME ~adrift PROVE AgreedAt(pc', job', guesses)
  <2>1. AgreedAt(pc, job, guesses)
    BY <1>4 DEF IInv, Agreed
  <2> QED BY <1>1, <2>1 DEF Sealing, NoJob, AgreedAt, Formats, Rotating, Scanning, Settling
<1> QED BY <1>2, <1>3, <1>4, Typed, StillGuessing DEF Write, flash, ram, ghost

LEMMA FillKeeps == ASSUME IInv, Fill PROVE IInv'
<1>1. /\ pc = "fill" /\ ledger # NoLedger
      /\ pc' = "seal" /\ job' = Sealing(1, "scan", [job EXCEPT !.scanned = "session"])
  BY Typed DEF Fill, Goto, Flow, OnLedger
<1>2. pc' \in Steps /\ job' \in Job
  BY <1>1, Typed DEF Sealing, Job, Steps
<1>3. Flow(pc', job')
  BY <1>1, Typed DEF Sealing, Job, Flow, Formats, Rotating, Creating, Scanning, OnLedger
<1>4. ASSUME ~adrift PROVE AgreedAt(pc', job', guesses)
  <2>1. AgreedAt(pc, job, guesses)
    BY <1>4 DEF IInv, Agreed
  <2> QED BY <1>1, <2>1, Typed DEF Sealing, Job, AgreedAt, Formats, Rotating, Scanning, Settling
<1> QED BY <1>2, <1>3, <1>4, Typed, StillGuessing DEF Fill, flash, ram, ghost

LEMMA ChangeGenKeeps == ASSUME IInv, NEW i \in Identity, ChangeGen(i) PROVE IInv'
<1>1. PICK n \in Nat, sc \in {"fill", "ready"} :
        /\ pc = "ready" /\ ledger # NoLedger /\ pc' = "seal"
        /\ job' = Sealing(n, "gen", [NoJob EXCEPT !.id = i, !.gen = ledger.genNext, !.scanned = sc])
  BY DEF ChangeGen, SessionValid, Goto, IInv, Base
<1>2. pc' \in Steps /\ job' \in Job /\ session' \in SUBSET Nat
  <2>1. ledger.genNext \in Nat
    BY <1>1, Typed, StateTyped
  <2> QED BY <1>1, <2>1, Typed, NoJobTyped DEF Sealing, Job, Steps, ChangeGen
<1>3. Flow(pc', job')
  BY <1>1, Typed DEF Sealing, NoJob, Flow, Formats, Rotating, Creating, Scanning, OnLedger
<1>4. ASSUME ~adrift PROVE AgreedAt(pc', job', guesses)
  <2>1. AgreedAt(pc, job, guesses)
    BY <1>4 DEF IInv, Agreed
  <2> QED BY <1>1, <2>1 DEF Sealing, NoJob, AgreedAt, Formats, Rotating, Scanning, Settling
<1> QED BY <1>2, <1>3, <1>4, Typed, StillGuessing DEF ChangeGen, flash, ram, ghost

LEMMA SetPolicyKeeps == ASSUME IInv, NEW a \in Afters, SetPolicy(a) PROVE IInv'
<1> DEFINE j == [NoJob EXCEPT !.want = [after |-> a, gen |-> policy.gen + 1]]
<1>1. /\ pc = "ready" /\ ledger # NoLedger
      /\ \/ pc' = "policy" /\ job' = j
         \/ pc' = "erase" /\ job' = RotateTo(Failures(ledger), "policy", j)
  BY DEF SetPolicy, SessionValid, Through, Goto, RotateTo, IInv, Base
<1>2. /\ j \in Job /\ j.rotated = "ready" /\ j.scanned = "ready" /\ j.sealed = "ready"
      /\ j.carry = 0 /\ ~j.mounting /\ j.want.gen = policy.gen + 1
  <2>1. [after |-> a, gen |-> policy.gen + 1] \in Policy
    BY Typed DEF Policy
  <2> QED BY <2>1, NoJobTyped DEF NoJob, Job
<1> HIDE DEF j
<1>3. pc' \in Steps /\ job' \in Job
  BY <1>1, <1>2, Typed, StepNames, RotateToTyped
<1>4. Flow(pc', job')
  BY <1>1, <1>2, Typed, RotateToFacts DEF Flow, Formats, Rotating, Creating, Scanning, OnLedger
<1>5. ASSUME ~adrift PROVE AgreedAt(pc', job', guesses)
  <2>1. AgreedAt(pc, job, guesses) /\ guesses <= Failures(ledger)
    BY <1>1, <1>5, ChargedFailures DEF IInv, Agreed
  <2> QED BY <1>1, <1>2, <2>1, RotateToFacts DEF AgreedAt, Formats, Rotating, Scanning, Settling
<1> QED BY <1>3, <1>4, <1>5, Typed, StillGuessing DEF SetPolicy, flash, ram, ghost

LEMMA WipeKeeps == ASSUME IInv, Wipe PROVE IInv'
<1>1. /\ pc = "ready"
      /\ \/ pc' = "destroy" /\ job' = NoJob
         \/ pc' = "epoch" /\ job' = NoJob /\ ledger # NoLedger
         \/ pc' = "erase" /\ job' = RotateTo(Failures(ledger), "epoch", NoJob) /\ ledger # NoLedger
  BY DEF Wipe, Through, Goto, RotateTo
<1>2. pc' \in Steps /\ job' \in Job
  BY <1>1, Typed, StepNames, NoJobTyped, RotateToTyped DEF Steps
<1>3. Flow(pc', job')
  BY <1>1, Typed, NoJobTyped, RotateToFacts, NoJobFacts
     DEF Flow, Formats, Rotating, Creating, Scanning, OnLedger
<1>4. ASSUME ~adrift PROVE AgreedAt(pc', job', guesses)
  <2>1. AgreedAt(pc, job, guesses) /\ (ledger # NoLedger => guesses <= Failures(ledger))
    BY <1>1, <1>4, ChargedFailures DEF IInv, Agreed
  <2> QED BY <1>1, <2>1, NoJobTyped, RotateToFacts, NoJobFacts
          DEF AgreedAt, Formats, Rotating, Scanning, Settling
<1> QED BY <1>2, <1>3, <1>4, Typed, StillGuessing DEF Wipe, flash, ram, ghost

LEMMA DestroyKeeps == ASSUME IInv, Destroy PROVE IInv'
<1>1. pc = "destroy" /\ pc' = "scan" /\ job' = [job EXCEPT !.scanned = "mounted"] /\ canary' = {}
  BY DEF Destroy, Goto
<1>2. pc' \in Steps /\ job' \in Job /\ canary' \in SUBSET Nat
  BY <1>1, Typed DEF Job, Steps
<1>3. Flow(pc', job')
  BY <1>1, Typed DEF Job, Flow, Formats, Rotating, Creating, Scanning, OnLedger
<1>4. ASSUME ~adrift PROVE AgreedAt(pc', job', guesses)
  <2>1. AgreedAt(pc, job, guesses)
    BY <1>4 DEF IInv, Agreed
  <2> QED BY <1>1, <2>1, Typed DEF Job, AgreedAt, Formats, Rotating, Scanning, Settling, Flow
<1> QED BY <1>2, <1>3, <1>4, Typed, StillGuessing DEF Destroy, ram, ghost

LEMMA SealCanaryKeeps == ASSUME IInv, SealCanary PROVE IInv'
<1>1. /\ pc = "canary" /\ ledger # NoLedger /\ canary' = {WipeEpoch(ledger)} /\ pc' \in {"gen", "scan"}
      /\ job' = [NoJob EXCEPT !.scanned = "fill", !.gen = ledger.genNext]
  BY Typed DEF SealCanary, Goto, Flow, OnLedger
<1>2. pc' \in Steps /\ job' \in Job /\ canary' \in SUBSET Nat
  <2>1. ledger.genNext \in Nat
    BY <1>1, Typed, StateTyped
  <2> QED BY <1>1, <2>1, Typed, NoJobTyped DEF Job, Steps
<1>3. Flow(pc', job')
  BY <1>1, Typed DEF NoJob, Flow, Formats, Rotating, Creating, Scanning, OnLedger
<1>4. ASSUME ~adrift PROVE AgreedAt(pc', job', guesses)
  <2>1. AgreedAt(pc, job, guesses)
    BY <1>4 DEF IInv, Agreed
  <2> QED BY <1>1, <2>1 DEF NoJob, AgreedAt, Formats, Rotating, Scanning, Settling
<1> QED BY <1>2, <1>3, <1>4, Typed, StillGuessing DEF SealCanary, ram, ghost

LEMMA FormatKeeps == ASSUME IInv, Format PROVE IInv'
<1> DEFINE then == [Sealing(2, "canary", NoJob) EXCEPT !.rotated = "scan", !.scanned = "seal"]
           strict == StrictPolicy(ledger.head.policy.gen + ledger.policyUsed + 1)
<1>1. /\ pc = "ready" /\ state = "unformatted" /\ guesses' = 0
      /\ \/ ledger = NoLedger /\ pc' = "createA" /\ job' = then
         \/ ledger # NoLedger /\ pc' = "erase" /\ job' = [then EXCEPT !.install = strict]
  BY DEF Format, Goto
<1>2. ledger # NoLedger => strict \in Policy /\ strict.after = FormatAfter
  <2>1. ledger # NoLedger => ledger.head.policy.gen + ledger.policyUsed + 1 \in Nat
    BY Typed, StateTyped DEF LedgerHead, Policy
  <2> QED BY <2>1, StrictTyped DEF StrictPolicy
<1> HIDE DEF strict
<1>3. /\ then \in Job /\ then.rotated = "scan" /\ then.scanned = "seal" /\ then.sealed = "canary"
      /\ then.carry = 0
  BY NoJobTyped DEF NoJob, Sealing, Job, Steps
<1> HIDE DEF then
<1>4. /\ job' \in Job /\ job'.rotated = "scan" /\ job'.scanned = "seal" /\ job'.sealed = "canary"
      /\ job'.carry = 0 /\ (pc' = "erase" => job'.install.after = FormatAfter)
  BY <1>1, <1>2, <1>3 DEF Job
<1>5. pc' \in Steps /\ guesses' \in Nat
  BY <1>1 DEF Steps
<1>6. Flow(pc', job')
  BY <1>1, <1>4, Typed DEF Flow, Formats, Rotating, Creating, Scanning, OnLedger
<1>7. ASSUME ~adrift PROVE /\ FlashAnswers(pair, guesses', topSeq, allowed) /\ RamAgrees(guesses')
                           /\ AgreedAt(pc', job', guesses')
  <2>1. AgreedAt(pc, job, guesses) /\ FlashAnswers(pair, guesses', topSeq, allowed) /\ RamAgrees(guesses')
    BY <1>1, <1>7, NoGuesses DEF IInv, Agreed
  <2> QED BY <1>1, <1>4, <2>1 DEF AgreedAt, Formats, Rotating, Scanning, Settling
<1> QED BY <1>4, <1>5, <1>6, <1>7, Typed, Still DEF Format, flash, ram

-----------------------------------------------------------------------------
(***************************************************************************)
(* Steps that program or erase.                                            *)
(***************************************************************************)
\* More cells, a higher mark.
LEMMA MarkGrows ==
  ASSUME NEW a \in Nat, NEW b \in Nat, a <= b
  PROVE  a * Reserve <= b * Reserve /\ a * Reserve \in Nat
<1>1. Reserve \in Nat /\ b - a \in Nat
  OBVIOUS
<1>2. b * Reserve = a * Reserve + (b - a) * Reserve
  BY <1>1
<1>3. a * Reserve \in Nat /\ (b - a) * Reserve \in Nat
  BY <1>1
<1> QED BY <1>2, <1>3

\* One side is set.
LEMMA SideSet ==
  ASSUME TypeOK, ElectionDecided, Ordered(pair), NEW s \in Side, NEW x \in Sector, CellsInOrder(x),
         pair' = [pair EXCEPT ![s] = x],
         x.kind = "live" /\ pair[Other(s)].kind = "live" => x.head.ctr # pair[Other(s)].head.ctr
  PROVE  /\ pair' \in [Side -> Sector] /\ ElectionDecided' /\ Ordered(pair')
         /\ pair'[s] = x /\ pair'[Other(s)] = pair[Other(s)]
<1>1. Other(s) \in Side /\ Other(s) # s /\ \A t \in Side : t = s \/ t = Other(s)
  BY TwoSides
<1>2. pair \in [Side -> Sector]
  BY DEF TypeOK
<1>3. pair' \in [Side -> Sector] /\ pair'[s] = x /\ pair'[Other(s)] = pair[Other(s)]
  BY <1>1, <1>2
<1>4. Ordered(pair')
  BY <1>1, <1>3 DEF Ordered
<1>5. ElectionDecided'
  BY <1>1, <1>3 DEF ElectionDecided, LiveSides
<1> QED BY <1>3, <1>4, <1>5

LEMMA NotLive ==
  /\ Blank \in Sector /\ Garbage \in Sector /\ Blank.kind # "live" /\ Garbage.kind # "live"
  /\ CellsInOrder(Blank) /\ CellsInOrder(Garbage)
BY DEF Blank, Garbage, Sector, CellsInOrder

\* The only live side answers.
LEMMA OneLive ==
  ASSUME NEW p \in [Side -> Sector], NEW s \in Side, LiveSides(p) = {s}
  PROVE  /\ Elected(p) = s
         /\ \A g, t, al : FlashAnswers(p, g, t, al) <=> Answers(p[s], g, t, al)
<1>1. Elected(p) = s
  BY OnlyLiveIsElected, SectorsCounted
<1> QED BY <1>1 DEF FlashAnswers

\* A cell of a tick log is programmed, well or not.
Ticked(x, l, f, c) == Relogged(x, f, SetCell(x.ticks[f], l.len[f], c))

LEMMA TickedSector ==
  ASSUME NEW x \in Sector, x.kind = "live", CellsInOrder(x),
         NEW l \in LedgerState, Behind(l, x), NEW f \in TickLog, NEW c \in Tick,
         f = "success" => l.len["success"] < l.len["entry"],
         NEW y, y = Ticked(x, l, f, c)
  PROVE  /\ y \in Sector /\ y.kind = "live" /\ y.head = x.head
         /\ y.gens = x.gens /\ y.policies = x.policies
         /\ CellsInOrder(y) /\ Behind(l, y)
         /\ Len(y.ticks[f]) = l.len[f] + 1
         /\ Len(x.ticks[f]) <= Len(y.ticks[f])
         /\ \A h \in TickLog \ {f} : y.ticks[h] = x.ticks[h]
         /\ f = "success" /\ c = "ok" => GoodUpTo(y.ticks[f], l.len[f] + 1)
         /\ ScanPolicy(y) = ScanPolicy(x)
         /\ HighOf(x) <= HighOf(y)
         /\ f # "success" => FailsOf(x) <= FailsOf(y)
<1> DEFINE log == SetCell(x.ticks[f], l.len[f], c)
<1>1. /\ \A h \in TickLog : x.ticks[h] \in Seq(Tick) /\ Len(x.ticks[h]) \in Nat /\ l.len[h] \in Nat
      /\ \A h \in TickLog : Len(x.ticks[h]) \in {l.len[h], l.len[h] + 1}
      /\ x.head.seq \in Nat /\ x.head.fails \in Nat
  BY SectorNumbers DEF Behind, LedgerState
<1>2. /\ log \in Seq(Tick) /\ Len(log) = l.len[f] + 1
      /\ \A n \in 1 .. l.len[f] : log[n] = x.ticks[f][n]
      /\ log[l.len[f] + 1] = c
  <2>1. x.ticks[f] \in Seq(Tick) /\ l.len[f] \in Nat /\ AtCell(x.ticks[f], l.len[f])
    BY <1>1 DEF AtCell
  <2>2. Programs(SetCell(x.ticks[f], l.len[f], c), x.ticks[f], l.len[f], c)
    BY <2>1, CellSet
  <2> QED BY <2>2 DEF Programs
<1> HIDE DEF log
<1>3. /\ y \in Sector /\ y.kind = "live" /\ y.head = x.head
      /\ y.ticks = [x.ticks EXCEPT ![f] = log] /\ y.gens = x.gens /\ y.policies = x.policies
  <2>1. y = Relogged(x, f, log)
    BY DEF Ticked, log
  <2> QED BY <1>2, <2>1, TicksReplaced
<1>4. /\ y.ticks[f] = log /\ \A h \in TickLog \ {f} : y.ticks[h] = x.ticks[h]
  <2>1. x.ticks \in [TickLog -> Seq(Tick)]
    BY LiveParts
  <2> QED BY <1>3, <2>1
<1>5. /\ \A h \in TickLog : Len(y.ticks[h]) \in {l.len[h], l.len[h] + 1}
      /\ Len(y.ticks[f]) = l.len[f] + 1 /\ Len(x.ticks[f]) <= Len(y.ticks[f])
  <2>1. Len(y.ticks[f]) = l.len[f] + 1
    BY <1>2, <1>4
  <2>2. Len(x.ticks[f]) <= l.len[f] + 1
    BY <1>1
  <2>3. ASSUME NEW h \in TickLog PROVE Len(y.ticks[h]) \in {l.len[h], l.len[h] + 1}
    <3>1. CASE h = f
      BY <2>1, <3>1
    <3>2. CASE h # f
      BY <1>1, <1>4, <3>2
    <3> QED BY <3>1, <3>2
  <2> QED BY <2>1, <2>2, <2>3
<1>6. /\ GoodUpTo(y.ticks["success"], l.len["success"])
      /\ f = "success" /\ c = "ok" => GoodUpTo(y.ticks[f], l.len[f] + 1)
  <2>1. "success" \in TickLog /\ GoodUpTo(x.ticks["success"], l.len["success"])
    BY LogNames DEF Behind
  <2>2. CASE f = "success"
    <3>1. \A n \in 1 .. l.len["success"] : y.ticks["success"][n] = "ok"
      BY <1>2, <1>4, <2>1, <2>2 DEF GoodUpTo
    <3>2. ASSUME c = "ok", NEW n \in 1 .. (l.len["success"] + 1) PROVE y.ticks["success"][n] = "ok"
      <4>1. n \in 1 .. l.len["success"] \/ n = l.len["success"] + 1
        BY <1>1, <2>1
      <4> QED BY <1>2, <1>4, <2>2, <3>1, <3>2, <4>1
    <3> QED BY <2>2, <3>1, <3>2 DEF GoodUpTo
  <2>3. CASE f # "success"
    BY <1>4, <2>1, <2>3
  <2> QED BY <2>2, <2>3
<1>7. Behind(l, y)
  BY <1>3, <1>5, <1>6 DEF Behind
<1>8. CellsInOrder(y)
  <2>1. CASE f = "success"
    <3>1. Len(y.ticks["success"]) <= Len(y.ticks["entry"])
      <4>1. "entry" \in TickLog \ {f} /\ "success" \in TickLog
        BY <2>1, LogNames
      <4>2. l.len["entry"] <= Len(y.ticks["entry"]) /\ l.len["success"] < l.len["entry"]
        BY <1>1, <1>4, <2>1, <4>1
      <4> QED BY <1>1, <1>5, <2>1, <4>1, <4>2
    <3>2. BadAtMostLast(y.ticks["success"])
      <4> DEFINE new == y.ticks["success"]
                 k == l.len["success"]
      <4>1. Len(new) = k + 1 /\ k \in Nat /\ GoodUpTo(new, k)
        BY <1>1, <1>5, <1>6, <2>1
      <4> HIDE DEF new, k
      <4>2. BadAtMostLast(new)
        BY <4>1 DEF BadAtMostLast, GoodUpTo
      <4> QED BY <4>2 DEF new
    <3> QED BY <3>1, <3>2 DEF CellsInOrder
  <2>2. CASE f # "success"
    <3>1. y.ticks["success"] = x.ticks["success"] /\ Len(x.ticks["entry"]) <= Len(y.ticks["entry"])
      <4>1. "success" \in TickLog \ {f} /\ "entry" \in TickLog
        BY <2>2, LogNames
      <4>2. y.ticks["success"] = x.ticks["success"] /\ Len(x.ticks["entry"]) \in Nat
        BY <1>1, <1>4, <4>1
      <4>3. CASE f = "entry"
        BY <1>5, <4>2, <4>3
      <4>4. CASE f # "entry"
        <5>1. y.ticks["entry"] = x.ticks["entry"]
          BY <1>4, <4>1, <4>4
        <5> QED BY <4>2, <5>1
      <4> QED BY <4>2, <4>3, <4>4
    <3>2. BadAtMostLast(x.ticks["success"]) /\ Len(x.ticks["success"]) <= Len(x.ticks["entry"])
      BY DEF CellsInOrder
    <3>3. /\ Len(x.ticks["success"]) \in Nat /\ Len(x.ticks["entry"]) \in Nat
          /\ Len(y.ticks["entry"]) \in Nat
      BY <1>1, <1>5, LogNames
    <3> QED BY <3>1, <3>2, <3>3 DEF CellsInOrder
  <2> QED BY <2>1, <2>2
<1>9. ScanPolicy(y) = ScanPolicy(x)
  BY <1>3 DEF ScanPolicy
<1>10. Len(x.ticks["seq"]) <= Len(y.ticks["seq"]) /\ Len(x.ticks["entry"]) <= Len(y.ticks["entry"])
  <2>1. {"seq", "entry"} \subseteq TickLog
    BY LogNames
  <2>2. \A h \in TickLog : Len(x.ticks[h]) <= Len(y.ticks[h])
    <3>1. TAKE h \in TickLog
    <3>2. CASE h = f
      BY <1>5, <3>2
    <3>3. CASE h # f
      BY <1>1, <1>4, <3>3
    <3> QED BY <3>2, <3>3
  <2> QED BY <2>1, <2>2
<1>11. HighOf(x) <= HighOf(y)
  <2> DEFINE a == Len(x.ticks["seq"])
             b == Len(y.ticks["seq"])
  <2>2. a \in Nat /\ b \in Nat /\ a <= b
    <3>1. "seq" \in TickLog
      BY LogNames
    <3>2. b \in {l.len["seq"], l.len["seq"] + 1}
      BY <1>5, <3>1
    <3> QED BY <1>1, <1>10, <3>1, <3>2
  <2> HIDE DEF a, b
  <2>3. x.head.seq + a \in Nat /\ x.head.seq + b \in Nat /\ x.head.seq + a <= x.head.seq + b
    BY <1>1, <2>2
  <2>1. (x.head.seq + a) * Reserve <= (x.head.seq + b) * Reserve
    BY <2>3, MarkGrows
  <2> QED BY <1>3, <2>1 DEF HighOf, a, b
<1>12. f # "success" => FailsOf(x) <= FailsOf(y)
  <2>1. ASSUME f # "success" PROVE FailsOf(x) <= FailsOf(y)
    <3>1. y.ticks["success"] = x.ticks["success"]
      BY <1>4, <2>1, LogNames
    <3>2. SuccessLen(x.ticks["success"]) \in Nat
      BY SectorNumbers
    <3>3. Len(x.ticks["entry"]) \in Nat /\ Len(y.ticks["entry"]) \in Nat
      BY <1>1, <1>5, LogNames
    <3> QED BY <1>1, <1>3, <1>10, <3>1, <3>2, <3>3 DEF FailsOf
  <2> QED BY <2>1
<1> QED BY <1>3, <1>4, <1>5, <1>6, <1>7, <1>8, <1>9, <1>11, <1>12

LEMMA TickWritten ==
  ASSUME NEW f \in TickLog, NEW c \in Tick
  PROVE  WithTick(f, c) = [pair EXCEPT ![ledger.side] =
                            IF Source.kind = "live" THEN Ticked(Source, ledger, f, c) ELSE Garbage]
BY DEF WithTick, Programmed, Ticked, Relogged

\* The side of the ledger in RAM changes in place: its head stays.
LEMMA InPlace ==
  ASSUME IInv, ledger # NoLedger, NEW y, pair' = [pair EXCEPT ![ledger.side] = y],
         Source.kind # "live" => y = Garbage,
         Source.kind = "live" => y \in Sector /\ y.kind = "live" /\ y.head = Source.head /\ CellsInOrder(y)
  PROVE  /\ pair' \in [Side -> Sector] /\ ElectionDecided' /\ Ordered(pair')
         /\ LiveSides(pair') = LiveSides(pair)
         /\ pair'[ledger.side] = y /\ pair'[Target] = pair[Target]
         /\ ledger.side \in Side /\ Target \in Side
         /\ \A s \in Side : pair'[s].kind = "live" <=> Live(s)
         /\ ~adrift /\ pc # "retire" =>
              /\ y.kind = "live" /\ LiveSides(pair') = {ledger.side}
              /\ \A g, t, al : FlashAnswers(pair', g, t, al) <=> Answers(y, g, t, al)
<1>1. /\ TypeOK /\ ElectionDecided /\ Ordered(pair) /\ ledger.side \in Side
      /\ Target = Other(ledger.side) /\ Target \in Side /\ Source = pair[ledger.side]
      /\ \A s \in Side : s = Target \/ s = ledger.side
  BY StateTyped DEF IInv, Base, Target, Source
<1>2. y \in Sector /\ CellsInOrder(y) /\ (y.kind = "live" <=> Source.kind = "live")
  BY NotLive
<1>3. y.kind = "live" /\ pair[Target].kind = "live" => y.head.ctr # pair[Target].head.ctr
  BY <1>1, <1>2, TwoSides DEF ElectionDecided, LiveSides
<1>4. /\ pair' \in [Side -> Sector] /\ ElectionDecided' /\ Ordered(pair')
      /\ pair'[ledger.side] = y /\ pair'[Target] = pair[Target]
  BY <1>1, <1>2, <1>3, SideSet
<1>5. LiveSides(pair') = LiveSides(pair) /\ \A s \in Side : pair'[s].kind = "live" <=> Live(s)
  BY <1>1, <1>2, <1>4 DEF LiveSides, Live
<1>6. ASSUME ~adrift, pc # "retire"
      PROVE  /\ y.kind = "live" /\ LiveSides(pair') = {ledger.side}
             /\ \A g, t, al : FlashAnswers(pair', g, t, al) <=> Answers(y, g, t, al)
  <2>1. y.kind = "live" /\ LiveSides(pair') = {ledger.side}
    BY <1>2, <1>5, <1>6, RamNumbers, FlashIsSource
  <2> QED BY <1>1, <1>4, <2>1, OneLive
<1> QED BY <1>1, <1>4, <1>5, <1>6

\* A tick that is committed: on flash and in RAM.
LEMMA TickCommitted ==
  ASSUME IInv, ledger # NoLedger, NEW f \in TickLog, ProgramTick(f),
         f = "success" => ledger.len["success"] < ledger.len["entry"]
  PROVE  /\ pair' \in [Side -> Sector] /\ ElectionDecided' /\ Ordered(pair')
         /\ LiveSides(pair') = LiveSides(pair) /\ pair'[Target] = pair[Target]
         /\ \A s \in Side : pair'[s].kind = "live" <=> Live(s)
         /\ ledger' \in LedgerState /\ ledger' # NoLedger
         /\ ledger'.side = ledger.side /\ ledger'.head = ledger.head
         /\ ledger'.gens = ledger.gens /\ ledger'.policyUsed = ledger.policyUsed
         /\ ledger'.len[f] = ledger.len[f] + 1
         /\ \A h \in TickLog \ {f} : ledger'.len[h] = ledger.len[h]
         /\ ledger'.len["success"] <= ledger'.len["entry"]
         /\ Live(ledger.side) =>
              /\ pair'[ledger.side] = Ticked(Source, ledger, f, "ok")
              /\ Behind(ledger', pair'[ledger.side])
<1>1. /\ TypeOK /\ ledger \in LedgerState /\ ledger.side \in Side /\ ledger.len \in [TickLog -> Nat]
      /\ Source \in Sector /\ CellsInOrder(Source) /\ Source = pair[ledger.side]
      /\ (Live(ledger.side) <=> Source.kind = "live")
      /\ ledger.len["success"] <= ledger.len["entry"]
      /\ Live(ledger.side) => Behind(ledger, Source)
  BY StateTyped DEF IInv, Base, Ordered, Source, Live
<1> DEFINE y == IF Source.kind = "live" THEN Ticked(Source, ledger, f, "ok") ELSE Garbage
<1>2. pair' = [pair EXCEPT ![ledger.side] = y] /\ ledger' = [ledger EXCEPT !.len[f] = @ + 1]
  BY TickWritten DEF ProgramTick, Tick
<1>3. /\ ledger' = [side |-> ledger.side, head |-> ledger.head,
                    len |-> [ledger.len EXCEPT ![f] = ledger.len[f] + 1],
                    gens |-> ledger.gens, genNext |-> ledger.genNext,
                    policyUsed |-> ledger.policyUsed]
  BY <1>1, <1>2 DEF LedgerState
<1>4. /\ ledger' \in LedgerState /\ ledger' # NoLedger
      /\ ledger'.side = ledger.side /\ ledger'.head = ledger.head
      /\ ledger'.gens = ledger.gens /\ ledger'.policyUsed = ledger.policyUsed
      /\ ledger'.len[f] = ledger.len[f] + 1
      /\ \A h \in TickLog \ {f} : ledger'.len[h] = ledger.len[h]
  <2>1. [ledger.len EXCEPT ![f] = ledger.len[f] + 1] \in [TickLog -> Nat]
    BY <1>1
  <2>2. ledger' \in LedgerState
    BY <1>1, <1>3, <2>1 DEF LedgerState
  <2>3. ledger' # NoLedger
    BY <1>1, <1>3, SideNames DEF NoLedger
  <2> QED BY <1>1, <1>3, <2>2, <2>3
<1>5. ledger'.len["success"] <= ledger'.len["entry"]
  BY <1>1, <1>4, LogNames
<1>6. ASSUME Live(ledger.side)
      PROVE  /\ y \in Sector /\ y.kind = "live" /\ y.head = Source.head /\ CellsInOrder(y)
             /\ Behind(ledger', y) /\ y = Ticked(Source, ledger, f, "ok")
  <2>1. y = Ticked(Source, ledger, f, "ok") /\ "ok" \in Tick
    BY <1>1, <1>6 DEF Tick
  <2> HIDE DEF y
  <2>2. /\ y \in Sector /\ y.kind = "live" /\ y.head = Source.head /\ CellsInOrder(y)
        /\ Behind(ledger, y) /\ Len(y.ticks[f]) = ledger.len[f] + 1
        /\ f = "success" => GoodUpTo(y.ticks[f], ledger.len[f] + 1)
    BY <1>1, <1>6, <2>1, TickedSector
  <2>3. \A h \in TickLog : Len(y.ticks[h]) \in {ledger'.len[h], ledger'.len[h] + 1}
    BY <1>4, <2>2 DEF Behind
  <2>4. GoodUpTo(y.ticks["success"], ledger'.len["success"])
    BY <1>4, <2>2, LogNames DEF Behind
  <2> QED BY <1>4, <1>5, <2>1, <2>2, <2>3, <2>4 DEF Behind
<1> HIDE DEF y
<1>7. /\ Source.kind # "live" => y = Garbage
      /\ Source.kind = "live" => y \in Sector /\ y.kind = "live" /\ y.head = Source.head /\ CellsInOrder(y)
  BY <1>1, <1>6 DEF y
<1>8. /\ pair' \in [Side -> Sector] /\ ElectionDecided' /\ Ordered(pair')
      /\ LiveSides(pair') = LiveSides(pair)
      /\ pair'[ledger.side] = y /\ pair'[Target] = pair[Target]
      /\ \A s \in Side : pair'[s].kind = "live" <=> Live(s)
  BY <1>2, <1>7, InPlace
<1> QED BY <1>4, <1>5, <1>6, <1>8

\* It charges what it commits: the flash goes on answering for the guesses and the
\* numbers there have been, and an attempt is one more to guess with.
LEMMA TickAgreed ==
  ASSUME IInv, ledger # NoLedger, NEW f \in TickLog, ProgramTick(f),
         f = "success" => ledger.len["success"] < ledger.len["entry"] /\ guesses = 0,
         ~adrift, pc # "retire", UNCHANGED <<guesses, topSeq, allowed>>
  PROVE  /\ FlashAnswers(pair, guesses, topSeq, allowed)' /\ RamAgrees(guesses)'
         /\ ScanPolicy(Source)' = ScanPolicy(Source) /\ ~Live(Target)' /\ Target' = Target
         /\ f = "entry" => EveryAttemptSeen' /\ Charged(guesses + 1)'
                           /\ Failures(ledger)' = Failures(ledger) + 1
         /\ f # "entry" => (EveryAttemptSeen' <=> EveryAttemptSeen)
<1> DEFINE y == Ticked(Source, ledger, f, "ok")
           s == SuccessLen(Source.ticks["success"])
           sy == SuccessLen(y.ticks["success"])
           e == ledger.len["entry"]
           fails == ledger.head.fails
<1>1. /\ ledger' \in LedgerState /\ ledger' # NoLedger /\ ledger'.side = ledger.side
      /\ ledger'.head = ledger.head /\ ledger'.policyUsed = ledger.policyUsed
      /\ ledger'.len[f] = ledger.len[f] + 1
      /\ \A h \in TickLog \ {f} : ledger'.len[h] = ledger.len[h]
      /\ ledger'.len["success"] <= ledger'.len["entry"]
      /\ pair'[ledger.side] = y /\ Behind(ledger', y) /\ pair'[Target] = pair[Target]
      /\ pair' \in [Side -> Sector] /\ Ordered(pair')
      /\ \A t \in Side : pair'[t].kind = "live" <=> Live(t)
  BY RamNumbers, TickCommitted
<1>2. /\ y \in Sector /\ y.kind = "live" /\ y.head = Source.head /\ y.policies = Source.policies
      /\ CellsInOrder(y) /\ Len(y.ticks[f]) = ledger.len[f] + 1
      /\ \A h \in TickLog \ {f} : y.ticks[h] = Source.ticks[h]
      /\ ScanPolicy(y) = ScanPolicy(Source) /\ HighOf(Source) <= HighOf(y)
      /\ f # "success" => FailsOf(Source) <= FailsOf(y)
  <2>1. "ok" \in Tick /\ ledger \in LedgerState
    BY StateTyped DEF Tick, IInv, Base
  <2> HIDE DEF y
  <2>2. y = Ticked(Source, ledger, f, "ok")
    BY DEF y
  <2> QED BY <2>1, <2>2, RamNumbers, TickedSector
<1>3. Source' = y /\ Target' = Target /\ Target \in Side /\ ledger.side \in Side
  BY <1>1, StateTyped DEF Source, Target, IInv, Base
<1> HIDE DEF y
<1>4. /\ guesses \in Nat /\ topSeq \in Nat /\ nextSeq' = nextSeq
      /\ FlashAnswers(pair, guesses, topSeq, allowed) /\ RamAgrees(guesses) /\ AgreedAt(pc, job, guesses)
  BY DEF IInv, Base, Agreed, TypeOK, ProgramTick
<1>5. /\ Answers(Source, guesses, topSeq, allowed)
      /\ \A g, t, al : FlashAnswers(pair', g, t, al) <=> Answers(y, g, t, al)
  <2>1. Answers(Source, guesses, topSeq, allowed)
    BY <1>4, FlashIsSource
  <2>2. pair' = [pair EXCEPT ![ledger.side] = y]
    BY RamNumbers, TickWritten DEF ProgramTick, y, Tick
  <2>3. \A g, t, al : FlashAnswers(pair', g, t, al) <=> Answers(y, g, t, al)
    BY <1>2, <2>2, RamNumbers, InPlace
  <2> QED BY <2>1, <2>3
<1>6. /\ FailsOf(Source) \in Nat /\ FailsOf(y) \in Nat /\ HighOf(Source) \in Nat /\ HighOf(y) \in Nat
      /\ s \in Nat /\ sy \in Nat /\ e \in Nat /\ fails \in Nat
      /\ ledger.head.seq \in Nat /\ ledger.len["seq"] \in Nat
  BY <1>2, RamNumbers, SectorNumbers, LogNames
<1>7. Answers(y, guesses, topSeq, allowed)
  <2>1. guesses <= FailsOf(y)
    BY <1>2, <1>4, <1>5, <1>6 DEF Answers
  <2> QED BY <1>2, <1>4, <1>5, <1>6, <2>1 DEF Answers
<1>8. FlashAnswers(pair, guesses, topSeq, allowed)'
  BY <1>4, <1>5, <1>7
<1>9. guesses <= fails + e - s
  BY <1>4 DEF RamAgrees, Charged
<1>10. /\ f = "entry" => ledger'.len["entry"] = e + 1 /\ sy = s
       /\ f \notin {"entry", "success"} => ledger'.len["entry"] = e /\ sy = s
       /\ f = "success" => ledger'.len["entry"] = e /\ sy <= e
  <2>1. f = "success" => sy <= e
    <3>1. ASSUME f = "success" PROVE sy <= e
      <4>1. Len(y.ticks["success"]) = ledger.len["success"] + 1 /\ ledger.len["success"] < e
        BY <1>2, <3>1
      <4>2. sy <= Len(y.ticks["success"]) /\ ledger.len["success"] \in Nat
        BY <1>2, SectorNumbers, RamNumbers, LogNames
      <4> QED BY <1>6, <4>1, <4>2
    <3> QED BY <3>1
  <2> QED BY <1>1, <1>2, <2>1, LogNames
<1>11. /\ guesses <= fails + ledger'.len["entry"] - sy
       /\ f = "entry" => guesses + 1 <= fails + ledger'.len["entry"] - sy
  <2> HIDE DEF s, sy, e, fails
  <2>1. f = "success" => guesses = 0
    OBVIOUS
  <2> QED BY <1>4, <1>6, <1>9, <1>10, <2>1
<1>12. Charged(guesses)' /\ (f = "entry" => Charged(guesses + 1)')
  BY <1>1, <1>3, <1>4, <1>11 DEF Charged
<1>13. topSeq <= HighWater(ledger')
  <2>1. topSeq <= HighWater(ledger)
    BY <1>4 DEF RamAgrees
  <2>2. ledger'.len["seq"] \in {ledger.len["seq"], ledger.len["seq"] + 1}
    BY <1>1, LogNames
  <2> DEFINE a == ledger.head.seq + ledger.len["seq"]
             b == ledger.head.seq + ledger'.len["seq"]
  <2>3. a \in Nat /\ b \in Nat /\ a <= b
    BY <1>6, <2>2
  <2>4. HighWater(ledger) = a * Reserve /\ HighWater(ledger') = b * Reserve
    BY <1>1 DEF HighWater
  <2> HIDE DEF a, b
  <2>5. a * Reserve <= b * Reserve /\ a * Reserve \in Nat /\ b * Reserve \in Nat
    BY <2>3, MarkGrows
  <2> QED BY <1>4, <2>1, <2>4, <2>5
<1>14. RamAgrees(guesses)'
  BY <1>1, <1>2, <1>3, <1>4, <1>12, <1>13 DEF RamAgrees, Live, Source
<1>15. /\ ScanPolicy(Source)' = ScanPolicy(Source) /\ ~Live(Target)'
  <2>1. ScanPolicy(Source)' = ScanPolicy(Source')
    BY DEF ScanPolicy
  <2> QED BY <1>1, <1>2, <1>3, <1>4, <2>1 DEF AgreedAt, Live
<1>16. f = "entry" => EveryAttemptSeen' /\ Failures(ledger)' = Failures(ledger) + 1
  <2>1. ASSUME f = "entry" PROVE EveryAttemptSeen'
    BY <1>1, <1>2, <1>3, <2>1 DEF EveryAttemptSeen
  <2>2. ASSUME f = "entry" PROVE Failures(ledger)' = Failures(ledger) + 1
    <3>1. ledger'.len["success"] = ledger.len["success"] /\ ledger.len["success"] \in Nat
      BY <1>1, <2>2, RamNumbers, LogNames
    <3> QED BY <1>1, <1>6, <1>10, <2>2, <3>1 DEF Failures
  <2> QED BY <2>1, <2>2
<1>17. f # "entry" => (EveryAttemptSeen' <=> EveryAttemptSeen)
  BY <1>1, <1>2, <1>3, LogNames DEF EveryAttemptSeen
<1> QED BY <1>3, <1>8, <1>12, <1>14, <1>15, <1>16, <1>17

LEMMA TickBase ==
  ASSUME IInv, ledger # NoLedger, NEW f \in TickLog, ProgramTick(f),
         f = "success" => ledger.len["success"] < ledger.len["entry"],
         UNCHANGED <<session, ghost>>, pc' \in Steps, job' \in Job, Flow(pc, job)'
  PROVE  Base'
<1>1. TypeOK'
  BY TickCommitted DEF IInv, Base, TypeOK, ProgramTick, ghost
<1>2. /\ ElectionDecided' /\ Ordered(pair)' /\ ledger' # NoLedger
      /\ (state = "formatted" => ledger # NoLedger)'
  BY TickCommitted DEF Ordered
<1>3. (/\ ledger.len["success"] <= ledger.len["entry"]
       /\ Live(ledger.side) => Behind(ledger, Source))'
  <2>1. /\ ledger'.len["success"] <= ledger'.len["entry"] /\ ledger'.side = ledger.side
        /\ Live(ledger.side) => Behind(ledger', pair'[ledger.side])
        /\ pair'[ledger.side].kind = "live" <=> Live(ledger.side)
    BY TickCommitted, StateTyped DEF IInv, Base
  <2> QED BY <2>1 DEF Live, Source, Behind
<1> QED BY <1>1, <1>2, <1>3 DEF Base

\* The attempt is counted before the PIN is compared.
LEMMA CountAttemptKeeps == ASSUME IInv, CountAttempt PROVE IInv'
<1>1. /\ pc = "entry" /\ pc' = "verify" /\ job' = NoJob /\ ledger # NoLedger
      /\ "entry" \in TickLog /\ ProgramTick("entry")
      /\ UNCHANGED <<policy, state, session, ghost>>
  BY Typed, LogNames DEF CountAttempt, Goto, Flow, OnLedger, ProgramTick
<1>2. pc' \in Steps /\ job' \in Job
  BY <1>1, NoJobTyped DEF Steps
<1>3. ledger' # NoLedger /\ LiveSides(pair') = LiveSides(pair)
  BY <1>1, TickCommitted
<1>4. Flow(pc, job)'
  BY <1>1, <1>3, Typed DEF Flow, NoJob, Formats, Rotating, Creating, Scanning, OnLedger
<1>5. Base'
  BY <1>1, <1>2, <1>4, TickBase
<1>6. ASSUME ~adrift' PROVE Agreed'
  <2>1. ~adrift /\ UNCHANGED <<guesses, topSeq, allowed>> /\ AgreedAt(pc, job, guesses)
    BY <1>1, <1>6 DEF ghost, IInv, Agreed
  <2>2. /\ FlashAnswers(pair, guesses, topSeq, allowed)' /\ RamAgrees(guesses)'
        /\ ScanPolicy(Source)' = ScanPolicy(Source) /\ ~Live(Target)'
        /\ EveryAttemptSeen' /\ Charged(guesses + 1)' /\ Failures(ledger)' = Failures(ledger) + 1
    BY <1>1, <2>1, TickAgreed
  <2>3. Leaves(Failures(ledger))'
    BY <1>1, <2>1, <2>2 DEF AgreedAt, Leaves
  <2>4. AgreedAt(pc, job, guesses)'
    BY <1>1, <1>3, <2>1, <2>2, <2>3 DEF AgreedAt, NoJob, Formats, Rotating, Scanning, Settling
  <2> QED BY <2>2, <2>4 DEF Agreed
<1> QED BY <1>5, <1>6 DEF IInv

\* catch_up_success only tells the flash what RAM has settled.
LEMMA CatchUpKeeps == ASSUME IInv, CatchUp PROVE IInv'
<1>1. /\ pc = "settle" /\ pc' = pc /\ job' = job /\ ledger # NoLedger
      /\ "success" \in TickLog /\ ProgramTick("success")
      /\ ledger.len["success"] < ledger.len["entry"]
      /\ UNCHANGED <<policy, state, session, ghost>>
  BY Typed, LogNames DEF CatchUp, Flow, OnLedger, ProgramTick
<1>2. pc' \in Steps /\ job' \in Job
  BY <1>1, Typed
<1>3. ledger' # NoLedger /\ LiveSides(pair') = LiveSides(pair)
  BY <1>1, TickCommitted
<1>4. Flow(pc, job)'
  BY <1>1, <1>3, Typed DEF Flow, Formats, Rotating, Creating, Scanning, OnLedger
<1>5. Base'
  BY <1>1, <1>2, <1>4, TickBase
<1>6. ASSUME ~adrift' PROVE Agreed'
  <2>1. ~adrift /\ UNCHANGED <<guesses, topSeq, allowed>> /\ AgreedAt(pc, job, guesses)
    BY <1>1, <1>6 DEF ghost, IInv, Agreed
  <2>2. guesses = 0 /\ EveryAttemptSeen
    BY <1>1, <2>1 DEF AgreedAt
  <2>3. /\ FlashAnswers(pair, guesses, topSeq, allowed)' /\ RamAgrees(guesses)'
        /\ ScanPolicy(Source)' = ScanPolicy(Source) /\ ~Live(Target)' /\ EveryAttemptSeen'
    BY <1>1, <2>1, <2>2, TickAgreed
  <2>4. AgreedAt(pc, job, guesses)'
    BY <1>1, <1>3, <2>1, <2>2, <2>3 DEF AgreedAt, Formats, Rotating, Scanning, Settling
  <2> QED BY <2>3, <2>4 DEF Agreed
<1> QED BY <1>5, <1>6 DEF IInv

LEMMA SealReserveKeeps == ASSUME IInv, SealReserve PROVE IInv'
<1>1. /\ pc = "seal" /\ pc' = pc /\ job' = job /\ ledger # NoLedger
      /\ "seq" \in TickLog /\ ProgramTick("seq")
      /\ UNCHANGED <<policy, state, session, ghost>>
  BY Typed, LogNames DEF SealReserve, Flow, OnLedger, ProgramTick
<1>2. pc' \in Steps /\ job' \in Job
  BY <1>1, Typed
<1>3. /\ ledger' # NoLedger /\ LiveSides(pair') = LiveSides(pair)
      /\ ledger'.len["entry"] = ledger.len["entry"] /\ ledger'.len["success"] = ledger.len["success"]
  BY <1>1, TickCommitted, LogNames
<1>4. Flow(pc, job)'
  BY <1>1, <1>3, Typed DEF Flow, Formats, Rotating, Creating, Scanning, OnLedger
<1>5. Base'
  BY <1>1, <1>2, <1>4, TickBase
<1>6. ASSUME ~adrift' PROVE Agreed'
  <2>1. ~adrift /\ UNCHANGED <<guesses, topSeq, allowed>> /\ AgreedAt(pc, job, guesses)
    BY <1>1, <1>6 DEF ghost, IInv, Agreed
  <2>2. /\ FlashAnswers(pair, guesses, topSeq, allowed)' /\ RamAgrees(guesses)'
        /\ ScanPolicy(Source)' = ScanPolicy(Source) /\ ~Live(Target)'
        /\ EveryAttemptSeen' <=> EveryAttemptSeen
    BY <1>1, <2>1, TickAgreed
  <2>3. SettledRam' <=> SettledRam
    BY <1>3, <2>2 DEF SettledRam
  <2>4. AgreedAt(pc, job, guesses)'
    BY <1>1, <1>3, <2>1, <2>2, <2>3 DEF AgreedAt, Formats, Rotating, Scanning, Settling
  <2> QED BY <2>2, <2>4 DEF Agreed
<1> QED BY <1>5, <1>6 DEF IInv

LEMMA BumpEpochKeeps == ASSUME IInv, BumpEpoch PROVE IInv'
<1>1. /\ pc = "epoch" /\ pc' = "destroy" /\ job' = job /\ ledger # NoLedger
      /\ "epoch" \in TickLog /\ ProgramTick("epoch")
      /\ UNCHANGED <<policy, state, session, ghost>>
  BY Typed, LogNames DEF BumpEpoch, Goto, Flow, OnLedger, ProgramTick
<1>2. pc' \in Steps /\ job' \in Job
  BY <1>1, Typed DEF Steps
<1>3. ledger' # NoLedger /\ LiveSides(pair') = LiveSides(pair)
  BY <1>1, TickCommitted
<1>4. Flow(pc, job)'
  BY <1>1, <1>3, Typed DEF Flow, Formats, Rotating, Creating, Scanning, OnLedger
<1>5. Base'
  BY <1>1, <1>2, <1>4, TickBase
<1>6. ASSUME ~adrift' PROVE Agreed'
  <2>1. ~adrift /\ UNCHANGED <<guesses, topSeq, allowed>> /\ AgreedAt(pc, job, guesses)
    BY <1>1, <1>6 DEF ghost, IInv, Agreed
  <2>2. /\ FlashAnswers(pair, guesses, topSeq, allowed)' /\ RamAgrees(guesses)'
        /\ ScanPolicy(Source)' = ScanPolicy(Source) /\ ~Live(Target)'
    BY <1>1, <2>1, TickAgreed
  <2>3. AgreedAt(pc, job, guesses)'
    BY <1>1, <1>3, <2>1, <2>2, Typed DEF AgreedAt, Formats, Rotating, Scanning, Settling, Flow
  <2> QED BY <2>2, <2>3 DEF Agreed
<1> QED BY <1>5, <1>6 DEF IInv

\* A number is handed out only below the mark.
LEMMA SealKeeps == ASSUME IInv, Seal PROVE IInv'
<1>1. /\ pc = "seal" /\ ledger # NoLedger /\ nextSeq < HighWater(ledger) /\ nextSeq' = nextSeq + 1
      /\ topSeq' = IF nextSeq' > topSeq THEN nextSeq' ELSE topSeq
      /\ UNCHANGED <<pair, canary, ledger, policy, state, session, guesses, allowed, adrift>>
  <2>1. nextSeq \in Nat /\ HighWater(ledger) \in Nat /\ ledger # NoLedger
    BY Typed, CountsTyped, MarkGrows DEF Seal, TypeOK, Flow, OnLedger
  <2> QED BY <2>1 DEF Seal, Exhausted, flash
<1>2. \/ pc' = "seal" /\ job' = [job EXCEPT !.left = @ - 1] /\ job.left > 1
      \/ pc' = job.sealed /\ job' = [job EXCEPT !.left = 0] /\ job.sealed # "ready"
      \/ pc' = "ready" /\ job' = NoJob
  BY <1>1 DEF Seal, Goto
<1>3. pc' \in Steps /\ job' \in Job
  BY <1>1, <1>2, Typed, NoJobTyped DEF Job, Steps
<1>4. Flow(pc', job')
  <2>1. CASE pc' = "ready" /\ job' = NoJob
    BY <1>1, <2>1, FlowReady
  <2>2. CASE pc' = "seal" /\ job' = [job EXCEPT !.left = @ - 1]
    BY <1>1, <2>2, Typed DEF Flow, Job, Formats, Rotating, Creating, Scanning, OnLedger
  <2>3. CASE pc' = job.sealed /\ job' = [job EXCEPT !.left = 0] /\ job.sealed # "ready"
    BY <1>1, <2>3, Typed DEF Flow, Job, Formats, Rotating, Creating, Scanning, OnLedger
  <2> QED BY <1>2, <2>1, <2>2, <2>3
<1>5. nextSeq \in Nat /\ topSeq \in Nat
  BY DEF IInv, Base, TypeOK
<1>6. Base'
  <2>1. TypeOK'
    BY <1>1, <1>3, <1>5 DEF IInv, Base, TypeOK
  <2>2. ElectionDecided' /\ Ordered(pair)'
    BY <1>1 DEF IInv, Base, ElectionDecided, Ordered, LiveSides
  <2>3. /\ (state = "formatted" => ledger # NoLedger)'
        /\ (ledger # NoLedger => /\ ledger.len["success"] <= ledger.len["entry"]
                                 /\ Live(ledger.side) => Behind(ledger, Source))'
    BY <1>1 DEF IInv, Base, Live, Source, Behind
  <2> QED BY <1>1, <1>4, <2>1, <2>2, <2>3, FlowStill DEF Base
<1>7. ASSUME ~adrift' PROVE Agreed'
  <2>1. /\ ~adrift /\ FlashAnswers(pair, guesses, topSeq, allowed) /\ RamAgrees(guesses)
        /\ AgreedAt(pc, job, guesses)
    BY <1>1, <1>7 DEF IInv, Agreed
  <2>2. topSeq' <= HighWater(ledger) /\ topSeq' <= nextSeq' /\ topSeq' \in Nat
    <3>1. HighWater(ledger) \in Nat
      BY <1>1, Typed, CountsTyped, MarkGrows
    <3> QED BY <1>1, <1>5, <2>1, <3>1 DEF RamAgrees
  <2>3. HighWater(ledger) <= HighOf(Source)
    <3>1. /\ Source.head = ledger.head /\ Len(Source.ticks["seq"]) \in Nat
          /\ ledger.len["seq"] <= Len(Source.ticks["seq"])
          /\ ledger.len["seq"] \in Nat /\ ledger.head.seq \in Nat
      <4>1. "seq" \in TickLog /\ Behind(ledger, Source) /\ ledger.len["seq"] \in Nat
        BY <1>1, <2>1, RamNumbers, LogNames
      <4> QED BY <1>1, <2>1, <4>1, RamNumbers DEF Behind
    <3> DEFINE a == ledger.head.seq + ledger.len["seq"]
               b == ledger.head.seq + Len(Source.ticks["seq"])
    <3>2. a \in Nat /\ b \in Nat /\ a <= b
      <4> DEFINE n == Len(Source.ticks["seq"])
      <4> HIDE DEF n
      <4> QED BY <3>1 DEF n
    <3>3. HighWater(ledger) = a * Reserve /\ HighOf(Source) = b * Reserve
      BY <3>1 DEF HighWater, HighOf
    <3> HIDE DEF a, b
    <3> QED BY <3>2, <3>3, MarkGrows
  <2>4. FlashAnswers(pair, guesses, topSeq', allowed)
    <3>1. Answers(Source, guesses, topSeq, allowed)
      BY <1>1, <2>1, FlashIsSource
    <3>2. HighWater(ledger) \in Nat /\ HighOf(Source) \in Nat
      <4>1. HighWater(ledger) \in Nat
        BY <1>1, Typed, CountsTyped, MarkGrows
      <4>2. HighOf(Source) \in Nat
        BY <1>1, <2>1, RamNumbers, SectorNumbers
      <4> QED BY <4>1, <4>2
    <3>3. Answers(Source, guesses, topSeq', allowed)
      BY <2>2, <2>3, <3>1, <3>2 DEF Answers
    <3> QED BY <1>1, <2>1, <3>3, FlashIsSource
  <2>5. FlashAnswers(pair, guesses, topSeq, allowed)'
    BY <1>1, <2>4 DEF FlashAnswers, LiveSides, Elected, Answers
  <2>6. RamAgrees(guesses)'
    BY <1>1, <2>1, <2>2 DEF RamAgrees, Live, Source, Charged, HighWater
  <2>7. AgreedAt(pc', job', guesses')
    <3>1. CASE pc' = "ready" /\ job' = NoJob
      BY <1>1, <2>1, <3>1, AgreedReady DEF Scanning
    <3>2. CASE pc' = "seal" /\ job' = [job EXCEPT !.left = @ - 1]
      BY <1>1, <2>1, <3>2, Typed DEF AgreedAt, Flow, Job, Formats, Rotating, Scanning, Settling
    <3>3. CASE pc' = job.sealed /\ job' = [job EXCEPT !.left = 0] /\ job.sealed # "ready"
      BY <1>1, <2>1, <3>3, Typed DEF AgreedAt, Flow, Job, Formats, Rotating, Scanning, Settling
    <3> QED BY <1>2, <3>1, <3>2, <3>3
  <2> QED BY <1>1, <2>5, <2>6, <2>7, AgreedStill DEF Agreed
<1> QED BY <1>6, <1>7 DEF IInv

\* A cell of the other logs leaves the counts as they are.
LEMMA SameTicks ==
  ASSUME NEW x, NEW y, x.kind = "live", y.kind = "live", y.head = x.head, y.ticks = x.ticks
  PROVE  /\ CellsInOrder(x) => CellsInOrder(y)
         /\ \A l : Behind(l, x) => Behind(l, y)
         /\ FailsOf(y) = FailsOf(x) /\ HighOf(y) = HighOf(x)
BY DEF CellsInOrder, Behind, FailsOf, HighOf

LEMMA CellsWritten ==
  /\ \A c : WithGen(c) = [pair EXCEPT ![ledger.side] =
                            IF Source.kind = "live" THEN GenAdded(Source, c) ELSE Garbage]
  /\ \A c : WithPolicy(c) = [pair EXCEPT ![ledger.side] =
                              IF Source.kind = "live" THEN PolicyAdded(Source, c) ELSE Garbage]
BY DEF WithGen, WithPolicy, Programmed, GenAdded, PolicyAdded

LEMMA GenAddedFacts ==
  ASSUME NEW x \in Sector, x.kind = "live", CellsInOrder(x), NEW c \in GenCell
  PROVE  LET y == GenAdded(x, c)
         IN /\ y \in Sector /\ y.kind = "live" /\ y.head = x.head /\ CellsInOrder(y)
            /\ y.ticks = x.ticks /\ y.policies = x.policies
            /\ \A l : Behind(l, x) => Behind(l, y)
            /\ FailsOf(y) = FailsOf(x) /\ HighOf(y) = HighOf(x) /\ ScanPolicy(y) = ScanPolicy(x)
<1> DEFINE y == GenAdded(x, c)
<1>1. y \in Sector /\ y.kind = "live" /\ y.head = x.head /\ y.ticks = x.ticks /\ y.policies = x.policies
  BY GensReplaced
<1> HIDE DEF y
<1>2. ScanPolicy(y) = ScanPolicy(x)
  BY <1>1 DEF ScanPolicy
<1>3. /\ CellsInOrder(y) /\ \A l : Behind(l, x) => Behind(l, y)
      /\ FailsOf(y) = FailsOf(x) /\ HighOf(y) = HighOf(x)
  BY <1>1, SameTicks
<1> QED BY <1>1, <1>2, <1>3 DEF y

\* A policy cell: the policy is what it says if it is good and next in sequence, and
\* the strict one if it is torn.
LEMMA PolicyAddedFacts ==
  ASSUME NEW x \in Sector, x.kind = "live", CellsInOrder(x), NEW c \in PolicyCell
  PROVE  LET y == PolicyAdded(x, c)
         IN /\ y \in Sector /\ y.kind = "live" /\ y.head = x.head /\ CellsInOrder(y)
            /\ y.ticks = x.ticks /\ Len(y.policies) = Len(x.policies) + 1
            /\ \A l : Behind(l, x) => Behind(l, y)
            /\ FailsOf(y) = FailsOf(x) /\ HighOf(y) = HighOf(x)
            /\ c.ok /\ c.policy.gen = ScanPolicy(x).gen + 1 => ScanPolicy(y) = c.policy
            /\ ~c.ok => ScanPolicy(y).after = FormatAfter
<1> DEFINE y == PolicyAdded(x, c)
           n == Len(x.policies)
<1>1. /\ y \in Sector /\ y.kind = "live" /\ y.head = x.head /\ y.ticks = x.ticks
      /\ y.policies = Append(x.policies, c)
  BY PoliciesReplaced
<1> HIDE DEF y
<1>2. x.policies \in Seq(PolicyCell) /\ n \in Nat
  BY LiveParts
<1>3. Len(y.policies) = n + 1 /\ y.policies[n + 1] = c /\ n + 1 # 0
  BY <1>1, <1>2
<1>4. ScanPolicy(y) = IF c.ok /\ c.policy.gen = x.head.policy.gen + (n + 1) THEN c.policy
                      ELSE StrictPolicy(x.head.policy.gen + (n + 1))
  BY <1>1, <1>3 DEF ScanPolicy
<1>5. ScanPolicy(x).gen = x.head.policy.gen + n /\ x.head.policy.gen \in Nat
  BY PolicyTyped, SectorNumbers DEF Policy
<1>6. c.ok /\ c.policy.gen = ScanPolicy(x).gen + 1 => ScanPolicy(y) = c.policy
  <2> HIDE DEF n
  <2> QED BY <1>2, <1>4, <1>5
<1>7. ~c.ok => ScanPolicy(y).after = FormatAfter
  BY <1>4 DEF StrictPolicy
<1>8. /\ CellsInOrder(y) /\ \A l : Behind(l, x) => Behind(l, y)
      /\ FailsOf(y) = FailsOf(x) /\ HighOf(y) = HighOf(x)
  BY <1>1, SameTicks
<1> QED BY <1>1, <1>3, <1>6, <1>7, <1>8 DEF y

LEMMA GenWritten ==
  ASSUME IInv, ledger # NoLedger, NEW c \in GenCell, pair' = WithGen(c)
  PROVE  /\ pair' \in [Side -> Sector] /\ ElectionDecided' /\ Ordered(pair')
         /\ LiveSides(pair') = LiveSides(pair) /\ pair'[Target] = pair[Target]
         /\ \A s \in Side : pair'[s].kind = "live" <=> Live(s)
         /\ Live(ledger.side) =>
              /\ Behind(ledger, pair'[ledger.side])
              /\ pair'[ledger.side].ticks = Source.ticks
              /\ pair'[ledger.side].policies = Source.policies
              /\ ScanPolicy(pair'[ledger.side]) = ScanPolicy(Source)
         /\ ~adrift /\ pc # "retire" => FlashAnswers(pair', guesses, topSeq, allowed)
<1> DEFINE y == IF Source.kind = "live" THEN GenAdded(Source, c) ELSE Garbage
<1>1. /\ Source \in Sector /\ CellsInOrder(Source) /\ (Live(ledger.side) <=> Source.kind = "live")
      /\ Live(ledger.side) => Behind(ledger, Source)
  BY StateTyped DEF IInv, Base, Ordered, Source, Live
<1>2. pair' = [pair EXCEPT ![ledger.side] = y]
  BY CellsWritten
<1>3. Source.kind # "live" => y = Garbage
  OBVIOUS
<1>4. Source.kind = "live" =>
        /\ y \in Sector /\ y.kind = "live" /\ y.head = Source.head /\ CellsInOrder(y)
        /\ y.ticks = Source.ticks /\ y.policies = Source.policies /\ Behind(ledger, y)
        /\ FailsOf(y) = FailsOf(Source) /\ HighOf(y) = HighOf(Source)
        /\ ScanPolicy(y) = ScanPolicy(Source)
  BY <1>1, GenAddedFacts
<1> HIDE DEF y
<1>5. /\ pair' \in [Side -> Sector] /\ ElectionDecided' /\ Ordered(pair')
      /\ LiveSides(pair') = LiveSides(pair)
      /\ pair'[ledger.side] = y /\ pair'[Target] = pair[Target]
      /\ \A s \in Side : pair'[s].kind = "live" <=> Live(s)
      /\ ~adrift /\ pc # "retire" =>
           y.kind = "live" /\ \A g, t, al : FlashAnswers(pair', g, t, al) <=> Answers(y, g, t, al)
  BY <1>2, <1>3, <1>4, InPlace
<1>6. ASSUME ~adrift, pc # "retire" PROVE FlashAnswers(pair', guesses, topSeq, allowed)
  <2>1. Answers(Source, guesses, topSeq, allowed)
    BY <1>6, FlashIsSource DEF IInv, Agreed
  <2>2. Answers(y, guesses, topSeq, allowed)
    BY <1>4, <1>6, <2>1, RamNumbers DEF Answers
  <2> QED BY <1>5, <1>6, <2>2
<1> QED BY <1>1, <1>4, <1>5, <1>6

LEMMA CommitGenKeeps == ASSUME IInv, CommitGen PROVE IInv'
<1>1. /\ pc = "gen" /\ pc' = "scan" /\ job' = job /\ ledger # NoLedger /\ pair' = WithGen(NewGen)
      /\ UNCHANGED <<canary, policy, nextSeq, state, session, guesses, topSeq, allowed, adrift>>
  BY Typed DEF CommitGen, Goto, Flow, OnLedger, ghost
<1>2. NewGen \in GenCell /\ job.gen \in Nat /\ job.id \in Identity
  BY Typed DEF NewGen, GenCell, Job
<1>3. /\ ledger' \in LedgerState /\ ledger' # NoLedger /\ ledger'.side = ledger.side
      /\ ledger'.head = ledger.head /\ ledger'.len = ledger.len
      /\ ledger'.policyUsed = ledger.policyUsed
  <2> DEFINE next == IF job.gen < ledger.genNext THEN ledger.genNext ELSE job.gen + 1
             gens == [ledger.gens EXCEPT ![job.id] = job.gen]
  <2>1. ledger \in LedgerState /\ ledger.gens \in [Identity -> Nat] /\ ledger.genNext \in Nat
    BY <1>1, StateTyped DEF IInv, Base
  <2>2. next \in Nat /\ gens \in [Identity -> Nat]
    BY <1>2, <2>1
  <2>3. ledger' = [side |-> ledger.side, head |-> ledger.head, len |-> ledger.len, gens |-> gens,
                   genNext |-> next, policyUsed |-> ledger.policyUsed]
    BY <2>1 DEF CommitGen, LedgerState
  <2> HIDE DEF next, gens
  <2>4. ledger' \in LedgerState
    BY <2>1, <2>2, <2>3 DEF LedgerState
  <2> QED BY <2>1, <2>3, <2>4, SideNames DEF NoLedger, LedgerState
<1>4. /\ pair' \in [Side -> Sector] /\ ElectionDecided' /\ Ordered(pair')
      /\ LiveSides(pair') = LiveSides(pair) /\ pair'[Target] = pair[Target]
      /\ \A s \in Side : pair'[s].kind = "live" <=> Live(s)
      /\ Live(ledger.side) =>
           /\ Behind(ledger, pair'[ledger.side])
           /\ pair'[ledger.side].ticks = Source.ticks
           /\ pair'[ledger.side].policies = Source.policies
           /\ ScanPolicy(pair'[ledger.side]) = ScanPolicy(Source)
      /\ ~adrift => FlashAnswers(pair', guesses, topSeq, allowed)
  BY <1>1, <1>2, GenWritten
<1>5. ledger.side \in Side /\ Target \in Side /\ Target' = Target /\ Source' = pair'[ledger.side]
  BY <1>1, <1>3, StateTyped DEF IInv, Base, Target, Source
<1>6. Flow(pc, job)'
  BY <1>1, <1>3, <1>4, Typed DEF Flow, Formats, Rotating, Creating, Scanning, OnLedger
<1>7. Base'
  <2>1. TypeOK'
    BY <1>1, <1>3, <1>4, Typed DEF TypeOK, Steps
  <2>2. (/\ ledger.len["success"] <= ledger.len["entry"]
         /\ Live(ledger.side) => Behind(ledger, Source))'
    BY <1>1, <1>3, <1>4, <1>5 DEF IInv, Base, Live, Behind
  <2> QED BY <1>3, <1>4, <1>6, <2>1, <2>2 DEF Base, Ordered
<1>8. ASSUME ~adrift' PROVE Agreed'
  <2>1. /\ ~adrift /\ RamAgrees(guesses) /\ AgreedAt(pc, job, guesses) /\ Live(ledger.side)
    BY <1>1, <1>8, RamNumbers DEF IInv, Agreed
  <2>2. FlashAnswers(pair, guesses, topSeq, allowed)'
    BY <1>1, <1>4, <2>1
  <2>3. RamAgrees(guesses)'
    BY <1>1, <1>3, <1>4, <1>5, <2>1 DEF RamAgrees, Charged, Live, HighWater
  <2>4. ScanPolicy(Source)' = ScanPolicy(Source) /\ ~Live(Target)'
    <3>1. ScanPolicy(Source)' = ScanPolicy(Source')
      BY DEF ScanPolicy
    <3> QED BY <1>1, <1>4, <1>5, <2>1, <3>1 DEF AgreedAt, Live
  <2>5. AgreedAt(pc, job, guesses)'
    BY <1>1, <1>3, <1>4, <2>1, <2>4, Typed DEF AgreedAt, Formats, Rotating, Scanning, Settling, Flow
  <2> QED BY <2>2, <2>3, <2>5 DEF Agreed
<1> QED BY <1>7, <1>8 DEF IInv

LEMMA PolicyWritten ==
  ASSUME IInv, ledger # NoLedger, NEW c \in PolicyCell, pair' = WithPolicy(c)
  PROVE  /\ pair' \in [Side -> Sector] /\ ElectionDecided' /\ Ordered(pair')
         /\ LiveSides(pair') = LiveSides(pair) /\ pair'[Target] = pair[Target]
         /\ \A s \in Side : pair'[s].kind = "live" <=> Live(s)
         /\ Live(ledger.side) =>
              /\ Behind(ledger, pair'[ledger.side])
              /\ pair'[ledger.side].ticks = Source.ticks
              /\ Len(pair'[ledger.side].policies) = Len(Source.policies) + 1
         /\ ~adrift /\ pc # "retire" =>
              /\ c.ok /\ c.policy.gen = ScanPolicy(Source).gen + 1 =>
                   /\ ScanPolicy(pair'[ledger.side]) = c.policy
                   /\ \A al : c.policy.after \in al => FlashAnswers(pair', guesses, topSeq, al)
              /\ ~c.ok =>
                   \A al : FormatAfter \in al => FlashAnswers(pair', guesses, topSeq, al)
<1> DEFINE y == IF Source.kind = "live" THEN PolicyAdded(Source, c) ELSE Garbage
<1>1. /\ Source \in Sector /\ CellsInOrder(Source) /\ (Live(ledger.side) <=> Source.kind = "live")
      /\ Live(ledger.side) => Behind(ledger, Source)
  BY StateTyped DEF IInv, Base, Ordered, Source, Live
<1>2. pair' = [pair EXCEPT ![ledger.side] = y]
  BY CellsWritten
<1>3. Source.kind # "live" => y = Garbage
  OBVIOUS
<1>4. Source.kind = "live" =>
        /\ y \in Sector /\ y.kind = "live" /\ y.head = Source.head /\ CellsInOrder(y)
        /\ y.ticks = Source.ticks /\ Len(y.policies) = Len(Source.policies) + 1 /\ Behind(ledger, y)
        /\ FailsOf(y) = FailsOf(Source) /\ HighOf(y) = HighOf(Source)
        /\ c.ok /\ c.policy.gen = ScanPolicy(Source).gen + 1 => ScanPolicy(y) = c.policy
        /\ ~c.ok => ScanPolicy(y).after = FormatAfter
  BY <1>1, PolicyAddedFacts
<1> HIDE DEF y
<1>5. /\ pair' \in [Side -> Sector] /\ ElectionDecided' /\ Ordered(pair')
      /\ LiveSides(pair') = LiveSides(pair)
      /\ pair'[ledger.side] = y /\ pair'[Target] = pair[Target]
      /\ \A s \in Side : pair'[s].kind = "live" <=> Live(s)
      /\ ~adrift /\ pc # "retire" =>
           y.kind = "live" /\ \A g, t, al : FlashAnswers(pair', g, t, al) <=> Answers(y, g, t, al)
  BY <1>2, <1>3, <1>4, InPlace
<1>6. ASSUME ~adrift, pc # "retire"
      PROVE  \A al : ScanPolicy(y).after \in al => FlashAnswers(pair', guesses, topSeq, al)
  <2>1. Answers(Source, guesses, topSeq, allowed)
    BY <1>6, FlashIsSource DEF IInv, Agreed
  <2>2. \A al : ScanPolicy(y).after \in al => Answers(y, guesses, topSeq, al)
    BY <1>4, <1>6, <2>1, RamNumbers DEF Answers
  <2> QED BY <1>5, <1>6, <2>2
<1>7. ~adrift => Source.kind = "live"
  BY RamNumbers
<1> QED BY <1>1, <1>4, <1>5, <1>6, <1>7

\* The policy that is committed is the one that is in force.
LEMMA CommitPolicyKeeps == ASSUME IInv, CommitPolicy PROVE IInv'
<1>1. /\ pc = "policy" /\ pc' = "seal" /\ job' = Sealing(1, "scan", [NoJob EXCEPT !.scanned = "mirror"])
      /\ ledger # NoLedger /\ pair' = WithPolicy(NewPolicy)
      /\ policy' = job.want /\ allowed' = {job.want.after}
      /\ UNCHANGED <<canary, nextSeq, state, session, guesses, topSeq, adrift>>
  BY Typed DEF CommitPolicy, Goto, Flow, OnLedger
<1>2. NewPolicy \in PolicyCell /\ NewPolicy.ok /\ NewPolicy.policy = job.want
      /\ job.want \in Policy /\ job.want.after \in Nat
  BY Typed DEF NewPolicy, PolicyCell, Job, Policy
<1>3. /\ pc' \in Steps /\ job' \in Job /\ job'.rotated = "ready" /\ job'.scanned = "mirror"
      /\ job'.sealed = "scan"
  <2> DEFINE j == [NoJob EXCEPT !.scanned = "mirror"]
  <2>1. {"seal", "scan", "mirror"} \subseteq Steps
    BY DEF Steps
  <2>2. j \in Job /\ j.rotated = "ready" /\ j.scanned = "mirror"
    BY <2>1, NoJobTyped, NoJobFacts DEF Job
  <2> HIDE DEF j
  <2>3. job' \in Job /\ job' = [j EXCEPT !.left = 1, !.sealed = "scan"]
    BY <1>1, <2>1, <2>2, SealingTyped DEF j
  <2> QED BY <1>1, <2>1, <2>2, <2>3 DEF Job
<1>4. /\ ledger' \in LedgerState /\ ledger' # NoLedger /\ ledger'.side = ledger.side
      /\ ledger'.head = ledger.head /\ ledger'.len = ledger.len
      /\ Source.kind = "live" => ledger'.policyUsed = Len(Source.policies) + 1
  <2> DEFINE used == IF Source.kind = "live" THEN Len(Source.policies) + 1 ELSE 1
  <2>1. ledger \in LedgerState /\ Source \in Sector
    BY <1>1, StateTyped DEF IInv, Base
  <2>2. used \in Nat
    <3>1. Source.kind = "live" => Len(Source.policies) \in Nat
      BY <2>1, LiveParts
    <3> QED BY <3>1
  <2>3. ledger' = [side |-> ledger.side, head |-> ledger.head, len |-> ledger.len,
                   gens |-> ledger.gens, genNext |-> ledger.genNext, policyUsed |-> used]
    BY <2>1 DEF CommitPolicy, LedgerState
  <2>4. Source.kind = "live" => used = Len(Source.policies) + 1
    OBVIOUS
  <2> HIDE DEF used
  <2>5. ledger' \in LedgerState
    BY <2>1, <2>2, <2>3 DEF LedgerState
  <2> QED BY <2>1, <2>3, <2>4, <2>5, SideNames DEF NoLedger, LedgerState
<1>5. /\ pair' \in [Side -> Sector] /\ ElectionDecided' /\ Ordered(pair')
      /\ LiveSides(pair') = LiveSides(pair) /\ pair'[Target] = pair[Target]
      /\ \A s \in Side : pair'[s].kind = "live" <=> Live(s)
      /\ Live(ledger.side) =>
           /\ Behind(ledger, pair'[ledger.side])
           /\ pair'[ledger.side].ticks = Source.ticks
           /\ Len(pair'[ledger.side].policies) = Len(Source.policies) + 1
      /\ ~adrift /\ NewPolicy.policy.gen = ScanPolicy(Source).gen + 1 =>
           /\ ScanPolicy(pair'[ledger.side]) = NewPolicy.policy
           /\ \A al : NewPolicy.policy.after \in al => FlashAnswers(pair', guesses, topSeq, al)
  BY <1>1, <1>2, PolicyWritten
<1>6. ledger.side \in Side /\ Target \in Side /\ Target' = Target /\ Source' = pair'[ledger.side]
  BY <1>1, <1>4, StateTyped DEF IInv, Base, Target, Source
<1>7. Flow(pc, job)'
  BY <1>1, <1>3, <1>4, <1>5, Typed DEF Flow, Formats, Rotating, Creating, Scanning, OnLedger
<1>8. Base'
  <2>1. TypeOK'
    BY <1>1, <1>2, <1>3, <1>4, <1>5, Typed DEF TypeOK
  <2>2. (/\ ledger.len["success"] <= ledger.len["entry"]
         /\ Live(ledger.side) => Behind(ledger, Source))'
    BY <1>1, <1>4, <1>5, <1>6 DEF IInv, Base, Live, Behind
  <2> QED BY <1>4, <1>5, <1>7, <2>1, <2>2 DEF Base, Ordered
<1>9. ASSUME ~adrift' PROVE Agreed'
  <2>1. /\ ~adrift /\ RamAgrees(guesses) /\ AgreedAt(pc, job, guesses) /\ Live(ledger.side)
        /\ Source.kind = "live"
    BY <1>1, <1>9, RamNumbers DEF IInv, Agreed
  <2>2. job.want.gen = ScanPolicy(Source).gen + 1 /\ ~Live(Target)
    BY <1>1, <2>1 DEF AgreedAt, Scanning
  <2>3. /\ ScanPolicy(pair'[ledger.side]) = job.want
        /\ FlashAnswers(pair', guesses, topSeq, {job.want.after})
    BY <1>2, <1>5, <2>1, <2>2
  <2>4. FlashAnswers(pair, guesses, topSeq, allowed)'
    BY <1>1, <2>3
  <2>5. RamAgrees(guesses)'
    BY <1>1, <1>4, <1>5, <1>6, <2>1 DEF RamAgrees, Charged, Live, HighWater
  <2>6. ScanPolicy(Source)' = policy' /\ ~Live(Target)'
    <3>1. ScanPolicy(Source)' = ScanPolicy(Source')
      BY DEF ScanPolicy
    <3> QED BY <1>1, <1>5, <1>6, <2>2, <2>3, <3>1 DEF Live
  <2>7. AgreedAt(pc, job, guesses)'
    BY <1>1, <1>3, <1>4, <1>5, <2>1, <2>6, Typed DEF AgreedAt, Formats, Rotating, Scanning, Settling
  <2> QED BY <2>4, <2>5, <2>7 DEF Agreed
<1> QED BY <1>8, <1>9 DEF IInv

\* A ledger that has just been scanned.
LEMMA FreshLedger ==
  ASSUME NEW p \in [Side -> Sector], LiveSides(p) # {}, Ordered(p)
  PROVE  LET x == p[Elected(p)]
             l == Scanned(p)
         IN /\ Elected(p) \in Side /\ x \in Sector /\ x.kind = "live" /\ CellsInOrder(x)
            /\ l \in LedgerState /\ l # NoLedger /\ l.side = Elected(p) /\ Behind(l, x)
            /\ l.head = x.head /\ l.policyUsed = Len(x.policies)
            /\ l.len["entry"] = Len(x.ticks["entry"])
            /\ l.len["success"] = SuccessLen(x.ticks["success"])
            /\ l.len["success"] <= l.len["entry"]
            /\ HighWater(l) = HighOf(x) /\ ScannedPolicy(p) = ScanPolicy(x)
            /\ l.head.fails + l.len["entry"] - SuccessLen(x.ticks["success"]) = FailsOf(x)
<1> DEFINE x == p[Elected(p)]
           l == Scanned(p)
<1>1. /\ Elected(p) \in LiveSides(p) /\ l \in LedgerState /\ l # NoLedger /\ l.side = Elected(p)
      /\ l.len = TickLens(x.ticks) /\ Behind(l, x)
  BY ScanReturns DEF Ordered
<1>2. Elected(p) \in Side /\ x \in Sector /\ x.kind = "live" /\ CellsInOrder(x)
  BY <1>1 DEF LiveSides, Ordered
<1>3. l.head = x.head /\ l.policyUsed = Len(x.policies)
  BY DEF Scanned
<1>4. ScannedPolicy(p) = ScanPolicy(x)
  BY DEF ScannedPolicy
<1> HIDE DEF x, l
<1>5. /\ l.len["entry"] = Len(x.ticks["entry"]) /\ l.len["seq"] = Len(x.ticks["seq"])
      /\ l.len["success"] = SuccessLen(x.ticks["success"])
      /\ l.len["success"] <= l.len["entry"]
  <2>1. {"entry", "seq"} \subseteq TickLog \ {"success"}
    BY LogNames
  <2> QED BY <1>1, <1>2, <2>1, LensRead
<1>6. /\ HighWater(l) = HighOf(x)
      /\ l.head.fails + l.len["entry"] - SuccessLen(x.ticks["success"]) = FailsOf(x)
  BY <1>3, <1>5 DEF HighWater, HighOf, FailsOf
<1> QED BY <1>1, <1>2, <1>3, <1>4, <1>5, <1>6 DEF x, l

\* Taking over what was scanned, with no second side beside it.
LEMMA Adopted ==
  ASSUME IInv, pc \in Scanning, Adopt, pair' \in [Side -> Sector], ElectionDecided', Ordered(pair'),
         LiveSides(pair) # {} => LiveSides(pair') # {} /\ LiveSides(pair') = {Elected(pair')},
         LiveSides(pair) = {} => LiveSides(pair') = {},
         ~adrift => FlashAnswers(pair', guesses, topSeq, allowed),
         ~adrift /\ ledger # NoLedger => Elected(pair') = ledger.side /\ pair'[ledger.side] = Source
  PROVE  IInv'
<1>1. /\ ledger' = Scanned(pair') /\ policy' = ScannedPolicy(pair')
      /\ nextSeq' = IF ledger' = NoLedger THEN 0 ELSE HighWater(ledger')
      /\ state' \in {"unformatted", "formatted", "inconsistent"}
      /\ state' = "formatted" => ledger' # NoLedger
      /\ UNCHANGED <<canary, session, guesses, topSeq, allowed, adrift>>
  BY DEF Adopt, Classified, Formatted, ghost
<1>2. policy' \in Policy
  BY <1>1, ScannedPolicyTyped
<1>3. \/ pc' = "ready" /\ job' = NoJob
      \/ pc' = job.scanned /\ job' = job /\ pc' # "ready"
         /\ (ledger' = NoLedger => pc' \notin {"seal", "fill"})
  BY DEF Adopt, Goto
<1>4. pc' \in Steps /\ job' \in Job
  BY <1>3, Typed, NoJobTyped DEF Steps, Job
<1>5. CASE LiveSides(pair) = {}
  <2>1. ledger' = NoLedger /\ nextSeq' = 0 /\ LiveSides(pair') = {}
    BY <1>1, <1>5 DEF Scanned
  <2>2. ledger = NoLedger
    BY <1>5, Typed DEF Flow, Scanning
  <2>3. Flow(pc, job)'
    BY <1>3, <2>1, <2>2, Typed DEF Flow, NoJob, Formats, Rotating, Creating, Scanning, OnLedger
  <2>4. TypeOK'
    BY <1>1, <1>2, <1>4, <2>1, Typed DEF TypeOK
  <2>5. Base'
    BY <1>1, <2>1, <2>3, <2>4 DEF Base, Ordered
  <2>6. ASSUME ~adrift' PROVE Agreed'
    <3>1. FlashAnswers(pair, guesses, topSeq, allowed)'
      BY <1>1, <2>6
    <3>2. AgreedAt(pc, job, guesses)'
      BY <1>3, <2>1, <2>2, Typed DEF AgreedAt, Flow, NoJob, Formats, Rotating, Scanning, Settling
    <3> QED BY <2>1, <3>1, <3>2 DEF Agreed, RamAgrees
  <2> QED BY <2>5, <2>6 DEF IInv
<1>6. CASE LiveSides(pair) # {}
  <2> DEFINE x == pair'[Elected(pair')]
  <2>1. /\ Elected(pair') \in Side /\ x \in Sector /\ x.kind = "live" /\ CellsInOrder(x)
        /\ ledger' \in LedgerState /\ ledger' # NoLedger /\ ledger'.side = Elected(pair')
        /\ Behind(ledger', x)
        /\ ledger'.head = x.head /\ ledger'.policyUsed = Len(x.policies)
        /\ ledger'.len["entry"] = Len(x.ticks["entry"])
        /\ ledger'.len["success"] = SuccessLen(x.ticks["success"])
        /\ ledger'.len["success"] <= ledger'.len["entry"]
        /\ HighWater(ledger') = HighOf(x) /\ policy' = ScanPolicy(x)
        /\ ledger'.head.fails + ledger'.len["entry"] - SuccessLen(x.ticks["success"]) = FailsOf(x)
    BY <1>1, <1>6, FreshLedger
  <2>2. /\ Source' = x /\ Target' \in Side /\ Target' # Elected(pair') /\ LiveSides(pair') = {Elected(pair')}
        /\ ScanPolicy(Source)' = ScanPolicy(Source')
    BY <1>6, <2>1, TwoSides DEF Source, Target, ScanPolicy
  <2> HIDE DEF x
  <2>3. nextSeq' = HighOf(x) /\ HighOf(x) \in Nat
    BY <1>1, <2>1, SectorNumbers
  <2>4. Flow(pc, job)'
    BY <1>3, <2>1, <2>2, Typed DEF Flow, NoJob, Formats, Rotating, Creating, Scanning, OnLedger
  <2>5. TypeOK'
    BY <1>1, <1>2, <1>4, <2>1, <2>3, Typed DEF TypeOK
  <2>6. Base'
    BY <1>1, <2>1, <2>2, <2>4, <2>5 DEF Base, Ordered, Behind, Live
  <2>7. ASSUME ~adrift' PROVE Agreed'
    <3>1. ~adrift /\ AgreedAt(pc, job, guesses) /\ FlashAnswers(pair', guesses, topSeq, allowed)
      BY <1>1, <2>7 DEF IInv, Agreed
    <3>2. Answers(x, guesses, topSeq, allowed)
      BY <2>2, <3>1 DEF FlashAnswers, x
    <3>3. RamAgrees(guesses)'
      BY <1>1, <2>1, <2>2, <2>3, <3>2 DEF RamAgrees, Charged, Live, Source, Answers
    <3>4. ~Live(Target)' /\ policy' = ScanPolicy(Source)'
      BY <2>1, <2>2 DEF Live, LiveSides
    <3>5. EveryAttemptSeen'
      BY <2>1, <2>2 DEF EveryAttemptSeen
    <3>6. ASSUME pc' = "due" PROVE guesses = 0 /\ SettledRam'
      <4>1. /\ job.scanned = "due" /\ ledger # NoLedger /\ guesses = 0 /\ SettledRam
        BY <1>3, <3>1, <3>6, Typed DEF AgreedAt, Settling, Flow
      <4>2. x = Source
        BY <3>1, <4>1 DEF x
      <4>3. /\ ledger.len["success"] <= SuccessLen(x.ticks["success"])
            /\ SuccessLen(x.ticks["success"]) \in Nat /\ Len(x.ticks["success"]) \in Nat
            /\ SuccessLen(x.ticks["success"]) <= Len(x.ticks["success"])
            /\ Len(x.ticks["success"]) <= Len(x.ticks["entry"])
            /\ Len(x.ticks["entry"]) \in Nat
        BY <2>1, <3>1, <4>1, <4>2, RamNumbers, SectorNumbers, LogNames
      <4>4. ledger.len["success"] = Len(x.ticks["entry"])
        BY <4>1, <4>2 DEF SettledRam, EveryAttemptSeen
      <4>5. SuccessLen(x.ticks["success"]) = Len(x.ticks["entry"])
        BY <4>3, <4>4
      <4> QED BY <2>1, <3>5, <4>1, <4>5 DEF SettledRam
    <3>7. AgreedAt(pc, job, guesses)'
      BY <1>1, <1>3, <2>1, <3>4, <3>6, Typed DEF AgreedAt, Flow, NoJob, Formats, Rotating, Scanning, Settling
    <3> QED BY <1>1, <3>1, <3>3, <3>7 DEF Agreed
  <2> QED BY <2>6, <2>7 DEF IInv
<1> QED BY <1>5, <1>6

LEMMA ScanKeeps == ASSUME IInv, Scan PROVE IInv'
<1>1. pc = "scan" /\ ~Leftover /\ pair' = pair /\ Adopt
  BY DEF Scan
<1>2. /\ pair \in [Side -> Sector] /\ ElectionDecided /\ Ordered(pair)
  BY DEF IInv, Base, TypeOK
<1>3. LiveSides(pair) # {} => LiveSides(pair) = {Elected(pair)}
  <2>1. ASSUME LiveSides(pair) # {} PROVE LiveSides(pair) = {Elected(pair)}
    <3>1. Elected(pair) \in LiveSides(pair)
      BY <1>2, <2>1, ElectedIsLive, SectorsCounted
    <3>2. pair[Other(Elected(pair))] = Blank /\ Elected(pair) \in Side
      BY <1>1, <2>1, <3>1 DEF Leftover, LiveSides
    <3>3. Other(Elected(pair)) \notin LiveSides(pair)
      BY <3>2 DEF LiveSides, Blank
    <3> QED BY <3>1, <3>2, <3>3, TwoSides DEF LiveSides
  <2> QED BY <2>1
<1>4. /\ ElectionDecided' /\ pair' \in [Side -> Sector] /\ Ordered(pair')
      /\ LiveSides(pair') = LiveSides(pair) /\ Elected(pair') = Elected(pair)
      /\ ~adrift => FlashAnswers(pair', guesses, topSeq, allowed)
  BY <1>1, <1>2 DEF ElectionDecided, IInv, Agreed
<1>5. ~adrift /\ ledger # NoLedger => Elected(pair') = ledger.side /\ pair'[ledger.side] = Source
  BY <1>1, <1>4, FlashIsSource DEF Source
<1> QED BY <1>1, <1>3, <1>4, <1>5, Adopted DEF Scanning

\* What was left of an interrupted rotation is erased before the scan is taken over.
LEMMA TidyKeeps == ASSUME IInv, Tidy PROVE IInv'
<1> DEFINE w == Elected(pair)
           o == Other(w)
<1>1. pc = "tidy" /\ pair' = [pair EXCEPT ![o] = Blank] /\ Adopt /\ LiveSides(pair) # {}
  BY Typed DEF Tidy, Flow
<1>2. /\ TypeOK /\ pair \in [Side -> Sector] /\ ElectionDecided /\ Ordered(pair)
      /\ Counted(pair)
  BY SectorsCounted DEF IInv, Base, TypeOK
<1>3. w \in LiveSides(pair) /\ w \in Side /\ o \in Side /\ o # w /\ \A t \in Side : t = w \/ t = o
  BY <1>1, <1>2, ElectedIsLive, TwoSides DEF LiveSides
<1>4. pair' \in ErasedOrTorn(pair, o)
  BY <1>1 DEF ErasedOrTorn
<1>5. /\ LiveSides(pair') # {} /\ Elected(pair') = w /\ pair'[w] = pair[w]
  BY <1>1, <1>2, <1>4, LoserIsErased
<1>6. /\ pair' \in [Side -> Sector] /\ ElectionDecided' /\ Ordered(pair') /\ pair'[o] = Blank
  BY <1>1, <1>2, <1>3, NotLive, SideSet
<1> HIDE DEF w, o
<1>7. LiveSides(pair') = {w}
  BY <1>3, <1>5, <1>6, NotLive DEF LiveSides
<1>8. ASSUME ~adrift PROVE FlashAnswers(pair', guesses, topSeq, allowed)
  <2>1. FlashAnswers(pair, guesses, topSeq, allowed)
    BY <1>8 DEF IInv, Agreed
  <2> QED BY <1>1, <1>5, <2>1 DEF FlashAnswers, w
<1>9. ~adrift /\ ledger # NoLedger => Elected(pair') = ledger.side /\ pair'[ledger.side] = Source
  BY <1>1, <1>5, FlashIsSource DEF Source, w
<1> QED BY <1>1, <1>5, <1>6, <1>7, <1>8, <1>9, Adopted DEF Scanning

\* A store that never had a ledger gets one: until the first head verifies there is
\* none.
LEMMA ErasesForCreate ==
  ASSUME IInv, ledger = NoLedger, NEW s \in Side, NEW x \in {Blank, Garbage},
         pc \in Creating, pc' \in Creating, job' = job,
         pair' = [pair EXCEPT ![s] = x],
         UNCHANGED <<canary, ram, session, ghost>>,
         pc' \in {"createHead", "createMac"} => s = "B" \/ ~Live("B")
  PROVE  IInv'
<1>1. TypeOK /\ ElectionDecided /\ Ordered(pair) /\ x \in Sector /\ CellsInOrder(x) /\ x.kind # "live"
  BY NotLive DEF IInv, Base
<1>2. /\ pair' \in [Side -> Sector] /\ ElectionDecided' /\ Ordered(pair')
      /\ pair'[s] = x /\ pair'[Other(s)] = pair[Other(s)]
  BY <1>1, SideSet
<1>3. \A t \in Side : pair'[t].kind = "live" => Live(t)
  BY <1>1, <1>2, TwoSides DEF Live
<1>4. pc' \in {"createHead", "createMac"} => ~Live("B")'
  BY <1>1, <1>2, <1>3, SideNames DEF Live
<1>5. Flow(pc, job)'
  <2>1. UNCHANGED <<ledger, state>>
    BY DEF ram
  <2> QED BY <1>4, <2>1, Typed DEF Flow, Formats, Rotating, Creating, Scanning, OnLedger
<1>6. Base'
  <2>1. TypeOK'
    BY <1>1, <1>2 DEF TypeOK, ram, ghost, Creating, Steps
  <2> QED BY <1>2, <1>5, <2>1 DEF Base, Ordered, IInv, ram
<1>7. ASSUME ~adrift' PROVE Agreed'
  <2>1. ~adrift /\ AgreedAt(pc, job, guesses) /\ FlashAnswers(pair, guesses, topSeq, allowed)
    BY <1>7 DEF IInv, Agreed, ghost
  <2>2. LiveSides(pair) = {} /\ LiveSides(pair') = {}
    BY <1>3, <2>1 DEF AgreedAt, Creating, Scanning, LiveSides, Live
  <2>3. FlashAnswers(pair, guesses, topSeq, allowed)'
    BY <2>1, <2>2 DEF FlashAnswers, ghost
  <2>4. AgreedAt(pc, job, guesses)'
    BY <2>2 DEF AgreedAt, Creating, Rotating, Scanning, Settling, Formats, ram
  <2> QED BY <2>3, <2>4 DEF Agreed, RamAgrees, ram
<1> QED BY <1>6, <1>7 DEF IInv

LEMMA CreateErasesKeep ==
  ASSUME IInv, Erase("A", "createA", "createB") \/ Erase("B", "createB", "createHead") \/ CreateHead
  PROVE  IInv'
<1>1. PICK s \in Side, x \in {Blank, Garbage} :
        /\ pc \in Creating /\ pc' \in Creating /\ job' = job /\ pair' = [pair EXCEPT ![s] = x]
        /\ UNCHANGED <<canary, ram, session, ghost>>
        /\ pc' \in {"createHead", "createMac"} => s = "B" \/ pc = "createHead"
  <2>1. CASE Erase("A", "createA", "createB")
    BY <2>1, SideNames DEF Erase, Goto, Creating
  <2>2. CASE Erase("B", "createB", "createHead")
    BY <2>2, SideNames DEF Erase, Goto, Creating
  <2>3. CASE CreateHead
    BY <2>3, SideNames DEF CreateHead, Goto, Creating
  <2> QED BY <2>1, <2>2, <2>3
<1>2. ledger = NoLedger /\ (pc = "createHead" => ~Live("B"))
  BY <1>1, Typed DEF Flow
<1> QED BY <1>1, <1>2, ErasesForCreate

LEMMA CreateMacKeeps == ASSUME IInv, CreateMac PROVE IInv'
<1> DEFINE x == NewSector(FirstHead)
           l == NewState("A", FirstHead, 1)
<1>1. /\ pc = "createMac" /\ pc' = "scan" /\ job' = job /\ ledger = NoLedger /\ ~Live("B")
      /\ Formats(job) /\ job.scanned = "seal"
      /\ pair' = [pair EXCEPT !["A"] = x] /\ ledger' = l /\ allowed' = {FormatAfter}
      /\ UNCHANGED <<canary, policy, nextSeq, state, session, guesses, topSeq, adrift>>
  BY Typed DEF CreateMac, Goto, Flow, Creating, Formats
<1>2. /\ FirstHead \in LedgerHead /\ FirstHead.ctr = 1 /\ FirstHead.seq = 0 /\ FirstHead.fails = 0
      /\ FirstHead.policy.after = FormatAfter
  BY FirstHeadTyped DEF FirstHead, StrictPolicy
<1>3. /\ x \in Sector /\ x.kind = "live" /\ x.head = FirstHead /\ CellsInOrder(x)
      /\ \A f \in TickLog : x.ticks[f] = <<>> 
      /\ x.policies = <<>> /\ ScanPolicy(x) = FirstHead.policy
  BY <1>2, NewSectorFacts
<1>4. /\ l \in LedgerState /\ l # NoLedger /\ l.side = "A" /\ l.head = FirstHead
      /\ \A f \in TickLog : l.len[f] = 0
      /\ l.policyUsed = 0 /\ Behind(l, x)
  BY <1>2, SideNames, NewStateFacts
<1> HIDE DEF x, l
<1>5. Other("A") = "B"
  BY DEF Other
<1>6. /\ pair' \in [Side -> Sector] /\ ElectionDecided' /\ Ordered(pair')
      /\ pair'["A"] = x /\ pair'["B"] = pair["B"]
  BY <1>1, <1>3, <1>5, SideNames, SideSet DEF Live, IInv, Base
<1>7. LiveSides(pair') = {"A"} /\ Source' = x /\ ~Live(Target)'
  BY <1>1, <1>3, <1>4, <1>5, <1>6 DEF LiveSides, Live, Side, Source, Target
<1>8. Flow(pc, job)'
  BY <1>1, <1>4, <1>7, Typed DEF Flow, Formats, Rotating, Creating, Scanning, OnLedger
<1>9. Base'
  <2>1. TypeOK'
    BY <1>1, <1>4, <1>6, Typed DEF TypeOK, Steps
  <2>2. (/\ ledger.len["success"] <= ledger.len["entry"]
         /\ Live(ledger.side) => Behind(ledger, Source))'
    BY <1>1, <1>4, <1>7, LogNames DEF Behind
  <2> QED BY <1>1, <1>4, <1>6, <1>8, <2>1, <2>2 DEF Base, Ordered
<1>10. ASSUME ~adrift' PROVE Agreed'
  <2>1. ~adrift /\ AgreedAt(pc, job, guesses) /\ FlashAnswers(pair, guesses, topSeq, allowed)
    BY <1>1, <1>10 DEF IInv, Agreed
  <2>2. LiveSides(pair) = {}
    BY <1>1, <2>1 DEF AgreedAt, Scanning
  <2>3. guesses = 0 /\ topSeq = 0 /\ nextSeq \in Nat
    BY <2>1, <2>2, Typed DEF FlashAnswers, TypeOK
  <2>4. FailsOf(x) \in Nat /\ HighOf(x) \in Nat /\ HighWater(l) \in Nat
    <3>1. l.head.seq + l.len["seq"] \in Nat
      BY <1>2, <1>4, LogNames
    <3> QED BY <1>3, <3>1, SectorNumbers DEF HighWater
  <2>5. FlashAnswers(pair, guesses, topSeq, allowed)'
    <3>1. Answers(x, 0, 0, {FormatAfter})
      BY <1>2, <1>3, <2>4 DEF Answers
    <3> QED BY <1>1, <1>6, <1>7, <2>3, <3>1, SideNames, OneLive
  <2>6. RamAgrees(guesses)'
    <3>1. SuccessLen(x.ticks["success"]) = 0
      BY <1>3, SectorNumbers, LogNames
    <3>2. Len(x.policies) = 0
      BY <1>3
    <3>3. Charged(guesses)'
      BY <1>1, <1>2, <1>4, <1>7, <2>3, <3>1, LogNames DEF Charged
    <3> QED BY <1>1, <1>3, <1>4, <1>6, <1>7, <2>3, <2>4, <3>2, <3>3 DEF RamAgrees, Live, Source
  <2>7. AgreedAt(pc, job, guesses)'
    BY <1>1, <1>4, <1>7 DEF AgreedAt, Formats, Rotating, Scanning, Settling
  <2> QED BY <2>5, <2>6, <2>7 DEF Agreed
<1> QED BY <1>9, <1>10 DEF IInv

\* The side a rotation writes to is set.
LEMMA TargetSet ==
  ASSUME IInv, ledger # NoLedger, NEW x \in Sector, CellsInOrder(x),
         pair' = [pair EXCEPT ![Target] = x],
         x.kind = "live" /\ Live(ledger.side) => x.head.ctr # Source.head.ctr
  PROVE  /\ pair' \in [Side -> Sector] /\ ElectionDecided' /\ Ordered(pair')
         /\ pair'[Target] = x /\ pair'[ledger.side] = Source
         /\ ledger.side \in Side /\ Target \in Side /\ Target # ledger.side
         /\ \A s \in Side : s = Target \/ s = ledger.side
<1>1. /\ TypeOK /\ ElectionDecided /\ Ordered(pair) /\ ledger.side \in Side /\ Target \in Side
      /\ Target # ledger.side /\ \A s \in Side : s = Target \/ s = ledger.side
      /\ Other(Target) = ledger.side
  <2>1. /\ TypeOK /\ ElectionDecided /\ Ordered(pair) /\ ledger.side \in Side /\ Target \in Side
        /\ Target # ledger.side /\ \A s \in Side : s = Target \/ s = ledger.side
    BY StateTyped DEF IInv, Base
  <2> QED BY <2>1, TwoSides
<1>2. pair[ledger.side] = Source
  BY DEF Source
<1>3. x.kind = "live" /\ pair[Other(Target)].kind = "live" => x.head.ctr # pair[Other(Target)].head.ctr
  BY <1>1, <1>2 DEF Live
<1>4. /\ pair' \in [Side -> Sector] /\ ElectionDecided' /\ Ordered(pair')
      /\ pair'[Target] = x /\ pair'[Other(Target)] = pair[Other(Target)]
  BY <1>1, <1>3, SideSet
<1> QED BY <1>1, <1>2, <1>4

\* While it holds no head that verifies, the other side answers.
LEMMA TargetDead ==
  ASSUME IInv, ledger # NoLedger, NEW x \in {Blank, Garbage}, pair' = [pair EXCEPT ![Target] = x]
  PROVE  /\ pair' \in [Side -> Sector] /\ ElectionDecided' /\ Ordered(pair')
         /\ pair'[Target] = x /\ pair'[ledger.side] = Source /\ ~(pair'[Target].kind = "live")
         /\ ~adrift /\ pc # "retire" =>
              /\ LiveSides(pair') = {ledger.side}
              /\ \A g, t, al : FlashAnswers(pair', g, t, al) <=> FlashAnswers(pair, g, t, al)
<1>1. x \in Sector /\ CellsInOrder(x) /\ x.kind # "live"
  BY NotLive
<1>2. /\ pair' \in [Side -> Sector] /\ ElectionDecided' /\ Ordered(pair')
      /\ pair'[Target] = x /\ pair'[ledger.side] = Source
      /\ ledger.side \in Side /\ Target \in Side /\ Target # ledger.side
      /\ \A s \in Side : s = Target \/ s = ledger.side
  BY <1>1, TargetSet
<1>3. ASSUME ~adrift, pc # "retire"
      PROVE  /\ LiveSides(pair') = {ledger.side}
             /\ \A g, t, al : FlashAnswers(pair', g, t, al) <=> FlashAnswers(pair, g, t, al)
  <2>1. LiveSides(pair') = {ledger.side}
    BY <1>1, <1>2, <1>3, RamNumbers DEF LiveSides
  <2>2. \A g, t, al : FlashAnswers(pair', g, t, al) <=> Answers(Source, g, t, al)
    BY <1>2, <2>1, OneLive
  <2> QED BY <1>3, <2>1, <2>2, FlashIsSource
<1> QED BY <1>1, <1>2, <1>3

LEMMA RotateDeadKeeps == ASSUME IInv, RotateErase \/ RotateHead PROVE IInv'
<1>1. PICK x \in {Blank, Garbage} :
        /\ pc \in {"erase", "head"} /\ pc' \in {"head", "mac"} /\ job' = job /\ ledger # NoLedger
        /\ pair' = [pair EXCEPT ![Target] = x]
        /\ UNCHANGED <<canary, ram, session, ghost>>
  <2>1. CASE RotateErase
    BY <2>1, Typed DEF RotateErase, Goto, Flow, OnLedger, Rotating
  <2>2. CASE RotateHead
    BY <2>2, Typed DEF RotateHead, Goto, Flow, OnLedger, Rotating
  <2> QED BY <2>1, <2>2
<1>2. UNCHANGED <<ledger, policy, nextSeq, state, guesses, topSeq, allowed, adrift>>
  BY <1>1 DEF ram, ghost
<1>3. /\ pair' \in [Side -> Sector] /\ ElectionDecided' /\ Ordered(pair')
      /\ pair'[ledger.side] = Source /\ ~(pair'[Target].kind = "live")
      /\ ~adrift => /\ LiveSides(pair') = {ledger.side}
                    /\ \A g, t, al : FlashAnswers(pair', g, t, al) <=> FlashAnswers(pair, g, t, al)
  BY <1>1, TargetDead
<1>4. Target' = Target /\ Source' = Source /\ ScanPolicy(Source)' = ScanPolicy(Source)
  <2>1. Target' = Target /\ Source' = Source
    BY <1>2, <1>3 DEF Target, Source
  <2> QED BY <2>1 DEF ScanPolicy
<1>5. Flow(pc, job)'
  BY <1>1, <1>2, Typed DEF Flow, Formats, Rotating, Creating, Scanning, OnLedger
<1>6. Base'
  <2>1. TypeOK'
    BY <1>1, <1>2, <1>3, Typed DEF TypeOK, Steps
  <2>2. (/\ ledger.len["success"] <= ledger.len["entry"]
         /\ Live(ledger.side) => Behind(ledger, Source))'
    BY <1>1, <1>2, <1>3, <1>4 DEF IInv, Base, Live, Behind, Source
  <2> QED BY <1>1, <1>2, <1>3, <1>5, <2>1, <2>2 DEF Base, Ordered
<1>7. ASSUME ~adrift' PROVE Agreed'
  <2>1. /\ ~adrift /\ RamAgrees(guesses) /\ AgreedAt(pc, job, guesses) /\ Live(ledger.side)
        /\ FlashAnswers(pair, guesses, topSeq, allowed)
    BY <1>1, <1>2, <1>7, RamNumbers DEF IInv, Agreed
  <2>2. FlashAnswers(pair, guesses, topSeq, allowed)'
    BY <1>2, <1>3, <2>1
  <2>3. RamAgrees(guesses)'
    BY <1>1, <1>2, <1>3, <1>4, <2>1 DEF RamAgrees, Charged, Live, HighWater, Source
  <2>4. ~Live(Target)'
    BY <1>3, <1>4 DEF Live
  <2>5. (EveryAttemptSeen' <=> EveryAttemptSeen) /\ (SettledRam' <=> SettledRam)
        /\ Leaves(job.carry + 1)' = Leaves(job.carry + 1)
    BY <1>1, <1>2, <1>4 DEF EveryAttemptSeen, SettledRam, Leaves
  <2>6. AgreedAt(pc, job, guesses)'
    BY <1>1, <1>2, <1>4, <2>1, <2>4, <2>5 DEF AgreedAt, Formats, Rotating, Scanning, Settling
  <2> QED BY <2>2, <2>3, <2>6 DEF Agreed
<1> QED BY <1>6, <1>7 DEF IInv

\* The head that lands answers for what the side it replaces answered for.
LEMMA TargetLive ==
  ASSUME IInv, pc = "mac", pair' = [pair EXCEPT ![Target] = NewSector(NextHead)]
  PROVE  /\ pair' \in [Side -> Sector] /\ ElectionDecided' /\ Ordered(pair')
         /\ pair'[Target] = NewSector(NextHead) /\ pair'[ledger.side] = Source
         /\ pair'[Target].kind = "live" /\ ledger.side \in Side /\ Target \in Side
         /\ ~adrift =>
              /\ NextHead.policy.after \in (IF Formatting THEN {FormatAfter} ELSE allowed)
              /\ \A al : NextHead.policy.after \in al => FlashAnswers(pair', guesses, topSeq, al)
<1> DEFINE x == NewSector(NextHead)
<1>1. ledger # NoLedger /\ TypeOK /\ guesses \in Nat /\ job.carry \in Nat /\ topSeq \in Nat
  BY Typed DEF Flow, OnLedger, Rotating, TypeOK
<1>2. /\ NextHead \in LedgerHead /\ NextHead.ctr = ledger.head.ctr + 1 /\ NextHead.seq = SeqCarried
      /\ NextHead.fails = job.carry /\ NextHead.policy = job.install /\ ledger.head.ctr \in Nat
  BY <1>1, NextHeadTyped, StateTyped DEF LedgerHead
<1>3. /\ x \in Sector /\ x.kind = "live" /\ x.head = NextHead /\ CellsInOrder(x)
      /\ \A f \in TickLog : x.ticks[f] = <<>>
      /\ ScanPolicy(x) = NextHead.policy
  BY <1>2, NewSectorFacts
<1> HIDE DEF x
<1>4. Live(ledger.side) => Source.head.ctr = ledger.head.ctr
  BY <1>1 DEF IInv, Base, Behind
<1>5. /\ pair' \in [Side -> Sector] /\ ElectionDecided' /\ Ordered(pair')
      /\ pair'[Target] = x /\ pair'[ledger.side] = Source
      /\ ledger.side \in Side /\ Target \in Side /\ Target # ledger.side
      /\ \A s \in Side : s = Target \/ s = ledger.side
  <2>1. pair' = [pair EXCEPT ![Target] = x]
    BY DEF x
  <2>2. Live(ledger.side) => x.head.ctr # Source.head.ctr
    BY <1>2, <1>3, <1>4
  <2> QED BY <1>1, <1>3, <2>1, <2>2, TargetSet
<1>6. ASSUME ~adrift
      PROVE  /\ NextHead.policy.after \in (IF Formatting THEN {FormatAfter} ELSE allowed)
             /\ \A al : NextHead.policy.after \in al => FlashAnswers(pair', guesses, topSeq, al)
  <2>1. /\ AgreedAt(pc, job, guesses) /\ RamAgrees(guesses) /\ Live(ledger.side)
        /\ Answers(Source, guesses, topSeq, allowed)
    BY <1>1, <1>6, RamNumbers, FlashIsSource DEF IInv, Agreed
  <2>2. NextHead.policy.after \in (IF Formatting THEN {FormatAfter} ELSE allowed)
    <3>1. CASE Formats(job)
      BY <1>2, <2>1, <3>1 DEF AgreedAt, Rotating, Formats, Formatting
    <3>2. CASE ~Formats(job)
      <4>1. job.install = policy /\ policy = ScanPolicy(Source)
        BY <1>1, <2>1, <3>2 DEF AgreedAt, Rotating
      <4> QED BY <1>2, <2>1, <3>2, <4>1 DEF Answers, Formats, Formatting
    <3> QED BY <3>1, <3>2
  <2>3. LiveSides(pair') # {} /\ Elected(pair') = Target
    <3>1. Target \in LiveSides(pair')
      BY <1>3, <1>5 DEF LiveSides
    <3>2. \A t \in LiveSides(pair') : t # Target => pair'[t].head.ctr < pair'[Target].head.ctr
      BY <1>2, <1>3, <1>4, <1>5, <2>1 DEF LiveSides
    <3> QED BY <1>5, <3>1, <3>2, GreaterIsElected, SectorsCounted
  <2>4. FailsOf(x) = job.carry /\ HighOf(x) = HighWater(ledger)
    <3>1. /\ SuccessLen(x.ticks["success"]) = 0 /\ Len(x.ticks["entry"]) = 0
          /\ Len(x.ticks["seq"]) = 0
      BY <1>3, SectorNumbers, LogNames
    <3>2. x.head.fails = job.carry /\ x.head.seq = SeqCarried /\ SeqCarried \in Nat
          /\ HighWater(ledger) = SeqCarried * Reserve
      BY <1>1, <1>2, <1>3, CountsTyped
    <3> QED BY <1>1, <3>1, <3>2 DEF FailsOf, HighOf
  <2>5. guesses <= FailsOf(x) /\ topSeq <= HighOf(x)
    BY <1>1, <2>1, <2>4 DEF AgreedAt, RamAgrees, Rotating
  <2>6. \A al : NextHead.policy.after \in al => FlashAnswers(pair', guesses, topSeq, al)
    BY <1>3, <1>5, <2>3, <2>5 DEF FlashAnswers, Answers
  <2> QED BY <2>2, <2>6
<1> QED BY <1>3, <1>5, <1>6 DEF x

LEMMA RotateMacKeeps == ASSUME IInv, RotateMac PROVE IInv'
<1>1. /\ pc = "mac" /\ pc' = "retire" /\ job' = job /\ ledger # NoLedger
      /\ pair' = [pair EXCEPT ![Target] = NewSector(NextHead)]
      /\ allowed' = IF Formatting THEN {FormatAfter} ELSE allowed
      /\ UNCHANGED <<canary, ledger, policy, nextSeq, state, session, guesses, topSeq, adrift>>
  BY Typed DEF RotateMac, Goto, ram, Flow, OnLedger, Rotating
<1>2. /\ pair' \in [Side -> Sector] /\ ElectionDecided' /\ Ordered(pair')
      /\ pair'[Target] = NewSector(NextHead) /\ pair'[ledger.side] = Source
      /\ pair'[Target].kind = "live" /\ ledger.side \in Side /\ Target \in Side
      /\ ~adrift =>
              /\ NextHead.policy.after \in (IF Formatting THEN {FormatAfter} ELSE allowed)
              /\ \A al : NextHead.policy.after \in al => FlashAnswers(pair', guesses, topSeq, al)
  BY <1>1, TargetLive
<1>3. Target' = Target /\ Source' = Source /\ ScanPolicy(Source)' = ScanPolicy(Source)
  <2>1. Target' = Target /\ Source' = Source
    BY <1>1, <1>2 DEF Target, Source
  <2> QED BY <2>1 DEF ScanPolicy
<1>4. LiveSides(pair') # {}
  BY <1>2 DEF LiveSides
<1>5. NewSector(HeadFor(job))' = NewSector(NextHead)
  BY <1>1 DEF NewSector, HeadFor, HeadOf, NextHead, SeqCarried, WipeEpoch
<1>6. Flow(pc, job)'
  <2>1. (pair[Target] = NewSector(HeadFor(job)))'
    BY <1>2, <1>3, <1>5
  <2> QED BY <1>1, <1>4, <2>1, Typed DEF Flow, Formats, Rotating, Creating, Scanning, OnLedger
<1>7. Base'
  <2>1. TypeOK'
    <3>1. allowed' \subseteq Nat
      BY <1>1 DEF IInv, Base, TypeOK
    <3> QED BY <1>1, <1>2, <3>1, Typed DEF TypeOK, Steps
  <2>2. (/\ ledger.len["success"] <= ledger.len["entry"]
         /\ Live(ledger.side) => Behind(ledger, Source))'
    BY <1>1, <1>2, <1>3 DEF IInv, Base, Live, Behind, Source
  <2>3. (state = "formatted" => ledger # NoLedger)'
    BY <1>1
  <2> QED BY <1>1, <1>2, <1>6, <2>1, <2>2, <2>3 DEF Base, Ordered
<1>8. ASSUME ~adrift' PROVE Agreed'
  <2>1. /\ ~adrift /\ RamAgrees(guesses) /\ AgreedAt(pc, job, guesses) /\ Live(ledger.side)
    BY <1>1, <1>8, RamNumbers DEF IInv, Agreed
  <2>2. FlashAnswers(pair, guesses, topSeq, allowed)'
    BY <1>1, <1>2, <2>1
  <2>3. RamAgrees(guesses)'
    BY <1>1, <1>2, <1>3, <2>1 DEF RamAgrees, Charged, Live, HighWater, Source
  <2>5. (EveryAttemptSeen' <=> EveryAttemptSeen) /\ (SettledRam' <=> SettledRam)
        /\ Leaves(job.carry + 1)' = Leaves(job.carry + 1)
    BY <1>1, <1>3 DEF EveryAttemptSeen, SettledRam, Leaves
  <2>6. AgreedAt(pc, job, guesses)'
    BY <1>1, <1>3, <2>1, <2>5 DEF AgreedAt, Formats, Rotating, Scanning, Settling
  <2> QED BY <2>2, <2>3, <2>6 DEF Agreed
<1> QED BY <1>7, <1>8 DEF IInv

\* The last step of a rotation: RAM takes over the side that was written.
LEMMA RotateRetireKeeps == ASSUME IInv, RotateRetire PROVE IInv'
<1> DEFINE x == NewSector(NextHead)
           l == NewState(Target, NextHead, ledger.genNext)
<1>1. /\ pc = "retire" /\ ledger # NoLedger /\ pair[Target] = NewSector(HeadFor(job))
      /\ pair' = [pair EXCEPT ![ledger.side] = Blank] /\ ledger' = l
      /\ UNCHANGED <<canary, policy, nextSeq, state, session, guesses, topSeq, allowed, adrift>>
  BY Typed DEF RotateRetire, ghost, Flow, OnLedger, Rotating
<1>2. \/ pc' = "ready" /\ job' = NoJob /\ job.rotated = "ready"
      \/ pc' = job.rotated /\ job' = job /\ job.rotated # "ready"
  BY DEF RotateRetire, Goto
<1>3. pc' \in Steps /\ job' \in Job
  BY <1>2, Typed, NoJobTyped DEF Job, Steps
<1>4. /\ TypeOK /\ ledger.side \in Side /\ Target \in Side /\ Target # ledger.side
      /\ \A s \in Side : s = Target \/ s = ledger.side
      /\ ledger.genNext \in Nat /\ job.carry \in Nat /\ Other(ledger.side) = Target
      /\ ElectionDecided /\ Ordered(pair) /\ ledger.head.ctr \in Nat
  BY <1>1, Typed, StateTyped DEF Target, IInv, Base, LedgerHead
<1>5. /\ NextHead \in LedgerHead /\ NextHead.ctr = ledger.head.ctr + 1 /\ NextHead.seq = SeqCarried
      /\ NextHead.fails = job.carry /\ NextHead.policy = job.install
  BY <1>1, <1>4, NextHeadTyped
<1>6. /\ x \in Sector /\ x.kind = "live" /\ x.head = NextHead /\ CellsInOrder(x)
      /\ \A f \in TickLog : x.ticks[f] = <<>>
      /\ x.policies = <<>> /\ ScanPolicy(x) = NextHead.policy
  BY <1>5, NewSectorFacts
<1>7. /\ l \in LedgerState /\ l # NoLedger /\ l.side = Target /\ l.head = NextHead
      /\ \A f \in TickLog : l.len[f] = 0
      /\ l.policyUsed = 0 /\ Behind(l, x)
  BY <1>4, <1>5, NewStateFacts
<1>8. pair[Target] = x
  BY <1>1 DEF HeadFor, NextHead
<1> HIDE DEF x, l
<1>9. /\ pair' \in [Side -> Sector] /\ ElectionDecided' /\ Ordered(pair')
      /\ pair'[ledger.side] = Blank /\ pair'[Target] = x
  BY <1>1, <1>4, <1>8, NotLive, SideSet
<1>10. /\ LiveSides(pair') = {Target} /\ Source' = x /\ Target' = ledger.side /\ ~Live(Target)'
  <2>1. LiveSides(pair') = {Target}
    BY <1>4, <1>6, <1>9, NotLive DEF LiveSides
  <2>2. Source' = x
    BY <1>1, <1>7, <1>9 DEF Source
  <2>3. Target' = ledger.side
    BY <1>1, <1>4, <1>7 DEF Target, Other, Side
  <2> QED BY <1>9, <2>1, <2>2, <2>3, NotLive DEF Live
<1>11. Flow(pc, job)'
  <2>1. ledger' # NoLedger /\ LiveSides(pair') # {} /\ state' = state
    BY <1>1, <1>7, <1>10
  <2>2. CASE pc' = "ready" /\ job' = NoJob
    BY <2>1, <2>2, NoJobFacts DEF Flow, Formats, Rotating, Creating, Scanning, OnLedger
  <2>3. CASE pc' = job.rotated /\ job' = job /\ job.rotated # "ready"
    BY <1>1, <2>1, <2>3, Typed DEF Flow, Formats, Rotating, Creating, Scanning, OnLedger
  <2> QED BY <1>2, <2>2, <2>3
<1>12. Base'
  <2>1. TypeOK'
    BY <1>1, <1>3, <1>7, <1>9, Typed DEF TypeOK
  <2>2. (/\ ledger.len["success"] <= ledger.len["entry"]
         /\ Live(ledger.side) => Behind(ledger, Source))'
    BY <1>1, <1>7, <1>10, LogNames DEF Behind
  <2>3. (state = "formatted" => ledger # NoLedger)'
    BY <1>1, <1>7
  <2> QED BY <1>9, <1>11, <2>1, <2>2, <2>3 DEF Base, Ordered
<1>13. ASSUME ~adrift' PROVE Agreed'
  <2>1. /\ ~adrift /\ RamAgrees(guesses) /\ AgreedAt(pc, job, guesses)
        /\ Live(ledger.side) /\ Behind(ledger, Source) /\ Source = pair[ledger.side]
        /\ FlashAnswers(pair, guesses, topSeq, allowed)
    BY <1>1, <1>13, RamNumbers DEF IInv, Agreed, Source
  <2>2. /\ SuccessLen(x.ticks["success"]) = 0 /\ Len(x.ticks["entry"]) = 0 /\ Len(x.policies) = 0
        /\ l.len["entry"] = 0 /\ l.len["success"] = 0 /\ l.len["seq"] = 0
    BY <1>6, <1>7, SectorNumbers, LogNames
  <2>3. LiveSides(pair) # {} /\ Elected(pair) = Target
    <3>1. Target \in LiveSides(pair)
      BY <1>4, <1>6, <1>8 DEF LiveSides
    <3>2. pair[ledger.side].head.ctr < pair[Target].head.ctr
      BY <1>4, <1>5, <1>6, <1>8, <2>1 DEF Behind
    <3>3. \A t \in LiveSides(pair) : t # Target => pair[t].head.ctr < pair[Target].head.ctr
      BY <1>4, <3>2 DEF LiveSides
    <3> QED BY <1>4, <3>1, <3>3, GreaterIsElected, SectorsCounted DEF TypeOK
  <2>4. FlashAnswers(pair, guesses, topSeq, allowed)'
    <3>1. Answers(x, guesses, topSeq, allowed)
      BY <1>8, <2>1, <2>3 DEF FlashAnswers
    <3> QED BY <1>1, <1>4, <1>9, <1>10, <3>1, OneLive
  <2>5. guesses \in Nat /\ guesses <= job.carry
    BY <1>1, <2>1, Typed DEF AgreedAt, Rotating
  <2>6. HighWater(ledger') = HighWater(ledger)
    <3>1. l.head.seq + l.len["seq"] = SeqCarried
      BY <1>1, <1>4, <1>5, <1>7, <2>2, CountsTyped
    <3> QED BY <1>1, <1>4, <3>1, CountsTyped DEF HighWater
  <2>7. Failures(ledger') = job.carry /\ Charged(guesses)'
    <3>1. Failures(ledger') = job.carry
      BY <1>1, <1>4, <1>5, <1>7, <2>2 DEF Failures
    <3>2. guesses' <= l.head.fails + l.len["entry"] - SuccessLen(x.ticks["success"])
      BY <1>1, <1>4, <1>5, <1>7, <2>2, <2>5
    <3>3. Charged(guesses)'
      BY <1>1, <1>10, <3>2 DEF Charged
    <3> QED BY <3>1, <3>3
  <2>8. RamAgrees(guesses)'
    BY <1>1, <1>6, <1>7, <1>9, <1>10, <2>1, <2>2, <2>6, <2>7 DEF RamAgrees, Live
  <2>9. SettledRam'
    BY <1>1, <1>7, <1>10, <2>2 DEF SettledRam, EveryAttemptSeen
  <2>10. ~Formats(job) => (policy = ScanPolicy(Source))'
    <3>1. ScanPolicy(Source)' = ScanPolicy(Source')
      BY DEF ScanPolicy
    <3> QED BY <1>1, <1>5, <1>6, <1>10, <2>1, <3>1 DEF AgreedAt, Rotating
  <2>11. AgreedAt(pc, job, guesses)'
    <3>1. CASE pc' = "ready" /\ job' = NoJob /\ job.rotated = "ready"
      BY <1>1, <1>7, <1>10, <2>10, <3>1, NoJobFacts DEF AgreedAt, Formats, Rotating, Scanning, Settling
    <3>2. CASE pc' = job.rotated /\ job' = job /\ job.rotated # "ready"
      <4>1. pc' = "entry" => Leaves(Failures(ledger) + 1)'
        BY <1>1, <2>1, <2>7, <3>2 DEF AgreedAt, Leaves, Rotating
      <4>2. Settling(pc', job) => guesses = 0
        BY <1>1, <2>1, <3>2, Typed DEF AgreedAt, Settling, Rotating, Scanning, Flow
      <4>3. pc' = "open" => ledger'.head.fails = 0
        BY <1>1, <1>5, <1>7, <2>1, <3>2 DEF AgreedAt, Rotating
      <4>4. pc' \in Scanning => Formats(job)
        BY <1>1, <3>2, Typed DEF Flow, Rotating, Scanning, Formats
      <4>5. Settling(pc, job)' => Settling(pc', job)
        BY <3>2 DEF Settling
      <4>6. pc' \notin Rotating \cup {"verify", "settle", "retire", "off"}
        BY <3>2, Typed DEF Flow, Rotating
      <4>7. pc' = "policy" => job.want.gen = policy.gen + 1
        BY <1>1, <2>1, <3>2 DEF AgreedAt, Rotating
      <4>8. Formats(job)' => Formats(job) /\ pc' \in Scanning
        BY <3>2, Typed DEF Formats, Scanning
      <4> QED BY <1>1, <1>7, <1>10, <2>9, <2>10, <3>2, <4>1, <4>2, <4>3, <4>4, <4>5, <4>6, <4>7, <4>8 DEF AgreedAt
    <3> QED BY <1>2, <3>1, <3>2
  <2> QED BY <2>4, <2>8, <2>11 DEF Agreed
<1> QED BY <1>12, <1>13 DEF IInv

-----------------------------------------------------------------------------
(***************************************************************************)
(* Steps that do not complete.                                             *)
(***************************************************************************)
\* What the flash holds then, whatever has agreed before.
TornWell ==
  /\ pair' \in [Side -> Sector] /\ ElectionDecided' /\ Ordered(pair')
  /\ ledger # NoLedger /\ pair'[ledger.side].kind = "live" => Behind(ledger, pair'[ledger.side])

\* And what it still answers for if RAM and flash have agreed.
TornAnswers ==
  /\ FlashAnswers(pair', guesses, topSeq, allowed')
  /\ ledger # NoLedger => LiveSides(pair') # {}

\* If the step does not leave them apart they agree still.
TornAgrees ==
  /\ ledger # NoLedger =>
       /\ LiveSides(pair') = {ledger.side} /\ pair'[ledger.side].kind = "live"
       /\ Len(pair'[ledger.side].policies) = ledger.policyUsed
       /\ ScanPolicy(pair'[ledger.side]) = policy
       /\ guesses <= ledger.head.fails + ledger.len["entry"]
                     - SuccessLen(pair'[ledger.side].ticks["success"])
  /\ ledger = NoLedger => pair' = pair \/ pc \in {"tidy", "createA", "createB", "createHead", "createMac"}

TornKept == TornWell /\ (~adrift => TornAnswers /\ (~LeavesAdrift => TornAgrees))

\* A policy that is allowed stays so.
LEMMA AnswersMore ==
  ASSUME NEW p, NEW g, NEW t, NEW al, NEW bl, al \subseteq bl, FlashAnswers(p, g, t, al)
  PROVE  FlashAnswers(p, g, t, bl)
BY DEF FlashAnswers, Answers

\* Before the step, if it leaves nothing apart.
LEMMA AgreedBefore ==
  ASSUME IInv, ~adrift, ledger # NoLedger, ~LeavesAdrift
  PROVE  /\ LiveSides(pair) = {ledger.side} /\ Source.kind = "live"
         /\ Source = pair[ledger.side]
         /\ Len(Source.policies) = ledger.policyUsed /\ ScanPolicy(Source) = policy
         /\ guesses <= ledger.head.fails + ledger.len["entry"] - SuccessLen(Source.ticks["success"])
<1>1. pc # "retire" /\ ~(pc \in Scanning /\ Formats(job))
  BY DEF LeavesAdrift, Formatting, Formats, Scanning
<1>2. RamAgrees(guesses) /\ AgreedAt(pc, job, guesses)
  BY DEF IInv, Agreed
<1> QED BY <1>1, <1>2, FlashIsSource, RamNumbers DEF AgreedAt, RamAgrees, Charged, Source

LEMMA SomeLive ==
  ASSUME IInv, ~adrift, ledger # NoLedger
  PROVE  LiveSides(pair) # {} /\ ledger.side \in LiveSides(pair)
BY RamNumbers, StateTyped DEF LiveSides, Live, IInv, Base

LEMMA TornNothing ==
  ASSUME IInv, allowed \subseteq allowed', pair' = pair
  PROVE  TornKept
<1>1. TornWell
  BY DEF TornWell, IInv, Base, TypeOK, ElectionDecided, Source, Live
<1>2. ~adrift => TornAnswers
  BY SomeLive, AnswersMore DEF TornAnswers, IInv, Agreed
<1>3. ~adrift /\ ~LeavesAdrift => TornAgrees
  BY AgreedBefore DEF TornAgrees
<1> QED BY <1>1, <1>2, <1>3 DEF TornKept

LEMMA TornTidy ==
  ASSUME IInv, allowed \subseteq allowed', pc = "tidy",
         pair' \in ErasedOrTorn(pair, Other(Elected(pair)))
  PROVE  TornKept
<1> DEFINE w == Elected(pair)
           o == Other(w)
<1>1. /\ TypeOK /\ pair \in [Side -> Sector] /\ ElectionDecided /\ Ordered(pair)
      /\ Counted(pair) /\ LiveSides(pair) # {}
  BY Typed, SectorsCounted DEF IInv, Base, TypeOK, Flow
<1>2. w \in LiveSides(pair) /\ w \in Side /\ o \in Side /\ o # w /\ \A t \in Side : t = w \/ t = o
  BY <1>1, ElectedIsLive, TwoSides DEF LiveSides
<1>3. LiveSides(pair') # {} /\ Elected(pair') = w /\ pair'[w] = pair[w]
  BY <1>1, LoserIsErased
<1>4. PICK x \in {pair[o], Garbage, Blank} : pair' = [pair EXCEPT ![o] = x]
  BY DEF ErasedOrTorn
<1> HIDE DEF w, o
<1>5. CASE x = pair[o]
  <2>1. pair' = pair
    BY <1>1, <1>4, <1>5
  <2> QED BY <2>1, TornNothing
<1>6. CASE x \in {Garbage, Blank}
  <2>1. /\ pair' \in [Side -> Sector] /\ ElectionDecided' /\ Ordered(pair') /\ pair'[o] = x
        /\ x.kind # "live"
    BY <1>1, <1>2, <1>4, <1>6, NotLive, SideSet
  <2>2. TornWell
    <3>1. ASSUME ledger # NoLedger, pair'[ledger.side].kind = "live"
          PROVE  Behind(ledger, pair'[ledger.side])
      <4>1. ledger.side = w
        BY <1>1, <1>2, <2>1, <3>1, StateTyped
      <4> QED BY <1>3, <3>1, <4>1 DEF IInv, Base, Live, Source
    <3> QED BY <2>1, <3>1 DEF TornWell
  <2>3. ~adrift => TornAnswers
    <3>1. ASSUME ~adrift PROVE FlashAnswers(pair', guesses, topSeq, allowed)
      <4>1. FlashAnswers(pair, guesses, topSeq, allowed)
        BY <3>1 DEF IInv, Agreed
      <4> QED BY <1>1, <1>3, <4>1 DEF FlashAnswers, w
    <3> QED BY <1>3, <3>1, AnswersMore DEF TornAnswers
  <2>4. ASSUME ~adrift, ~LeavesAdrift PROVE TornAgrees
    <3>1. ASSUME ledger # NoLedger PROVE ledger.side = w /\ LiveSides(pair') = {w}
      BY <1>2, <1>3, <2>1, <2>4, <3>1, FlashIsSource DEF w, LiveSides
    <3> QED BY <1>3, <2>4, <3>1, AgreedBefore DEF TornAgrees
  <2> QED BY <2>2, <2>3, <2>4 DEF TornKept
<1> QED BY <1>4, <1>5, <1>6

LEMMA TornTarget ==
  ASSUME IInv, allowed \subseteq allowed', pc \in {"erase", "head", "mac"},
         NEW x \in {Blank, Garbage}, pair' = [pair EXCEPT ![Target] = x]
  PROVE  TornKept
<1>1. ledger # NoLedger /\ pc # "retire"
  BY Typed DEF Flow, OnLedger, Rotating
<1>2. /\ pair' \in [Side -> Sector] /\ ElectionDecided' /\ Ordered(pair')
      /\ pair'[ledger.side] = Source
      /\ ~adrift => /\ LiveSides(pair') = {ledger.side}
                    /\ \A g, t, al : FlashAnswers(pair', g, t, al) <=> FlashAnswers(pair, g, t, al)
  BY <1>1, TargetDead
<1>3. TornWell
  BY <1>1, <1>2 DEF TornWell, IInv, Base, Live, Source
<1>4. ~adrift => TornAnswers
  <2>1. ~adrift => FlashAnswers(pair', guesses, topSeq, allowed)
    BY <1>2 DEF IInv, Agreed
  <2> QED BY <1>2, <2>1, AnswersMore DEF TornAnswers
<1>5. ~adrift /\ ~LeavesAdrift => TornAgrees
  BY <1>1, <1>2, AgreedBefore DEF TornAgrees
<1> QED BY <1>3, <1>4, <1>5 DEF TornKept

LEMMA TornErase ==
  ASSUME IInv, allowed \subseteq allowed', pc \in {"erase", "head"},
         pair' \in ErasedOrTorn(pair, Target) \cup HeadBodyOrTorn(pair, Target)
  PROVE  TornKept
<1>1. PICK x \in {pair[Target], Garbage, Blank} : pair' = [pair EXCEPT ![Target] = x]
  BY DEF ErasedOrTorn, HeadBodyOrTorn
<1>2. CASE x = pair[Target]
  <2>1. pair' = pair
    BY <1>1, <1>2, Typed DEF TypeOK
  <2> QED BY <2>1, TornNothing
<1>3. CASE x \in {Garbage, Blank}
  BY <1>1, <1>3, TornTarget
<1> QED BY <1>1, <1>2, <1>3

LEMMA TornMac ==
  ASSUME IInv, allowed \subseteq allowed', Formatting => FormatAfter \in allowed', pc = "mac",
         pair' \in HeadMacOrTorn(pair, Target, NewSector(NextHead))
  PROVE  TornKept
<1>1. PICK x \in {Garbage, NewSector(NextHead)} : pair' = [pair EXCEPT ![Target] = x]
  BY DEF HeadMacOrTorn
<1>2. CASE x = Garbage
  BY <1>1, <1>2, TornTarget
<1>3. CASE x = NewSector(NextHead)
  <2>1. /\ pair' \in [Side -> Sector] /\ ElectionDecided' /\ Ordered(pair')
        /\ pair'[ledger.side] = Source /\ pair'[Target].kind = "live" /\ Target \in Side
        /\ ~adrift =>
             /\ NextHead.policy.after \in (IF Formatting THEN {FormatAfter} ELSE allowed)
             /\ \A al : NextHead.policy.after \in al => FlashAnswers(pair', guesses, topSeq, al)
    BY <1>1, <1>3, TargetLive
  <2>2. TornWell
    BY <2>1 DEF TornWell, IInv, Base, Live, Source
  <2>3. ~adrift => TornAnswers
    BY <2>1 DEF TornAnswers, LiveSides
  <2> QED BY <2>2, <2>3 DEF TornKept, LeavesAdrift
<1> QED BY <1>1, <1>2, <1>3

LEMMA TornRetire ==
  ASSUME IInv, allowed \subseteq allowed', pc = "retire", pair' \in ErasedOrTorn(pair, ledger.side)
  PROVE  TornKept
<1>1. /\ ledger # NoLedger /\ TypeOK /\ pair[Target] = NewSector(NextHead)
      /\ ElectionDecided /\ Ordered(pair) /\ pair \in [Side -> Sector]
  BY Typed DEF Flow, OnLedger, Rotating, HeadFor, NextHead, IInv, Base, TypeOK
<1>2. /\ ledger.side \in Side /\ Target \in Side /\ Target # ledger.side
      /\ \A s \in Side : s = Target \/ s = ledger.side
      /\ Other(ledger.side) = Target /\ Other(Target) = ledger.side /\ ledger.head.ctr \in Nat
  <2>1. /\ ledger.side \in Side /\ Target \in Side /\ Target # ledger.side
        /\ \A s \in Side : s = Target \/ s = ledger.side
        /\ Other(ledger.side) = Target /\ ledger.head.ctr \in Nat
    BY <1>1, StateTyped DEF Target, LedgerHead
  <2> QED BY <2>1, TwoSides
<1>3. PICK x \in {pair[ledger.side], Garbage, Blank} : pair' = [pair EXCEPT ![ledger.side] = x]
  BY DEF ErasedOrTorn
<1>4. CASE x = pair[ledger.side]
  <2>1. pair' = pair
    BY <1>1, <1>3, <1>4
  <2> QED BY <2>1, TornNothing
<1>5. CASE x \in {Garbage, Blank}
  <2>1. /\ pair' \in [Side -> Sector] /\ ElectionDecided' /\ Ordered(pair') /\ pair'[ledger.side] = x
        /\ x.kind # "live"
    BY <1>1, <1>2, <1>3, <1>5, NotLive, SideSet
  <2>2. TornWell
    BY <2>1 DEF TornWell
  <2>3. ASSUME ~adrift PROVE TornAnswers
    <3>1. NextHead \in LedgerHead /\ NextHead.ctr = ledger.head.ctr + 1
      BY <1>1, NextHeadTyped
    <3>2. pair[Target].kind = "live" /\ pair[Target].head = NextHead
      BY <1>1, <3>1, NewSectorFacts
    <3>3. Live(ledger.side) /\ pair[ledger.side].head = ledger.head
      BY <1>1, <2>3, RamNumbers DEF Behind, Source
    <3>4. LiveSides(pair) # {} /\ Elected(pair) = Target
      <4>1. Target \in LiveSides(pair)
        BY <1>2, <3>2 DEF LiveSides
      <4>2. pair[ledger.side].head.ctr < pair[Target].head.ctr
        BY <1>2, <3>1, <3>2, <3>3
      <4>3. \A t \in LiveSides(pair) : t # Target => pair[t].head.ctr < pair[Target].head.ctr
        BY <1>2, <4>2 DEF LiveSides
      <4> QED BY <1>1, <4>1, <4>3, GreaterIsElected, SectorsCounted
    <3>5. /\ LiveSides(pair') # {} /\ Elected(pair') = Target /\ pair'[Target] = pair[Target]
      <4>1. pair' \in ErasedOrTorn(pair, Other(Elected(pair)))
        BY <1>2, <3>4
      <4> QED BY <1>1, <3>4, <4>1, LoserIsErased, SectorsCounted
    <3>6. FlashAnswers(pair', guesses, topSeq, allowed)
      BY <2>3, <3>4, <3>5 DEF IInv, Agreed, FlashAnswers
    <3> QED BY <3>5, <3>6, AnswersMore DEF TornAnswers
  <2> QED BY <2>2, <2>3 DEF TornKept, LeavesAdrift
<1> QED BY <1>3, <1>4, <1>5

LEMMA TornCreate ==
  ASSUME IInv, allowed \subseteq allowed', pc \in Creating, NEW s \in Side,
         pair' \in ErasedOrTorn(pair, s) \cup HeadBodyOrTorn(pair, s) \cup
                   (IF pc = "createMac" /\ s = "A" THEN HeadMacOrTorn(pair, "A", NewSector(FirstHead)) ELSE {})
  PROVE  TornKept
<1>1. ledger = NoLedger /\ Formats(job)
  BY Typed DEF Flow
<1>2. LeavesAdrift
  BY <1>1 DEF LeavesAdrift, Formatting, Formats, Creating
<1>3. TypeOK /\ ElectionDecided /\ Ordered(pair) /\ pair \in [Side -> Sector]
  BY DEF IInv, Base, TypeOK
<1>4. ~adrift => LiveSides(pair) = {} /\ guesses = 0 /\ topSeq = 0 /\ FormatAfter \in allowed
  BY <1>1 DEF IInv, Agreed, AgreedAt, FlashAnswers, Creating, Scanning
<1>5. PICK x \in {pair[s], Garbage, Blank, NewSector(FirstHead)} :
        /\ pair' = [pair EXCEPT ![s] = x]
        /\ \/ x \in {pair[s], Garbage, Blank}
           \/ x = NewSector(FirstHead) /\ pc = "createMac" /\ s = "A"
  BY DEF ErasedOrTorn, HeadBodyOrTorn, HeadMacOrTorn
<1>6. CASE x = pair[s]
  <2>1. pair' = pair
    BY <1>3, <1>5, <1>6
  <2> QED BY <2>1, TornNothing
<1>7. CASE x \in {Garbage, Blank}
  <2>1. /\ pair' \in [Side -> Sector] /\ ElectionDecided' /\ Ordered(pair')
        /\ pair'[s] = x /\ pair'[Other(s)] = pair[Other(s)] /\ x.kind # "live"
    BY <1>3, <1>5, <1>7, NotLive, SideSet
  <2>2. ~adrift => LiveSides(pair') = {}
    BY <1>4, <2>1, TwoSides DEF LiveSides
  <2>3. ~adrift => TornAnswers
    BY <1>1, <1>4, <2>2 DEF TornAnswers, FlashAnswers
  <2> QED BY <1>1, <1>2, <2>1, <2>3 DEF TornKept, TornWell
<1>8. CASE x = NewSector(FirstHead) /\ pc = "createMac" /\ s = "A"
  <2>1. /\ x \in Sector /\ x.kind = "live" /\ CellsInOrder(x) /\ x.head = FirstHead
        /\ \A f \in TickLog : x.ticks[f] = <<>>
        /\ ScanPolicy(x) = FirstHead.policy /\ FirstHead.policy.after = FormatAfter
        /\ FirstHead.fails = 0
    BY <1>8, FirstHeadTyped, NewSectorFacts DEF FirstHead, StrictPolicy
  <2>2. Other("A") = "B" /\ ~Live("B")
    BY <1>8, Typed DEF Other, Flow
  <2>3. /\ pair' \in [Side -> Sector] /\ ElectionDecided' /\ Ordered(pair')
        /\ pair'["A"] = x /\ pair'["B"] = pair["B"]
    <3>1. pair' = [pair EXCEPT !["A"] = x] /\ ~(pair[Other("A")].kind = "live")
      BY <1>5, <1>8, <2>2 DEF Live
    <3>2. /\ pair' \in [Side -> Sector] /\ ElectionDecided' /\ Ordered(pair')
          /\ pair'["A"] = x /\ pair'[Other("A")] = pair[Other("A")]
      BY <1>3, <2>1, <3>1, SideNames, SideSet
    <3> QED BY <2>2, <3>2
  <2>4. LiveSides(pair') = {"A"}
    BY <2>1, <2>2, <2>3 DEF LiveSides, Side, Live
  <2>5. ASSUME ~adrift PROVE TornAnswers
    <3>1. FailsOf(x) \in Nat /\ HighOf(x) \in Nat
      BY <2>1, SectorNumbers
    <3>2. Answers(x, 0, 0, allowed')
      BY <1>4, <2>1, <2>5, <3>1 DEF Answers
    <3> QED BY <1>1, <1>4, <2>3, <2>4, <2>5, <3>2, SideNames, OneLive DEF TornAnswers
  <2> QED BY <1>1, <1>2, <2>3, <2>5 DEF TornKept, TornWell
<1> QED BY <1>5, <1>6, <1>7, <1>8

LEMMA TornGenCell ==
  ASSUME IInv, allowed \subseteq allowed', pc = "gen", pair' \in {WithGen(TornGen), WithGen(NewGen)}
  PROVE  TornKept
<1>1. ledger # NoLedger
  BY Typed DEF Flow, OnLedger
<1>2. PICK c \in GenCell : pair' = WithGen(c)
  <2>1. TornGen \in GenCell
    BY DEF TornGen, GenCell
  <2>2. NewGen \in GenCell
    BY Typed DEF NewGen, GenCell, Job
  <2> QED BY <2>1, <2>2
<1>3. /\ pair' \in [Side -> Sector] /\ ElectionDecided' /\ Ordered(pair')
      /\ LiveSides(pair') = LiveSides(pair)
      /\ \A s \in Side : pair'[s].kind = "live" <=> Live(s)
      /\ Live(ledger.side) =>
           /\ Behind(ledger, pair'[ledger.side])
           /\ pair'[ledger.side].ticks = Source.ticks
           /\ pair'[ledger.side].policies = Source.policies
           /\ ScanPolicy(pair'[ledger.side]) = ScanPolicy(Source)
      /\ ~adrift => FlashAnswers(pair', guesses, topSeq, allowed)
  BY <1>1, <1>2, GenWritten
<1>4. ledger.side \in Side
  BY <1>1, Typed, StateTyped
<1>5. TornWell
  BY <1>3, <1>4 DEF TornWell
<1>6. ~adrift => TornAnswers
  BY <1>3, SomeLive, AnswersMore DEF TornAnswers
<1>7. ~adrift /\ ~LeavesAdrift => TornAgrees
  BY <1>1, <1>3, <1>4, AgreedBefore DEF TornAgrees, Live
<1> QED BY <1>5, <1>6, <1>7 DEF TornKept

LEMMA TornPolicyCell ==
  ASSUME IInv, allowed' = allowed \cup {job.want.after, FormatAfter}, pc = "policy",
         pair' \in {WithPolicy(TornPolicy), WithPolicy(NewPolicy)}
  PROVE  TornKept
<1>1. ledger # NoLedger
  BY Typed DEF Flow, OnLedger
<1>2. PICK c \in PolicyCell :
        /\ pair' = WithPolicy(c)
        /\ ~c.ok \/ (c.ok /\ c.policy = job.want)
  <2>1. TornPolicy \in PolicyCell /\ ~TornPolicy.ok
    BY StrictTyped DEF TornPolicy, PolicyCell
  <2>2. NewPolicy \in PolicyCell /\ NewPolicy.ok /\ NewPolicy.policy = job.want
    BY Typed DEF NewPolicy, PolicyCell, Job
  <2> QED BY <2>1, <2>2
<1>3. /\ pair' \in [Side -> Sector] /\ ElectionDecided' /\ Ordered(pair')
      /\ LiveSides(pair') = LiveSides(pair)
      /\ \A s \in Side : pair'[s].kind = "live" <=> Live(s)
      /\ Live(ledger.side) => Behind(ledger, pair'[ledger.side])
      /\ ~adrift =>
           /\ c.ok /\ c.policy.gen = ScanPolicy(Source).gen + 1 =>
                \A al : c.policy.after \in al => FlashAnswers(pair', guesses, topSeq, al)
           /\ ~c.ok =>
                \A al : FormatAfter \in al => FlashAnswers(pair', guesses, topSeq, al)
  BY <1>1, <1>2, PolicyWritten
<1>4. ledger.side \in Side
  BY <1>1, Typed, StateTyped
<1>5. TornWell
  BY <1>3, <1>4 DEF TornWell
<1>6. ASSUME ~adrift PROVE TornAnswers
  <2>1. job.want.gen = ScanPolicy(Source).gen + 1
    BY <1>1, <1>6 DEF IInv, Agreed, AgreedAt, Scanning
  <2>2. FlashAnswers(pair', guesses, topSeq, allowed')
    BY <1>2, <1>3, <1>6, <2>1
  <2> QED BY <1>3, <1>6, <2>2, SomeLive DEF TornAnswers
<1> QED BY <1>5, <1>6 DEF TornKept, LeavesAdrift

LEMMA TornTicks ==
  ASSUME IInv, allowed \subseteq allowed', NEW f \in TickOf, pair' \in TornTick(f)
  PROVE  TornKept
<1>1. /\ f \in TickLog /\ pc \in {"entry", "settle", "seal", "epoch"} /\ ledger # NoLedger
      /\ f = "success" => pc = "settle" /\ ledger.len["success"] < ledger.len["entry"]
  BY Typed DEF TickOf, Flow, OnLedger
<1>2. PICK c \in Tick : pair' = WithTick(f, c)
  BY DEF TornTick, Tick
<1> DEFINE y == IF Source.kind = "live" THEN Ticked(Source, ledger, f, c) ELSE Garbage
<1>3. pair' = [pair EXCEPT ![ledger.side] = y]
  BY <1>1, <1>2, TickWritten
<1>4. /\ Source \in Sector /\ CellsInOrder(Source) /\ ledger \in LedgerState /\ ledger.side \in Side
      /\ Live(ledger.side) => Behind(ledger, Source)
      /\ Live(ledger.side) <=> Source.kind = "live"
  BY <1>1, Typed, StateTyped DEF IInv, Base, Ordered, Source, Live
<1>5. ASSUME Source.kind = "live"
      PROVE  /\ y \in Sector /\ y.kind = "live" /\ y.head = Source.head /\ CellsInOrder(y)
             /\ y.policies = Source.policies
             /\ Behind(ledger, y) /\ ScanPolicy(y) = ScanPolicy(Source) /\ HighOf(Source) <= HighOf(y)
             /\ Len(y.ticks[f]) = ledger.len[f] + 1
             /\ \A h \in TickLog \ {f} : y.ticks[h] = Source.ticks[h]
             /\ f # "success" => FailsOf(Source) <= FailsOf(y)
  <2>1. y = Ticked(Source, ledger, f, c)
    BY <1>5
  <2> HIDE DEF y
  <2> QED BY <1>1, <1>4, <1>5, <2>1, TickedSector
<1>6. Source.kind # "live" => y = Garbage
  OBVIOUS
<1> HIDE DEF y
<1>7. /\ pair' \in [Side -> Sector] /\ ElectionDecided' /\ Ordered(pair')
      /\ LiveSides(pair') = LiveSides(pair) /\ pair'[ledger.side] = y
      /\ ~adrift =>
           /\ y.kind = "live" /\ LiveSides(pair') = {ledger.side}
           /\ \A g, t, al : FlashAnswers(pair', g, t, al) <=> Answers(y, g, t, al)
  BY <1>1, <1>3, <1>5, <1>6, InPlace
<1>8. TornWell
  BY <1>4, <1>5, <1>6, <1>7, NotLive DEF TornWell
<1>9. ASSUME ~adrift
      PROVE  /\ Source.kind = "live" /\ guesses \in Nat /\ topSeq \in Nat
             /\ FailsOf(y) \in Nat /\ HighOf(y) \in Nat /\ HighOf(Source) \in Nat /\ FailsOf(Source) \in Nat
             /\ Answers(Source, guesses, topSeq, allowed)
             /\ f = "success" => guesses = 0
  <2>1. Source.kind = "live" /\ guesses \in Nat /\ topSeq \in Nat
    BY <1>1, <1>9, RamNumbers, Typed DEF TypeOK
  <2>2. FailsOf(y) \in Nat /\ HighOf(y) \in Nat /\ HighOf(Source) \in Nat /\ FailsOf(Source) \in Nat
    BY <1>4, <1>5, <2>1, SectorNumbers
  <2>3. f = "success" => guesses = 0
    BY <1>1, <1>9 DEF IInv, Agreed, AgreedAt
  <2>4. Answers(Source, guesses, topSeq, allowed)
    BY <1>1, <1>9, FlashIsSource DEF IInv, Agreed
  <2> QED BY <2>1, <2>2, <2>3, <2>4
<1>10. ASSUME ~adrift PROVE TornAnswers
  <2>1. Answers(y, guesses, topSeq, allowed)
    <3>1. guesses <= FailsOf(y)
      BY <1>5, <1>9, <1>10 DEF Answers
    <3>2. topSeq <= HighOf(y)
      BY <1>5, <1>9, <1>10 DEF Answers
    <3> QED BY <1>5, <1>9, <1>10, <3>1, <3>2 DEF Answers
  <2> QED BY <1>7, <1>10, <2>1, AnswersMore DEF TornAnswers
<1>11. ASSUME ~adrift, ~LeavesAdrift PROVE TornAgrees
  <2>1. /\ Len(Source.policies) = ledger.policyUsed /\ ScanPolicy(Source) = policy
        /\ guesses <= ledger.head.fails + ledger.len["entry"] - SuccessLen(Source.ticks["success"])
    BY <1>1, <1>11, AgreedBefore
  <2>2. guesses <= ledger.head.fails + ledger.len["entry"] - SuccessLen(y.ticks["success"])
    <3>1. CASE f # "success"
      BY <1>5, <1>9, <1>11, <2>1, <3>1, LogNames
    <3>2. CASE f = "success"
      <4>1. Len(y.ticks["success"]) = ledger.len["success"] + 1
        BY <1>5, <1>9, <1>11, <3>2
      <4>2. /\ SuccessLen(y.ticks["success"]) \in Nat
            /\ SuccessLen(y.ticks["success"]) <= Len(y.ticks["success"])
        BY <1>5, <1>9, <1>11, SectorNumbers
      <4>3. /\ ledger.len["success"] \in Nat /\ ledger.len["entry"] \in Nat
            /\ ledger.head.fails \in Nat
        BY <1>1, <1>11, RamNumbers, LogNames
      <4>4. SuccessLen(y.ticks["success"]) <= ledger.len["entry"]
        <5>1. ledger.len["success"] < ledger.len["entry"]
          BY <1>1, <3>2
        <5> QED BY <4>1, <4>2, <4>3, <5>1
      <4>5. guesses = 0
        BY <1>9, <1>11, <3>2
      <4> QED BY <4>2, <4>3, <4>4, <4>5
    <3> QED BY <3>1, <3>2
  <2> QED BY <1>1, <1>5, <1>7, <1>9, <1>11, <2>1, <2>2 DEF TornAgrees
<1> QED BY <1>8, <1>10, <1>11 DEF TornKept

LEMMA TornKeeps ==
  ASSUME IInv, Interrupted
  PROVE  TornKept /\ allowed \subseteq allowed'
<1>1. /\ allowed \subseteq allowed'
      /\ pc = "mac" /\ Formatting => FormatAfter \in allowed'
      /\ pc = "policy" => allowed' = allowed \cup {job.want.after, FormatAfter}
  BY DEF Interrupted
<1>2. CASE pair' = pair
  BY <1>1, <1>2, TornNothing
<1>3. CASE pc = "tidy" /\ pair' \in ErasedOrTorn(pair, Other(Elected(pair)))
  BY <1>1, <1>3, TornTidy
<1>4. CASE \/ pc = "erase" /\ pair' \in ErasedOrTorn(pair, Target)
           \/ pc = "head" /\ pair' \in HeadBodyOrTorn(pair, Target)
  BY <1>1, <1>4, TornErase
<1>5. CASE pc = "mac" /\ pair' \in HeadMacOrTorn(pair, Target, NewSector(NextHead))
  BY <1>1, <1>5, TornMac
<1>6. CASE pc = "retire" /\ pair' \in ErasedOrTorn(pair, ledger.side)
  BY <1>1, <1>6, TornRetire
<1>7. CASE \/ pc = "createA" /\ pair' \in ErasedOrTorn(pair, "A")
           \/ pc = "createB" /\ pair' \in ErasedOrTorn(pair, "B")
           \/ pc = "createHead" /\ pair' \in HeadBodyOrTorn(pair, "A")
           \/ pc = "createMac" /\ pair' \in HeadMacOrTorn(pair, "A", NewSector(FirstHead))
  <2>1. pc \in Creating
    BY <1>7 DEF Creating
  <2>2. PICK s \in Side :
          pair' \in ErasedOrTorn(pair, s) \cup HeadBodyOrTorn(pair, s) \cup
                    (IF pc = "createMac" /\ s = "A"
                     THEN HeadMacOrTorn(pair, "A", NewSector(FirstHead)) ELSE {})
    BY <1>7, SideNames
  <2> QED BY <1>1, <2>1, <2>2, TornCreate
<1>8. CASE pc = "gen" /\ pair' \in {WithGen(TornGen), WithGen(NewGen)}
  BY <1>1, <1>8, TornGenCell
<1>9. CASE pc = "policy" /\ pair' \in {WithPolicy(TornPolicy), WithPolicy(NewPolicy)}
  BY <1>1, <1>9, TornPolicyCell
<1>10. CASE \E f \in TickOf : pair' \in TornTick(f)
  BY <1>1, <1>10, TornTicks
<1>11. \/ UNCHANGED pair
       \/ pc = "tidy" /\ pair' \in ErasedOrTorn(pair, Other(Elected(pair)))
       \/ pc = "erase" /\ pair' \in ErasedOrTorn(pair, Target)
       \/ pc = "head" /\ pair' \in HeadBodyOrTorn(pair, Target)
       \/ pc = "mac" /\ pair' \in HeadMacOrTorn(pair, Target, NewSector(NextHead))
       \/ pc = "retire" /\ pair' \in ErasedOrTorn(pair, ledger.side)
       \/ pc = "createA" /\ pair' \in ErasedOrTorn(pair, "A")
       \/ pc = "createB" /\ pair' \in ErasedOrTorn(pair, "B")
       \/ pc = "createHead" /\ pair' \in HeadBodyOrTorn(pair, "A")
       \/ pc = "createMac" /\ pair' \in HeadMacOrTorn(pair, "A", NewSector(FirstHead))
       \/ pc = "gen" /\ pair' \in {WithGen(TornGen), WithGen(NewGen)}
       \/ pc = "policy" /\ pair' \in {WithPolicy(TornPolicy), WithPolicy(NewPolicy)}
       \/ \E f \in TickOf : pair' \in TornTick(f)
  BY DEF Interrupted, Torn
<1>12. TornKept
  BY <1>2, <1>3, <1>4, <1>5, <1>6, <1>7, <1>8, <1>9, <1>10, <1>11
<1> QED BY <1>1, <1>12

\* After a power cut only the flash counts.
LEMMA CutKeeps == ASSUME IInv, Cut PROVE IInv'
<1>1. /\ ledger' = NoLedger /\ policy' = StrictPolicy(0) /\ nextSeq' = 0 /\ state' = "unformatted"
      /\ session' = {} /\ adrift' = adrift /\ pc' = "off" /\ job' = NoJob
      /\ guesses' = guesses /\ topSeq' = topSeq
  BY DEF Cut, Interrupted, Goto
<1>2. TornKept /\ allowed \subseteq allowed'
  BY TornKeeps DEF Cut
<1>3. canary' \in SUBSET Nat /\ allowed' \in SUBSET Nat
  <2>1. canary' \in SUBSET Nat
    BY Typed DEF Cut, Interrupted, TornRecords, CurrentRecords
  <2>2. job.want.after \in Nat /\ allowed \in SUBSET Nat
    BY Typed DEF Job, Policy, TypeOK
  <2> QED BY <2>1, <2>2 DEF Cut, Interrupted
<1>4. TypeOK'
  BY <1>1, <1>2, <1>3, NoJobTyped, StrictTyped, Typed DEF TypeOK, TornKept, TornWell, Steps
<1>5. Flow(pc, job)'
  BY <1>1, NoJobFacts DEF Flow, Formats, Rotating, Creating, Scanning, OnLedger
<1>6. Base'
  BY <1>1, <1>2, <1>4, <1>5 DEF Base, TornKept, TornWell, Ordered
<1>7. ASSUME ~adrift' PROVE Agreed'
  <2>1. FlashAnswers(pair, guesses, topSeq, allowed)'
    BY <1>1, <1>2, <1>7 DEF TornKept, TornAnswers
  <2>2. AgreedAt(pc, job, guesses)'
    BY <1>1, NoJobFacts DEF AgreedAt, Formats, Rotating, Scanning, Settling
  <2> QED BY <1>1, <2>1, <2>2 DEF Agreed, RamAgrees
<1> QED BY <1>6, <1>7 DEF IInv

\* After an error RAM is still there, and it agrees with the flash unless LeavesAdrift
\* says otherwise.
LEMMA FaultKeeps == ASSUME IInv, Fault PROVE IInv'
<1>1. /\ ~adrift /\ adrift' = LeavesAdrift /\ pc # "off"
      /\ ledger' = IF Formatting /\ pc \in Rotating THEN NoLedger ELSE ledger
      /\ pc' = (IF job.mounting THEN "off" ELSE "ready") /\ job' = NoJob
      /\ UNCHANGED <<guesses, topSeq, policy, nextSeq, state, session>>
  BY DEF Fault, Interrupted, Goto, Rotating, Steps
<1>2. TornWell /\ TornAnswers /\ (~LeavesAdrift => TornAgrees) /\ allowed \subseteq allowed'
  BY <1>1, TornKeeps DEF Fault, TornKept
<1>3. canary' \in SUBSET Nat /\ allowed' \in SUBSET Nat
  <2>1. canary' \in SUBSET Nat
    BY Typed DEF Fault, Interrupted, TornRecords, CurrentRecords
  <2>2. job.want.after \in Nat /\ allowed \in SUBSET Nat
    BY Typed DEF Job, Policy, TypeOK
  <2> QED BY <2>1, <2>2 DEF Fault, Interrupted
<1>4. LeavesAdrift \in BOOLEAN
  BY DEF LeavesAdrift
<1>5. TypeOK'
  BY <1>1, <1>2, <1>3, <1>4, NoJobTyped, Typed DEF TypeOK, TornWell, Steps
<1>6. ledger' # NoLedger => LiveSides(pair') # {} /\ ledger' = ledger
  BY <1>1, <1>2 DEF TornAnswers
<1>7. Flow(pc, job)'
  BY <1>1, <1>6, NoJobFacts DEF Flow, Formats, Rotating, Creating, Scanning, OnLedger
<1>8. Base'
  <2>1. (state = "formatted" => ledger # NoLedger)'
    BY <1>1, Typed DEF IInv, Base, Flow, Formatting, Formats
  <2>2. (ledger # NoLedger => /\ ledger.len["success"] <= ledger.len["entry"]
                              /\ Live(ledger.side) => Behind(ledger, Source))'
    BY <1>2, <1>6 DEF IInv, Base, TornWell, Live, Source
  <2> QED BY <1>2, <1>5, <1>7, <2>1, <2>2 DEF Base, TornWell, Ordered
<1>9. ASSUME ~adrift' PROVE Agreed'
  <2>1. TornAgrees /\ AgreedAt(pc, job, guesses) /\ RamAgrees(guesses) /\ ~LeavesAdrift
    BY <1>1, <1>2, <1>9 DEF IInv, Agreed
  <2>2. FlashAnswers(pair, guesses, topSeq, allowed)'
    BY <1>1, <1>2 DEF TornAnswers
  <2>3. CASE ledger' = NoLedger
    <3>1. ledger = NoLedger
      BY <1>1, <2>1, <2>3 DEF LeavesAdrift, Rotating
    <3>2. pc' = "ready" => LiveSides(pair') = {}
      <4>1. ASSUME pc' = "ready" PROVE LiveSides(pair') = {}
        <5>1. LiveSides(pair) = {}
          BY <1>1, <2>1, <3>1, <4>1 DEF AgreedAt
        <5>2. pc # "tidy" /\ pc \notin Creating
          BY <2>1, <5>1, Typed DEF Flow, LeavesAdrift, Formatting, Formats, Creating
        <5>3. pair' = pair
          BY <2>1, <3>1, <5>2 DEF TornAgrees, Creating
        <5> QED BY <5>1, <5>3
      <4> QED BY <4>1
    <3>3. AgreedAt(pc, job, guesses)'
      BY <1>1, <2>3, <3>2, NoJobFacts DEF AgreedAt, Formats, Rotating, Scanning, Settling
    <3> QED BY <2>2, <2>3, <3>3 DEF Agreed, RamAgrees
  <2>4. CASE ledger' # NoLedger
    <3>1. ledger' = ledger /\ ledger # NoLedger /\ Target' = Target
      BY <1>6, <2>4 DEF Target
    <3>2. /\ LiveSides(pair') = {ledger.side} /\ pair'[ledger.side].kind = "live"
          /\ Len(pair'[ledger.side].policies) = ledger.policyUsed
          /\ ScanPolicy(pair'[ledger.side]) = policy
          /\ guesses <= ledger.head.fails + ledger.len["entry"]
                        - SuccessLen(pair'[ledger.side].ticks["success"])
      BY <2>1, <3>1 DEF TornAgrees
    <3>3. Source' = pair'[ledger.side] /\ Target \in Side /\ Target # ledger.side
      BY <3>1, Typed, StateTyped DEF Source
    <3>4. ScanPolicy(Source)' = policy' /\ ~Live(Target)'
      <4>1. ScanPolicy(Source)' = ScanPolicy(Source')
        BY DEF ScanPolicy
      <4> QED BY <1>1, <3>1, <3>2, <3>3, <4>1 DEF Live, LiveSides
    <3>5. RamAgrees(guesses)'
      BY <1>1, <2>1, <3>1, <3>2, <3>3 DEF RamAgrees, Charged, Live, HighWater
    <3>6. AgreedAt(pc, job, guesses)'
      BY <1>1, <2>4, <3>4, NoJobFacts DEF AgreedAt, Formats, Rotating, Scanning, Settling
    <3> QED BY <2>2, <3>5, <3>6 DEF Agreed
  <2> QED BY <2>3, <2>4
<1> QED BY <1>8, <1>9 DEF IInv

-----------------------------------------------------------------------------
(***************************************************************************)
(* The theorems.                                                           *)
(***************************************************************************)
LEMMA InitHolds == ASSUME Init PROVE IInv
<1>1. /\ pair = [s \in Side |-> Blank] /\ ledger = NoLedger /\ pc = "off" /\ job = NoJob
      /\ guesses = 0 /\ topSeq = 0 /\ allowed = {FormatAfter} /\ state = "unformatted"
  BY DEF Init
<1>2. LiveSides(pair) = {} /\ ElectionDecided /\ Ordered(pair) /\ pair \in [Side -> Sector]
  BY <1>1, NotLive DEF LiveSides, ElectionDecided, Ordered
<1>3. TypeOK
  <2>1. policy \in Policy
    BY StrictTyped DEF Init
  <2>2. FormatAfter \in Nat
    OBVIOUS
  <2>3. pc \in Steps /\ job \in Job
    BY <1>1, NoJobTyped DEF Steps
  <2>4. canary = {} /\ nextSeq = 0 /\ session = {} /\ adrift = FALSE
    BY DEF Init
  <2> QED BY <1>1, <1>2, <2>1, <2>2, <2>3, <2>4 DEF TypeOK
<1>4. Flow(pc, job)
  BY <1>1, NoJobFacts DEF Flow, Formats, Rotating, Creating, Scanning, OnLedger
<1>5. AgreedAt(pc, job, guesses)
  BY <1>1, NoJobFacts DEF AgreedAt, Formats, Rotating, Scanning, Settling
<1>6. FlashAnswers(pair, guesses, topSeq, allowed) /\ RamAgrees(guesses)
  BY <1>1, <1>2 DEF FlashAnswers, RamAgrees
<1> QED BY <1>1, <1>2, <1>3, <1>4, <1>5, <1>6 DEF IInv, Base, Agreed

LEMMA StutterKeeps == ASSUME IInv, UNCHANGED vars PROVE IInv'
<1>1. UNCHANGED <<pair, ledger, policy, nextSeq, state, guesses, topSeq, allowed, adrift>>
      /\ canary' = canary /\ session' = session /\ pc' = pc /\ job' = job
  BY DEF vars
<1>2. ~adrift => AgreedAt(pc', job', guesses)
  BY <1>1 DEF IInv, Agreed
<1> QED BY <1>1, <1>2, Typed, StillGuessing

LEMMA RunKeeps == ASSUME IInv, Run PROVE IInv'
<1>1. CASE Scan \/ ScanTidy \/ Tidy \/ Mounted \/ Mirror
  BY <1>1, ScanKeeps, ScanTidyKeeps, TidyKeeps, MountedKeeps, MirrorKeeps
<1>2. CASE CountAttempt \/ WrongPin \/ RightPin \/ CatchUp \/ Settled \/ DueRotation \/ Open
  BY <1>2, CountAttemptKeeps, WrongPinKeeps, RightPinKeeps, CatchUpKeeps, SettledKeeps,
     DueRotationKeeps, OpenKeeps
<1>3. CASE Seal \/ SealReserve \/ SealRotate \/ Fill \/ NewSession
  BY <1>3, SealKeeps, SealReserveKeeps, SealRotateKeeps, FillKeeps, OpenKeeps
<1>4. CASE CommitGen \/ GenRefused \/ CommitPolicy \/ PolicyRefused
  BY <1>4, CommitGenKeeps, CommitPolicyKeeps, RefusedKeeps
<1>5. CASE BumpEpoch \/ Destroy \/ SealCanary
  BY <1>5, BumpEpochKeeps, DestroyKeeps, SealCanaryKeeps
<1>6. CASE \/ Erase("A", "createA", "createB") \/ Erase("B", "createB", "createHead")
           \/ CreateHead \/ CreateMac
  BY <1>6, CreateErasesKeep, CreateMacKeeps
<1>7. CASE RotateErase \/ RotateHead \/ RotateMac \/ RotateRetire
  BY <1>7, RotateDeadKeeps, RotateMacKeeps, RotateRetireKeeps
<1> QED BY <1>1, <1>2, <1>3, <1>4, <1>5, <1>6, <1>7 DEF Run

LEMMA StepKeeps == ASSUME IInv, [Next]_vars PROVE IInv'
<1>1. CASE Run
  BY <1>1, RunKeeps
<1>2. CASE Mount \/ Attempt \/ Write \/ Wipe \/ Format
  BY <1>2, MountKeeps, AttemptKeeps, WriteKeeps, WipeKeeps, FormatKeeps
<1>3. CASE \E i \in Identity : ChangeGen(i)
  BY <1>3, ChangeGenKeeps
<1>4. CASE \E a \in Afters : SetPolicy(a)
  BY <1>4, SetPolicyKeeps
<1>5. CASE Cut \/ Fault
  BY <1>5, CutKeeps, FaultKeeps
<1>6. CASE UNCHANGED vars
  BY <1>6, StutterKeeps
<1> QED BY <1>1, <1>2, <1>3, <1>4, <1>5, <1>6 DEF Next

\* The invariant, under every order of operations, power cuts, torn cells and errors.
THEOREM Invariant == Spec => []IInv
<1>1. Init => IInv
  BY InitHolds
<1>2. IInv /\ [Next]_vars => IInv'
  BY StepKeeps
<1> QED BY <1>1, <1>2, PTL DEF Spec

\* What a mount would read, in the words of the invariant.
LEMMA OnFlashFacts ==
  ASSUME IInv
  PROVE  /\ OnFlash = NoLedger <=> LiveSides(pair) = {}
         /\ LiveSides(pair) # {} =>
              LET x == pair[Elected(pair)]
              IN /\ x \in Sector /\ x.kind = "live" /\ CellsInOrder(x)
                 /\ Failures(OnFlash) = FailsOf(x) /\ HighWater(OnFlash) = HighOf(x)
                 /\ PolicyOnFlash = ScanPolicy(x)
<1>1. pair \in [Side -> Sector] /\ Ordered(pair)
  BY DEF IInv, Base, TypeOK
<1>2. CASE LiveSides(pair) = {}
  BY <1>2 DEF OnFlash, Scanned
<1>3. CASE LiveSides(pair) # {}
  BY <1>1, <1>3, FreshLedger DEF OnFlash, PolicyOnFlash, Failures
<1> QED BY <1>2, <1>3

\* Type correctness of the counter ledger, for logs of every size.
THEOREM TypeCorrect == Spec => []TypeOK
<1>1. IInv => TypeOK
  BY DEF IInv, Base
<1> QED BY <1>1, Invariant, PTL

\* scan never finds two heads that verify with the same rotation counter
\* (TamperKind::LedgerAmbiguous), also after errors that left RAM and flash apart.
THEOREM ElectionIsDecided == Spec => []ElectionDecided
<1>1. IInv => ElectionDecided
  BY DEF IInv, Base
<1> QED BY <1>1, Invariant, PTL

LEMMA InvCharges == ASSUME IInv PROVE GuessesCharged
<1>1. SUFFICES ASSUME ~adrift, Formatted(OnFlash) PROVE guesses <= Failures(OnFlash)
  BY DEF GuessesCharged, EveryGuessCharged
<1>2. LiveSides(pair) # {}
  BY <1>1, OnFlashFacts DEF Formatted
<1>3. FlashAnswers(pair, guesses, topSeq, allowed)
  BY <1>1 DEF IInv, Agreed
<1> QED BY <1>2, <1>3, OnFlashFacts DEF FlashAnswers, Answers

\* counted_unlock: no order of unlocks, rotations, cuts and torn cells buys a guess that
\* the count on flash does not show, however long the logs and whatever the limit.
THEOREM EveryGuessIsCharged == Spec => []GuessesCharged
<1>1. IInv => GuessesCharged
  BY InvCharges
<1> QED BY <1>1, Invariant, PTL

LEMMA InvSettles == ASSUME IInv PROVE SettledAfterUnlock
<1>1. SUFFICES ASSUME ~adrift, pc = "open" PROVE Failures(OnFlash) = 0
  BY DEF SettledAfterUnlock
<1>2. ledger # NoLedger
  BY <1>1, Typed DEF Flow, OnLedger
<1>3. SettledRam /\ ledger.head.fails = 0
  BY <1>1 DEF IInv, Agreed, AgreedAt
<1>4. /\ LiveSides(pair) = {ledger.side} /\ Elected(pair) = ledger.side /\ Source = pair[ledger.side]
      /\ Behind(ledger, Source) /\ Source \in Sector /\ Source.kind = "live" /\ CellsInOrder(Source)
      /\ ledger.len["success"] \in Nat
      /\ ledger.len["success"] <= SuccessLen(Source.ticks["success"])
  BY <1>1, <1>2, FlashIsSource, RamNumbers, LogNames DEF Source
<1>5. FailsOf(Source) = 0
  <2>1. Source.head.fails = 0 /\ Len(Source.ticks["entry"]) = ledger.len["success"]
    BY <1>3, <1>4 DEF SettledRam, EveryAttemptSeen, Behind
  <2>2. /\ SuccessLen(Source.ticks["success"]) \in Nat /\ Len(Source.ticks["success"]) \in Nat
        /\ SuccessLen(Source.ticks["success"]) <= Len(Source.ticks["success"])
        /\ Len(Source.ticks["success"]) <= Len(Source.ticks["entry"])
    BY <1>4, SectorNumbers, LogNames
  <2>3. SuccessLen(Source.ticks["success"]) = ledger.len["success"]
    BY <1>4, <2>1, <2>2
  <2> QED BY <1>4, <2>1, <2>3 DEF FailsOf
<1> QED BY <1>4, <1>5, OnFlashFacts

\* An unlock that hands out its session has settled the count on flash, so interrupted
\* unlocks and torn cells never add up to a wipe (counted_unlock, U7).
THEOREM UnlockSettles == Spec => []SettledAfterUnlock
<1>1. IInv => SettledAfterUnlock
  BY InvSettles
<1> QED BY <1>1, Invariant, PTL

LEMMA InvLimits == ASSUME IInv PROVE NoGuessBeyondLimit
<1>1. SUFFICES ASSUME ~adrift, pc = "verify", PolicyOnFlash.after # 0
               PROVE guesses < PolicyOnFlash.after
  BY DEF NoGuessBeyondLimit
<1>2. ledger # NoLedger
  BY <1>1, Typed DEF Flow, OnLedger
<1>3. Charged(guesses + 1) /\ Leaves(Failures(ledger)) /\ policy = ScanPolicy(Source)
  BY <1>1, <1>2 DEF IInv, Agreed, AgreedAt, Scanning
<1>4. PolicyOnFlash = policy
  BY <1>1, <1>2, <1>3, FlashIsSource, OnFlashFacts DEF Source
<1>5. guesses \in Nat /\ guesses + 1 \in Nat /\ policy.after \in Nat /\ Failures(ledger) \in Nat
  BY <1>2, Typed DEF Policy
<1>6. guesses + 1 <= Failures(ledger)
  BY <1>1, <1>2, <1>3, <1>5, ChargedIsCounted
<1> QED BY <1>1, <1>3, <1>4, <1>5, <1>6 DEF Leaves

\* No PIN is compared that the policy on flash leaves no attempt for.
THEOREM GuessesAreLimited == Spec => []NoGuessBeyondLimit
<1>1. IInv => NoGuessBeyondLimit
  BY InvLimits
<1> QED BY <1>1, Invariant, PTL

LEMMA InvSeqs == ASSUME IInv PROVE SeqNeverReused
<1>1. SUFFICES ASSUME ~adrift
               PROVE  /\ OnFlash # NoLedger => topSeq <= HighWater(OnFlash)
                      /\ pc = "seal" => nextSeq >= topSeq
  BY DEF SeqNeverReused
<1>2. FlashAnswers(pair, guesses, topSeq, allowed) /\ RamAgrees(guesses)
  BY <1>1 DEF IInv, Agreed
<1>3. OnFlash # NoLedger => topSeq <= HighWater(OnFlash)
  BY <1>2, OnFlashFacts DEF FlashAnswers, Answers
<1>4. pc = "seal" => nextSeq >= topSeq
  <2>1. pc = "seal" => ledger # NoLedger
    BY Typed DEF Flow, OnLedger
  <2> QED BY <1>2, <2>1, Typed DEF RamAgrees, TypeOK
<1> QED BY <1>3, <1>4

\* reserve_seq: no sequence number is handed out twice, across rotations, cuts and
\* formats, for every reserve and every length of the log.
THEOREM SeqsAreFresh == Spec => []SeqNeverReused
<1>1. IInv => SeqNeverReused
  BY InvSeqs
<1> QED BY <1>1, Invariant, PTL

LEMMA InvPolicy == ASSUME IInv PROVE PolicyHeld
<1>1. SUFFICES ASSUME ~adrift, OnFlash # NoLedger PROVE PolicyOnFlash.after \in allowed
  BY DEF PolicyHeld
<1>2. FlashAnswers(pair, guesses, topSeq, allowed)
  BY <1>1 DEF IInv, Agreed
<1> QED BY <1>1, <1>2, OnFlashFacts DEF FlashAnswers, Answers

\* set_policy: the wipe policy in force is the one last committed, the strict default or
\* what an interrupted commit asked for.
THEOREM PolicyIsHeld == Spec => []PolicyHeld
<1>1. IInv => PolicyHeld
  BY InvPolicy
<1> QED BY <1>1, Invariant, PTL

-----------------------------------------------------------------------------
(***************************************************************************)
(* Without errors.  The ledger in RAM is then exactly what a scan of its   *)
(* side returns, and what the vault makes of it is so at every step but    *)
(* the few that are about to look again.                                   *)
(***************************************************************************)
\* What a scan returns of a sector x on side s.
ReadOf(s, x) ==
  [side |-> s, head |-> x.head, len |-> TickLens(x.ticks), gens |-> ScanGens(x),
   genNext |-> ScanGenNext(x), policyUsed |-> Len(x.policies)]

\* The next generation is one up from that of an identity: nothing that a torn cell or
\* a PIN that was replaced left behind is above those in force.
GensFollow(x) == x.kind = "live" => \E i \in Identity : ScanGenNext(x) = ScanGens(x)[i] + 1

\* A generation in force is one of the head or of a cell, so the next one is above it.
LEMMA GensBelowNext ==
  ASSUME NEW x \in Sector, x.kind = "live"
  PROVE  \A i \in Identity : ScanGens(x)[i] \in Nat /\ ScanGens(x)[i] < ScanGenNext(x)
<1>1. TAKE i \in Identity
<1> DEFINE mine == {n \in GoodCells(x) : x.gens[n].id = i}
           last == CHOOSE n \in mine : \A m \in mine : m <= n
<1>2. /\ x.head.gens[i] < ScanGenNext(x)
      /\ \A n \in GoodCells(x) : x.gens[n].gen < ScanGenNext(x)
      /\ ScanGens(x)[i] \in Nat
  BY GenNextTyped, GensTyped
<1>3. CASE mine = {}
  BY <1>2, <1>3 DEF ScanGens
<1>4. CASE mine # {}
  <2>1. ScanGens(x)[i] = x.gens[last].gen
    BY <1>4 DEF ScanGens
  <2>2. mine \in SUBSET Nat /\ (\A n \in mine : n <= Len(x.gens)) /\ Len(x.gens) \in Nat
    BY LiveParts DEF GoodCells
  <2>3. last \in mine
    <3> HIDE DEF mine
    <3>1. \E n \in mine : \A m \in mine : m <= n
      BY <1>4, <2>2, GreatestNatural
    <3> QED BY <3>1
  <2>4. last \in GoodCells(x)
    <3> HIDE DEF last
    <3> QED BY <2>3
  <2> QED BY <1>2, <2>1, <2>4
<1> QED BY <1>3, <1>4

\* Two sectors with the same generations in force, of which both say what is next, say
\* the same.
LEMMA SameNext ==
  ASSUME NEW x \in Sector, NEW y \in Sector, x.kind = "live", y.kind = "live",
         GensFollow(x), GensFollow(y), ScanGens(x) = ScanGens(y)
  PROVE  ScanGenNext(x) = ScanGenNext(y)
<1>1. PICK i \in Identity : ScanGenNext(x) = ScanGens(x)[i] + 1
  BY DEF GensFollow
<1>2. PICK j \in Identity : ScanGenNext(y) = ScanGens(x)[j] + 1
  BY DEF GensFollow
<1>3. /\ ScanGens(x)[i] \in Nat /\ ScanGens(x)[j] \in Nat
      /\ ScanGens(x)[j] < ScanGenNext(x) /\ ScanGens(x)[i] < ScanGenNext(y)
  BY GensBelowNext
<1> QED BY <1>1, <1>2, <1>3

\* The next generation depends on the head and the cells.
LEMMA SameGens ==
  ASSUME NEW x, NEW y, x.kind = "live", y.head = x.head, y.gens = x.gens, GensFollow(x)
  PROVE  /\ ScanGens(y) = ScanGens(x) /\ ScanGenNext(y) = ScanGenNext(x)
         /\ GensFollow(y)
<1>1. GoodCells(y) = GoodCells(x)
  BY DEF GoodCells
<1>2. ScanGens(y) = ScanGens(x) /\ ScanGenNext(y) = ScanGenNext(x)
  BY <1>1 DEF ScanGens, ScanGenNext
<1> QED BY <1>2 DEF GensFollow

\* What is in force in a new sector is what its head carries.
LEMMA NewSectorGens ==
  ASSUME NEW h \in LedgerHead
  PROVE  ScanGens(NewSector(h)) = h.gens /\ GensFollow(NewSector(h))
<1> DEFINE x == NewSector(h)
           seen == {h.gens[i] : i \in Identity}
           top == CHOOSE g \in seen : \A k \in seen : k <= g
<1>1. x.head = h /\ x.gens = <<>> /\ h.gens \in [Identity -> Nat]
  BY DEF NewSector, LedgerHead
<1> HIDE DEF x
<1>2. GoodCells(x) = {}
  BY <1>1 DEF GoodCells
<1>3. ScanGens(x) = h.gens
  BY <1>1, <1>2 DEF ScanGens
<1>4. ScanGenNext(x) = 1 + top
  BY <1>1, <1>2 DEF ScanGenNext
<1>5. top \in seen
  <2>1. PICK b \in Nat : \A i \in Identity : h.gens[i] <= b
    BY <1>1, FamilyBounded
  <2>2. seen \in SUBSET Nat /\ seen # {} /\ \A k \in seen : k <= b
    <3>1. h.gens[First] \in seen
      OBVIOUS
    <3> QED BY <1>1, <2>1, <3>1
  <2> HIDE DEF seen
  <2>3. \E g \in seen : \A k \in seen : k <= g
    BY <2>2, GreatestNatural
  <2> QED BY <2>3
<1>6. PICK i \in Identity : top = h.gens[i]
  <2> HIDE DEF top
  <2> QED BY <1>5
<1>7. ScanGenNext(x) = h.gens[i] + 1 /\ h.gens[i] \in Nat
  <2> HIDE DEF top
  <2> QED BY <1>1, <1>4, <1>6
<1> QED BY <1>3, <1>7 DEF x, GensFollow

\* A torn cell changes no generation; a good one is that of its identity.
LEMMA GenAppended ==
  ASSUME NEW x \in Sector, x.kind = "live", NEW c \in GenCell, NEW y, y = GenAdded(x, c)
  PROVE  /\ ~c.ok => ScanGens(y) = ScanGens(x) /\ ScanGenNext(y) = ScanGenNext(x)
         /\ c.ok => ScanGens(y) = [ScanGens(x) EXCEPT ![c.id] = c.gen]
<1> DEFINE k == Len(x.gens)
           mine(z, i) == {n \in GoodCells(z) : z.gens[n].id = i}
           last(z, i) == CHOOSE n \in mine(z, i) : \A m \in mine(z, i) : m <= n
<1>1. /\ y.head = x.head /\ y.gens = Append(x.gens, c) /\ x.gens \in Seq(GenCell)
      /\ k \in Nat /\ c.id \in Identity
  <2>1. y.head = x.head /\ y.gens = Append(x.gens, c)
    BY GensReplaced
  <2>2. x.gens \in Seq(GenCell)
    BY LiveParts
  <2> QED BY <2>1, <2>2 DEF GenCell
<1>2. /\ Len(y.gens) = k + 1 /\ y.gens[k + 1] = c /\ \A n \in 1 .. k : y.gens[n] = x.gens[n]
  BY <1>1
<1>3. GoodCells(x) \subseteq 1 .. k
  BY DEF GoodCells
<1>4. GoodCells(y) = GoodCells(x) \cup (IF c.ok THEN {k + 1} ELSE {})
  BY <1>1, <1>2 DEF GoodCells
<1>5. CASE ~c.ok
  <2>1. GoodCells(y) = GoodCells(x) /\ \A n \in GoodCells(x) : y.gens[n] = x.gens[n]
    BY <1>2, <1>3, <1>4, <1>5
  <2>2. ScanGenNext(y) = ScanGenNext(x)
    <3> DEFINE seen(z) == {z.head.gens[i] : i \in Identity} \cup {z.gens[n].gen : n \in GoodCells(z)}
    <3>1. seen(y) = seen(x)
      <4>1. ASSUME NEW v \in seen(y) PROVE v \in seen(x)
        <5>1. CASE \E i \in Identity : v = y.head.gens[i]
          BY <1>1, <5>1
        <5>2. CASE \E n \in GoodCells(y) : v = y.gens[n].gen
          <6>1. PICK n \in GoodCells(y) : v = y.gens[n].gen
            BY <5>2
          <6>2. n \in GoodCells(x) /\ v = x.gens[n].gen
            BY <2>1, <6>1
          <6> QED BY <6>2
        <5> QED BY <5>1, <5>2
      <4>2. ASSUME NEW v \in seen(x) PROVE v \in seen(y)
        <5>1. CASE \E i \in Identity : v = x.head.gens[i]
          BY <1>1, <5>1
        <5>2. CASE \E n \in GoodCells(x) : v = x.gens[n].gen
          <6>1. PICK n \in GoodCells(x) : v = x.gens[n].gen
            BY <5>2
          <6>2. n \in GoodCells(y) /\ v = y.gens[n].gen
            BY <2>1, <6>1
          <6> QED BY <6>2
        <5> QED BY <5>1, <5>2
      <4> HIDE DEF seen
      <4> QED BY <4>1, <4>2
    <3> DEFINE top(z) == CHOOSE g \in seen(z) : \A h \in seen(z) : h <= g
    <3>2. ScanGenNext(y) = 1 + top(y) /\ ScanGenNext(x) = 1 + top(x)
      BY DEF ScanGenNext
    <3>3. top(y) = top(x)
      <4> HIDE DEF seen
      <4> QED BY <3>1
    <3> HIDE DEF top
    <3> QED BY <3>2, <3>3
  <2>3. ScanGens(y) = ScanGens(x)
    <3>1. SUFFICES ASSUME NEW i \in Identity PROVE ScanGens(y)[i] = ScanGens(x)[i]
      <4>1. y \in Sector /\ y.kind = "live"
        BY GensReplaced
      <4>2. ScanGens(x) \in [Identity -> Nat] /\ ScanGens(y) \in [Identity -> Nat]
        BY <4>1, GensTyped
      <4> QED BY <4>2
    <3>2. mine(y, i) = mine(x, i)
      BY <2>1
    <3>3. /\ ScanGens(x)[i] = IF mine(x, i) = {} THEN x.head.gens[i] ELSE x.gens[last(x, i)].gen
          /\ ScanGens(y)[i] = IF mine(y, i) = {} THEN y.head.gens[i] ELSE y.gens[last(y, i)].gen
      BY DEF ScanGens
    <3>4. last(y, i) = last(x, i)
      BY <3>2
    <3>5. mine(x, i) # {} => last(x, i) \in GoodCells(x)
      <4>1. mine(x, i) \in SUBSET Nat /\ \A n \in mine(x, i) : n <= k
        BY <1>1, <1>3
      <4>2. SUFFICES ASSUME mine(x, i) # {} PROVE last(x, i) \in mine(x, i)
        OBVIOUS
      <4>3. \E n \in mine(x, i) : \A m \in mine(x, i) : m <= n
        <5> HIDE DEF mine, k
        <5> QED BY <1>1, <4>1, <4>2, GreatestNatural
      <4> HIDE DEF mine
      <4> QED BY <4>3
    <3> HIDE DEF mine, last
    <3>6. CASE mine(x, i) = {}
      BY <1>1, <3>2, <3>3, <3>6
    <3>7. CASE mine(x, i) # {}
      <4>1. ScanGens(x)[i] = x.gens[last(x, i)].gen /\ ScanGens(y)[i] = y.gens[last(x, i)].gen
        BY <3>2, <3>3, <3>4, <3>7
      <4> QED BY <2>1, <3>5, <3>7, <4>1
    <3> QED BY <3>6, <3>7
  <2> QED BY <1>5, <2>2, <2>3
<1>6. CASE c.ok
  <2>1. SUFFICES ASSUME NEW i \in Identity
                 PROVE  ScanGens(y)[i] = IF i = c.id THEN c.gen ELSE ScanGens(x)[i]
    <3>1. ScanGens(x) \in [Identity -> Nat] /\ y \in Sector /\ y.kind = "live"
      BY GensTyped, GensReplaced
    <3>2. ScanGens(y) \in [Identity -> Nat]
      BY <3>1, GensTyped
    <3>3. ScanGens(y) = [ScanGens(x) EXCEPT ![c.id] = c.gen]
      BY <1>1, <2>1, <3>1, <3>2
    <3> QED BY <1>6, <3>3
  <2>2. /\ ScanGens(x)[i] = IF mine(x, i) = {} THEN x.head.gens[i] ELSE x.gens[last(x, i)].gen
        /\ ScanGens(y)[i] = IF mine(y, i) = {} THEN y.head.gens[i] ELSE y.gens[last(y, i)].gen
    BY DEF ScanGens
  <2>3. CASE i = c.id
    <3>1. k + 1 \in mine(y, i) /\ \A n \in mine(y, i) : n \in Nat /\ n <= k + 1
      BY <1>1, <1>2, <1>3, <1>4, <1>6, <2>3
    <3>2. last(y, i) = k + 1
      <4> HIDE DEF mine
      <4>1. \A n \in mine(y, i) : (\A m \in mine(y, i) : m <= n) => n = k + 1
        BY <1>1, <3>1
      <4>2. \E n \in mine(y, i) : \A m \in mine(y, i) : m <= n
        BY <3>1
      <4> QED BY <4>1, <4>2
    <3> HIDE DEF mine, last
    <3> QED BY <1>2, <2>2, <2>3, <3>1, <3>2
  <2>4. CASE i # c.id
    <3>1. mine(y, i) = mine(x, i)
      BY <1>2, <1>3, <1>4, <1>6, <2>4
    <3>2. last(y, i) = last(x, i)
      BY <3>1
    <3>3. mine(x, i) # {} => last(x, i) \in 1 .. k
      <4>1. mine(x, i) \in SUBSET Nat /\ \A n \in mine(x, i) : n \in 1 .. k
        BY <1>1, <1>3
      <4>2. SUFFICES ASSUME mine(x, i) # {} PROVE last(x, i) \in mine(x, i)
        BY <4>1
      <4>3. \E n \in mine(x, i) : \A m \in mine(x, i) : m <= n
        <5>1. \A n \in mine(x, i) : n <= k
          BY <4>1
        <5> HIDE DEF mine, k
        <5> QED BY <1>1, <4>1, <4>2, <5>1, GreatestNatural
      <4> HIDE DEF mine
      <4> QED BY <4>3
    <3> HIDE DEF mine, last
    <3> QED BY <1>1, <1>2, <2>2, <2>4, <3>1, <3>2, <3>3
  <2> QED BY <2>3, <2>4
<1> QED BY <1>5, <1>6

\* Committing the next generation puts it in force, and the one after it is next.
LEMMA NextCommitted ==
  ASSUME NEW x \in Sector, x.kind = "live", NEW c \in GenCell, c.ok, c.gen = ScanGenNext(x),
         NEW y, y = GenAdded(x, c)
  PROVE  ScanGenNext(y) = c.gen + 1 /\ GensFollow(y)
<1> DEFINE k == Len(x.gens)
           seen(z) == {z.head.gens[i] : i \in Identity} \cup {z.gens[n].gen : n \in GoodCells(z)}
           top == CHOOSE g \in seen(y) : \A h \in seen(y) : h <= g
<1>1. /\ y.head = x.head /\ y.gens = Append(x.gens, c) /\ x.gens \in Seq(GenCell)
      /\ k \in Nat /\ c.id \in Identity /\ c.gen \in Nat /\ y \in Sector /\ y.kind = "live"
  <2>1. y.head = x.head /\ y.gens = Append(x.gens, c) /\ y \in Sector /\ y.kind = "live"
    BY GensReplaced
  <2>2. x.gens \in Seq(GenCell)
    BY LiveParts
  <2> QED BY <2>1, <2>2 DEF GenCell
<1>2. /\ Len(y.gens) = k + 1 /\ y.gens[k + 1] = c /\ \A n \in 1 .. k : y.gens[n] = x.gens[n]
  BY <1>1
<1>3. k + 1 \in GoodCells(y) /\ \A n \in GoodCells(y) : n = k + 1 \/ n \in GoodCells(x)
  BY <1>1, <1>2 DEF GoodCells
<1>4. /\ \A i \in Identity : x.head.gens[i] < c.gen
      /\ \A n \in GoodCells(x) : x.gens[n].gen < c.gen
      /\ ScanGenNext(y) \in Nat
      /\ \A n \in GoodCells(x) : n \in 1 .. k /\ x.gens[n].gen \in Nat
      /\ \A i \in Identity : x.head.gens[i] \in Nat
  <2>1. x.head.gens \in [Identity -> Nat]
    BY LiveParts DEF LedgerHead
  <2>2. \A n \in 1 .. k : x.gens[n] \in GenCell
    BY <1>1
  <2>3. \A n \in GoodCells(x) : n \in 1 .. k /\ x.gens[n].gen \in Nat
    BY <2>2 DEF GoodCells, GenCell
  <2> QED BY <1>1, <2>1, <2>3, GenNextTyped
<1>5. c.gen \in seen(y) /\ \A h \in seen(y) : h \in Nat /\ h <= c.gen
  BY <1>1, <1>2, <1>3, <1>4
<1>6. top = c.gen
  <2> HIDE DEF seen
  <2>1. \A g \in seen(y) : (\A h \in seen(y) : h <= g) => g = c.gen
    BY <1>1, <1>5
  <2>2. \E g \in seen(y) : \A h \in seen(y) : h <= g
    BY <1>5
  <2> QED BY <2>1, <2>2
<1>7. ScanGenNext(y) = 1 + top
  BY DEF ScanGenNext
<1>8. ScanGenNext(y) = c.gen + 1
  <2> HIDE DEF top
  <2> QED BY <1>1, <1>6, <1>7
<1>9. ScanGens(y)[c.id] = c.gen
  <2>1. ScanGens(y) = [ScanGens(x) EXCEPT ![c.id] = c.gen]
    BY GenAppended
  <2> QED BY <1>1, <2>1, GensTyped
<1> QED BY <1>1, <1>8, <1>9 DEF GensFollow

\* A scan of a pair with a live side is the reading of the side that is elected.
LEMMA ScannedIsRead ==
  ASSUME NEW p, LiveSides(p) # {}
  PROVE  /\ Scanned(p) = ReadOf(Elected(p), p[Elected(p)])
         /\ ScannedPolicy(p) = ScanPolicy(p[Elected(p)])
BY DEF Scanned, ScannedPolicy, ReadOf

\* The counts of a sector.
EpochOf(x) == x.head.epoch + Len(x.ticks["epoch"])

MarkOf(x) == x.head.seq + Len(x.ticks["seq"])

LEMMA ReadFacts ==
  ASSUME NEW x \in Sector, x.kind = "live", CellsInOrder(x), NEW s \in Side, NEW l, l = ReadOf(s, x)
  PROVE  /\ l \in LedgerState /\ l # NoLedger /\ Behind(l, x)
         /\ l.side = s /\ l.head = x.head /\ l.gens = ScanGens(x) /\ l.genNext = ScanGenNext(x)
         /\ l.policyUsed = Len(x.policies) /\ l.len = TickLens(x.ticks)
         /\ \A f \in TickLog \ {"success"} : l.len[f] = Len(x.ticks[f])
         /\ l.len["success"] = SuccessLen(x.ticks["success"])
         /\ l.len["success"] <= l.len["entry"]
         /\ WipeEpoch(l) = EpochOf(x) /\ Failures(l) = FailsOf(x)
         /\ l.head.seq + l.len["seq"] = MarkOf(x)
         /\ EpochOf(x) \in Nat /\ MarkOf(x) \in Nat /\ FailsOf(x) \in Nat
<1>1. /\ l = [side |-> s, head |-> x.head, len |-> TickLens(x.ticks), gens |-> ScanGens(x),
              genNext |-> ScanGenNext(x), policyUsed |-> Len(x.policies)]
  BY DEF ReadOf
<1>2. /\ l.side = s /\ l.head = x.head /\ l.gens = ScanGens(x) /\ l.genNext = ScanGenNext(x)
      /\ l.policyUsed = Len(x.policies) /\ l.len = TickLens(x.ticks)
  BY <1>1
<1>3. l \in LedgerState
  <2>1. x.head \in LedgerHead /\ Len(x.policies) \in Nat
    BY LiveParts
  <2>2. TickLens(x.ticks) \in [TickLog -> Nat] /\ ScanGens(x) \in [Identity -> Nat] /\ ScanGenNext(x) \in Nat
    BY LensRead, GensTyped, GenNextTyped
  <2> QED BY <1>1, <2>1, <2>2 DEF LedgerState
<1>4. l # NoLedger
  BY <1>2, SideNames DEF NoLedger
<1>5. /\ \A f \in TickLog \ {"success"} : l.len[f] = Len(x.ticks[f])
      /\ l.len["success"] = SuccessLen(x.ticks["success"])
      /\ l.len["success"] <= l.len["entry"]
  BY <1>2, LensRead
<1>6. /\ l.len["epoch"] = Len(x.ticks["epoch"]) /\ l.len["seq"] = Len(x.ticks["seq"])
      /\ l.len["entry"] = Len(x.ticks["entry"])
  <2>1. {"epoch", "seq", "entry"} \subseteq TickLog \ {"success"}
    BY LogNames
  <2> QED BY <1>5, <2>1
<1>7. /\ WipeEpoch(l) = EpochOf(x) /\ Failures(l) = FailsOf(x) /\ l.head.seq + l.len["seq"] = MarkOf(x)
  BY <1>2, <1>4, <1>5, <1>6 DEF WipeEpoch, EpochOf, Failures, FailsOf, MarkOf
<1>8. EpochOf(x) \in Nat /\ MarkOf(x) \in Nat /\ FailsOf(x) \in Nat
  <2>1. FailsOf(x) \in Nat /\ x.head.epoch \in Nat /\ x.head.seq \in Nat
    BY SectorNumbers
  <2>2. Len(x.ticks["epoch"]) \in Nat /\ Len(x.ticks["seq"]) \in Nat
    BY SectorNumbers, LogNames
  <2>3. \A a, b \in Nat : a + b \in Nat
    OBVIOUS
  <2>4. x.head.epoch + Len(x.ticks["epoch"]) \in Nat /\ x.head.seq + Len(x.ticks["seq"]) \in Nat
    BY <2>1, <2>2, <2>3
  <2> QED BY <2>1, <2>4 DEF EpochOf, MarkOf
<1>9. Behind(l, x)
  <2>1. x.ticks["success"] \in Seq(Tick) /\ BadAtMostLast(x.ticks["success"])
    BY SectorNumbers, LogNames DEF CellsInOrder
  <2>2. /\ GoodUpTo(x.ticks["success"], l.len["success"])
        /\ Len(x.ticks["success"]) \in {l.len["success"], l.len["success"] + 1}
    <3>1. /\ SuccessLen(x.ticks["success"]) \in Nat /\ Len(x.ticks["success"]) \in Nat
          /\ SuccessLen(x.ticks["success"]) <= Len(x.ticks["success"])
          /\ Len(x.ticks["success"]) <= SuccessLen(x.ticks["success"]) + 1
      BY SectorNumbers, LogNames
    <3>2. GoodUpTo(x.ticks["success"], SuccessLen(x.ticks["success"]))
      BY <2>1, SuccessRead
    <3> QED BY <1>5, <3>1, <3>2
  <2>3. \A f \in TickLog : Len(x.ticks[f]) \in {l.len[f], l.len[f] + 1}
    BY <1>5, <2>2
  <2> QED BY <1>2, <1>5, <2>2, <2>3 DEF Behind
<1> QED BY <1>2, <1>3, <1>4, <1>5, <1>7, <1>8, <1>9

\* What one more cell of a tick log makes of a sector that RAM has read: one more is
\* counted, of a success log only if the cell is good.
TickedFrom(x, y, f, c) ==
  /\ y \in Sector /\ y.kind = "live" /\ y.head = x.head /\ CellsInOrder(y)
  /\ y.gens = x.gens /\ y.policies = x.policies /\ ScanPolicy(y) = ScanPolicy(x)
  /\ \A h \in TickLog \ {f} : y.ticks[h] = x.ticks[h]
  /\ f # "success" => Len(y.ticks[f]) = Len(x.ticks[f]) + 1
  /\ f = "success" => /\ SuccessLen(x.ticks[f]) < Len(x.ticks["entry"])
                      /\ SuccessLen(y.ticks[f]) \in {SuccessLen(x.ticks[f]), SuccessLen(x.ticks[f]) + 1}
                      /\ c = "ok" => SuccessLen(y.ticks[f]) = SuccessLen(x.ticks[f]) + 1
  /\ c = "ok" => TickLens(y.ticks) = [TickLens(x.ticks) EXCEPT ![f] = TickLens(x.ticks)[f] + 1]

LEMMA TickRead ==
  ASSUME NEW x \in Sector, x.kind = "live", CellsInOrder(x), NEW s \in Side, NEW l, l = ReadOf(s, x),
         NEW f \in TickLog, NEW c \in Tick, f = "success" => l.len["success"] < l.len["entry"],
         NEW y, y = Ticked(x, l, f, c)
  PROVE  TickedFrom(x, y, f, c)
<1>1. /\ l \in LedgerState /\ Behind(l, x) /\ l.len = TickLens(x.ticks)
      /\ \A h \in TickLog \ {"success"} : l.len[h] = Len(x.ticks[h])
      /\ l.len["success"] = SuccessLen(x.ticks["success"])
  BY ReadFacts
<1>2. /\ y \in Sector /\ y.kind = "live" /\ y.head = x.head /\ CellsInOrder(y)
      /\ y.gens = x.gens /\ y.policies = x.policies /\ ScanPolicy(y) = ScanPolicy(x)
      /\ \A h \in TickLog \ {f} : y.ticks[h] = x.ticks[h]
      /\ Len(y.ticks[f]) = l.len[f] + 1 /\ Behind(l, y)
      /\ f = "success" /\ c = "ok" => GoodUpTo(y.ticks[f], l.len[f] + 1)
  BY <1>1, TickedSector
<1>3. f # "success" => Len(y.ticks[f]) = Len(x.ticks[f]) + 1
  BY <1>1, <1>2
<1>4. ASSUME f = "success"
      PROVE  /\ SuccessLen(x.ticks[f]) < Len(x.ticks["entry"])
             /\ SuccessLen(y.ticks[f]) \in {SuccessLen(x.ticks[f]), SuccessLen(x.ticks[f]) + 1}
             /\ c = "ok" => SuccessLen(y.ticks[f]) = SuccessLen(x.ticks[f]) + 1
  <2> DEFINE log == y.ticks["success"]
             n == l.len["success"]
  <2>1. log \in Seq(Tick) /\ BadAtMostLast(log) /\ Len(log) = n + 1 /\ GoodUpTo(log, n)
    BY <1>2, <1>4, SectorNumbers, LogNames DEF CellsInOrder, Behind
  <2>2. n \in Nat /\ n = SuccessLen(x.ticks["success"])
    BY <1>1, LogNames DEF LedgerState
  <2>3. c = "ok" => GoodUpTo(log, n + 1)
    BY <1>2, <1>4
  <2>4. /\ SuccessLen(log) \in 0 .. Len(log)
        /\ \A k \in 0 .. Len(log) : GoodUpTo(log, k) => k <= SuccessLen(log)
    <3> HIDE DEF log
    <3> QED BY <2>1, SuccessRead
  <2>5. n < Len(x.ticks["entry"])
    <3>1. "entry" \in TickLog \ {"success"}
      BY LogNames
    <3> QED BY <1>1, <1>4, <3>1
  <2> HIDE DEF log, n
  <2>6. SuccessLen(log) \in {n, n + 1}
    BY <2>1, <2>2, <2>4
  <2>7. c = "ok" => SuccessLen(log) = n + 1
    BY <2>1, <2>2, <2>3, <2>4
  <2> QED BY <1>4, <2>2, <2>5, <2>6, <2>7 DEF log
<1>5. ASSUME c = "ok"
      PROVE  TickLens(y.ticks) = [TickLens(x.ticks) EXCEPT ![f] = TickLens(x.ticks)[f] + 1]
  <2>1. /\ TickLens(x.ticks) \in [TickLog -> Nat] /\ TickLens(y.ticks) \in [TickLog -> Nat]
        /\ \A h \in TickLog \ {"success"} : TickLens(x.ticks)[h] = Len(x.ticks[h])
        /\ \A h \in TickLog \ {"success"} : TickLens(y.ticks)[h] = Len(y.ticks[h])
        /\ TickLens(x.ticks)["success"] = SuccessLen(x.ticks["success"])
        /\ TickLens(y.ticks)["success"] = SuccessLen(y.ticks["success"])
    BY <1>2, LensRead
  <2>2. ASSUME NEW h \in TickLog \ {f} PROVE TickLens(y.ticks)[h] = TickLens(x.ticks)[h]
    <3>1. y.ticks[h] = x.ticks[h]
      BY <1>2
    <3> QED BY <2>1, <3>1
  <2>3. TickLens(y.ticks)[f] = TickLens(x.ticks)[f] + 1
    <3>1. CASE f # "success"
      BY <1>3, <2>1, <3>1
    <3>2. CASE f = "success"
      BY <1>4, <1>5, <2>1, <3>2
    <3> QED BY <3>1, <3>2
  <2> QED BY <2>1, <2>2, <2>3
<1> QED BY <1>2, <1>3, <1>4, <1>5 DEF TickedFrom

-----------------------------------------------------------------------------
\* RAM has what a scan would find.
Exact == ledger # NoLedger => ledger = ReadOf(ledger.side, Source)

\* And the vault's verdict on it, but where it is about to be passed again.
Told(p) == p \notin {"off", "scan", "tidy", "destroy"} => state = Classified(ledger)

\* The policy of a sector leaves room for one more failure than n.
Within(x, n) == ScanPolicy(x).after = 0 \/ n < ScanPolicy(x).after

\* There is a store, or there will be one without another look at the count.
Grounded(p, j) ==
  \/ Formatted(ledger)
  \/ p \in {"gen", "canary"} \/ j.sealed = "gen"
  \/ j.sealed = "canary" /\ ~(p \in Rotating /\ j.rotated = "scan")

\* A count at its limit may stand: until mount has looked, while a guess is answered,
\* and from the wipe on.
Unsettled(p, j) ==
  \/ p \in {"off", "mounted", "verify", "settle", "epoch", "destroy"}
  \/ p \in Rotating /\ j.rotated = "epoch"
  \/ p \in Scanning /\ j.scanned = "mounted"

\* What a step may rely on: the count is within the limit, the rotation carries it or
\* settles it, the policy asked for has room for it, the generation is the next one; only
\* a mount scans for a ledger that RAM does not have.
LimitedAt(p, j) ==
  /\ ledger # NoLedger /\ Grounded(p, j) /\ ~Unsettled(p, j) => Within(Source, Failures(ledger))
  /\ p \in {"verify", "settle"} => Leaves(ledger.head.fails + 1)
  /\ p \in Rotating => j.carry \in {0, Failures(ledger)}
  /\ p \in Rotating /\ Formats(j) =>
       j.carry = 0 /\ j.install = StrictPolicy(ScanPolicy(Source).gen + 1)
  /\ p = "policy" \/ (p \in Rotating /\ j.rotated = "policy") =>
       j.want.after \in Afters /\ (j.want.after = 0 \/ Failures(ledger) < j.want.after)
  /\ p = "gen" \/ (j.sealed = "gen" /\ p \in Rotating \cup {"seal"}) => j.gen = ledger.genNext
  /\ ledger = NoLedger /\ p \in Scanning => j.scanned = "mounted" \/ LiveSides(pair) = {}

Clean ==
  /\ Exact
  /\ \A s \in Side : GensFollow(pair[s])
  /\ ledger = NoLedger => policy = StrictPolicy(0)
  /\ canary # {} => LiveSides(pair) # {}
  /\ Told(pc)
  /\ LimitedAt(pc, job)

CInv == IInv /\ ~adrift /\ Clean

\* RAM and its side, in numbers.
LEMMA ExactFacts ==
  ASSUME CInv, ledger # NoLedger
  PROVE  /\ Source \in Sector /\ Source.kind = "live" /\ CellsInOrder(Source) /\ GensFollow(Source)
         /\ ledger.side \in Side /\ ledger = ReadOf(ledger.side, Source)
         /\ ledger \in LedgerState /\ ledger.head = Source.head
         /\ ledger.gens = ScanGens(Source) /\ ledger.genNext = ScanGenNext(Source)
         /\ ledger.policyUsed = Len(Source.policies)
         /\ \A f \in TickLog \ {"success"} : ledger.len[f] = Len(Source.ticks[f])
         /\ ledger.len["success"] = SuccessLen(Source.ticks["success"])
         /\ WipeEpoch(ledger) = EpochOf(Source) /\ Failures(ledger) = FailsOf(Source)
         /\ SeqCarried = MarkOf(Source)
         /\ EpochOf(Source) \in Nat /\ MarkOf(Source) \in Nat /\ FailsOf(Source) \in Nat
         /\ ScanPolicy(Source) \in Policy
<1>1. /\ Source \in Sector /\ Source.kind = "live" /\ CellsInOrder(Source) /\ ledger.side \in Side
      /\ Source = pair[ledger.side]
  BY RamNumbers, Typed, StateTyped DEF CInv, Source
<1>2. ledger = ReadOf(ledger.side, Source) /\ GensFollow(Source)
  BY <1>1 DEF CInv, Clean, Exact
<1>3. ScanPolicy(Source) \in Policy
  BY <1>1, SectorNumbers
<1> QED BY <1>1, <1>2, <1>3, ReadFacts DEF SeqCarried

\* The policy in force is the one on flash, but while a format reads back its own.
LEMMA PolicyIsSource ==
  ASSUME CInv, ledger # NoLedger, ~(pc \in Scanning /\ Formats(job))
  PROVE  policy = ScanPolicy(Source)
BY DEF CInv, IInv, Agreed, AgreedAt

LEMMA LimitedStill ==
  ASSUME UNCHANGED <<pair, canary, ledger, policy>>, LimitedAt(pc', job')
  PROVE  LimitedAt(pc, job)'
<1>1. /\ Source' = Source /\ Failures(ledger)' = Failures(ledger)
      /\ Formatted(ledger)' = Formatted(ledger) /\ ledger' = ledger
      /\ ScanPolicy(Source)' = ScanPolicy(Source)
      /\ Within(Source, Failures(ledger))' = Within(Source, Failures(ledger))
      /\ Leaves(ledger.head.fails + 1)' = Leaves(ledger.head.fails + 1)
  BY DEF Source, Failures, Formatted, WipeEpoch, ScanPolicy, Within, Leaves
<1>2. Grounded(pc, job)' = Grounded(pc', job')
  BY <1>1 DEF Grounded
<1>3. Unsettled(pc, job)' = Unsettled(pc', job') /\ Formats(job)' = Formats(job')
  BY DEF Unsettled, Formats
<1> QED BY <1>1, <1>2, <1>3 DEF LimitedAt

\* Steps that leave flash and the RAM image as they are.
LEMMA CleanStill ==
  ASSUME CInv, UNCHANGED <<pair, canary, ledger, policy, state>>, Told(pc'), LimitedAt(pc', job')
  PROVE  Clean'
<1>1. Exact' /\ Told(pc)'
  BY DEF CInv, Clean, Exact, Source, Told, Classified, Formatted, WipeEpoch
<1>2. /\ (\A s \in Side : GensFollow(pair[s]))'
      /\ (canary # {} => LiveSides(pair) # {})'
      /\ (ledger = NoLedger => policy = StrictPolicy(0))'
  BY DEF CInv, Clean, LiveSides
<1> QED BY <1>1, <1>2, LimitedStill DEF Clean

LEMMA LimitedReady ==
  ASSUME CInv, Grounded("ready", NoJob) => Grounded(pc, job) /\ ~Unsettled(pc, job)
  PROVE  LimitedAt("ready", NoJob)
BY NoJobFacts DEF CInv, Clean, LimitedAt, Rotating, Unsettled, Scanning

\* Which jobs say that the store is there does not depend on the step, but for a
\* format and for the steps that follow its canary.
LEMMA GroundedReady ==
  ASSUME Grounded("ready", NoJob)
  PROVE  Formatted(ledger) /\ \A p, j : Grounded(p, j)
BY NoJobFacts DEF Grounded

LEMMA PlainSteps ==
  ASSUME CInv, Mount \/ ScanTidy \/ Open \/ NewSession \/ GenRefused \/ PolicyRefused
  PROVE  Clean'
<1>1. LimitedAt(pc, job) /\ Told(pc)
  BY DEF CInv, Clean
<1>2. CASE Mount
  <2>1. pc' = "scan" /\ job'.scanned = "mounted" /\ job'.sealed = "ready" /\ job'.rotated = "ready"
    BY <1>2, NoJobTyped DEF Mount, Goto, NoJob, Job
  <2>2. LimitedAt(pc', job')
    BY <2>1 DEF LimitedAt, Unsettled, Scanning, Rotating
  <2>3. Told(pc')
    BY <2>1 DEF Told
  <2> QED BY <1>2, <2>2, <2>3, CleanStill DEF Mount, flash, ram
<1>3. CASE ScanTidy
  <2>1. pc = "scan" /\ pc' = "tidy" /\ job' = job
    BY <1>3 DEF ScanTidy, Goto
  <2>2. LimitedAt(pc', job')
    BY <1>1, <2>1 DEF LimitedAt, Unsettled, Grounded, Scanning, Rotating
  <2>3. Told(pc')
    BY <2>1 DEF Told
  <2> QED BY <1>3, <2>2, <2>3, CleanStill DEF ScanTidy, flash, ram
<1>4. CASE Open \/ NewSession \/ GenRefused \/ PolicyRefused
  <2>1. pc \in {"open", "session", "gen", "policy"} /\ pc' = "ready" /\ job' = NoJob
    BY <1>4 DEF Open, NewSession, GenRefused, PolicyRefused, Goto
  <2>2. LimitedAt(pc', job')
    <3>1. ~Unsettled(pc, job)
      BY <2>1 DEF Unsettled, Scanning, Rotating
    <3> QED BY <2>1, <3>1, GroundedReady, LimitedReady
  <2>3. Told(pc')
    BY <1>1, <2>1 DEF Told
  <2> QED BY <1>4, <2>2, <2>3, CleanStill DEF Open, NewSession, GenRefused, PolicyRefused, flash, ram
<1> QED BY <1>2, <1>3, <1>4

LEMMA LimitedPlain ==
  ASSUME NEW p, NEW j, p \notin Rotating \cup Scanning \cup {"gen", "canary", "policy", "verify", "settle"},
         j.sealed \notin {"gen", "canary"},
         ledger # NoLedger /\ Formatted(ledger) /\ ~Unsettled(p, j) => Within(Source, Failures(ledger))
  PROVE  LimitedAt(p, j)
BY DEF LimitedAt, Grounded

LEMMA LimitedRotation ==
  ASSUME NEW c \in {0, Failures(ledger)}, NEW step, step # "scan", NEW j \in Job,
         Grounded("erase", RotateTo(c, step, j)) /\ step # "epoch" => Within(Source, Failures(ledger)),
         step = "policy" => j.want.after \in Afters /\ (j.want.after = 0 \/ Failures(ledger) < j.want.after),
         j.sealed = "gen" => j.gen = ledger.genNext
  PROVE  LimitedAt("erase", RotateTo(c, step, j))
BY RotateToFacts DEF LimitedAt, Unsettled, Rotating, Scanning, Formats

\* A store that is open is within its limit.
LEMMA ReadyWithin ==
  ASSUME CInv, pc \in {"ready", "mirror", "due", "entry", "fill", "open", "session"}, Formatted(ledger)
  PROVE  Within(Source, Failures(ledger))
BY DEF CInv, Clean, LimitedAt, Grounded, Unsettled, Rotating, Scanning, Formatted

LEMMA FormattedIsTold ==
  ASSUME CInv, Told(pc), pc \notin {"off", "scan", "tidy", "destroy"}
  PROVE  state = "formatted" <=> Formatted(ledger)
BY DEF Told, Classified, Formatted

\* After another verdict on the count there is room for one more.
LEMMA NotOverLimit ==
  ASSUME CInv, ledger # NoLedger, ~OverLimit(ledger, policy), ~(pc \in Scanning /\ Formats(job))
  PROVE  Within(Source, Failures(ledger))
<1>1. policy = ScanPolicy(Source) /\ Failures(ledger) \in Nat /\ policy.after \in Nat
  BY PolicyIsSource, ExactFacts DEF Policy
<1> QED BY <1>1 DEF OverLimit, Within

LEMMA MountedClean == ASSUME CInv, Mounted PROVE Clean'
<1>1. /\ pc = "mounted" /\ LimitedAt(pc, job) /\ Told(pc)
      /\ UNCHANGED <<pair, ledger, policy, state>>
      /\ canary' = IF WipeDue THEN canary ELSE CurrentRecords
  BY DEF Mounted, CInv, Clean, ram
<1>2. job \in Job /\ job.sealed = "ready"
  BY <1>1, Typed DEF CInv, Flow
<1>3. canary' \subseteq canary /\ Formatted(ledger)' = Formatted(ledger)
  BY <1>1 DEF CurrentRecords, Formatted, WipeEpoch
<1>4. Classified(ledger)' = Classified(ledger)
  <2>1. ledger = NoLedger => canary = {}
    BY <1>1 DEF CInv, Clean, IInv, Agreed, AgreedAt, Scanning
  <2> QED BY <1>1, <1>3, <2>1 DEF Classified
<1>5. /\ pc' \in {"epoch", "erase", "ready", "mirror"} /\ Told(pc)'
  <2>1. pc' \in {"epoch", "erase", "ready", "mirror"}
    BY DEF Mounted, Through, Goto
  <2> QED BY <1>1, <1>4, <2>1 DEF Told
<1>6. LimitedAt(pc', job')
  <2>1. CASE WipeDue /\ Through(Full("epoch"), Failures(ledger), "epoch", job)
    <3>1. CASE pc' = "epoch" /\ job' = job
      BY <1>2, <3>1, LimitedPlain DEF Unsettled, Rotating, Scanning
    <3>2. CASE pc' = "erase" /\ job' = RotateTo(Failures(ledger), "epoch", job)
      BY <1>2, <3>2, LimitedRotation
    <3> QED BY <2>1, <3>1, <3>2 DEF Through, Goto, RotateTo
  <2>2. CASE ~WipeDue /\ (Goto("ready", job) \/ Goto("mirror", job))
    <3>1. /\ pc' \in {"ready", "mirror"} /\ job'.sealed = "ready"
      BY <1>2, <2>2, NoJobFacts DEF Goto
    <3>2. ledger # NoLedger /\ Formatted(ledger) => Within(Source, Failures(ledger))
      BY <1>1, <2>2, FormattedIsTold, NotOverLimit DEF WipeDue, Scanning
    <3> QED BY <3>1, <3>2, LimitedPlain DEF Rotating, Scanning
  <2> QED BY <2>1, <2>2 DEF Mounted
<1>7. LimitedAt(pc, job)'
  <2>1. /\ Source' = Source /\ Failures(ledger)' = Failures(ledger) /\ ledger' = ledger
        /\ Within(Source, Failures(ledger))' = Within(Source, Failures(ledger))
        /\ Leaves(ledger.head.fails + 1)' = Leaves(ledger.head.fails + 1)
        /\ ScanPolicy(Source)' = ScanPolicy(Source)
    BY <1>1 DEF Source, Failures, Within, ScanPolicy, Leaves
  <2>2. Grounded(pc, job)' = Grounded(pc', job')
    BY <1>3 DEF Grounded
  <2>3. Unsettled(pc, job)' = Unsettled(pc', job') /\ Formats(job)' = Formats(job')
    BY DEF Unsettled, Formats
  <2> QED BY <1>5, <1>6, <2>1, <2>2, <2>3 DEF LimitedAt, Scanning
<1>8. Exact' /\ (\A s \in Side : GensFollow(pair[s]))' /\ (ledger = NoLedger => policy = StrictPolicy(0))'
      /\ (canary # {} => LiveSides(pair) # {})'
  BY <1>1, <1>3 DEF CInv, Clean, Exact, Source, LiveSides
<1> QED BY <1>5, <1>7, <1>8 DEF Clean

\* The steps of an unlock that program nothing.
LEMMA UnlockSteps ==
  ASSUME CInv, Attempt \/ WrongPin \/ RightPin \/ Settled \/ DueRotation
  PROVE  Clean'
<1>1. LimitedAt(pc, job) /\ Told(pc) /\ job \in Job /\ NoJob \in Job /\ NoJob.sealed = "ready"
  BY Typed, NoJobTyped, NoJobFacts DEF CInv, Clean
<1>2. /\ UNCHANGED <<pair, canary, ledger, policy, state>>
      /\ pc \notin {"off", "scan", "tidy", "destroy"}
  BY DEF Attempt, WrongPin, RightPin, Settled, DueRotation, flash, ram
<1>3. Told(pc')
  BY <1>1, <1>2 DEF Told
<1>4. CASE Attempt
  <2>1. pc = "ready" /\ (Formatted(ledger) => Within(Source, Failures(ledger)))
    BY <1>4, ReadyWithin DEF Attempt
  <2>2. CASE pc' = "entry" /\ job' = NoJob
    <3>1. LimitedAt("entry", NoJob)
      BY <1>1, <2>1, LimitedPlain DEF Rotating, Scanning
    <3> QED BY <1>2, <1>3, <2>2, <3>1, CleanStill
  <2>3. CASE pc' = "erase" /\ job' = RotateTo(Failures(ledger), "entry", NoJob)
    <3>1. Grounded("erase", RotateTo(Failures(ledger), "entry", NoJob)) => Formatted(ledger)
      BY <1>1, RotateToFacts DEF Grounded
    <3>2. LimitedAt("erase", RotateTo(Failures(ledger), "entry", NoJob))
      BY <1>1, <2>1, <3>1, LimitedRotation
    <3> QED BY <1>2, <1>3, <2>3, <3>2, CleanStill
  <2> QED BY <1>4, <2>2, <2>3 DEF Attempt, Through, Goto, RotateTo
<1>5. CASE WrongPin
  <2>1. pc = "verify" /\ ledger # NoLedger
    BY <1>5, Typed DEF WrongPin, CInv, Flow, OnLedger
  <2>2. CASE pc' = "epoch" /\ job' = NoJob
    <3>1. LimitedAt("epoch", NoJob)
      BY <1>1, LimitedPlain DEF Unsettled, Rotating, Scanning
    <3> QED BY <1>2, <1>3, <2>2, <3>1, CleanStill
  <2>3. CASE pc' = "erase" /\ job' = RotateTo(Failures(ledger), "epoch", NoJob)
    <3>1. LimitedAt("erase", RotateTo(Failures(ledger), "epoch", NoJob))
      BY <1>1, LimitedRotation
    <3> QED BY <1>2, <1>3, <2>3, <3>1, CleanStill
  <2>4. CASE pc' = "ready" /\ job' = NoJob /\ ~OverLimit(ledger, policy)
    <3>1. Within(Source, Failures(ledger))
      BY <2>1, <2>4, NotOverLimit DEF Scanning
    <3>2. LimitedAt("ready", NoJob)
      BY <1>1, <3>1, LimitedPlain DEF Rotating, Scanning
    <3> QED BY <1>2, <1>3, <2>4, <3>2, CleanStill
  <2> QED BY <1>5, <2>2, <2>3, <2>4 DEF WrongPin, Through, Goto, RotateTo
<1>6. CASE RightPin
  <2>1. pc = "verify" /\ pc' = "settle" /\ job' = NoJob /\ Leaves(ledger.head.fails + 1)
    BY <1>1, <1>6 DEF RightPin, Goto, LimitedAt
  <2>2. LimitedAt("settle", NoJob)
    BY <1>1, <2>1 DEF LimitedAt, Unsettled, Rotating, Scanning
  <2> QED BY <1>2, <1>3, <2>1, <2>2, CleanStill
<1>7. CASE Settled
  <2>1. /\ pc = "settle" /\ ledger # NoLedger /\ ledger.len["success"] >= ledger.len["entry"]
        /\ Leaves(ledger.head.fails + 1)
        /\ \/ pc' = "due" /\ job' = job
           \/ pc' = "seal" /\ job' = Sealing(1, "scan", [job EXCEPT !.scanned = "due"])
    BY <1>1, <1>7, Typed DEF Settled, Goto, CInv, Flow, OnLedger, LimitedAt
  <2>2. Within(Source, Failures(ledger))
    <3>1. Failures(ledger) = ledger.head.fails /\ ledger.head.fails \in Nat
      BY <2>1, RamNumbers, LogNames DEF CInv
    <3>2. policy = ScanPolicy(Source) /\ policy.after \in Nat
      BY <2>1, PolicyIsSource, ExactFacts DEF Policy, Scanning
    <3> QED BY <2>1, <3>1, <3>2 DEF Leaves, Within
  <2>3. /\ pc' \in {"due", "seal"}
        /\ pc' = "seal" => job'.sealed = "scan"
    BY <1>1, <2>1 DEF Sealing, Job
  <2>4. LimitedAt(pc', job')
    BY <2>1, <2>2, <2>3 DEF LimitedAt, Rotating
  <2> QED BY <1>2, <1>3, <2>4, CleanStill
<1>8. CASE DueRotation
  <2>1. pc = "due" /\ (Formatted(ledger) => Within(Source, Failures(ledger)))
    BY <1>8, ReadyWithin DEF DueRotation
  <2>2. CASE pc' = "open" /\ job' = NoJob
    <3>1. LimitedAt("open", NoJob)
      BY <1>1, <2>1, LimitedPlain DEF Rotating, Scanning
    <3> QED BY <1>2, <1>3, <2>2, <3>1, CleanStill
  <2>3. CASE pc' = "erase" /\ job' = RotateTo(0, "open", NoJob)
    <3>1. Grounded("erase", RotateTo(0, "open", NoJob)) => Formatted(ledger)
      BY <1>1, RotateToFacts DEF Grounded
    <3>2. LimitedAt("erase", RotateTo(0, "open", NoJob))
      BY <1>1, <2>1, <3>1, LimitedRotation
    <3> QED BY <1>2, <1>3, <2>3, <3>2, CleanStill
  <2> QED BY <1>8, <2>2, <2>3 DEF DueRotation, Through, Goto, RotateTo
<1> QED BY <1>4, <1>5, <1>6, <1>7, <1>8

\* A store that lets a session through is within its limit.
LEMMA SessionWithin ==
  ASSUME CInv, pc = "ready", SessionValid
  PROVE  ledger # NoLedger /\ Formatted(ledger) /\ Within(Source, Failures(ledger))
<1>1. Formatted(ledger)
  BY FormattedIsTold DEF CInv, Clean, SessionValid
<1> QED BY <1>1, ReadyWithin DEF Formatted

LEMMA SealKeepsJob ==
  ASSUME NEW n, NEW j \in Job
  PROVE  LET r == [j EXCEPT !.left = n]
         IN /\ r.carry = j.carry /\ r.install = j.install /\ r.rotated = j.rotated
            /\ r.scanned = j.scanned /\ r.sealed = j.sealed /\ r.want = j.want /\ r.gen = j.gen
BY DEF Job

\* What is sealed leaves the pair alone, and a step that needs the generation has it.
LEMMA SealClean == ASSUME CInv, Seal PROVE Clean'
<1>1. /\ LimitedAt(pc, job) /\ Told(pc) /\ pc = "seal" /\ job \in Job /\ Flow(pc, job)
      /\ UNCHANGED <<pair, canary, ledger, policy, state>>
  BY Typed DEF CInv, Clean, Seal, flash
<1>2. ~Unsettled(pc, job) /\ pc \notin Rotating /\ pc \notin Scanning
  BY <1>1 DEF Unsettled, Rotating, Scanning
<1>3. Told(pc')
  BY <1>1 DEF Told
<1>4. LimitedAt(pc', job')
  <2>1. CASE pc' = "seal" /\ job' = [job EXCEPT !.left = job.left - 1]
    <3>1. job'.sealed = job.sealed /\ job'.gen = job.gen /\ job'.rotated = job.rotated
      BY <1>1, <2>1, SealKeepsJob
    <3>2. Grounded(pc', job') => Grounded(pc, job)
      BY <1>1, <2>1, <3>1 DEF Grounded
    <3> QED BY <1>1, <1>2, <2>1, <3>1, <3>2 DEF LimitedAt, Rotating
  <2>2. CASE pc' = "ready" /\ job' = NoJob
    BY <1>2, <2>2, GroundedReady, LimitedReady
  <2>3. CASE pc' = job.sealed /\ pc' # "ready" /\ job' = [job EXCEPT !.left = 0]
    <3>1. job'.sealed = job.sealed /\ job'.gen = job.gen /\ job'.rotated = job.rotated
          /\ job'.scanned = job.scanned
      BY <1>1, <2>3, SealKeepsJob
    <3>2. pc' \in {"scan", "gen", "canary"}
      BY <1>1, <2>3 DEF Flow
    <3>3. Grounded(pc', job') => Grounded(pc, job)
      BY <1>1, <1>2, <2>3, <3>1, <3>2 DEF Grounded
    <3>4. pc' = "gen" => job'.gen = ledger.genNext
      BY <1>1, <2>3, <3>1 DEF LimitedAt
    <3> QED BY <1>1, <1>2, <3>2, <3>3, <3>4 DEF LimitedAt, Rotating, Flow, OnLedger
  <2> QED BY <1>1, <2>1, <2>2, <2>3 DEF Seal, Goto
<1> QED BY <1>1, <1>3, <1>4, CleanStill

LEMMA SealingFacts ==
  ASSUME NEW n, NEW step, NEW j \in Job
  PROVE  LET r == Sealing(n, step, j)
         IN /\ r.carry = j.carry /\ r.install = j.install /\ r.rotated = j.rotated
            /\ r.scanned = j.scanned /\ r.sealed = step /\ r.want = j.want /\ r.gen = j.gen
BY DEF Job, Sealing

LEMMA RequestSteps ==
  ASSUME CInv, Mirror \/ SealRotate \/ Write \/ Fill \/ Wipe
  PROVE  Clean'
<1>1. LimitedAt(pc, job) /\ Told(pc) /\ job \in Job /\ NoJob \in Job /\ NoJob.sealed = "ready"
  BY Typed, NoJobTyped, NoJobFacts DEF CInv, Clean
<1>2. /\ UNCHANGED <<pair, canary, ledger, policy, state>>
      /\ pc \notin {"off", "scan", "tidy", "destroy"}
  BY DEF Mirror, SealRotate, Write, Fill, Wipe, flash, ram
<1>3. Told(pc')
  BY <1>1, <1>2 DEF Told
<1>4. CASE Mirror \/ Write \/ Fill
  <2>1. /\ pc \in {"mirror", "ready", "fill"}
        /\ Formatted(ledger) => Within(Source, Failures(ledger))
    BY <1>4, ReadyWithin DEF Mirror, Write, Fill
  <2>2. pc' \in {"seal", "ready"} /\ job'.sealed \in {"scan", "ready"}
    <3>1. /\ [job EXCEPT !.scanned = "ready"] \in Job /\ [job EXCEPT !.scanned = "session"] \in Job
      BY <1>1 DEF Job, Steps
    <3>2. \A n \in {1} : /\ Sealing(n, "scan", [job EXCEPT !.scanned = "ready"]).sealed = "scan"
                         /\ Sealing(n, "scan", [job EXCEPT !.scanned = "session"]).sealed = "scan"
                         /\ Sealing(n, "ready", NoJob).sealed = "ready"
      BY <1>1, <3>1, SealingFacts
    <3> QED BY <1>1, <1>4, <3>2 DEF Mirror, Write, Fill, Goto
  <2>3. LimitedAt(pc', job')
    BY <2>1, <2>2, LimitedPlain DEF Rotating, Scanning
  <2> QED BY <1>2, <1>3, <2>3, CleanStill
<1>5. CASE SealRotate
  <2>1. pc = "seal" /\ pc' = "erase" /\ job' = RotateTo(Failures(ledger), "seal", job)
        /\ ledger # NoLedger
    BY <1>5, Typed DEF SealRotate, Through, Goto, RotateTo, CInv, Flow, OnLedger
  <2>2. ~Unsettled(pc, job)
    BY <2>1 DEF Unsettled, Rotating, Scanning
  <2>3. Grounded("erase", RotateTo(Failures(ledger), "seal", job)) => Grounded(pc, job)
    BY <1>1, <2>1, RotateToFacts DEF Grounded, Rotating
  <2>4. LimitedAt("erase", RotateTo(Failures(ledger), "seal", job))
    <3>1. job.sealed = "gen" => job.gen = ledger.genNext
      BY <1>1, <2>1 DEF LimitedAt
    <3>2. Grounded("erase", RotateTo(Failures(ledger), "seal", job)) => Within(Source, Failures(ledger))
      BY <1>1, <2>1, <2>2, <2>3 DEF LimitedAt
    <3> QED BY <1>1, <3>1, <3>2, LimitedRotation
  <2> QED BY <1>2, <1>3, <2>1, <2>4, CleanStill
<1>6. CASE Wipe
  <2>1. CASE pc' \in {"destroy", "epoch"} /\ job' = NoJob
    <3>1. LimitedAt(pc', job')
      BY <1>1, <2>1, LimitedPlain DEF Unsettled, Rotating, Scanning
    <3> QED BY <1>2, <1>3, <3>1, CleanStill
  <2>2. CASE pc' = "erase" /\ job' = RotateTo(Failures(ledger), "epoch", NoJob)
    <3>1. LimitedAt("erase", RotateTo(Failures(ledger), "epoch", NoJob))
      BY <1>1, LimitedRotation
    <3> QED BY <1>2, <1>3, <2>2, <3>1, CleanStill
  <2> QED BY <1>6, <2>1, <2>2 DEF Wipe, Through, Goto, RotateTo
<1> QED BY <1>4, <1>5, <1>6

LEMMA ChangeGenClean == ASSUME CInv, NEW i \in Identity, ChangeGen(i) PROVE Clean'
<1>1. /\ UNCHANGED <<pair, canary, ledger, policy, state>> /\ Told(pc)
      /\ pc = "ready" /\ pc' = "seal" /\ NoJob \in Job
  BY NoJobTyped DEF CInv, Clean, ChangeGen, flash, ram, Goto
<1>2. Within(Source, Failures(ledger))
  BY SessionWithin DEF ChangeGen
<1>3. job'.sealed = "gen" /\ job'.gen = ledger.genNext
  BY DEF ChangeGen, Goto, Sealing, NoJob
<1>4. LimitedAt(pc', job')
  BY <1>1, <1>2, <1>3 DEF LimitedAt, Rotating, Scanning
<1> QED BY <1>1, <1>4, CleanStill DEF Told

LEMMA SetPolicyClean == ASSUME CInv, NEW a \in Afters, SetPolicy(a) PROVE Clean'
<1>1. /\ UNCHANGED <<pair, canary, ledger, policy, state>> /\ Told(pc) /\ pc = "ready"
      /\ NoJob \in Job /\ NoJob.sealed = "ready"
  BY NoJobTyped, NoJobFacts DEF CInv, Clean, SetPolicy, flash, ram
<1>2. Within(Source, Failures(ledger)) /\ ledger # NoLedger /\ Failures(ledger) \in Nat
  BY SessionWithin, Typed DEF SetPolicy, CInv
<1> DEFINE j == [NoJob EXCEPT !.want = [after |-> a, gen |-> policy.gen + 1]]
<1>3. j \in Job /\ j.sealed = "ready" /\ j.want.after = a
  <2>1. policy \in Policy /\ a \in Nat
    BY Typed DEF CInv
  <2>2. [after |-> a, gen |-> policy.gen + 1] \in Policy
    BY <2>1 DEF Policy
  <2> QED BY <1>1, <2>2 DEF Job
<1>4. a = 0 \/ Failures(ledger) < a
  BY <1>2 DEF SetPolicy
<1>5. \/ pc' = "policy" /\ job' = j
      \/ pc' = "erase" /\ job' = RotateTo(Failures(ledger), "policy", j)
  BY DEF SetPolicy, Through, Goto, RotateTo
<1> HIDE DEF j
<1>6. CASE pc' = "policy" /\ job' = j
  <2>1. LimitedAt("policy", j)
    BY <1>2, <1>3, <1>4 DEF LimitedAt, Rotating
  <2> QED BY <1>1, <1>6, <2>1, CleanStill DEF Told
<1>7. CASE pc' = "erase" /\ job' = RotateTo(Failures(ledger), "policy", j)
  <2>1. LimitedAt("erase", RotateTo(Failures(ledger), "policy", j))
    BY <1>2, <1>3, <1>4, LimitedRotation
  <2> QED BY <1>1, <1>7, <2>1, CleanStill DEF Told
<1> QED BY <1>5, <1>6, <1>7

LEMMA FormatClean == ASSUME CInv, Format PROVE Clean'
<1>1. /\ UNCHANGED <<pair, canary, ledger, policy, state>> /\ Told(pc) /\ pc = "ready"
      /\ state = "unformatted" /\ NoJob \in Job
  BY NoJobTyped DEF CInv, Clean, Format, flash, ram
<1>2. ~Formatted(ledger)
  BY <1>1, FormattedIsTold
<1>3. CASE ledger = NoLedger /\ pc' = "createA"
  <2>1. LimitedAt(pc', job')
    BY <1>3 DEF LimitedAt, Rotating, Scanning
  <2> QED BY <1>1, <1>3, <2>1, CleanStill DEF Told
<1>4. CASE /\ ledger # NoLedger /\ pc' = "erase"
           /\ job'.sealed = "canary" /\ job'.rotated = "scan" /\ job'.carry = 0
           /\ job'.install = StrictPolicy(ledger.head.policy.gen + ledger.policyUsed + 1)
  <2>1. /\ Source \in Sector /\ Source.kind = "live" /\ ledger.head = Source.head
        /\ ledger.policyUsed = Len(Source.policies)
    BY <1>4, ExactFacts
  <2>2. ScanPolicy(Source).gen = ledger.head.policy.gen + ledger.policyUsed
    BY <2>1, PolicyTyped
  <2>3. ~Grounded(pc', job')
    BY <1>2, <1>4 DEF Grounded, Rotating
  <2>4. LimitedAt(pc', job')
    BY <1>4, <2>2, <2>3 DEF LimitedAt, Rotating
  <2> QED BY <1>1, <1>4, <2>4, CleanStill DEF Told
<1> QED
  <2>1. \A x : [[Sealing(2, "canary", NoJob) EXCEPT !.rotated = "scan", !.scanned = "seal"]
                  EXCEPT !.install = x].install = x
    BY DEF Sealing, NoJob
  <2>2. \A x : LET r == [[Sealing(2, "canary", NoJob) EXCEPT !.rotated = "scan", !.scanned = "seal"]
                            EXCEPT !.install = x]
               IN r.sealed = "canary" /\ r.rotated = "scan" /\ r.carry = 0
    BY DEF Sealing, NoJob
  <2> QED BY <1>3, <1>4, <2>1, <2>2 DEF Format, Goto

LEMMA RecordsClean ==
  ASSUME CInv, UNCHANGED <<pair, ledger, policy, state>>, canary' # {} => LiveSides(pair) # {},
         Told(pc)', LimitedAt(pc, job)'
  PROVE  Clean'
BY DEF CInv, Clean, Exact, Source, LiveSides

LEMMA DestroyClean == ASSUME CInv, Destroy PROVE Clean'
<1>1. /\ pc' = "scan" /\ job'.scanned = "mounted" /\ canary' = {}
      /\ UNCHANGED <<pair, ledger, policy, state>>
  BY Typed DEF CInv, Destroy, Goto, ram, Job
<1>2. LimitedAt(pc, job)'
  BY <1>1 DEF LimitedAt, Unsettled, Scanning, Rotating
<1> QED BY <1>1, <1>2, RecordsClean DEF Told

LEMMA SealCanaryClean == ASSUME CInv, SealCanary PROVE Clean'
<1>1. /\ pc = "canary" /\ ledger # NoLedger /\ LimitedAt(pc, job) /\ Told(pc)
      /\ canary' = {WipeEpoch(ledger)}
      /\ UNCHANGED <<pair, ledger, policy, state>>
  BY Typed DEF CInv, Clean, SealCanary, Flow, OnLedger, ram
<1>2. /\ job'.sealed = "ready" /\ job'.rotated = "ready" /\ job'.scanned = "fill"
      /\ job'.gen = ledger.genNext
      /\ pc' \in {"gen", "scan"} /\ (pc' = "gen" => ledger.gens[First] = 0)
  BY DEF SealCanary, Goto, NoJob
<1>3. LiveSides(pair) # {}
  BY <1>1, FlashIsSource DEF CInv
<1>4. Within(Source, Failures(ledger))
  BY <1>1 DEF LimitedAt, Grounded, Unsettled, Rotating, Scanning
<1>5. LimitedAt(pc, job)'
  <2>1. Within(Source, Failures(ledger))' /\ ledger'.genNext = ledger.genNext
    BY <1>1, <1>4 DEF Source, Failures, Within, ScanPolicy
  <2> QED BY <1>1, <1>2, <2>1 DEF LimitedAt, Rotating
<1>6. Told(pc)'
  <2>1. CASE pc' = "gen"
    BY <1>1, <1>2, <2>1 DEF Told, Classified, Formatted
  <2>2. CASE pc' = "scan"
    BY <2>2 DEF Told
  <2> QED BY <1>2, <2>1, <2>2
<1> QED BY <1>1, <1>3, <1>5, <1>6, RecordsClean

LEMMA LensReread ==
  ASSUME NEW s, NEW h, NEW n, NEW g, NEW m, NEW u, NEW k
  PROVE  [[side |-> s, head |-> h, len |-> n, gens |-> g, genNext |-> m, policyUsed |-> u]
            EXCEPT !.len = k]
         = [side |-> s, head |-> h, len |-> k, gens |-> g, genNext |-> m, policyUsed |-> u]
OBVIOUS

\* A tick that is committed is read by the next scan as RAM has counted it.
LEMMA TickClean ==
  ASSUME CInv, ledger # NoLedger, pc # "retire", NEW f \in TickLog, ProgramTick(f),
         f = "success" => ledger.len["success"] < ledger.len["entry"]
  PROVE  /\ Exact' /\ (\A s \in Side : GensFollow(pair[s]))'
         /\ (ledger = NoLedger => policy = StrictPolicy(0))'
         /\ (canary # {} => LiveSides(pair) # {})'
         /\ ledger' # NoLedger /\ ledger'.head = ledger.head /\ ledger'.gens = ledger.gens
         /\ ledger'.genNext = ledger.genNext
         /\ ScanPolicy(Source)' = ScanPolicy(Source)
         /\ f # "epoch" => WipeEpoch(ledger)' = WipeEpoch(ledger)
         /\ f \notin {"entry", "success"} => Failures(ledger)' = Failures(ledger)
<1> DEFINE s == ledger.side
           x == Source
           y == Ticked(Source, ledger, f, "ok")
<1>1. /\ x \in Sector /\ x.kind = "live" /\ CellsInOrder(x) /\ GensFollow(x)
      /\ s \in Side /\ ledger = ReadOf(s, x) /\ ledger \in LedgerState
      /\ ledger.len = TickLens(x.ticks)
  BY ExactFacts DEF ReadOf
<1>2. /\ y.kind = "live" /\ y.head = x.head /\ y.gens = x.gens /\ y.policies = x.policies
      /\ ScanPolicy(y) = ScanPolicy(x)
      /\ TickLens(y.ticks) = [TickLens(x.ticks) EXCEPT ![f] = TickLens(x.ticks)[f] + 1]
  <2>1. "ok" \in Tick
    BY DEF Tick
  <2>2. TickedFrom(x, y, f, "ok")
    BY <1>1, <2>1, TickRead
  <2> HIDE DEF x, y
  <2> QED BY <2>2 DEF TickedFrom
<1>3. Live(s) /\ pair \in [Side -> Sector]
  BY <1>1, Typed DEF CInv, Live, Source, TypeOK
<1>4. /\ pair' = [pair EXCEPT ![s] = y]
      /\ pair'[s] = y /\ pair'[Target] = pair[Target] /\ LiveSides(pair') = LiveSides(pair)
      /\ ledger' # NoLedger /\ ledger'.side = s /\ ledger'.head = ledger.head /\ ledger'.gens = ledger.gens
      /\ ledger'.len[f] = ledger.len[f] + 1
      /\ \A h \in TickLog \ {f} : ledger'.len[h] = ledger.len[h]
  BY <1>1, <1>3, TickCommitted, TickWritten DEF CInv, ProgramTick, Tick
<1> HIDE DEF x, y
<1>5. ScanGens(y) = ScanGens(x) /\ ScanGenNext(y) = ScanGenNext(x) /\ GensFollow(y)
  BY <1>1, <1>2, SameGens
<1>6. ledger' = ReadOf(s, y)
  <2>1. ledger' = [ledger EXCEPT !.len = [ledger.len EXCEPT ![f] = ledger.len[f] + 1]]
    BY DEF ProgramTick
  <2>2. ledger' = [ledger EXCEPT !.len = TickLens(y.ticks)]
    BY <1>1, <1>2, <2>1
  <2>3. ledger = [side |-> s, head |-> x.head, len |-> TickLens(x.ticks), gens |-> ScanGens(x),
                  genNext |-> ScanGenNext(x), policyUsed |-> Len(x.policies)]
    BY <1>1 DEF ReadOf
  <2>4. ledger' = [side |-> s, head |-> x.head, len |-> TickLens(y.ticks), gens |-> ScanGens(x),
                  genNext |-> ScanGenNext(x), policyUsed |-> Len(x.policies)]
    <3>1. \A k : [[side |-> s, head |-> x.head, len |-> TickLens(x.ticks), gens |-> ScanGens(x),
                  genNext |-> ScanGenNext(x), policyUsed |-> Len(x.policies)] EXCEPT !.len = k] =
                  [side |-> s, head |-> x.head, len |-> k, gens |-> ScanGens(x),
                   genNext |-> ScanGenNext(x), policyUsed |-> Len(x.policies)]
      BY LensReread
    <3>2. [ledger EXCEPT !.len = TickLens(y.ticks)] =
            [side |-> s, head |-> x.head, len |-> TickLens(y.ticks), gens |-> ScanGens(x),
             genNext |-> ScanGenNext(x), policyUsed |-> Len(x.policies)]
      BY <2>3, <3>1
    <3> QED BY <2>2, <3>2
  <2> QED BY <1>2, <1>5, <2>4 DEF ReadOf
<1>7. Source' = y
  BY <1>4 DEF Source
<1>8. \A t \in Side : GensFollow(pair'[t])
  <2>1. \A t \in Side : t = s \/ t = Target
    BY StateTyped, Typed DEF CInv
  <2>2. GensFollow(pair[Target]) /\ Target \in Side
    BY StateTyped, Typed DEF CInv, Clean
  <2> QED BY <1>4, <1>5, <2>1, <2>2
<1>9. UNCHANGED <<canary, policy, state>> /\ ScanPolicy(Source)' = ScanPolicy(Source)
  BY <1>2, <1>7 DEF ProgramTick, x, ScanPolicy
<1>10. /\ ledger'.genNext = ledger.genNext
       /\ f # "epoch" => WipeEpoch(ledger)' = WipeEpoch(ledger)
       /\ f \notin {"entry", "success"} => Failures(ledger)' = Failures(ledger)
  <2>1. ledger'.genNext = ledger.genNext
    BY <1>1, <1>5, <1>6 DEF ReadOf
  <2> QED BY <1>4, <2>1, LogNames DEF WipeEpoch, Failures
<1>11. Exact' /\ (\A t \in Side : GensFollow(pair[t]))'
  BY <1>4, <1>6, <1>7, <1>8 DEF Exact
<1>12. (ledger = NoLedger => policy = StrictPolicy(0))' /\ (canary # {} => LiveSides(pair) # {})'
  BY <1>4, <1>9 DEF CInv, Clean
<1> QED BY <1>4, <1>9, <1>10, <1>11, <1>12

LEMMA ToldStill ==
  ASSUME Told(pc), pc \notin {"off", "scan", "tidy", "destroy"}, ledger # NoLedger, ledger' # NoLedger,
         state' = state, canary' = canary, ledger'.gens = ledger.gens,
         WipeEpoch(ledger)' = WipeEpoch(ledger)
  PROVE  Told(pc)' /\ Formatted(ledger)' = Formatted(ledger)
BY DEF Told, Classified, Formatted

LEMMA CountingSteps ==
  ASSUME CInv, CountAttempt \/ CatchUp \/ SealReserve \/ BumpEpoch
  PROVE  Clean'
<1>1. /\ LimitedAt(pc, job) /\ Told(pc) /\ ledger # NoLedger /\ pc # "retire"
      /\ pc \notin {"off", "scan", "tidy", "destroy"} /\ Flow(pc, job)
      /\ UNCHANGED <<canary, state, policy>>
  BY Typed DEF CInv, Clean, Flow, OnLedger, CountAttempt, CatchUp, SealReserve, BumpEpoch, ProgramTick
<1>2. CASE CountAttempt
  <2>1. /\ Exact' /\ (\A s \in Side : GensFollow(pair[s]))'
        /\ (ledger = NoLedger => policy = StrictPolicy(0))' /\ (canary # {} => LiveSides(pair) # {})'
        /\ ledger' # NoLedger /\ ledger'.gens = ledger.gens /\ ledger'.head = ledger.head
        /\ WipeEpoch(ledger)' = WipeEpoch(ledger)
    BY <1>1, <1>2, TickClean, LogNames DEF CountAttempt
  <2>2. Told(pc)'
    BY <1>1, <2>1, ToldStill
  <2>3. pc = "entry" /\ pc' = "verify" /\ job' = NoJob
    BY <1>2 DEF CountAttempt, Goto
  <2>4. Leaves(ledger.head.fails + 1)
    <3>1. Leaves(Failures(ledger) + 1)
      BY <2>3 DEF CInv, IInv, Agreed, AgreedAt
    <3>2. /\ ledger.head.fails \in Nat /\ ledger.head.fails <= Failures(ledger)
          /\ Failures(ledger) \in Nat /\ policy.after \in Nat
      <4>1. /\ ledger.head.fails \in Nat /\ ledger.len["success"] <= ledger.len["entry"]
            /\ ledger.len["success"] \in Nat /\ ledger.len["entry"] \in Nat
            /\ Failures(ledger) = ledger.head.fails + ledger.len["entry"] - ledger.len["success"]
        BY <1>1, RamNumbers, LogNames DEF CInv
      <4>2. policy.after \in Nat
        BY Typed DEF CInv, Policy
      <4> QED BY <4>1, <4>2
    <3> QED BY <3>1, <3>2 DEF Leaves
  <2>5. LimitedAt(pc, job)'
    <3>1. Leaves(ledger.head.fails + 1)'
      BY <1>1, <2>1, <2>4 DEF Leaves
    <3> QED BY <2>3, <3>1, NoJobFacts DEF LimitedAt, Unsettled, Rotating, Scanning
  <2> QED BY <2>1, <2>2, <2>5 DEF Clean
<1>3. CASE CatchUp
  <2>1. /\ Exact' /\ (\A s \in Side : GensFollow(pair[s]))'
        /\ (ledger = NoLedger => policy = StrictPolicy(0))' /\ (canary # {} => LiveSides(pair) # {})'
        /\ ledger' # NoLedger /\ ledger'.gens = ledger.gens /\ ledger'.head = ledger.head
        /\ WipeEpoch(ledger)' = WipeEpoch(ledger)
    BY <1>1, <1>3, TickClean, LogNames DEF CatchUp
  <2>2. Told(pc)'
    BY <1>1, <2>1, ToldStill
  <2>3. pc' = "settle" /\ Leaves(ledger.head.fails + 1)'
    BY <1>1, <1>3, <2>1 DEF CatchUp, LimitedAt, Leaves
  <2>4. LimitedAt(pc, job)'
    BY <2>3 DEF LimitedAt, Unsettled, Rotating, Scanning
  <2> QED BY <2>1, <2>2, <2>4 DEF Clean
<1>4. CASE SealReserve
  <2>1. /\ Exact' /\ (\A s \in Side : GensFollow(pair[s]))'
        /\ (ledger = NoLedger => policy = StrictPolicy(0))' /\ (canary # {} => LiveSides(pair) # {})'
        /\ ledger' # NoLedger /\ ledger'.gens = ledger.gens /\ ledger'.genNext = ledger.genNext
        /\ WipeEpoch(ledger)' = WipeEpoch(ledger) /\ Failures(ledger)' = Failures(ledger)
        /\ ScanPolicy(Source)' = ScanPolicy(Source)
    BY <1>1, <1>4, TickClean, LogNames DEF SealReserve
  <2>2. Told(pc)' /\ Formatted(ledger)' = Formatted(ledger)
    BY <1>1, <2>1, ToldStill
  <2>3. pc = "seal" /\ pc' = pc /\ job' = job
    BY <1>4 DEF SealReserve
  <2>4. LimitedAt(pc, job)'
    <3>1. /\ Grounded(pc, job)' = Grounded(pc, job)
          /\ Within(Source, Failures(ledger))' = Within(Source, Failures(ledger))
      BY <2>1, <2>2, <2>3 DEF Grounded, Within
    <3>2. Unsettled(pc, job)' = Unsettled(pc, job)
      BY <2>3 DEF Unsettled
    <3> QED BY <1>1, <2>1, <2>3, <3>1, <3>2 DEF LimitedAt, Rotating
  <2> QED BY <2>1, <2>2, <2>4 DEF Clean
<1>5. CASE BumpEpoch
  <2>1. /\ Exact' /\ (\A s \in Side : GensFollow(pair[s]))'
        /\ (ledger = NoLedger => policy = StrictPolicy(0))' /\ (canary # {} => LiveSides(pair) # {})'
    BY <1>1, <1>5, TickClean, LogNames DEF BumpEpoch
  <2>2. pc' = "destroy"
    BY <1>5 DEF BumpEpoch, Goto
  <2>3. LimitedAt(pc, job)' /\ Told(pc)'
    BY <2>2 DEF LimitedAt, Unsettled, Rotating, Scanning, Told
  <2> QED BY <2>1, <2>3 DEF Clean
<1> QED BY <1>2, <1>3, <1>4, <1>5

\* One cell of another log is committed: what is read of the side is x, then y.
LEMMA CellClean ==
  ASSUME CInv, ledger # NoLedger, NEW y, pair' = [pair EXCEPT ![ledger.side] = y],
         y \in Sector, y.kind = "live", GensFollow(y), ledger' = ReadOf(ledger.side, y),
         canary' = canary
  PROVE  /\ Exact' /\ (\A s \in Side : GensFollow(pair[s]))'
         /\ (ledger = NoLedger => policy = StrictPolicy(0))'
         /\ (canary # {} => LiveSides(pair) # {})'
         /\ ledger' # NoLedger /\ Source' = y
<1>1. pair \in [Side -> Sector] /\ ledger.side \in Side
  BY Typed, StateTyped DEF CInv, TypeOK
<1>2. /\ pair'[ledger.side] = y /\ \A t \in Side : t # ledger.side => pair'[t] = pair[t]
  BY <1>1
<1>3. ledger'.side = ledger.side /\ ledger' # NoLedger
  <2>1. ledger'.side = ledger.side
    BY DEF ReadOf
  <2> QED BY <1>1, <2>1, SideNames DEF NoLedger
<1>4. Source' = y
  BY <1>2, <1>3 DEF Source
<1>5. (\A s \in Side : GensFollow(pair[s]))'
  BY <1>2 DEF CInv, Clean
<1>6. Exact'
  BY <1>3, <1>4 DEF Exact
<1>7. ledger.side \in LiveSides(pair')
  BY <1>1, <1>2 DEF LiveSides
<1> QED BY <1>3, <1>4, <1>5, <1>6, <1>7

LEMMA CommitGenClean == ASSUME CInv, CommitGen PROVE Clean'
<1> DEFINE s == ledger.side
           x == Source
           c == NewGen
           y == GenAdded(Source, NewGen)
<1>1. /\ pc = "gen" /\ ledger # NoLedger /\ LimitedAt(pc, job) /\ job \in Job
      /\ UNCHANGED <<canary, policy, state>>
  BY Typed DEF CInv, Clean, CommitGen, Flow, OnLedger
<1>2. /\ x \in Sector /\ x.kind = "live" /\ CellsInOrder(x) /\ GensFollow(x)
      /\ s \in Side /\ ledger = ReadOf(s, x) /\ ledger \in LedgerState
      /\ ledger.gens = ScanGens(x) /\ ledger.genNext = ScanGenNext(x)
  BY <1>1, ExactFacts
<1>3. c \in GenCell /\ c.ok /\ c.gen = ScanGenNext(x) /\ c.id = job.id /\ c.gen = job.gen
  BY <1>1, <1>2 DEF NewGen, GenCell, Job, LimitedAt
<1>4. /\ y \in Sector /\ y.kind = "live" /\ y.head = x.head
      /\ y.ticks = x.ticks /\ y.policies = x.policies
      /\ FailsOf(y) = FailsOf(x) /\ ScanPolicy(y) = ScanPolicy(x)
  BY <1>2, <1>3, GenAddedFacts
<1>5. ScanGens(y) = [ScanGens(x) EXCEPT ![c.id] = c.gen]
  BY <1>2, <1>3, GenAppended
<1>6. ScanGenNext(y) = c.gen + 1 /\ GensFollow(y)
  BY <1>2, <1>3, NextCommitted
<1>7. pair' = [pair EXCEPT ![s] = y]
  BY <1>2, CellsWritten DEF CommitGen
<1>8. /\ ledger' \in LedgerState /\ ledger'.side = s /\ ledger'.head = x.head
      /\ ledger'.len = ledger.len /\ ledger'.policyUsed = ledger.policyUsed
      /\ ledger'.gens = [ledger.gens EXCEPT ![job.id] = job.gen]
      /\ ledger'.genNext = job.gen + 1
  <2>1. ledger' = [ledger EXCEPT !.gens = [ledger.gens EXCEPT ![job.id] = job.gen],
                     !.genNext = IF job.gen < ledger.genNext THEN ledger.genNext ELSE job.gen + 1]
    BY DEF CommitGen
  <2>2. ~(job.gen < ledger.genNext) /\ job.gen \in Nat /\ job.id \in Identity
    BY <1>1, <1>2, <1>3 DEF Job
  <2>3. ledger.gens \in [Identity -> Nat]
    BY <1>2 DEF LedgerState
  <2>4. [ledger.gens EXCEPT ![job.id] = job.gen] \in [Identity -> Nat] /\ job.gen + 1 \in Nat
    BY <2>2, <2>3
  <2>5. ledger' = [ledger EXCEPT !.gens = [ledger.gens EXCEPT ![job.id] = job.gen],
                     !.genNext = job.gen + 1]
    BY <2>1, <2>2
  <2>6. ledger.head = x.head
    BY <1>1, ExactFacts
  <2> QED BY <1>2, <2>4, <2>5, <2>6 DEF LedgerState
<1>9. ledger.len = TickLens(x.ticks) /\ ledger.policyUsed = Len(x.policies)
  BY <1>2 DEF ReadOf
<1>10. GensFollow(y) /\ pc' = "scan" /\ job' = job
  BY <1>6 DEF CommitGen, Goto
<1> HIDE DEF x, y, c
<1>11. ledger' = ReadOf(s, y)
  <2>1. ledger'.gens = ScanGens(y) /\ ledger'.genNext = ScanGenNext(y)
    BY <1>2, <1>3, <1>5, <1>6, <1>8
  <2>2. ledger'.len = TickLens(y.ticks) /\ ledger'.policyUsed = Len(y.policies) /\ ledger'.head = y.head
    BY <1>4, <1>8, <1>9
  <2>3. ledger' = [side |-> ledger'.side, head |-> ledger'.head, len |-> ledger'.len,
                   gens |-> ledger'.gens, genNext |-> ledger'.genNext,
                   policyUsed |-> ledger'.policyUsed]
    BY <1>8 DEF LedgerState
  <2> QED BY <1>8, <2>1, <2>2, <2>3 DEF ReadOf
<1>12. /\ Exact' /\ (\A t \in Side : GensFollow(pair[t]))'
       /\ (ledger = NoLedger => policy = StrictPolicy(0))'
       /\ (canary # {} => LiveSides(pair) # {})'
       /\ ledger' # NoLedger /\ Source' = y
  BY <1>1, <1>4, <1>7, <1>10, <1>11, CellClean
<1>13. LimitedAt(pc, job)'
  <2>1. Within(Source, Failures(ledger))
    BY <1>1 DEF LimitedAt, Grounded, Unsettled, Rotating, Scanning
  <2>2. Failures(ledger)' = Failures(ledger)
    <3>1. ledger.head = x.head
      BY <1>1, ExactFacts DEF x
    <3> QED BY <1>1, <1>8, <1>12, <3>1 DEF Failures
  <2>3. Within(Source, Failures(ledger))'
    <3>1. ScanPolicy(Source)' = ScanPolicy(y) /\ ScanPolicy(x) = ScanPolicy(Source)
      BY <1>12 DEF ScanPolicy, x
    <3> QED BY <1>4, <2>1, <2>2, <3>1 DEF Within
  <2> QED BY <1>10, <1>12, <2>3 DEF LimitedAt, Rotating
<1>14. Told(pc)'
  BY <1>10 DEF Told
<1> QED BY <1>12, <1>13, <1>14 DEF Clean

LEMMA UsedReread ==
  ASSUME NEW s, NEW h, NEW n, NEW g, NEW m, NEW u, NEW k
  PROVE  [[side |-> s, head |-> h, len |-> n, gens |-> g, genNext |-> m, policyUsed |-> u]
            EXCEPT !.policyUsed = k]
         = [side |-> s, head |-> h, len |-> n, gens |-> g, genNext |-> m, policyUsed |-> k]
OBVIOUS

LEMMA CommitPolicyClean == ASSUME CInv, CommitPolicy PROVE Clean'
<1> DEFINE s == ledger.side
           x == Source
           c == NewPolicy
           y == PolicyAdded(Source, NewPolicy)
<1>1. /\ pc = "policy" /\ ledger # NoLedger /\ LimitedAt(pc, job) /\ Told(pc) /\ job \in Job
      /\ UNCHANGED <<canary, state>> /\ policy' = job.want
  BY Typed DEF CInv, Clean, CommitPolicy, Flow, OnLedger
<1>2. /\ x \in Sector /\ x.kind = "live" /\ CellsInOrder(x) /\ GensFollow(x)
      /\ s \in Side /\ ledger = ReadOf(s, x) /\ ledger \in LedgerState /\ ledger.head = x.head
  BY <1>1, ExactFacts
<1>3. /\ c \in PolicyCell /\ c.ok /\ c.policy = job.want
      /\ c.policy.gen = ScanPolicy(x).gen + 1
  <2>1. job.want.gen = policy.gen + 1
    BY <1>1 DEF CInv, IInv, Agreed, AgreedAt
  <2>2. policy = ScanPolicy(x)
    BY <1>1, PolicyIsSource DEF Scanning
  <2> QED BY <1>1, <2>1, <2>2 DEF NewPolicy, PolicyCell, Job
<1>4. /\ y \in Sector /\ y.kind = "live" /\ y.head = x.head /\ y.ticks = x.ticks
      /\ ScanPolicy(y) = job.want
  BY <1>2, <1>3, PolicyAddedFacts
<1>5. y.gens = x.gens /\ y.policies = Append(x.policies, c)
  BY <1>2, <1>3, PoliciesReplaced
<1>6. /\ ScanGens(y) = ScanGens(x) /\ ScanGenNext(y) = ScanGenNext(x) /\ GensFollow(y)
  BY <1>2, <1>4, <1>5, SameGens
<1>7. pair' = [pair EXCEPT ![s] = y]
  BY <1>2, CellsWritten DEF CommitPolicy
<1>8. Len(y.policies) = Len(x.policies) + 1
  BY <1>2, <1>3, PolicyAddedFacts
<1>9. ledger' = [ledger EXCEPT !.policyUsed = Len(x.policies) + 1]
  BY <1>2 DEF CommitPolicy
<1> HIDE DEF x, y, c
<1>10. ledger' = ReadOf(s, y)
  <2>1. ledger' = [side |-> s, head |-> x.head, len |-> TickLens(x.ticks), gens |-> ScanGens(x),
                   genNext |-> ScanGenNext(x), policyUsed |-> Len(x.policies) + 1]
    <3>1. \A k : [[side |-> s, head |-> x.head, len |-> TickLens(x.ticks), gens |-> ScanGens(x),
                  genNext |-> ScanGenNext(x), policyUsed |-> Len(x.policies)] EXCEPT !.policyUsed = k] =
                  [side |-> s, head |-> x.head, len |-> TickLens(x.ticks), gens |-> ScanGens(x),
                   genNext |-> ScanGenNext(x), policyUsed |-> k]
      BY UsedReread
    <3>2. ledger = [side |-> s, head |-> x.head, len |-> TickLens(x.ticks), gens |-> ScanGens(x),
                  genNext |-> ScanGenNext(x), policyUsed |-> Len(x.policies)]
      BY <1>2 DEF ReadOf
    <3> QED BY <1>9, <3>1, <3>2
  <2> QED BY <1>4, <1>6, <1>8, <2>1 DEF ReadOf
<1>11. /\ Exact' /\ (\A t \in Side : GensFollow(pair[t]))'
       /\ (ledger = NoLedger => policy = StrictPolicy(0))'
       /\ (canary # {} => LiveSides(pair) # {})'
       /\ ledger' # NoLedger /\ Source' = y
  BY <1>1, <1>4, <1>6, <1>7, <1>10, CellClean
<1>12. /\ ledger'.head = ledger.head /\ ledger'.gens = ledger.gens /\ ledger'.len = ledger.len
  BY <1>2, <1>9 DEF LedgerState
<1>13. WipeEpoch(ledger)' = WipeEpoch(ledger) /\ Failures(ledger)' = Failures(ledger)
  BY <1>1, <1>11, <1>12 DEF WipeEpoch, Failures
<1>14. Told(pc)'
  BY <1>1, <1>11, <1>12, <1>13, ToldStill
<1>15. LimitedAt(pc, job)'
  <2>1. pc' = "seal" /\ job'.sealed = "scan"
    BY DEF CommitPolicy, Goto, Sealing, NoJob
  <2>2. job.want.after = 0 \/ Failures(ledger) < job.want.after
    BY <1>1 DEF LimitedAt
  <2>3. Within(Source, Failures(ledger))'
    <3>1. ScanPolicy(Source)' = ScanPolicy(y)
      BY <1>11 DEF ScanPolicy
    <3> QED BY <1>4, <1>13, <2>2, <3>1 DEF Within
  <2> QED BY <2>1, <2>3 DEF LimitedAt, Rotating, Scanning
<1> QED BY <1>11, <1>14, <1>15 DEF Clean

\* Taking over what was scanned, of a pair whose other side is blank.
LEMMA AdoptClean ==
  ASSUME CInv, pc \in Scanning, Adopt, pair' \in [Side -> Sector],
         \A s \in Side : pair'[s] = pair[s] \/ pair'[s] = Blank,
         LiveSides(pair) = {} => LiveSides(pair') = {},
         LiveSides(pair) # {} => /\ LiveSides(pair') # {} /\ Elected(pair') = Elected(pair)
                                 /\ pair'[Elected(pair)] = pair[Elected(pair)],
         Ordered(pair')
  PROVE  Clean'
<1>1. /\ LimitedAt(pc, job) /\ job \in Job /\ Flow(pc, job) /\ canary' = canary
      /\ ledger' = Scanned(pair') /\ policy' = ScannedPolicy(pair') /\ state' = Classified(ledger')
  BY Typed DEF CInv, Clean, Adopt
<1>2. (ledger' = NoLedger <=> LiveSides(pair') = {})
  BY <1>1, ScanReturns DEF Scanned, Ordered
<1>3. \A s \in Side : GensFollow(pair'[s])
  <2>1. \A s \in Side : GensFollow(pair[s])
    BY DEF CInv, Clean
  <2> QED BY <2>1 DEF GensFollow, Blank
<1>4. Exact'
  <2>1. CASE ledger' # NoLedger
    <3>1. ledger' = ReadOf(Elected(pair'), pair'[Elected(pair')])
      BY <1>1, <1>2, <2>1, ScannedIsRead
    <3>2. ledger'.side = Elected(pair')
      BY <3>1 DEF ReadOf
    <3> QED BY <3>1, <3>2 DEF Exact, Source
  <2>2. CASE ledger' = NoLedger
    BY <2>2 DEF Exact
  <2> QED BY <2>1, <2>2
<1>5. ledger' = NoLedger => policy' = StrictPolicy(0)
  BY <1>1, <1>2 DEF ScannedPolicy
<1>6. canary' # {} => LiveSides(pair') # {}
  BY <1>1 DEF CInv, Clean
<1>7. Told(pc)'
  <2>1. Classified(ledger)' = Classified(ledger')
    BY <1>1 DEF Classified, Formatted
  <2> QED BY <1>1, <2>1 DEF Told
<1>8. /\ pc' \in {"ready", "mounted", "seal", "fill", "due", "session", "mirror"}
      /\ \/ pc' = "ready" /\ job' = NoJob
         \/ pc' = job.scanned /\ pc' # "ready" /\ job' = job
  BY <1>1 DEF Adopt, Goto, Flow
<1>9. CASE ledger = NoLedger
  <2>1. pc' = "mounted" \/ ledger' = NoLedger
    <3>1. CASE LiveSides(pair) = {}
      BY <1>2, <3>1
    <3>2. CASE LiveSides(pair) # {}
      <4>1. job.scanned = "mounted"
        BY <1>1, <1>9, <3>2 DEF LimitedAt
      <4> QED BY <4>1 DEF Adopt, Goto
    <3> QED BY <3>1, <3>2
  <2>2. LimitedAt(pc, job)'
    BY <1>1, <1>8, <2>1, NoJobFacts DEF LimitedAt, Unsettled, Rotating, Scanning, Flow
  <2> QED BY <1>3, <1>4, <1>5, <1>6, <1>7, <2>2 DEF Clean
<1>10. CASE ledger # NoLedger
  <2>1. LiveSides(pair) = {ledger.side} /\ Elected(pair) = ledger.side
    BY <1>10, FlashIsSource DEF CInv, Scanning
  <2>2. pair'[ledger.side] = Source /\ ledger' # NoLedger /\ Elected(pair') = ledger.side
    BY <1>2, <2>1 DEF Source
  <2>3. ledger' = ledger
    <3>1. ledger' = ReadOf(ledger.side, Source)
      BY <1>1, <1>2, <2>2, ScannedIsRead
    <3>2. ledger = ReadOf(ledger.side, Source)
      BY <1>10, ExactFacts
    <3> QED BY <3>1, <3>2
  <2>4. Source' = Source
    BY <2>2, <2>3 DEF Source
  <2>5. /\ Within(Source, Failures(ledger))' = Within(Source, Failures(ledger))
        /\ Formatted(ledger)' = Formatted(ledger)
    BY <1>1, <2>3, <2>4 DEF Within, ScanPolicy, Failures, Formatted, WipeEpoch
  <2>6. LimitedAt(pc, job)'
    <3>1. CASE pc' = "mounted"
      BY <1>8, <3>1, NoJobFacts DEF LimitedAt, Unsettled, Rotating, Scanning
    <3>2. CASE pc' = "ready" /\ job' = NoJob
      <4>1. /\ Grounded("ready", NoJob) => Grounded(pc, job)
        BY GroundedReady
      <4>2. Grounded(pc, job)' => Grounded("ready", NoJob)
        BY <2>5, <3>2, NoJobFacts DEF Grounded
      <4>3. CASE job.scanned = "mounted"
        <5>1. ledger' # NoLedger
          BY <2>2
        <5> QED BY <3>2, <4>3, <5>1 DEF Adopt, Goto
      <4>4. CASE job.scanned # "mounted"
        <5>1. ~Unsettled(pc, job)
          BY <4>4 DEF Unsettled, Rotating, Scanning
        <5>2. Grounded(pc, job)' => Within(Source, Failures(ledger))
          BY <1>1, <1>10, <4>1, <4>2, <5>1 DEF LimitedAt
        <5> QED BY <2>2, <2>5, <3>2, <5>2, NoJobFacts DEF LimitedAt, Rotating, Scanning
      <4> QED BY <4>3, <4>4
    <3>3. CASE pc' \notin {"mounted", "ready"}
      <4>1. pc' = job.scanned /\ job' = job
        BY <1>8, <3>3
      <4>2. ~Unsettled(pc, job)
        BY <3>3, <4>1 DEF Unsettled, Rotating, Scanning
      <4>3. Grounded(pc, job)' => Grounded(pc, job)
        BY <1>8, <2>5, <4>1 DEF Grounded, Rotating, Scanning
      <4>4. Grounded(pc, job)' => Within(Source, Failures(ledger))'
        BY <1>1, <1>10, <2>5, <4>2, <4>3 DEF LimitedAt
      <4>5. ~(job'.sealed = "gen" /\ pc' = "seal")
        BY <1>1, <4>1 DEF Flow
      <4> QED BY <1>8, <2>2, <3>3, <4>4, <4>5 DEF LimitedAt, Rotating, Scanning
    <3> QED BY <1>8, <3>1, <3>2, <3>3
  <2> QED BY <1>3, <1>4, <1>5, <1>6, <1>7, <2>6 DEF Clean
<1> QED BY <1>9, <1>10

LEMMA ScanClean == ASSUME CInv, Scan \/ Tidy PROVE Clean'
<1>1. /\ pair \in [Side -> Sector] /\ Ordered(pair) /\ ElectionDecided /\ pc \in Scanning /\ Adopt
      /\ Flow(pc, job)
  BY Typed DEF CInv, IInv, Base, TypeOK, Scan, Tidy, Scanning
<1>2. CASE Scan
  <2>1. pair' = pair
    BY <1>2 DEF Scan
  <2> QED BY <1>1, <2>1, AdoptClean
<1>3. CASE Tidy
  <2>1. /\ pair' = [pair EXCEPT ![Other(Elected(pair))] = Blank] /\ LiveSides(pair) # {}
    BY <1>1, <1>3 DEF Tidy, Flow
  <2>2. Elected(pair) \in LiveSides(pair) /\ Counted(pair)
    BY <1>1, <2>1, SectorsCounted, ElectedIsLive
  <2>3. Elected(pair) \in Side /\ Other(Elected(pair)) \in Side
    BY <2>2, TwoSides DEF LiveSides
  <2>4. pair' \in ErasedOrTorn(pair, Other(Elected(pair)))
    BY <2>1 DEF ErasedOrTorn
  <2>5. LiveSides(pair') # {} /\ Elected(pair') = Elected(pair) /\ pair'[Elected(pair)] = pair[Elected(pair)]
    BY <1>1, <2>1, <2>2, <2>4, LoserIsErased
  <2>6. /\ pair' \in [Side -> Sector] /\ \A s \in Side : pair'[s] = pair[s] \/ pair'[s] = Blank
    BY <1>1, <2>1, <2>3, NotLive
  <2>7. Ordered(pair')
    BY <1>1, <2>6, NotLive DEF Ordered
  <2> QED BY <1>1, <2>1, <2>5, <2>6, <2>7, AdoptClean
<1> QED BY <1>2, <1>3

\* A new sector is read as RAM takes it over.
LEMMA NewIsRead ==
  ASSUME NEW s \in Side, NEW h \in LedgerHead
  PROVE  NewState(s, h, ScanGenNext(NewSector(h))) = ReadOf(s, NewSector(h))
<1>1. /\ NewSector(h) \in Sector /\ NewSector(h).kind = "live" /\ CellsInOrder(NewSector(h))
      /\ \A f \in TickLog : NewSector(h).ticks[f] = <<>>
      /\ NewSector(h).policies = <<>> /\ NewSector(h).head = h
  BY NewSectorFacts
<1>2. TickLens(NewSector(h).ticks) = [f \in TickLog |-> 0]
  <2>1. /\ TickLens(NewSector(h).ticks) \in [TickLog -> Nat]
        /\ \A f \in TickLog \ {"success"} : TickLens(NewSector(h).ticks)[f] = Len(NewSector(h).ticks[f])
        /\ TickLens(NewSector(h).ticks)["success"] <= TickLens(NewSector(h).ticks)["entry"]
    BY <1>1, LensRead
  <2>2. \A f \in TickLog : TickLens(NewSector(h).ticks)[f] = 0
    BY <1>1, <2>1, LogNames
  <2> QED BY <2>1, <2>2
<1>3. ScanGens(NewSector(h)) = h.gens
  BY NewSectorGens
<1>4. Len(<<>>) = 0
  OBVIOUS
<1> QED BY <1>1, <1>2, <1>3, <1>4 DEF NewState, ReadOf

LEMMA CreateClean ==
  ASSUME CInv, Erase("A", "createA", "createB") \/ Erase("B", "createB", "createHead")
                 \/ CreateHead \/ CreateMac
  PROVE  Clean'
<1>1. /\ pc \in Creating /\ ledger = NoLedger /\ Told(pc) /\ LimitedAt(pc, job)
      /\ pair \in [Side -> Sector] /\ job' = job /\ UNCHANGED <<canary, state, policy>>
  BY Typed DEF CInv, Clean, Flow, Creating, Erase, CreateHead, CreateMac, Goto, ram, TypeOK
<1>2. LiveSides(pair) = {} /\ canary = {}
  BY <1>1 DEF CInv, IInv, Agreed, AgreedAt, Clean, Creating, Scanning
<1>3. CASE Erase("A", "createA", "createB") \/ Erase("B", "createB", "createHead") \/ CreateHead
  <2>1. PICK s \in Side, x \in {Blank, Garbage} : pair' = [pair EXCEPT ![s] = x]
    BY <1>3, SideNames DEF Erase, CreateHead
  <2>2. UNCHANGED ledger /\ pc' \in Creating
    BY <1>3 DEF Erase, CreateHead, Goto, ram, Creating
  <2>3. \A t \in Side : GensFollow(pair'[t])
    <3>1. \A t \in Side : pair'[t] = pair[t] \/ pair'[t] \in {Blank, Garbage}
      BY <1>1, <2>1
    <3> QED BY <3>1, NotLive DEF CInv, Clean, GensFollow
  <2>4. Exact' /\ Told(pc)'
    <3>1. Told(pc)'
      BY <1>1, <2>2 DEF Told, Creating, Classified, Formatted
    <3> QED BY <1>1, <2>2, <3>1 DEF Exact
  <2>5. LimitedAt(pc, job)'
    BY <1>1, <2>2 DEF LimitedAt, Rotating, Creating, Scanning
  <2>6. policy = StrictPolicy(0)
    BY <1>1 DEF CInv, Clean
  <2> QED BY <1>1, <1>2, <2>3, <2>4, <2>5, <2>6 DEF Clean
<1>4. CASE CreateMac
  <2>1. /\ pc' = "scan" /\ pair' = [pair EXCEPT !["A"] = NewSector(FirstHead)]
        /\ ledger' = NewState("A", FirstHead, 1)
    BY <1>4 DEF CreateMac, Goto
  <2>2. /\ ScanGens(NewSector(FirstHead)) = FirstHead.gens /\ GensFollow(NewSector(FirstHead))
        /\ NewSector(FirstHead).kind = "live"
    BY FirstHeadTyped, NewSectorGens, NewSectorFacts
  <2>3. ScanGenNext(NewSector(FirstHead)) = 1
    <3>1. \A i \in Identity : FirstHead.gens[i] = 0
      BY DEF FirstHead
    <3> QED BY <2>2, <3>1 DEF GensFollow
  <2>4. ledger' = ReadOf("A", NewSector(FirstHead))
    BY <2>1, <2>3, NewIsRead, FirstHeadTyped, SideNames
  <2>5. /\ ledger' # NoLedger /\ ledger'.side = "A" /\ ledger'.head = FirstHead
        /\ \A f \in TickLog : ledger'.len[f] = 0
    BY <2>1, NewStateFacts, FirstHeadTyped, SideNames
  <2>6. pair'["A"] = NewSector(FirstHead) /\ pair'["B"] = pair["B"]
    BY <1>1, <2>1, SideNames
  <2>7. Exact' /\ Source' = NewSector(FirstHead)
    BY <2>4, <2>5, <2>6 DEF Exact, Source
  <2>8. \A t \in Side : GensFollow(pair'[t])
    BY <2>2, <2>6 DEF CInv, Clean, Side
  <2>9. Within(Source, Failures(ledger))'
    <3>1. ScanPolicy(NewSector(FirstHead)) = StrictPolicy(0)
      BY FirstHeadTyped, NewSectorFacts DEF FirstHead
    <3>2. Failures(ledger)' = 0
      BY <2>5, LogNames DEF Failures, FirstHead
    <3>3. ScanPolicy(Source)' = ScanPolicy(NewSector(FirstHead))
      BY <2>7 DEF ScanPolicy
    <3>4. FormatAfter \in Nat \ {0} /\ StrictPolicy(0).after = FormatAfter
      BY DEF StrictPolicy
    <3> QED BY <3>1, <3>2, <3>3, <3>4 DEF Within
  <2>10. LimitedAt(pc, job)' /\ Told(pc)'
    BY <2>1, <2>5, <2>9 DEF LimitedAt, Rotating, Told
  <2> QED BY <1>1, <1>2, <2>5, <2>7, <2>8, <2>10 DEF Clean
<1> QED BY <1>3, <1>4

\* A rotation before its new head: the target has none.
LEMMA TargetClean ==
  ASSUME CInv, pc \in {"erase", "head", "mac"}, NEW x \in Sector, GensFollow(x),
         pair' = [pair EXCEPT ![Target] = x], LiveSides(pair') # {},
         pc' \in Rotating, job' = job, UNCHANGED <<canary, ledger, policy, state>>
  PROVE  Clean'
<1>1. /\ ledger # NoLedger /\ LimitedAt(pc, job) /\ Told(pc) /\ pair \in [Side -> Sector]
  BY Typed DEF CInv, Clean, Flow, OnLedger, Rotating, TypeOK
<1>2. ledger.side \in Side /\ Target \in Side /\ Target # ledger.side
  BY <1>1, StateTyped, Typed DEF CInv
<1>3. Source' = Source /\ \A s \in Side : pair'[s] = pair[s] \/ pair'[s] = x
  BY <1>1, <1>2 DEF Source
<1>4. Exact' /\ (\A s \in Side : GensFollow(pair[s]))'
  BY <1>3 DEF CInv, Clean, Exact
<1>5. Told(pc)'
  BY <1>1 DEF Told, Rotating, Classified, Formatted, WipeEpoch
<1>6. LimitedAt(pc, job)'
  <2>1. /\ Within(Source, Failures(ledger))' = Within(Source, Failures(ledger))
        /\ Formatted(ledger)' = Formatted(ledger) /\ Failures(ledger)' = Failures(ledger)
        /\ ScanPolicy(Source)' = ScanPolicy(Source)
    BY <1>3 DEF Within, ScanPolicy, Failures, Formatted, WipeEpoch
  <2>2. Grounded(pc, job)' = Grounded(pc, job)
    BY <2>1 DEF Grounded, Rotating
  <2>3. Unsettled(pc, job)' = Unsettled(pc, job) /\ Formats(job)' = Formats(job)
    BY DEF Unsettled, Formats, Rotating, Scanning
  <2>4. ledger' = ledger /\ pc \in Rotating /\ pc' \in Rotating
    BY DEF Rotating
  <2> QED BY <1>1, <2>1, <2>2, <2>3, <2>4 DEF LimitedAt, Rotating, Scanning
<1> QED BY <1>4, <1>5, <1>6 DEF CInv, Clean

\* The head a rotation writes is read as what it replaces, but for the failures it may
\* forget and the policy a format installs.
LEMMA NextHeadRead ==
  ASSUME CInv, pc \in Rotating
  PROVE  LET x == NewSector(NextHead)
         IN /\ ledger # NoLedger /\ NextHead \in LedgerHead
            /\ x \in Sector /\ x.kind = "live" /\ CellsInOrder(x) /\ GensFollow(x)
            /\ ScanGens(x) = ledger.gens /\ ScanGenNext(x) = ledger.genNext
            /\ EpochOf(x) = WipeEpoch(ledger) /\ MarkOf(x) = SeqCarried
            /\ FailsOf(x) = job.carry /\ ScanPolicy(x) = job.install
            /\ NextHead = HeadFor(job)
<1>1. /\ ledger # NoLedger /\ TypeOK /\ job.carry \in Nat
  BY Typed DEF CInv, Flow, OnLedger
<1>2. /\ NextHead \in LedgerHead /\ NextHead = HeadFor(job)
      /\ NextHead.seq = SeqCarried /\ NextHead.fails = job.carry /\ NextHead.policy = job.install
      /\ NextHead.gens = ledger.gens /\ NextHead.epoch = WipeEpoch(ledger)
  BY <1>1, NextHeadTyped DEF NextHead, HeadFor, HeadOf
<1> DEFINE x == NewSector(NextHead)
<1>3. /\ x \in Sector /\ x.kind = "live" /\ CellsInOrder(x) /\ x.head = NextHead
      /\ \A f \in TickLog : x.ticks[f] = <<>>
      /\ ScanPolicy(x) = NextHead.policy
  BY <1>2, NewSectorFacts
<1>4. ScanGens(x) = ledger.gens /\ GensFollow(x)
  BY <1>2, NewSectorGens
<1> HIDE DEF x
<1>5. ScanGenNext(x) = ledger.genNext
  <2>1. /\ Source \in Sector /\ Source.kind = "live" /\ GensFollow(Source)
        /\ ledger.gens = ScanGens(Source) /\ ledger.genNext = ScanGenNext(Source)
    BY <1>1, ExactFacts
  <2> QED BY <1>3, <1>4, <2>1, SameNext
<1>6. EpochOf(x) = WipeEpoch(ledger) /\ MarkOf(x) = SeqCarried /\ FailsOf(x) = job.carry
  <2>1. WipeEpoch(ledger) \in Nat /\ SeqCarried \in Nat
    BY <1>1, CountsTyped
  <2>2. Len(x.ticks["epoch"]) = 0 /\ Len(x.ticks["seq"]) = 0 /\ Len(x.ticks["entry"]) = 0
        /\ Len(x.ticks["success"]) = 0
    BY <1>3, LogNames
  <2>3. SuccessLen(x.ticks["success"]) = 0
    BY <1>3, <2>2, SectorNumbers
  <2> QED BY <1>1, <1>2, <1>3, <2>1, <2>2, <2>3 DEF EpochOf, MarkOf, FailsOf
<1> QED BY <1>1, <1>2, <1>3, <1>4, <1>5, <1>6 DEF x

\* The policy and the failures a rotation installs leave room where there was some.
LEMMA CarriedWithin ==
  ASSUME CInv, pc \in Rotating,
         Formats(job) \/ Within(Source, Failures(ledger))
  PROVE  job.install.after = 0 \/ job.carry < job.install.after
<1>1. ledger # NoLedger /\ LimitedAt(pc, job) /\ job.install \in Policy /\ Failures(ledger) \in Nat
  BY Typed DEF CInv, Clean, Flow, OnLedger, Job
<1>2. job.carry \in {0, Failures(ledger)} /\ job.install.after \in Nat
  BY <1>1 DEF LimitedAt, Policy
<1>3. CASE Formats(job)
  <2>1. job.carry = 0
    BY <1>1, <1>3 DEF LimitedAt
  <2> QED BY <1>2, <2>1
<1>4. CASE ~Formats(job)
  <2>1. job.install = policy
    BY <1>4 DEF CInv, IInv, Agreed, AgreedAt
  <2>2. policy = ScanPolicy(Source)
    BY <1>1, PolicyIsSource DEF Rotating, Scanning
  <2>3. job.install.after = 0 \/ Failures(ledger) < job.install.after
    BY <1>4, <2>1, <2>2 DEF Within
  <2> QED BY <1>1, <1>2, <2>3
<1> QED BY <1>3, <1>4

LEMMA RotationClean ==
  ASSUME CInv, RotateErase \/ RotateHead \/ RotateMac
  PROVE  Clean'
<1>1. /\ ledger # NoLedger /\ pair \in [Side -> Sector] /\ UNCHANGED <<canary, ledger, policy, state>>
      /\ pc \in {"erase", "head", "mac"} /\ pc' \in Rotating /\ job' = job
  BY Typed DEF CInv, Flow, OnLedger, Rotating, TypeOK, RotateErase, RotateHead, RotateMac, Goto, ram
<1>2. /\ LiveSides(pair) = {ledger.side} /\ ledger.side \in Side /\ Target \in Side
      /\ Target # ledger.side
  BY <1>1, FlashIsSource, StateTyped, Typed DEF CInv
<1>3. PICK x \in Sector : GensFollow(x) /\ pair' = [pair EXCEPT ![Target] = x]
  <2>1. CASE RotateErase
    BY <2>1, NotLive DEF RotateErase, GensFollow
  <2>2. CASE RotateHead
    BY <2>2, NotLive DEF RotateHead, GensFollow
  <2>3. CASE RotateMac
    BY <1>1, <2>3, NextHeadRead DEF RotateMac, Rotating
  <2> QED BY <2>1, <2>2, <2>3
<1>4. LiveSides(pair') # {}
  BY <1>1, <1>2, <1>3 DEF LiveSides
<1> QED BY <1>1, <1>3, <1>4, TargetClean

LEMMA RetireClean == ASSUME CInv, RotateRetire PROVE Clean'
<1>1. /\ ledger # NoLedger /\ LimitedAt(pc, job) /\ Told(pc) /\ pair \in [Side -> Sector]
      /\ pc = "retire" /\ pc \in Rotating /\ job \in Job /\ Flow(pc, job)
      /\ UNCHANGED <<canary, policy, state>>
      /\ Failures(ledger) \in Nat /\ WipeEpoch(ledger) \in Nat
  BY Typed DEF CInv, Clean, Flow, OnLedger, Rotating, TypeOK, RotateRetire
<1>2. ledger.side \in Side /\ Target \in Side /\ Target # ledger.side
  BY <1>1, StateTyped, Typed DEF CInv
<1> DEFINE x == NewSector(NextHead)
<1>3. /\ NextHead \in LedgerHead /\ NextHead = HeadFor(job)
      /\ x \in Sector /\ x.kind = "live" /\ CellsInOrder(x) /\ GensFollow(x)
      /\ ScanGens(x) = ledger.gens /\ ScanGenNext(x) = ledger.genNext
      /\ EpochOf(x) = WipeEpoch(ledger) /\ FailsOf(x) = job.carry /\ ScanPolicy(x) = job.install
  BY <1>1, NextHeadRead
<1>4. ledger' = NewState(Target, NextHead, ScanGenNext(x))
  BY <1>3 DEF RotateRetire
<1>5. ledger' = ReadOf(Target, x)
  BY <1>2, <1>3, <1>4, NewIsRead
<1>6. pair[Target] = x
  BY <1>1, <1>3 DEF Flow
<1>7. pair' = [pair EXCEPT ![ledger.side] = Blank]
  BY DEF RotateRetire
<1> HIDE DEF x
<1>8. /\ ledger' # NoLedger /\ ledger'.side = Target /\ ledger'.gens = ledger.gens
      /\ ledger'.genNext = ledger.genNext
      /\ WipeEpoch(ledger)' = WipeEpoch(ledger) /\ Failures(ledger)' = job.carry
  <2>1. /\ ReadOf(Target, x) # NoLedger /\ ReadOf(Target, x).side = Target
        /\ ReadOf(Target, x).gens = ScanGens(x) /\ ReadOf(Target, x).genNext = ScanGenNext(x)
        /\ WipeEpoch(ReadOf(Target, x)) = EpochOf(x) /\ Failures(ReadOf(Target, x)) = FailsOf(x)
    BY <1>2, <1>3, ReadFacts
  <2>2. WipeEpoch(ledger)' = WipeEpoch(ledger') /\ Failures(ledger)' = Failures(ledger')
    BY DEF WipeEpoch, Failures
  <2> QED BY <1>3, <1>5, <2>1, <2>2
<1>9. /\ pair'[Target] = x /\ \A s \in Side : pair'[s] \in {x, Blank}
  BY <1>1, <1>2, <1>6, <1>7, StateTyped, Typed DEF CInv
<1>10. Source' = x
  BY <1>8, <1>9 DEF Source
<1>11. Exact' /\ (\A s \in Side : GensFollow(pair[s]))'
  <2>1. GensFollow(Blank)
    BY DEF GensFollow, Blank
  <2>2. (\A s \in Side : GensFollow(pair[s]))'
    BY <1>3, <1>9, <2>1
  <2> QED BY <1>5, <1>8, <1>10, <2>2 DEF Exact
<1>12. LiveSides(pair') # {}
  BY <1>2, <1>3, <1>9 DEF LiveSides
<1>13. /\ pc' \in {"ready", "scan", "epoch", "entry", "open", "seal", "policy"} /\ pc' = job.rotated
       /\ IF pc' = "ready" THEN job' = NoJob ELSE job' = job
  BY <1>1 DEF RotateRetire, Goto, Flow
<1>14. Told(pc)' /\ Formatted(ledger)' = Formatted(ledger)
  BY <1>1, <1>8, ToldStill
<1>15. LimitedAt(pc, job)'
  <2>1. Grounded(pc, job)' /\ ~Unsettled(pc, job)' => Within(Source, Failures(ledger))'
    <3>1. SUFFICES ASSUME Grounded(pc, job)', ~Unsettled(pc, job)'
                   PROVE  Within(Source, Failures(ledger))'
      OBVIOUS
    <3>2. Formats(job) \/ Within(Source, Failures(ledger))
      <4>1. ~Unsettled(pc, job)
        BY <1>1, <1>13, <3>1 DEF Unsettled, Scanning
      <4>2. Formats(job) \/ Grounded(pc, job)
        <5>1. CASE pc' = "ready"
          BY <1>13, <1>14, <3>1, <5>1, NoJobFacts DEF Grounded
        <5>2. CASE pc' # "ready"
          BY <1>13, <1>14, <3>1, <5>2 DEF Grounded, Formats
        <5> QED BY <5>1, <5>2
      <4> QED BY <1>1, <4>1, <4>2 DEF LimitedAt
    <3>3. job.install.after = 0 \/ job.carry < job.install.after
      BY <1>1, <3>2, CarriedWithin
    <3>4. ScanPolicy(Source)' = ScanPolicy(x)
      BY <1>10 DEF ScanPolicy
    <3> QED BY <1>3, <1>8, <3>3, <3>4 DEF Within
  <2>2. pc' = "policy" => job'.want.after \in Afters /\
                          (job'.want.after = 0 \/ Failures(ledger)' < job'.want.after)
    <3>1. SUFFICES ASSUME pc' = "policy"
                   PROVE  job'.want.after \in Afters /\
                          (job'.want.after = 0 \/ Failures(ledger)' < job'.want.after)
      OBVIOUS
    <3>2. job.want.after \in Afters /\ (job.want.after = 0 \/ Failures(ledger) < job.want.after)
      BY <1>1, <1>13, <3>1 DEF LimitedAt
    <3>3. job.carry \in {0, Failures(ledger)}
      BY <1>1 DEF LimitedAt
    <3>4. job.want.after \in Nat
      BY <3>2
    <3> QED BY <1>1, <1>8, <1>13, <3>1, <3>2, <3>3, <3>4
  <2>3. job'.sealed = "gen" /\ pc' = "seal" => job'.gen = ledger'.genNext
    BY <1>1, <1>8, <1>13 DEF LimitedAt
  <2> QED BY <1>8, <1>13, <2>1, <2>2, <2>3, NoJobFacts DEF LimitedAt, Rotating
<1> QED BY <1>1, <1>8, <1>11, <1>12, <1>14, <1>15 DEF Clean

-----------------------------------------------------------------------------
(***************************************************************************)
(* What a step that is cut may leave of the pair.  A step that completes   *)
(* leaves nothing else.                                                    *)
(***************************************************************************)

\* A side that is not elected has no head any more.
Dead ==
  \E s \in Side, x \in {Blank, Garbage} :
    pair' = [pair EXCEPT ![s] = x] /\ (LiveSides(pair) # {} => s # Elected(pair))

\* One cell of a log, good or torn.
CellOf(y) ==
  \/ \E f \in TickOf, c \in Tick : y = Ticked(Source, ledger, f, c)
  \/ pc = "gen" /\ \E c \in {TornGen, NewGen} : y = GenAdded(Source, c)
  \/ pc = "policy" /\ \E c \in {TornPolicy, NewPolicy} : y = PolicyAdded(Source, c)

CellPut ==
  /\ ledger # NoLedger /\ pc # "retire"
  /\ \E y : CellOf(y) /\ pair' = [pair EXCEPT ![ledger.side] = y]

HeadPut == pc = "mac" /\ pair' = [pair EXCEPT ![Target] = NewSector(NextHead)]

FirstPut ==
  pc = "createMac" /\ LiveSides(pair) = {} /\ pair' = [pair EXCEPT !["A"] = NewSector(FirstHead)]

\* While a head has just been written and the old side is not yet erased, the new one
\* is elected.
LEMMA RetireElects ==
  ASSUME CInv, pc = "retire"
  PROVE  /\ Elected(pair) = Target /\ pair[Target] = NewSector(NextHead) /\ Target # ledger.side
         /\ ledger # NoLedger /\ ledger.side \in Side /\ Target \in Side
<1>1. /\ ledger # NoLedger /\ pair \in [Side -> Sector] /\ TypeOK /\ pc \in Rotating
      /\ pair[Target] = NewSector(HeadFor(job))
  BY Typed DEF CInv, Flow, OnLedger, Rotating, TypeOK
<1>2. /\ NextHead \in LedgerHead /\ pair[Target] = NewSector(NextHead)
  BY <1>1, NextHeadRead
<1>3. /\ ledger.side \in Side /\ Target \in Side /\ Target # ledger.side
      /\ \A s \in Side : s = Target \/ s = ledger.side
  BY <1>1, StateTyped
<1>4. NextHead.ctr = ledger.head.ctr + 1 /\ ledger.head = Source.head /\ Source.head.ctr \in Nat
  BY <1>1, NextHeadTyped, ExactFacts, SectorNumbers
<1>5. NewSector(NextHead).kind = "live" /\ NewSector(NextHead).head = NextHead
  BY <1>2, NewSectorFacts
<1>6. /\ Target \in LiveSides(pair)
      /\ \A t \in LiveSides(pair) : t # Target => pair[t].head.ctr < pair[Target].head.ctr
  BY <1>2, <1>3, <1>4, <1>5 DEF LiveSides, Source
<1>7. Counted(pair)
  BY <1>1, SectorsCounted
<1> QED BY <1>1, <1>2, <1>3, <1>6, <1>7, GreaterIsElected

\* The side a step writes a head to, or erases, is not the one that is elected.
LEMMA WrittenIsFree ==
  ASSUME CInv
  PROVE  /\ pc \in {"erase", "head", "mac"} =>
              /\ Target \in Side /\ ledger # NoLedger /\ LiveSides(pair) = {ledger.side}
              /\ Elected(pair) = ledger.side /\ Target # Elected(pair)
              /\ ledger.side \in Side
         /\ pc = "retire" => ledger.side \in Side /\ ledger.side # Elected(pair)
         /\ pc = "tidy" => Other(Elected(pair)) \in Side /\ Other(Elected(pair)) # Elected(pair)
         /\ pc \in Creating => LiveSides(pair) = {}
<1>1. CASE pc \in {"erase", "head", "mac"}
  <2>1. ledger # NoLedger
    BY <1>1, Typed DEF CInv, Flow, OnLedger, Rotating
  <2> QED BY <1>1, <2>1, FlashIsSource, StateTyped, Typed DEF CInv, Creating
<1>2. CASE pc = "retire"
  BY <1>2, RetireElects DEF Creating
<1>3. CASE pc = "tidy"
  <2>1. LiveSides(pair) # {} /\ Counted(pair)
    BY <1>3, Typed, SectorsCounted DEF CInv, Flow, TypeOK
  <2>2. Elected(pair) \in Side
    BY <2>1, ElectedIsLive DEF LiveSides
  <2> QED BY <1>3, <2>2, TwoSides DEF Creating
<1>4. CASE pc \in Creating
  <2>1. ledger = NoLedger
    BY <1>4, Typed DEF CInv, Flow
  <2> QED BY <1>4, <2>1 DEF CInv, IInv, Agreed, AgreedAt, Creating, Scanning
<1> QED BY <1>1, <1>2, <1>3, <1>4

LEMMA ErasedIsDead ==
  ASSUME NEW s \in Side, LiveSides(pair) # {} => s # Elected(pair), pair \in [Side -> Sector],
         pair' \in ErasedOrTorn(pair, s) \cup HeadBodyOrTorn(pair, s)
                   \cup {[pair EXCEPT ![s] = Garbage]}
  PROVE  pair' = pair \/ Dead
<1>1. PICK x \in {pair[s], Blank, Garbage} : pair' = [pair EXCEPT ![s] = x]
  BY DEF ErasedOrTorn, HeadBodyOrTorn
<1>2. CASE x = pair[s]
  BY <1>1, <1>2
<1>3. CASE x \in {Blank, Garbage}
  BY <1>1, <1>3 DEF Dead
<1> QED BY <1>1, <1>2, <1>3

LEMMA TornOutcomes ==
  ASSUME CInv, Torn
  PROVE  pair' = pair \/ Dead \/ CellPut \/ HeadPut \/ FirstPut
<1>1. pair \in [Side -> Sector] /\ "A" \in Side /\ "B" \in Side
  BY Typed, SideNames DEF CInv, TypeOK
<1>2. CASE UNCHANGED pair
  BY <1>2
<1>3. CASE \E s \in Side :
             /\ LiveSides(pair) # {} => s # Elected(pair)
             /\ pair' \in ErasedOrTorn(pair, s) \cup HeadBodyOrTorn(pair, s)
                          \cup {[pair EXCEPT ![s] = Garbage]}
  BY <1>1, <1>3, ErasedIsDead
<1>4. CASE pc = "tidy" /\ pair' \in ErasedOrTorn(pair, Other(Elected(pair)))
  BY <1>3, <1>4, WrittenIsFree
<1>5. CASE \/ pc = "erase" /\ pair' \in ErasedOrTorn(pair, Target)
           \/ pc = "head" /\ pair' \in HeadBodyOrTorn(pair, Target)
  BY <1>3, <1>5, WrittenIsFree
<1>6. CASE pc = "retire" /\ pair' \in ErasedOrTorn(pair, ledger.side)
  BY <1>3, <1>6, WrittenIsFree
<1>7. CASE \/ pc = "createA" /\ pair' \in ErasedOrTorn(pair, "A")
           \/ pc = "createB" /\ pair' \in ErasedOrTorn(pair, "B")
           \/ pc = "createHead" /\ pair' \in HeadBodyOrTorn(pair, "A")
  BY <1>1, <1>3, <1>7, WrittenIsFree DEF Creating
<1>8. CASE pc = "mac" /\ pair' \in HeadMacOrTorn(pair, Target, NewSector(NextHead))
  <2>1. CASE pair' = [pair EXCEPT ![Target] = Garbage]
    BY <1>3, <1>8, <2>1, WrittenIsFree
  <2>2. CASE pair' = [pair EXCEPT ![Target] = NewSector(NextHead)]
    BY <1>8, <2>2 DEF HeadPut
  <2> QED BY <1>8, <2>1, <2>2 DEF HeadMacOrTorn
<1>9. CASE pc = "createMac" /\ pair' \in HeadMacOrTorn(pair, "A", NewSector(FirstHead))
  <2>1. LiveSides(pair) = {}
    BY <1>9, WrittenIsFree DEF Creating
  <2>2. CASE pair' = [pair EXCEPT !["A"] = Garbage]
    BY <1>1, <1>3, <2>1, <2>2
  <2>3. CASE pair' = [pair EXCEPT !["A"] = NewSector(FirstHead)]
    BY <1>9, <2>1, <2>3 DEF FirstPut
  <2> QED BY <1>9, <2>2, <2>3 DEF HeadMacOrTorn
<1>10. CASE pc = "gen" /\ pair' \in {WithGen(TornGen), WithGen(NewGen)}
  <2>1. ledger # NoLedger
    BY <1>10, Typed DEF CInv, Flow, OnLedger
  <2>2. Source.kind = "live"
    BY <2>1, ExactFacts
  <2>3. PICK c \in {TornGen, NewGen} : pair' = [pair EXCEPT ![ledger.side] = GenAdded(Source, c)]
    BY <1>10, <2>2, CellsWritten
  <2> QED BY <1>10, <2>1, <2>3 DEF CellPut, CellOf
<1>11. CASE pc = "policy" /\ pair' \in {WithPolicy(TornPolicy), WithPolicy(NewPolicy)}
  <2>1. ledger # NoLedger
    BY <1>11, Typed DEF CInv, Flow, OnLedger
  <2>2. Source.kind = "live"
    BY <2>1, ExactFacts
  <2>3. PICK c \in {TornPolicy, NewPolicy} : pair' = [pair EXCEPT ![ledger.side] = PolicyAdded(Source, c)]
    BY <1>11, <2>2, CellsWritten
  <2> QED BY <1>11, <2>1, <2>3 DEF CellPut, CellOf
<1>12. CASE \E f \in TickOf : pair' \in TornTick(f)
  <2>1. PICK f \in TickOf : pair' \in TornTick(f)
    BY <1>12
  <2>2. pc \in {"entry", "settle", "seal", "epoch"} /\ f \in TickLog
    BY <2>1 DEF TickOf
  <2>3. ledger # NoLedger
    BY <2>2, Typed DEF CInv, Flow, OnLedger
  <2>4. Source.kind = "live"
    BY <2>3, ExactFacts
  <2>5. PICK c \in Tick : pair' = WithTick(f, c)
    BY <2>1 DEF TornTick, Tick
  <2>6. pair' = [pair EXCEPT ![ledger.side] = Ticked(Source, ledger, f, c)]
    BY <2>2, <2>4, <2>5, TickWritten
  <2> QED BY <2>1, <2>2, <2>3, <2>5, <2>6 DEF CellPut, CellOf
<1> QED BY <1>2, <1>4, <1>5, <1>6, <1>7, <1>8, <1>9, <1>10, <1>11, <1>12 DEF Torn

\* The side stays elected when the other one loses what it had.
LEMMA DeadKeeps ==
  ASSUME CInv, Dead
  PROVE  /\ LiveSides(pair') = {} <=> LiveSides(pair) = {}
         /\ LiveSides(pair) # {} => pair'[Elected(pair')] = pair[Elected(pair)]
         /\ \A s \in Side : pair'[s] \in {pair[s], Blank, Garbage}
<1>1. PICK s \in Side, x \in {Blank, Garbage} :
        pair' = [pair EXCEPT ![s] = x] /\ (LiveSides(pair) # {} => s # Elected(pair))
  BY DEF Dead
<1>2. pair \in [Side -> Sector] /\ Counted(pair)
  BY Typed, SectorsCounted DEF CInv, TypeOK
<1>3. \A t \in Side : pair'[t] \in {pair[t], Blank, Garbage}
  BY <1>1, <1>2
<1>4. LiveSides(pair) = {} => LiveSides(pair') = {}
  BY <1>3, NotLive DEF LiveSides
<1>5. CASE LiveSides(pair) # {}
  <2>1. Elected(pair) \in Side
    BY <1>2, <1>5, ElectedIsLive DEF LiveSides
  <2>2. s = Other(Elected(pair))
    BY <1>1, <1>5, <2>1, TwoSides
  <2>3. pair' \in ErasedOrTorn(pair, Other(Elected(pair)))
    BY <1>1, <2>2 DEF ErasedOrTorn
  <2>4. LiveSides(pair') # {} /\ Elected(pair') = Elected(pair) /\ pair'[Elected(pair)] = pair[Elected(pair)]
    BY <1>2, <1>5, <2>3, LoserIsErased
  <2> QED BY <1>3, <1>5, <2>4
<1> QED BY <1>3, <1>4, <1>5

LEMMA CellsTyped == TornGen \in GenCell /\ ~TornGen.ok /\ TornPolicy \in PolicyCell /\ ~TornPolicy.ok
BY DEF TornGen, GenCell, TornPolicy, PolicyCell, StrictPolicy, Policy

\* A cell of a tick log of the side RAM has read.
LEMMA TickOn ==
  ASSUME CInv, ledger # NoLedger, NEW f \in TickOf, NEW c \in Tick,
         NEW x, x = Source, NEW y, y = Ticked(x, ledger, f, c)
  PROVE  f \in TickLog /\ TickedFrom(x, y, f, c)
<1>1. /\ x \in Sector /\ x.kind = "live" /\ CellsInOrder(x)
      /\ ledger.side \in Side /\ ledger = ReadOf(ledger.side, x)
  BY ExactFacts
<1>2. f \in TickLog /\ (f = "success" => ledger.len["success"] < ledger.len["entry"])
  BY DEF TickOf
<1> QED BY <1>1, <1>2, TickRead

\* A cell leaves a sector that can be read.
LEMMA CellRead ==
  ASSUME CInv, ledger # NoLedger, NEW y, CellOf(y)
  PROVE  y \in Sector /\ y.kind = "live" /\ y.head = Source.head /\ CellsInOrder(y) /\ GensFollow(y)
<1>1. /\ Source \in Sector /\ Source.kind = "live" /\ CellsInOrder(Source) /\ GensFollow(Source)
      /\ ledger = ReadOf(ledger.side, Source) /\ ledger.side \in Side
      /\ ledger.genNext = ScanGenNext(Source)
  BY ExactFacts
<1>2. CASE \E f \in TickOf, c \in Tick : y = Ticked(Source, ledger, f, c)
  <2>1. PICK f \in TickOf, c \in Tick : y = Ticked(Source, ledger, f, c)
    BY <1>2
  <2>2. TickedFrom(Source, y, f, c)
    BY <2>1, TickOn
  <2>3. y \in Sector /\ y.kind = "live" /\ y.head = Source.head /\ CellsInOrder(y) /\ y.gens = Source.gens
    BY <2>2 DEF TickedFrom
  <2> QED BY <1>1, <2>3, SameGens
<1>3. CASE pc = "gen" /\ \E c \in {TornGen, NewGen} : y = GenAdded(Source, c)
  <2>1. PICK c \in {TornGen, NewGen} : y = GenAdded(Source, c)
    BY <1>3
  <2>2. c \in GenCell /\ (c.ok => c.gen = ScanGenNext(Source))
    <3>1. NewGen \in GenCell /\ NewGen.gen = ScanGenNext(Source)
      BY <1>1, <1>3, Typed DEF CInv, Clean, LimitedAt, NewGen, GenCell, Job
    <3> QED BY <2>1, <3>1, CellsTyped
  <2>3. y \in Sector /\ y.kind = "live" /\ y.head = Source.head /\ CellsInOrder(y)
    BY <1>1, <2>1, <2>2, GenAddedFacts
  <2>4. CASE c.ok
    BY <1>1, <2>1, <2>2, <2>3, <2>4, NextCommitted
  <2>5. CASE ~c.ok
    <3>1. ScanGens(y) = ScanGens(Source) /\ ScanGenNext(y) = ScanGenNext(Source)
      BY <1>1, <2>1, <2>2, <2>5, GenAppended
    <3> QED BY <1>1, <2>3, <3>1 DEF GensFollow
  <2> QED BY <2>4, <2>5
<1>4. CASE pc = "policy" /\ \E c \in {TornPolicy, NewPolicy} : y = PolicyAdded(Source, c)
  <2>1. PICK c \in {TornPolicy, NewPolicy} : y = PolicyAdded(Source, c)
    BY <1>4
  <2>2. c \in PolicyCell
    <3>1. job \in Job
      BY Typed DEF CInv
    <3>2. NewPolicy \in PolicyCell
      BY <3>1 DEF NewPolicy, PolicyCell, Job
    <3> QED BY <2>1, <3>2, CellsTyped
  <2>3. y \in Sector /\ y.kind = "live" /\ y.head = Source.head /\ CellsInOrder(y)
    BY <1>1, <2>1, <2>2, PolicyAddedFacts
  <2>4. y.gens = Source.gens
    BY <1>1, <2>1, <2>2, PoliciesReplaced
  <2> QED BY <1>1, <2>3, <2>4, SameGens
<1> QED BY <1>2, <1>3, <1>4 DEF CellOf

\* The sector that is elected then.
LEMMA CellElected ==
  ASSUME CInv, ledger # NoLedger, pc # "retire", NEW y, CellOf(y),
         pair' = [pair EXCEPT ![ledger.side] = y]
  PROVE  /\ LiveSides(pair) # {} /\ LiveSides(pair') # {}
         /\ pair[Elected(pair)] = Source /\ pair'[Elected(pair')] = y
<1>1. y \in Sector /\ y.kind = "live" /\ y.head = Source.head /\ CellsInOrder(y) /\ Source.kind = "live"
  BY CellRead, ExactFacts
<1>2. LiveSides(pair) = {ledger.side} /\ Elected(pair) = ledger.side
  BY FlashIsSource DEF CInv
<1>3. /\ pair' \in [Side -> Sector] /\ LiveSides(pair') = {ledger.side} /\ ledger.side \in Side
      /\ pair'[ledger.side] = y
  BY <1>1, InPlace DEF CInv
<1>4. Elected(pair') = ledger.side
  BY <1>3, OneLive
<1> QED BY <1>2, <1>3, <1>4 DEF Source

LEMMA HeadElected ==
  ASSUME CInv, HeadPut
  PROVE  /\ LiveSides(pair) # {} /\ LiveSides(pair') # {}
         /\ pair[Elected(pair)] = Source /\ pair'[Elected(pair')] = NewSector(NextHead)
<1>1. /\ ledger # NoLedger /\ LiveSides(pair) = {ledger.side} /\ Elected(pair) = ledger.side
      /\ ledger.side \in Side /\ Target \in Side /\ Target # ledger.side
      /\ pair' = [pair EXCEPT ![Target] = NewSector(NextHead)]
  BY WrittenIsFree DEF HeadPut
<1>2. NextHead \in LedgerHead /\ NewSector(NextHead) \in Sector /\ NewSector(NextHead).kind = "live"
  BY NextHeadRead DEF HeadPut, Rotating
<1>3. NextHead.ctr = ledger.head.ctr + 1 /\ ledger.head = Source.head /\ Source.head.ctr \in Nat
  BY <1>1, NextHeadTyped, ExactFacts, SectorNumbers, Typed DEF CInv
<1>4. /\ pair' \in [Side -> Sector] /\ pair'[Target] = NewSector(NextHead)
      /\ \A s \in Side : s # Target => pair'[s] = pair[s]
  BY <1>1, <1>2, Typed DEF CInv, TypeOK
<1>5. NewSector(NextHead).head = NextHead
  BY <1>2, NewSectorFacts
<1>6. /\ Target \in LiveSides(pair')
      /\ \A t \in LiveSides(pair') : t # Target => pair'[t].head.ctr < pair'[Target].head.ctr
  BY <1>1, <1>2, <1>3, <1>4, <1>5 DEF LiveSides, Source
<1>7. Elected(pair') = Target
  BY <1>4, <1>6, SectorsCounted, GreaterIsElected
<1> QED BY <1>1, <1>4, <1>6, <1>7 DEF Source

LEMMA FirstElected ==
  ASSUME CInv, FirstPut
  PROVE  /\ LiveSides(pair) = {} /\ LiveSides(pair') # {}
         /\ pair'[Elected(pair')] = NewSector(FirstHead)
         /\ \A s \in Side : pair'[s] \in {pair[s], NewSector(FirstHead)}
<1>1. /\ pair \in [Side -> Sector] /\ LiveSides(pair) = {} /\ "A" \in Side
      /\ pair' = [pair EXCEPT !["A"] = NewSector(FirstHead)]
  BY Typed, SideNames DEF CInv, TypeOK, FirstPut
<1>2. NewSector(FirstHead) \in Sector /\ NewSector(FirstHead).kind = "live"
  BY FirstHeadTyped, NewSectorFacts
<1>3. /\ pair' \in [Side -> Sector] /\ pair'["A"] = NewSector(FirstHead)
      /\ \A s \in Side : s # "A" => pair'[s] = pair[s]
  BY <1>1, <1>2
<1>4. LiveSides(pair') = {"A"}
  BY <1>1, <1>2, <1>3 DEF LiveSides
<1>5. Elected(pair') = "A"
  BY <1>1, <1>3, <1>4, OneLive
<1> QED BY <1>1, <1>3, <1>4, <1>5

-----------------------------------------------------------------------------
(***************************************************************************)
(* Power cuts, and the invariant.                                          *)
(***************************************************************************)

\* Whatever is torn, what is in force on the other sectors and the next generation still
\* go together, and a store that has a ledger keeps one.
LEMMA TornClean ==
  ASSUME CInv, Torn
  PROVE  /\ \A s \in Side : GensFollow(pair'[s])
         /\ LiveSides(pair) # {} => LiveSides(pair') # {}
<1>1. (\A s \in Side : GensFollow(pair[s])) /\ pair \in [Side -> Sector]
  BY Typed DEF CInv, Clean, TypeOK
<1>2. CASE pair' = pair
  BY <1>1, <1>2
<1>3. CASE Dead
  <2>1. GensFollow(Blank) /\ GensFollow(Garbage)
    BY NotLive DEF GensFollow
  <2> QED BY <1>1, <1>3, <2>1, DeadKeeps
<1>4. CASE CellPut
  <2>1. PICK y : CellOf(y) /\ pair' = [pair EXCEPT ![ledger.side] = y]
    BY <1>4 DEF CellPut
  <2>2. ledger # NoLedger /\ pc # "retire"
    BY <1>4 DEF CellPut
  <2>3. GensFollow(y)
    BY <2>1, <2>2, CellRead
  <2>4. LiveSides(pair') # {}
    BY <2>1, <2>2, CellElected
  <2> QED BY <1>1, <2>1, <2>3, <2>4
<1>5. CASE HeadPut
  <2>1. GensFollow(NewSector(NextHead))
    BY <1>5, NextHeadRead DEF HeadPut, Rotating
  <2>2. \A s \in Side : pair'[s] \in {pair[s], NewSector(NextHead)}
    BY <1>1, <1>5 DEF HeadPut
  <2> QED BY <1>1, <1>5, <2>1, <2>2, HeadElected
<1>6. CASE FirstPut
  <2>1. GensFollow(NewSector(FirstHead))
    BY FirstHeadTyped, NewSectorGens
  <2> QED BY <1>1, <1>6, <2>1, FirstElected
<1> QED BY <1>2, <1>3, <1>4, <1>5, <1>6, TornOutcomes

LEMMA CutClean == ASSUME CInv, Cut PROVE Clean'
<1>1. /\ Torn /\ TornRecords /\ pc' = "off" /\ job' = NoJob
      /\ ledger' = NoLedger /\ policy' = StrictPolicy(0)
  BY DEF Cut, Interrupted, Goto
<1>2. canary' # {} => LiveSides(pair) # {}
  <2>1. canary # {} => LiveSides(pair) # {}
    BY DEF CInv, Clean
  <2>2. CASE canary' = canary \/ canary' = {} \/ canary' = CurrentRecords
    BY <2>1, <2>2 DEF CurrentRecords
  <2>3. CASE pc = "canary"
    BY <2>3, SomeLive, Typed DEF CInv, Flow, OnLedger
  <2> QED BY <1>1, <2>2, <2>3 DEF TornRecords
<1>3. (\A s \in Side : GensFollow(pair[s]))' /\ (canary # {} => LiveSides(pair) # {})'
  BY <1>1, <1>2, TornClean
<1>4. Exact' /\ (ledger = NoLedger => policy = StrictPolicy(0))' /\ Told(pc)'
  BY <1>1 DEF Exact, Told
<1>5. LimitedAt(pc, job)'
  BY <1>1 DEF LimitedAt, Rotating, Scanning
<1> QED BY <1>3, <1>4, <1>5 DEF Clean

LEMMA CleanInit == ASSUME Init PROVE CInv
<1>1. IInv /\ ~adrift
  BY InitHolds DEF Init
<1>2. \A s \in Side : GensFollow(pair[s])
  BY NotLive DEF Init, GensFollow
<1>3. /\ ledger = NoLedger /\ policy = StrictPolicy(0) /\ canary = {} /\ pc = "off" /\ job = NoJob
  BY DEF Init
<1>4. Exact /\ Told(pc)
  BY <1>3 DEF Exact, Told
<1>5. LimitedAt(pc, job)
  BY <1>3 DEF LimitedAt, Rotating, Scanning
<1> QED BY <1>1, <1>2, <1>3, <1>4, <1>5 DEF CInv, Clean

LEMMA CleanStutter == ASSUME CInv, UNCHANGED vars PROVE Clean'
<1>1. pc' = pc /\ job' = job /\ UNCHANGED <<pair, canary, ledger, policy, state>>
  BY DEF vars
<1>2. Told(pc') /\ LimitedAt(pc', job')
  <2>1. Told(pc) /\ LimitedAt(pc, job)
    BY DEF CInv, Clean
  <2> QED BY <1>1, <2>1
<1> QED BY <1>1, <1>2, CleanStill

\* Only an error sets RAM and flash apart.
LEMMA OnlyFaults ==
  ASSUME [Next]_vars, ~Fault
  PROVE  adrift' = adrift
<1>1. CASE UNCHANGED vars
  BY <1>1 DEF vars
<1>2. CASE \/ Mount \/ Attempt \/ Write \/ Wipe \/ Format \/ Cut
           \/ (\E i \in Identity : ChangeGen(i)) \/ (\E a \in Afters : SetPolicy(a))
  BY <1>2 DEF ghost, Mount, Attempt, Write, Wipe, Format, Cut, ChangeGen, SetPolicy
<1>3. CASE Scan \/ ScanTidy \/ Tidy \/ Mounted \/ Mirror \/ CountAttempt \/ WrongPin \/ RightPin
           \/ CatchUp \/ Settled \/ DueRotation \/ Open
  BY <1>3 DEF ghost, Scan, ScanTidy, Tidy, Adopt, Mounted, Mirror, CountAttempt, WrongPin,
              RightPin, CatchUp, Settled, DueRotation, Open
<1>4. CASE Seal \/ SealReserve \/ SealRotate \/ Fill \/ NewSession \/ CommitGen \/ GenRefused
           \/ CommitPolicy \/ PolicyRefused \/ BumpEpoch \/ Destroy \/ SealCanary
  BY <1>4 DEF ghost, Seal, SealReserve, SealRotate, Fill, NewSession, CommitGen, GenRefused,
              CommitPolicy, PolicyRefused, BumpEpoch, Destroy, SealCanary
<1>5. CASE \/ Erase("A", "createA", "createB") \/ Erase("B", "createB", "createHead")
           \/ CreateHead \/ CreateMac \/ RotateErase \/ RotateHead \/ RotateMac \/ RotateRetire
  BY <1>5 DEF ghost, Erase, CreateHead, CreateMac, RotateErase, RotateHead, RotateMac, RotateRetire
<1> QED BY <1>1, <1>2, <1>3, <1>4, <1>5 DEF Next, Run

LEMMA RunClean == ASSUME CInv, Run PROVE Clean'
<1>1. CASE Scan \/ Tidy \/ ScanTidy \/ Mounted
  BY <1>1, ScanClean, PlainSteps, MountedClean
<1>2. CASE WrongPin \/ RightPin \/ Settled \/ DueRotation
  BY <1>2, UnlockSteps
<1>3. CASE CountAttempt \/ CatchUp \/ SealReserve \/ BumpEpoch
  BY <1>3, CountingSteps
<1>4. CASE Open \/ NewSession \/ GenRefused \/ PolicyRefused
  BY <1>4, PlainSteps
<1>5. CASE Mirror \/ SealRotate \/ Fill
  BY <1>5, RequestSteps
<1>6. CASE Seal \/ CommitGen \/ CommitPolicy \/ Destroy \/ SealCanary
  BY <1>6, SealClean, CommitGenClean, CommitPolicyClean, DestroyClean, SealCanaryClean
<1>7. CASE \/ Erase("A", "createA", "createB") \/ Erase("B", "createB", "createHead")
           \/ CreateHead \/ CreateMac
  BY <1>7, CreateClean
<1>8. CASE RotateErase \/ RotateHead \/ RotateMac \/ RotateRetire
  BY <1>8, RotationClean, RetireClean
<1> QED BY <1>1, <1>2, <1>3, <1>4, <1>5, <1>6, <1>7, <1>8 DEF Run

\* Where nothing fails but by a power cut, every step keeps RAM what a scan would return.
LEMMA CleanStep ==
  ASSUME FaultSteps = {}, CInv, [Next]_vars
  PROVE  CInv'
<1>1. ~Fault
  BY DEF Fault
<1>2. IInv' /\ ~adrift'
  BY <1>1, StepKeeps, OnlyFaults DEF CInv
<1>3. Clean'
  <2>1. CASE UNCHANGED vars
    BY <2>1, CleanStutter
  <2>2. CASE Mount \/ Run \/ Cut
    BY <2>2, PlainSteps, RunClean, CutClean
  <2>3. CASE Attempt \/ Write \/ Wipe \/ Format
    BY <2>3, UnlockSteps, RequestSteps, FormatClean
  <2>4. CASE (\E i \in Identity : ChangeGen(i)) \/ (\E a \in Afters : SetPolicy(a))
    BY <2>4, ChangeGenClean, SetPolicyClean
  <2> QED BY <1>1, <2>1, <2>2, <2>3, <2>4 DEF Next
<1> QED BY <1>2, <1>3 DEF CInv

-----------------------------------------------------------------------------
(***************************************************************************)
(* What it shows between operations.                                       *)
(***************************************************************************)

\* With a live side at rest, the ledger and the policy in RAM are those of the scan.
LEMMA AtRest ==
  ASSUME CInv, pc = "ready"
  PROVE  OnFlash = ledger /\ PolicyOnFlash = policy
<1>1. CASE ledger = NoLedger
  <2>1. LiveSides(pair) = {}
    BY <1>1 DEF CInv, IInv, Agreed, AgreedAt, Scanning
  <2>2. policy = StrictPolicy(0)
    BY <1>1 DEF CInv, Clean
  <2> QED BY <1>1, <2>1, <2>2 DEF OnFlash, PolicyOnFlash, Scanned, ScannedPolicy
<1>2. CASE ledger # NoLedger
  <2>1. LiveSides(pair) = {ledger.side} /\ Elected(pair) = ledger.side
    BY <1>2, FlashIsSource DEF CInv
  <2>2. OnFlash = ReadOf(ledger.side, Source) /\ PolicyOnFlash = ScanPolicy(Source)
    BY <2>1, ScannedIsRead DEF OnFlash, PolicyOnFlash, Source
  <2> QED BY <1>2, <2>2, ExactFacts, PolicyIsSource DEF Scanning
<1> QED BY <1>1, <1>2

LEMMA InvView == ASSUME CInv PROVE ViewIsWhatBootSees
<1>1. SUFFICES ASSUME pc = "ready"
               PROVE  OnFlash = ledger /\ PolicyOnFlash = policy /\ Classified(OnFlash) = state
  BY DEF ViewIsWhatBootSees
<1>2. OnFlash = ledger /\ PolicyOnFlash = policy
  BY <1>1, AtRest
<1>3. state = Classified(ledger)
  BY <1>1 DEF CInv, Clean, Told
<1> QED BY <1>2, <1>3

\* Unless an access to the flash fails with the power on, what the vault has in RAM
\* between operations is what the next boot would make of the flash.
THEOREM ViewIsBoots == ASSUME FaultSteps = {} PROVE Spec => []ViewIsWhatBootSees
<1>1. Init => CInv
  BY CleanInit
<1>2. CInv /\ [Next]_vars => CInv'
  BY CleanStep
<1>3. CInv => ViewIsWhatBootSees
  BY InvView
<1> QED BY <1>1, <1>2, <1>3, PTL DEF Spec

LEMMA InvRests == ASSUME CInv PROVE RestsUnderLimit
<1>1. SUFFICES ASSUME pc = "ready", Formatted(OnFlash), OverLimit(OnFlash, PolicyOnFlash)
               PROVE  FALSE
  BY DEF RestsUnderLimit
<1>2. Formatted(ledger) /\ OverLimit(ledger, policy)
  BY <1>1, AtRest
<1>3. ledger # NoLedger
  BY <1>2 DEF Formatted
<1>4. Within(Source, Failures(ledger)) /\ policy = ScanPolicy(Source)
  BY <1>1, <1>2, <1>3, ReadyWithin, PolicyIsSource DEF Scanning
<1>5. Failures(ledger) \in Nat /\ policy \in Policy
  BY <1>3, Typed DEF CInv
<1>6. policy.after \in Nat
  BY <1>5 DEF Policy
<1> QED BY <1>2, <1>4, <1>5, <1>6 DEF OverLimit, Within

\* Unless an access to the flash fails with the power on, no operation begins on a store
\* that owes a wipe.
THEOREM RestIsUnderLimit == ASSUME FaultSteps = {} PROVE Spec => []RestsUnderLimit
<1>1. Init => CInv
  BY CleanInit
<1>2. CInv /\ [Next]_vars => CInv'
  BY CleanStep
<1>3. CInv => RestsUnderLimit
  BY InvRests
<1> QED BY <1>1, <1>2, <1>3, PTL DEF Spec

-----------------------------------------------------------------------------
(***************************************************************************)
(* The pair as a store of counters (CounterStore).                         *)
(***************************************************************************)

\* No step leaves more on the pair than one that is cut may leave.
LEMMA StepIsTorn ==
  ASSUME CInv, [Next]_vars
  PROVE  Torn
<1>1. CASE UNCHANGED vars
  BY <1>1 DEF vars, Torn
<1>2. CASE \/ Mount \/ Attempt \/ Write \/ Wipe \/ Format
           \/ (\E i \in Identity : ChangeGen(i)) \/ (\E a \in Afters : SetPolicy(a))
  BY <1>2 DEF flash, Mount, Attempt, Write, Wipe, Format, ChangeGen, SetPolicy, Torn
<1>3. CASE Cut \/ Fault
  BY <1>3 DEF Cut, Fault, Interrupted
<1>4. CASE Scan \/ ScanTidy \/ Mounted \/ Mirror \/ WrongPin \/ RightPin \/ Settled \/ DueRotation \/ Open
  BY <1>4 DEF flash, Scan, ScanTidy, Mounted, Mirror, WrongPin, RightPin, Settled, DueRotation, Open, Torn
<1>5. CASE Seal \/ SealRotate \/ Fill \/ NewSession \/ GenRefused \/ PolicyRefused \/ Destroy \/ SealCanary
  BY <1>5 DEF flash, Seal, SealRotate, Fill, NewSession, GenRefused, PolicyRefused, Destroy, SealCanary, Torn
<1>6. CASE CountAttempt \/ CatchUp \/ SealReserve \/ BumpEpoch
  <2>1. \E f \in TickOf : pair' = WithTick(f, "ok")
    BY <1>6, LogNames DEF CountAttempt, CatchUp, SealReserve, BumpEpoch, ProgramTick, TickOf
  <2> QED BY <2>1 DEF Torn, TornTick
<1>7. CASE CommitGen \/ CommitPolicy
  BY <1>7 DEF CommitGen, CommitPolicy, Torn
<1>8. CASE \/ Tidy \/ Erase("A", "createA", "createB") \/ Erase("B", "createB", "createHead")
           \/ CreateHead \/ CreateMac
  BY <1>8 DEF Tidy, Erase, CreateHead, CreateMac, Torn, ErasedOrTorn, HeadBodyOrTorn, HeadMacOrTorn
<1>9. CASE RotateErase \/ RotateHead \/ RotateMac \/ RotateRetire
  BY <1>9 DEF RotateErase, RotateHead, RotateMac, RotateRetire, Torn, ErasedOrTorn, HeadBodyOrTorn,
              HeadMacOrTorn
<1> QED BY <1>1, <1>2, <1>3, <1>4, <1>5, <1>6, <1>7, <1>8, <1>9 DEF Next, Run

\* The values of the store a sector stands for.
Counts(x, e, m, f, g, p) ==
  EpochOf(x) = e /\ MarkOf(x) = m /\ FailsOf(x) = f /\ ScanGens(x) = g /\ ScanPolicy(x) = p

\* The values the pair stands for.
StoreIs(e, m, f, g, p) ==
  /\ WipeEpoch(OnFlash) = e
  /\ (IF LiveSides(pair) = {} THEN 0 ELSE OnFlash.head.seq + OnFlash.len["seq"]) = m
  /\ Failures(OnFlash) = f
  /\ (IF LiveSides(pair) = {} THEN [i \in Identity |-> 0] ELSE ScanGens(pair[Elected(pair)])) = g
  /\ PolicyOnFlash = p

\* They are those of the sector that is elected.
LEMMA ElectedCounts ==
  ASSUME NEW p \in [Side -> Sector], Ordered(p), LiveSides(p) # {}
  PROVE  LET x == p[Elected(p)]
             l == Scanned(p)
         IN /\ x \in Sector /\ x.kind = "live" /\ CellsInOrder(x)
            /\ WipeEpoch(l) = EpochOf(x) /\ Failures(l) = FailsOf(x)
            /\ l.head.seq + l.len["seq"] = MarkOf(x) /\ ScannedPolicy(p) = ScanPolicy(x)
<1> DEFINE x == p[Elected(p)]
<1>1. Elected(p) \in Side /\ x \in Sector /\ x.kind = "live" /\ CellsInOrder(x)
  BY FreshLedger
<1>2. Scanned(p) = ReadOf(Elected(p), x) /\ ScannedPolicy(p) = ScanPolicy(x)
  BY ScannedIsRead
<1> HIDE DEF x
<1>3. PICK s \in Side : Scanned(p) = ReadOf(s, x)
  BY <1>1, <1>2
<1>4. \A l : l = ReadOf(s, x) => /\ WipeEpoch(l) = EpochOf(x) /\ Failures(l) = FailsOf(x)
                                 /\ l.head.seq + l.len["seq"] = MarkOf(x)
  BY <1>1, ReadFacts
<1> QED BY <1>1, <1>2, <1>3, <1>4 DEF x

LEMMA StoreNow ==
  ASSUME TypeOK, Ordered(pair), LiveSides(pair) # {}, NEW x, x = pair[Elected(pair)],
         NEW e, NEW m, NEW f, NEW g, NEW p, Counts(x, e, m, f, g, p)
  PROVE  StoreIs(e, m, f, g, p) /\ x \in Sector /\ x.kind = "live" /\ CellsInOrder(x)
<1>1. pair \in [Side -> Sector]
  BY DEF TypeOK
<1> QED BY <1>1, ElectedCounts DEF StoreIs, OnFlash, PolicyOnFlash, Counts

LEMMA StoreThen ==
  ASSUME pair' \in [Side -> Sector], Ordered(pair'), LiveSides(pair') # {},
         NEW y, y = pair'[Elected(pair')],
         NEW e, NEW m, NEW f, NEW g, NEW p, Counts(y, e, m, f, g, p)
  PROVE  StoreIs(e, m, f, g, p)'
<1>1. /\ WipeEpoch(Scanned(pair')) = e /\ Failures(Scanned(pair')) = f
      /\ Scanned(pair').head.seq + Scanned(pair').len["seq"] = m
      /\ ScannedPolicy(pair') = p /\ ScanGens(pair'[Elected(pair')]) = g
  BY ElectedCounts DEF Counts
<1>2. OnFlash' = Scanned(pair') /\ PolicyOnFlash' = ScannedPolicy(pair')
  BY DEF OnFlash, PolicyOnFlash
<1> QED BY <1>1, <1>2 DEF StoreIs

\* How the values may change from one sector to the next that is elected.
Moved(x, y) ==
  LET e == EpochOf(x)
      m == MarkOf(x)
      f == FailsOf(x)
      g == ScanGens(x)
      p == ScanPolicy(x)
  IN \/ Counts(y, e, m, f, g, p)
     \/ Counts(y, e, m, f + 1, g, p)
     \/ f > 0 /\ \E n \in {0, f - 1} : Counts(y, e, m, n, g, p)
     \/ Counts(y, e, m + 1, f, g, p)
     \/ Counts(y, e + 1, m, f, g, p)
     \/ Counts(y, e, m, 0, g, [after |-> FormatAfter, gen |-> p.gen + 1])
     \/ \E i, j \in Identity :
          (\A k \in Identity : g[k] < g[j] + 1) /\ Counts(y, e, m, f, [g EXCEPT ![i] = g[j] + 1], p)
     \/ \E a \in Afters : \E q \in [after : {a, FormatAfter}, gen : {p.gen + 1}] : Counts(y, e, m, f, g, q)

LEMMA MovedIsStep ==
  ASSUME TypeOK, Ordered(pair), LiveSides(pair) # {}, NEW x, x = pair[Elected(pair)],
         pair' \in [Side -> Sector], Ordered(pair'), LiveSides(pair') # {},
         NEW y, y = pair'[Elected(pair')], Moved(x, y)
  PROVE  [Store!Next]_(Store!store)
<1> DEFINE e == EpochOf(x)
           m == MarkOf(x)
           f == FailsOf(x)
           g == ScanGens(x)
           p == ScanPolicy(x)
<1>1. StoreIs(e, m, f, g, p)
  BY StoreNow DEF Counts
<1>2. \A ee, mm, ff, gg, pp : Counts(y, ee, mm, ff, gg, pp) => StoreIs(ee, mm, ff, gg, pp)'
  BY StoreThen
<1>3. (LiveSides(pair) # {}) /\ (LiveSides(pair) # {})'
  OBVIOUS
<1> HIDE DEF e, m, f, g, p
<1>4. CASE Counts(y, e, m, f, g, p)
  <2>1. StoreIs(e, m, f, g, p)'
    BY <1>2, <1>4
  <2> QED BY <1>1, <1>3, <2>1 DEF StoreIs, Store!store
<1>5. CASE Counts(y, e, m, f + 1, g, p)
  <2>1. StoreIs(e, m, f + 1, g, p)'
    BY <1>2, <1>5
  <2> QED BY <1>1, <1>3, <2>1 DEF StoreIs, Store!Next, Store!Attempt
<1>6. CASE f > 0 /\ \E n \in {0, f - 1} : Counts(y, e, m, n, g, p)
  <2>1. PICK n \in {0, f - 1} : Counts(y, e, m, n, g, p)
    BY <1>6
  <2>2. StoreIs(e, m, n, g, p)'
    BY <1>2, <2>1
  <2>3. Store!Forgive
    BY <1>1, <1>3, <1>6, <2>1, <2>2 DEF StoreIs, Store!Forgive
  <2> QED BY <2>3 DEF Store!Next
<1>7. CASE Counts(y, e, m + 1, f, g, p)
  <2>1. StoreIs(e, m + 1, f, g, p)'
    BY <1>2, <1>7
  <2> QED BY <1>1, <1>3, <2>1 DEF StoreIs, Store!Next, Store!RaiseMark
<1>8. CASE Counts(y, e + 1, m, f, g, p)
  <2>1. StoreIs(e + 1, m, f, g, p)'
    BY <1>2, <1>8
  <2> QED BY <1>1, <1>3, <2>1 DEF StoreIs, Store!Next, Store!Wipe
<1>9. CASE Counts(y, e, m, 0, g, [after |-> FormatAfter, gen |-> p.gen + 1])
  <2>1. StoreIs(e, m, 0, g, [after |-> FormatAfter, gen |-> p.gen + 1])'
    BY <1>2, <1>9
  <2> QED BY <1>1, <1>3, <2>1 DEF StoreIs, Store!Next, Store!Reformat
<1>10. CASE \E i, j \in Identity :
              (\A k \in Identity : g[k] < g[j] + 1) /\ Counts(y, e, m, f, [g EXCEPT ![i] = g[j] + 1], p)
  <2>1. PICK i \in Identity, j \in Identity :
          (\A k \in Identity : g[k] < g[j] + 1) /\ Counts(y, e, m, f, [g EXCEPT ![i] = g[j] + 1], p)
    BY <1>10
  <2>2. StoreIs(e, m, f, [g EXCEPT ![i] = g[j] + 1], p)'
    BY <1>2, <2>1
  <2>3. Store!NewGen(i)
    BY <1>1, <1>3, <2>1, <2>2 DEF StoreIs, Store!NewGen
  <2> QED BY <2>3 DEF Store!Next
<1>11. CASE \E a \in Afters : \E q \in [after : {a, FormatAfter}, gen : {p.gen + 1}] :
              Counts(y, e, m, f, g, q)
  <2>1. PICK a \in Afters : \E q \in [after : {a, FormatAfter}, gen : {p.gen + 1}] :
          Counts(y, e, m, f, g, q)
    BY <1>11
  <2>2. PICK q \in [after : {a, FormatAfter}, gen : {p.gen + 1}] : Counts(y, e, m, f, g, q)
    BY <2>1
  <2>3. StoreIs(e, m, f, g, q)'
    BY <1>2, <2>2
  <2>4. Store!SetPolicy(a)
    BY <1>1, <1>3, <2>2, <2>3 DEF StoreIs, Store!SetPolicy
  <2> QED BY <2>4 DEF Store!Next
<1> QED BY <1>4, <1>5, <1>6, <1>7, <1>8, <1>9, <1>10, <1>11 DEF Moved, e, m, f, g, p

\* A cell is one step of the store, or none.
LEMMA TickMoves ==
  ASSUME CInv, ledger # NoLedger, NEW f \in TickOf, NEW c \in Tick,
         NEW x, x = Source, NEW y, y = Ticked(x, ledger, f, c)
  PROVE  Moved(x, y)
<1>1. /\ f \in TickLog /\ y \in Sector /\ y.kind = "live" /\ y.head = x.head /\ CellsInOrder(y)
      /\ y.gens = x.gens /\ ScanPolicy(y) = ScanPolicy(x)
      /\ \A h \in TickLog \ {f} : y.ticks[h] = x.ticks[h]
      /\ f # "success" => Len(y.ticks[f]) = Len(x.ticks[f]) + 1
      /\ f = "success" => /\ SuccessLen(x.ticks[f]) < Len(x.ticks["entry"])
                          /\ SuccessLen(y.ticks[f]) \in {SuccessLen(x.ticks[f]), SuccessLen(x.ticks[f]) + 1}
  <2>1. f \in TickLog /\ TickedFrom(x, y, f, c)
    BY TickOn
  <2> QED BY <2>1 DEF TickedFrom
<1>2. x \in Sector /\ x.kind = "live" /\ CellsInOrder(x) /\ GensFollow(x)
  BY ExactFacts
<1>3. ScanGens(y) = ScanGens(x) /\ y.head = x.head
  BY <1>1, <1>2, SameGens
<1>4. /\ x.head.epoch \in Nat /\ x.head.seq \in Nat /\ x.head.fails \in Nat
      /\ Len(x.ticks["epoch"]) \in Nat /\ Len(x.ticks["seq"]) \in Nat /\ Len(x.ticks["entry"]) \in Nat
      /\ SuccessLen(x.ticks["success"]) \in Nat
  BY <1>2, SectorNumbers, LogNames
<1>5. CASE f = "entry"
  <2>1. /\ y.ticks["epoch"] = x.ticks["epoch"]
        /\ y.ticks["seq"] = x.ticks["seq"]
        /\ y.ticks["success"] = x.ticks["success"]
        /\ Len(y.ticks["entry"]) = Len(x.ticks["entry"]) + 1
    BY <1>1, <1>5, LogNames
  <2>2. EpochOf(y) = EpochOf(x) /\ MarkOf(y) = MarkOf(x)
    BY <1>3, <2>1 DEF EpochOf, MarkOf
  <2>3. FailsOf(y) = FailsOf(x) + 1
    <3>1. FailsOf(y) = x.head.fails + (Len(x.ticks["entry"]) + 1) - SuccessLen(x.ticks["success"])
      BY <1>3, <2>1 DEF FailsOf
    <3> QED BY <1>4, <3>1 DEF FailsOf
  <2>4. Counts(y, EpochOf(x), MarkOf(x), FailsOf(x) + 1, ScanGens(x), ScanPolicy(x))
    BY <1>1, <1>3, <2>2, <2>3 DEF Counts
  <2> QED BY <2>4 DEF Moved
<1>6. CASE f = "epoch"
  <2>1. /\ y.ticks["seq"] = x.ticks["seq"]
        /\ y.ticks["entry"] = x.ticks["entry"]
        /\ y.ticks["success"] = x.ticks["success"]
        /\ Len(y.ticks["epoch"]) = Len(x.ticks["epoch"]) + 1
    BY <1>1, <1>6, LogNames
  <2>2. MarkOf(y) = MarkOf(x) /\ FailsOf(y) = FailsOf(x)
    BY <1>3, <2>1 DEF MarkOf, FailsOf
  <2>3. EpochOf(y) = EpochOf(x) + 1
    <3>1. EpochOf(y) = x.head.epoch + (Len(x.ticks["epoch"]) + 1)
      BY <1>3, <2>1 DEF EpochOf
    <3> QED BY <1>4, <3>1 DEF EpochOf
  <2>4. Counts(y, EpochOf(x) + 1, MarkOf(x), FailsOf(x), ScanGens(x), ScanPolicy(x))
    BY <1>1, <1>3, <2>2, <2>3 DEF Counts
  <2> QED BY <2>4 DEF Moved
<1>7. CASE f = "seq"
  <2>1. /\ y.ticks["epoch"] = x.ticks["epoch"]
        /\ y.ticks["entry"] = x.ticks["entry"]
        /\ y.ticks["success"] = x.ticks["success"]
        /\ Len(y.ticks["seq"]) = Len(x.ticks["seq"]) + 1
    BY <1>1, <1>7, LogNames
  <2>2. EpochOf(y) = EpochOf(x) /\ FailsOf(y) = FailsOf(x)
    BY <1>3, <2>1 DEF EpochOf, FailsOf
  <2>3. MarkOf(y) = MarkOf(x) + 1
    <3>1. MarkOf(y) = x.head.seq + (Len(x.ticks["seq"]) + 1)
      BY <1>3, <2>1 DEF MarkOf
    <3> QED BY <1>4, <3>1 DEF MarkOf
  <2>4. Counts(y, EpochOf(x), MarkOf(x) + 1, FailsOf(x), ScanGens(x), ScanPolicy(x))
    BY <1>1, <1>3, <2>2, <2>3 DEF Counts
  <2> QED BY <2>4 DEF Moved
<1>8. CASE f = "success"
  <2>1. /\ y.ticks["epoch"] = x.ticks["epoch"] /\ y.ticks["seq"] = x.ticks["seq"]
        /\ y.ticks["entry"] = x.ticks["entry"]
    BY <1>1, <1>8, LogNames
  <2>2. EpochOf(y) = EpochOf(x) /\ MarkOf(y) = MarkOf(x)
    BY <1>3, <2>1 DEF EpochOf, MarkOf
  <2>3. FailsOf(x) > 0 /\ FailsOf(y) \in {FailsOf(x), FailsOf(x) - 1}
    <3>1. /\ SuccessLen(x.ticks["success"]) < Len(x.ticks["entry"])
          /\ SuccessLen(y.ticks["success"]) \in {SuccessLen(x.ticks["success"]), SuccessLen(x.ticks["success"]) + 1}
      BY <1>1, <1>8
    <3>2. /\ FailsOf(x) = x.head.fails + Len(x.ticks["entry"]) - SuccessLen(x.ticks["success"])
          /\ FailsOf(y) = x.head.fails + Len(x.ticks["entry"]) - SuccessLen(y.ticks["success"])
      BY <1>3, <2>1 DEF FailsOf
    <3> DEFINE a == Len(x.ticks["entry"])
               b == SuccessLen(x.ticks["success"])
               d == SuccessLen(y.ticks["success"])
               n == x.head.fails
    <3>3. a \in Nat /\ b \in Nat /\ n \in Nat
      BY <1>4
    <3> HIDE DEF a, b, d, n
    <3>4. b < a /\ (d = b \/ d = b + 1)
      BY <3>1 DEF a, b, d
    <3>5. FailsOf(x) = n + a - b /\ FailsOf(y) = n + a - d
      BY <3>2 DEF a, b, d, n
    <3> QED BY <3>3, <3>4, <3>5
  <2>4. \/ Counts(y, EpochOf(x), MarkOf(x), FailsOf(x), ScanGens(x), ScanPolicy(x))
        \/ Counts(y, EpochOf(x), MarkOf(x), FailsOf(x) - 1, ScanGens(x), ScanPolicy(x))
    BY <1>1, <1>3, <2>2, <2>3 DEF Counts
  <2> QED BY <2>3, <2>4 DEF Moved
<1> QED BY <1>1, <1>5, <1>6, <1>7, <1>8, LogNames

LEMMA GenMoves ==
  ASSUME CInv, ledger # NoLedger, pc = "gen", NEW c \in {TornGen, NewGen},
         NEW x, x = Source, NEW y, y = GenAdded(x, c)
  PROVE  Moved(x, y)
<1>1. /\ x \in Sector /\ x.kind = "live" /\ CellsInOrder(x) /\ GensFollow(x)
      /\ ledger.genNext = ScanGenNext(x)
  BY ExactFacts
<1>2. job.gen = ledger.genNext /\ job \in Job
  BY Typed DEF CInv, Clean, LimitedAt
<1>3. /\ NewGen.ok /\ NewGen.id = job.id /\ NewGen.gen = ScanGenNext(x)
      /\ NewGen \in GenCell /\ job.id \in Identity
  BY <1>1, <1>2 DEF NewGen, GenCell, Job
<1>4. c \in GenCell
  BY <1>3, CellsTyped
<1>5. y.head = x.head /\ y.ticks = x.ticks /\ FailsOf(y) = FailsOf(x) /\ ScanPolicy(y) = ScanPolicy(x)
  BY <1>1, <1>4, GenAddedFacts
<1>6. EpochOf(y) = EpochOf(x) /\ MarkOf(y) = MarkOf(x)
  BY <1>5 DEF EpochOf, MarkOf
<1>7. CASE c = TornGen
  <2>1. ScanGens(y) = ScanGens(x)
    BY <1>1, <1>4, <1>7, CellsTyped, GenAppended
  <2>2. Counts(y, EpochOf(x), MarkOf(x), FailsOf(x), ScanGens(x), ScanPolicy(x))
    BY <1>5, <1>6, <2>1 DEF Counts
  <2> QED BY <2>2 DEF Moved
<1>8. CASE c = NewGen
  <2>1. c.ok /\ c.id = job.id /\ c.gen = ScanGenNext(x)
    BY <1>3, <1>8
  <2>2. ScanGens(y) = [ScanGens(x) EXCEPT ![job.id] = ScanGenNext(x)]
    BY <1>1, <1>4, <2>1, GenAppended
  <2>3. PICK j \in Identity : ScanGenNext(x) = ScanGens(x)[j] + 1
    BY <1>1 DEF GensFollow
  <2>4. \A k \in Identity : ScanGens(x)[k] < ScanGens(x)[j] + 1
    BY <1>1, <2>3, GensBelowNext
  <2>5. Counts(y, EpochOf(x), MarkOf(x), FailsOf(x),
               [ScanGens(x) EXCEPT ![job.id] = ScanGens(x)[j] + 1], ScanPolicy(x))
    BY <1>5, <1>6, <2>2, <2>3 DEF Counts
  <2> QED BY <1>3, <2>4, <2>5 DEF Moved
<1> QED BY <1>7, <1>8

LEMMA PolicyMoves ==
  ASSUME CInv, ledger # NoLedger, pc = "policy", NEW c \in {TornPolicy, NewPolicy},
         NEW x, x = Source, NEW y, y = PolicyAdded(x, c)
  PROVE  Moved(x, y)
<1>1. x \in Sector /\ x.kind = "live" /\ CellsInOrder(x) /\ GensFollow(x) /\ ScanPolicy(x) \in Policy
  BY ExactFacts
<1>2. /\ job \in Job /\ job.want.after \in Afters /\ job.want.gen = policy.gen + 1
      /\ policy = ScanPolicy(x)
  BY PolicyIsSource, Typed DEF CInv, Clean, LimitedAt, IInv, Agreed, AgreedAt, Scanning
<1>3. job.want \in Policy
  BY <1>2 DEF Job
<1>4. NewPolicy \in PolicyCell /\ NewPolicy.ok /\ NewPolicy.policy = job.want
  BY <1>3 DEF NewPolicy, PolicyCell
<1>5. c \in PolicyCell
  BY <1>4, CellsTyped
<1>6. /\ y \in Sector /\ y.kind = "live" /\ y.head = x.head /\ y.ticks = x.ticks
      /\ FailsOf(y) = FailsOf(x) /\ Len(y.policies) = Len(x.policies) + 1
      /\ c.ok /\ c.policy.gen = ScanPolicy(x).gen + 1 => ScanPolicy(y) = c.policy
      /\ ~c.ok => ScanPolicy(y).after = FormatAfter
  BY <1>1, <1>5, PolicyAddedFacts
<1>7. y.gens = x.gens
  BY <1>1, <1>5, PoliciesReplaced
<1>8. ScanGens(y) = ScanGens(x) /\ EpochOf(y) = EpochOf(x) /\ MarkOf(y) = MarkOf(x)
  BY <1>1, <1>6, <1>7, SameGens DEF EpochOf, MarkOf
<1>9. ScanPolicy(y) \in [after : {job.want.after, FormatAfter}, gen : {ScanPolicy(x).gen + 1}]
  <2>1. CASE c = NewPolicy
    <3>1. ScanPolicy(y) = job.want
      BY <1>2, <1>4, <1>6, <2>1
    <3> QED BY <1>2, <1>3, <3>1 DEF Policy
  <2>2. CASE c = TornPolicy
    <3>1. ScanPolicy(y).after = FormatAfter
      BY <1>6, <2>2, CellsTyped
    <3>2. ScanPolicy(y) \in Policy /\ ScanPolicy(y).gen = y.head.policy.gen + Len(y.policies)
      BY <1>6, PolicyTyped
    <3>3. ScanPolicy(x).gen = x.head.policy.gen + Len(x.policies)
      BY <1>1, PolicyTyped
    <3>4. x.head.policy.gen \in Nat /\ Len(x.policies) \in Nat
      <4>1. x.head.policy \in Policy
        BY <1>1, SectorNumbers
      <4>2. x.policies \in Seq(PolicyCell)
        BY <1>1, LiveParts
      <4> QED BY <4>1, <4>2 DEF Policy
    <3>5. ScanPolicy(y).gen = ScanPolicy(x).gen + 1
      BY <1>6, <3>2, <3>3, <3>4
    <3> QED BY <3>1, <3>2, <3>5 DEF Policy
  <2> QED BY <2>1, <2>2
<1>10. Counts(y, EpochOf(x), MarkOf(x), FailsOf(x), ScanGens(x), ScanPolicy(y))
  BY <1>6, <1>8 DEF Counts
<1> QED BY <1>2, <1>9, <1>10 DEF Moved

LEMMA CellMoves ==
  ASSUME CInv, ledger # NoLedger, NEW y, CellOf(y)
  PROVE  Moved(Source, y)
BY TickMoves, GenMoves, PolicyMoves DEF CellOf

\* A head carries what the sector before it stood for, but for the failures a rotation
\* makes good and what a format resets.
LEMMA HeadMoves ==
  ASSUME CInv, pc = "mac", NEW x, x = Source, NEW y, y = NewSector(NextHead)
  PROVE  Moved(x, y)
<1>1. pc \in Rotating /\ ledger # NoLedger
  BY Typed DEF CInv, Flow, OnLedger, Rotating
<1>2. /\ ScanGens(y) = ledger.gens /\ EpochOf(y) = WipeEpoch(ledger) /\ MarkOf(y) = SeqCarried
      /\ FailsOf(y) = job.carry /\ ScanPolicy(y) = job.install
  BY <1>1, NextHeadRead
<1>3. /\ ledger.gens = ScanGens(x) /\ WipeEpoch(ledger) = EpochOf(x) /\ SeqCarried = MarkOf(x)
      /\ Failures(ledger) = FailsOf(x) /\ FailsOf(x) \in Nat
  BY <1>1, ExactFacts
<1>4. Counts(y, EpochOf(x), MarkOf(x), job.carry, ScanGens(x), job.install)
  BY <1>2, <1>3 DEF Counts
<1>5. CASE Formats(job)
  <2>1. job.carry = 0 /\ job.install = StrictPolicy(ScanPolicy(x).gen + 1)
    BY <1>1, <1>5 DEF CInv, Clean, LimitedAt
  <2>2. Counts(y, EpochOf(x), MarkOf(x), 0, ScanGens(x),
               [after |-> FormatAfter, gen |-> ScanPolicy(x).gen + 1])
    BY <1>4, <2>1 DEF StrictPolicy
  <2> QED BY <2>2 DEF Moved
<1>6. CASE ~Formats(job)
  <2>1. job.install = ScanPolicy(x)
    BY <1>1, <1>6, PolicyIsSource DEF CInv, IInv, Agreed, AgreedAt, Scanning
  <2>2. job.carry \in {0, FailsOf(x)}
    BY <1>1, <1>3 DEF CInv, Clean, LimitedAt
  <2>3. CASE job.carry = FailsOf(x)
    <3>1. Counts(y, EpochOf(x), MarkOf(x), FailsOf(x), ScanGens(x), ScanPolicy(x))
      BY <1>4, <2>1, <2>3
    <3> QED BY <3>1 DEF Moved
  <2>4. CASE job.carry # FailsOf(x)
    <3>1. job.carry = 0 /\ FailsOf(x) > 0
      BY <1>3, <2>2, <2>4
    <3>2. Counts(y, EpochOf(x), MarkOf(x), 0, ScanGens(x), ScanPolicy(x))
      BY <1>4, <2>1, <3>1
    <3> QED BY <3>1, <3>2 DEF Moved
  <2> QED BY <2>3, <2>4
<1> QED BY <1>5, <1>6

\* Without a ledger the store holds what it began with.
LEMMA EmptyStore ==
  ASSUME LiveSides(pair) = {}
  PROVE  StoreIs(0, 0, 0, [i \in Identity |-> 0], StrictPolicy(0))
BY DEF StoreIs, OnFlash, PolicyOnFlash, Scanned, ScannedPolicy, WipeEpoch, Failures

\* The first head of a store is its creation.
LEMMA FirstIsCreated ==
  ASSUME CInv, CInv', FirstPut
  PROVE  Store!Create
<1>1. /\ LiveSides(pair) = {} /\ LiveSides(pair') # {}
      /\ pair'[Elected(pair')] = NewSector(FirstHead)
  BY FirstElected
<1>2. StoreIs(0, 0, 0, [i \in Identity |-> 0], StrictPolicy(0))
  BY <1>1, EmptyStore
<1>3. pair' \in [Side -> Sector] /\ Ordered(pair')
  BY DEF CInv, IInv, Base, TypeOK, Ordered
<1> DEFINE y == NewSector(FirstHead)
<1>4. Counts(y, 0, 0, 0, [i \in Identity |-> 0], StrictPolicy(0))
  <2>1. FirstHead \in LedgerHead
    BY FirstHeadTyped
  <2>2. /\ y.head = FirstHead /\ (\A f \in TickLog : y.ticks[f] = <<>>) /\ ScanPolicy(y) = FirstHead.policy
        /\ y \in Sector /\ y.kind = "live"
    BY <2>1, NewSectorFacts
  <2>3. ScanGens(y) = FirstHead.gens
    BY <2>1, NewSectorGens
  <2>4. /\ FirstHead.epoch = 0 /\ FirstHead.seq = 0 /\ FirstHead.fails = 0
        /\ FirstHead.gens = [i \in Identity |-> 0] /\ FirstHead.policy = StrictPolicy(0)
    BY DEF FirstHead
  <2>5. SuccessLen(<<>>) = 0
    <3>1. <<>> \in Seq(Tick) /\ BadAtMostLast(<<>>)
      BY DEF BadAtMostLast
    <3>2. SuccessLen(<<>>) \in 0 .. Len(<<>>)
      BY <3>1, SuccessRead
    <3> QED BY <3>2
  <2> HIDE DEF y
  <2>6. EpochOf(y) = 0 /\ MarkOf(y) = 0 /\ FailsOf(y) = 0
    BY <2>2, <2>4, <2>5, LogNames DEF EpochOf, MarkOf, FailsOf
  <2> QED BY <2>2, <2>3, <2>4, <2>6 DEF Counts
<1>5. StoreIs(0, 0, 0, [i \in Identity |-> 0], StrictPolicy(0))'
  <2> HIDE DEF y
  <2>1. \A z : z = pair'[Elected(pair')] /\ Counts(z, 0, 0, 0, [i \in Identity |-> 0], StrictPolicy(0))
          => StoreIs(0, 0, 0, [i \in Identity |-> 0], StrictPolicy(0))'
    BY <1>1, <1>3, StoreThen
  <2>2. y = pair'[Elected(pair')]
    BY <1>1 DEF y
  <2> QED BY <1>4, <2>1, <2>2
<1> QED BY <1>1, <1>2, <1>5 DEF StoreIs, Store!Create

\* Every step of the ledger is one step of the store, or none.
LEMMA StepIsStore ==
  ASSUME CInv, CInv', [Next]_vars
  PROVE  [Store!Next]_(Store!store)
<1>1. /\ TypeOK /\ Ordered(pair) /\ pair' \in [Side -> Sector] /\ Ordered(pair')
  BY DEF CInv, IInv, Base, TypeOK, Ordered
<1>2. CASE pair' = pair
  BY <1>2 DEF Store!store, OnFlash, PolicyOnFlash
<1>3. CASE Dead
  <2>1. CASE LiveSides(pair) = {}
    <3>1. LiveSides(pair') = {}
      BY <1>3, <2>1, DeadKeeps
    <3>2. OnFlash' = OnFlash /\ PolicyOnFlash' = PolicyOnFlash
      BY <2>1, <3>1 DEF OnFlash, PolicyOnFlash, Scanned, ScannedPolicy
    <3> QED BY <2>1, <3>1, <3>2 DEF Store!store
  <2>2. CASE LiveSides(pair) # {}
    <3>1. LiveSides(pair') # {} /\ pair'[Elected(pair')] = pair[Elected(pair)]
      BY <1>3, <2>2, DeadKeeps
    <3>2. Moved(pair[Elected(pair)], pair'[Elected(pair')])
      BY <3>1 DEF Moved, Counts
    <3> QED BY <1>1, <2>2, <3>1, <3>2, MovedIsStep
  <2> QED BY <2>1, <2>2
<1>4. CASE CellPut
  <2>1. PICK y : CellOf(y) /\ pair' = [pair EXCEPT ![ledger.side] = y]
    BY <1>4 DEF CellPut
  <2>2. ledger # NoLedger /\ pc # "retire"
    BY <1>4 DEF CellPut
  <2>3. /\ LiveSides(pair) # {} /\ LiveSides(pair') # {}
        /\ pair[Elected(pair)] = Source /\ pair'[Elected(pair')] = y
    BY <2>1, <2>2, CellElected
  <2>4. Moved(pair[Elected(pair)], pair'[Elected(pair')])
    BY <2>1, <2>2, <2>3, CellMoves
  <2> QED BY <1>1, <2>3, <2>4, MovedIsStep
<1>5. CASE HeadPut
  <2>1. /\ LiveSides(pair) # {} /\ LiveSides(pair') # {}
        /\ pair[Elected(pair)] = Source /\ pair'[Elected(pair')] = NewSector(NextHead)
    BY <1>5, HeadElected
  <2>2. Moved(pair[Elected(pair)], pair'[Elected(pair')])
    BY <1>5, <2>1, HeadMoves DEF HeadPut
  <2> QED BY <1>1, <2>1, <2>2, MovedIsStep
<1>6. CASE FirstPut
  BY <1>6, FirstIsCreated DEF Store!Next
<1> QED BY <1>2, <1>3, <1>4, <1>5, <1>6, StepIsTorn, TornOutcomes

\* Unless an access to the flash fails with the power on, the pair is a store of counters
\* that change one at a time: every erase, program, rotation, cut and torn cell is one step
\* of it or none (ledger.rs, the whole of its flash accesses).
THEOREM LedgerIsStore == ASSUME FaultSteps = {} PROVE Spec => ImplementsStore
<1>1. Init => CInv /\ Store!Init
  <2>1. SUFFICES ASSUME Init PROVE CInv /\ Store!Init
    OBVIOUS
  <2>2. LiveSides(pair) = {}
    BY <2>1, NotLive DEF Init, LiveSides
  <2>3. StoreIs(0, 0, 0, [i \in Identity |-> 0], StrictPolicy(0))
    BY <2>2, EmptyStore
  <2> QED BY <2>1, <2>2, <2>3, CleanInit DEF StoreIs, Store!Init, StrictPolicy
<1>2. CInv /\ [Next]_vars => CInv'
  BY CleanStep
<1>3. CInv /\ CInv' /\ [Next]_vars => [Store!Next]_(Store!store)
  BY StepIsStore
<1> QED BY <1>1, <1>2, <1>3, PTL DEF Spec, ImplementsStore, Store!Spec

=============================================================================
