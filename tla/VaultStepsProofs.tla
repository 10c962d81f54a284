-------------------------- MODULE VaultStepsProofs --------------------------
(***************************************************************************)
(* Every flash step of a call keeps the invariant of module VaultInvariant,*)
(* and leads, if anywhere, where module WalletStore allows.                *)
(*                                                                         *)
(* What the flash amounts to is a function of the records that are elected *)
(* (FoundOf).  The lemmas come in that order: election, of one slot and of *)
(* all; what elected records amount to, and what becomes of that when one  *)
(* is sealed or a generation is committed; what is left of a call; and     *)
(* then one lemma for each action of Step.                                 *)
(***************************************************************************)
EXTENDS VaultInvariant, FiniteSetTheorems, SequenceTheorems, TLAPS

-----------------------------------------------------------------------------
(***************************************************************************)
(* The two sides of a slot.                                                *)
(***************************************************************************)
\* The other side is a side, another one, and there is no third.
LEMMA TwoSides ==
  ASSUME NEW s \in Side
  PROVE  Other(s) \in Side /\ Other(s) # s /\ \A t \in Side : t = s \/ t = Other(s)
BY DEF Side, Other

-----------------------------------------------------------------------------
(***************************************************************************)
(* Naturals.  A scan takes the greatest generation it has seen, and a new  *)
(* one is greater than any committed, so there must be one.                *)
(***************************************************************************)
\* A set of naturals that is not empty has a least element.
LEMMA LeastNatural ==
  ASSUME NEW T \in SUBSET Nat, T # {}
  PROVE  \E m \in T : \A k \in T : m <= k
<1>1. PICK m \in T : \A k \in T : <<k, m>> \notin OpToRel(<, Nat)
  BY WFMin, NatLessThanWellFounded
<1>2. \A k \in T : ~(k < m)
  BY <1>1 DEF OpToRel
<1> QED BY <1>2

\* And a greatest one, if it is bounded.
LEMMA GreatestNatural ==
  ASSUME NEW S \in SUBSET Nat, S # {}, NEW b \in Nat, \A k \in S : k <= b
  PROVE  \E m \in S : \A k \in S : k <= m
<1> DEFINE T == {n \in Nat : \E k \in S : n = b - k}
<1>1. T # {} /\ T \in SUBSET Nat
  <2>1. PICK k \in S : TRUE
    OBVIOUS
  <2>2. b - k \in T
    OBVIOUS
  <2> QED BY <2>2
<1>2. PICK n \in T : \A j \in T : n <= j
  <2> HIDE DEF T
  <2> QED BY <1>1, LeastNatural
<1>3. PICK m \in S : n = b - m
  BY <1>2
<1>4. \A k \in S : b - k \in T
  OBVIOUS
<1> QED BY <1>2, <1>3, <1>4

\* Finitely many naturals have a bound.
LEMMA ListBounded ==
  ASSUME NEW n \in Nat, NEW h \in [1 .. n -> Nat]
  PROVE  \E b \in Nat : \A i \in 1 .. n : h[i] <= b
<1> DEFINE Bounded(k) == \E b \in Nat : \A i \in 1 .. k : h[i] <= b
           T == {k \in 0 .. n : ~Bounded(k)}
<1>1. SUFFICES ASSUME T # {} PROVE FALSE
  <2>1. n \in 0 .. n
    OBVIOUS
  <2> QED BY <2>1
<1>2. PICK m \in T : \A k \in T : m <= k
  <2>1. T \in SUBSET Nat
    OBVIOUS
  <2> HIDE DEF T
  <2> QED BY <1>1, <2>1, LeastNatural
<1>3. m # 0
  <2>1. \A i \in 1 .. 0 : h[i] <= 0
    OBVIOUS
  <2>2. Bounded(0)
    BY <2>1
  <2> QED BY <2>2
<1>4. Bounded(m - 1)
  <2>1. m \in 0 .. n /\ m - 1 \in 0 .. n /\ ~(m <= m - 1)
    BY <1>3
  <2>2. m - 1 \notin T
    BY <1>2, <2>1
  <2> HIDE DEF Bounded
  <2> QED BY <2>1, <2>2
<1>5. PICK b \in Nat : \A i \in 1 .. (m - 1) : h[i] <= b
  BY <1>4
<1>6. m \in 1 .. n /\ h[m] \in Nat
  BY <1>3
<1>7. \A i \in 1 .. m : h[i] <= b + h[m]
  <2>1. TAKE i \in 1 .. m
  <2>2. CASE i = m
    BY <1>6, <2>2
  <2>3. CASE i # m
    <3>1. i \in 1 .. (m - 1) /\ h[i] \in Nat
      BY <1>6, <2>3
    <3> QED BY <1>5, <1>6, <3>1
  <2> QED BY <2>2, <2>3
<1>8. Bounded(m)
  <2>1. b + h[m] \in Nat
    BY <1>6
  <2> QED BY <1>7, <2>1
<1> QED BY <1>8

LEMMA FamilyBounded ==
  ASSUME NEW I, IsFiniteSet(I), NEW g \in [I -> Nat]
  PROVE  \E b \in Nat : \A i \in I : g[i] <= b
<1>1. PICK n \in Nat : ExistsSurjection(1 .. n, I)
  BY FS_NatSurjection
<1>2. PICK e \in [1 .. n -> I] : \A i \in I : \E j \in 1 .. n : e[j] = i
  BY <1>1 DEF ExistsSurjection, Surjection
<1> DEFINE h == [j \in 1 .. n |-> g[e[j]]]
<1>3. h \in [1 .. n -> Nat]
  OBVIOUS
<1>4. PICK b \in Nat : \A j \in 1 .. n : h[j] <= b
  <2> HIDE DEF h
  <2> QED BY <1>3, ListBounded
<1> QED BY <1>2, <1>4

-----------------------------------------------------------------------------
(***************************************************************************)
(* Sequences of steps.                                                     *)
(***************************************************************************)
\* A step in front of others.
LEMMA Cons ==
  ASSUME NEW S, NEW a \in S, NEW K \in Seq(S)
  PROVE  /\ <<a>> \o K \in Seq(S) /\ Len(<<a>> \o K) = Len(K) + 1
         /\ (<<a>> \o K)[1] = a /\ Tail(<<a>> \o K) = K /\ <<a>> \o K # <<>>
OBVIOUS

LEMMA Cat1 == ASSUME NEW a, NEW b PROVE <<a>> \o <<b>> = <<a, b>>
<1> DEFINE S == {a, b}
<1>1. <<a>> \in Seq(S) /\ <<b>> \in Seq(S) /\ <<a, b>> \in Seq(S)
  OBVIOUS
<1>2. Len(<<a>>) = 1 /\ Len(<<b>>) = 1 /\ Len(<<a, b>>) = 2
  OBVIOUS
<1> HIDE DEF S
<1>3. Len(<<a>> \o <<b>>) = 2 /\ <<a>> \o <<b>> \in Seq(S)
  BY <1>1, <1>2, ConcatProperties
<1>4. \A i \in 1 .. 2 : (<<a>> \o <<b>>)[i] = <<a, b>>[i]
  BY <1>1, <1>2, ConcatProperties
<1> QED BY <1>1, <1>2, <1>3, <1>4, SeqEqual

\* Two steps in front of others.
Two(a, b, K) == <<a, b>> \o K

TwoOK(a, b, K) ==
  LET R == Two(a, b, K)
  IN /\ R \in Seq(Steps) /\ Len(R) = Len(K) + 2
     /\ R[1] = a /\ R[2] = b
     /\ Tail(Tail(R)) = K /\ R # <<>>
     /\ Tail(R) = <<b>> \o K

LEMMA TwoIs ==
  ASSUME NEW a \in Steps, NEW b \in Steps, NEW K \in Seq(Steps) PROVE TwoOK(a, b, K)
<1>1. <<a>> \in Seq(Steps) /\ <<b>> \in Seq(Steps)
  OBVIOUS
<1>2. Two(a, b, K) = <<a>> \o (<<b>> \o K)
  <2>1. (<<a>> \o <<b>>) \o K = <<a>> \o (<<b>> \o K)
    BY <1>1, ConcatAssociative
  <2>2. <<a>> \o <<b>> = <<a, b>>
    BY Cat1
  <2> QED BY <2>1, <2>2 DEF Two
<1>3. <<b>> \o K \in Seq(Steps) /\ Len(<<b>> \o K) = Len(K) + 1 /\ (<<b>> \o K)[1] = b
      /\ Tail(<<b>> \o K) = K
  BY Cons
<1>4. (<<a>> \o (<<b>> \o K))[2] = b
  BY <1>1, <1>3, ConcatProperties, LenProperties
<1>5. Len(K) \in Nat
  BY LenProperties
<1> QED BY <1>2, <1>3, <1>4, <1>5, Cons, SMTT(30) DEF TwoOK

\* What a sequence of steps has, its first step or the others have.
LEMMA HasTail ==
  ASSUME NEW S, NEW K \in Seq(S), K # <<>>, NEW w
  PROVE  Has(K, w) <=> K[1].do = w \/ Has(Tail(K), w)
<1>1. Len(K) \in Nat \ {0} /\ DOMAIN K = 1 .. Len(K)
  BY EmptySeq, LenProperties
<1>2. /\ Tail(K) \in Seq(S) /\ Len(Tail(K)) = Len(K) - 1
      /\ \A i \in 1 .. Len(Tail(K)) : Tail(K)[i] = K[i + 1]
  BY HeadTailProperties
<1>3. DOMAIN Tail(K) = 1 .. (Len(K) - 1)
  BY <1>2, LenProperties
<1>4. ASSUME Has(K, w), K[1].do # w PROVE Has(Tail(K), w)
  <2>1. PICK n \in 1 .. Len(K) : K[n].do = w
    BY <1>1, <1>4 DEF Has
  <2>2. n - 1 \in 1 .. (Len(K) - 1) /\ n = (n - 1) + 1
    BY <1>1, <1>4, <2>1
  <2>3. Tail(K)[n - 1] = K[n]
    BY <1>2, <2>2
  <2> QED BY <1>3, <2>1, <2>2, <2>3 DEF Has
<1>5. ASSUME Has(Tail(K), w) PROVE Has(K, w)
  <2>1. PICK n \in 1 .. (Len(K) - 1) : Tail(K)[n].do = w
    BY <1>3, <1>5 DEF Has
  <2>2. n + 1 \in 1 .. Len(K) /\ Tail(K)[n] = K[n + 1]
    BY <1>1, <1>2, <2>1
  <2> QED BY <1>1, <2>1, <2>2 DEF Has
<1>6. ASSUME K[1].do = w PROVE Has(K, w)
  BY <1>1, <1>6 DEF Has
<1> QED BY <1>4, <1>5, <1>6

LEMMA HasNone == ASSUME NEW w PROVE ~Has(<<>>, w)
BY DEF Has

-----------------------------------------------------------------------------
(***************************************************************************)
(* The election, of one pair of sides.                                     *)
(***************************************************************************)
LEMMA BlankUnfit ==
  ASSUME NEW l, NEW x PROVE ~Fit(l, x, Blank) /\ ~Fit(l, x, Garbage)
BY DEF Fit, Blank, Garbage

\* The winner is fit, and there is one if any side is.
LEMMA WinFacts ==
  ASSUME NEW l, NEW x, NEW pair \in Pairs, NEW s \in Side
  PROVE  /\ Win(l, x, pair, s) \in Side \cup {"none"}
         /\ Win(l, x, pair, s) \in Side => Fit(l, x, pair[Win(l, x, pair, s)])
                                           /\ Top(l, x, pair, s) = pair[Win(l, x, pair, s)]
         /\ Win(l, x, pair, s) = "none" => Top(l, x, pair, s) = Blank
                                           /\ \A t \in Side : ~Fit(l, x, pair[t])
         /\ Top(l, x, pair, s) # Blank => Win(l, x, pair, s) \in Side
                                          /\ Fit(l, x, Top(l, x, pair, s))
         /\ Top(l, x, pair, s) \in Cells \cup {Blank}
BY BlankUnfit, TwoSides DEF Win, Top, Side, Other, Pairs

\* Nothing changes when something unfit takes the place of a side that did not win.
LEMMA Weed ==
  ASSUME NEW l, NEW x, NEW pair \in Pairs, NEW s \in Side, NEW r \in Side,
         NEW t \in Side, t # Win(l, x, pair, s), r = s \/ r = t,
         NEW q, ~Fit(l, x, q[t]), q[Other(t)] = pair[Other(t)]
  PROVE  /\ Win(l, x, q, r) = Win(l, x, pair, s)
         /\ Top(l, x, q, r) = Top(l, x, pair, s)
BY DEF Win, Top, Side, Other, Pairs

\* What is fit and sealed last wins.
LEMMA Crown ==
  ASSUME NEW l, NEW x, NEW q, NEW t \in Side, Fit(l, x, q[t])
  PROVE  Win(l, x, q, t) = t /\ Top(l, x, q, t) = q[t]
BY DEF Win, Top, Side, Other

\* What counts depends on the epoch and the generations alone.
LEMMA SameWin ==
  ASSUME NEW l, NEW m, l.epoch = m.epoch, l.gens = m.gens, NEW x, NEW pair, NEW s
  PROVE  /\ Win(m, x, pair, s) = Win(l, x, pair, s) /\ Top(m, x, pair, s) = Top(l, x, pair, s)
         /\ \A c : Fit(m, x, c) <=> Fit(l, x, c)
         /\ CleanPair(m, x, pair, s) <=> CleanPair(l, x, pair, s)
<1>1. \A c : Fit(m, x, c) <=> Fit(l, x, c)
  BY DEF Fit, IsCandidate
<1>2. /\ Win(m, x, pair, s) = Win(l, x, pair, s) /\ Top(m, x, pair, s) = Top(l, x, pair, s)
  BY <1>1 DEF Win, Top
<1> QED BY <1>1, <1>2 DEF CleanPair

\* In a clean pair a new ledger may unseat the winner and nothing else.
LEMMA Recount ==
  ASSUME NEW l, NEW m, NEW x, NEW pair \in Pairs, NEW s \in Side,
         CleanPair(l, x, pair, s)
  PROVE  Top(m, x, pair, s) = IF Fit(m, x, Top(l, x, pair, s)) THEN Top(l, x, pair, s) ELSE Blank
BY BlankUnfit DEF Top, Win, CleanPair, Side, Other, Pairs

-----------------------------------------------------------------------------
(***************************************************************************)
(* The election, of all slots.                                             *)
(***************************************************************************)
LEMMA PairType ==
  ASSUME NEW fl \in Flashes, NEW la \in Lasts, NEW x \in Slot
  PROVE  fl[x] \in Pairs /\ la[x] \in Side /\ fl[x] \in [Side -> Cells]
BY DEF Flashes, Lasts, Pairs

\* What is elected is a record under the ledger's epoch.
LEMMA CurType ==
  ASSUME NEW fl \in Flashes, NEW la \in Lasts, NEW l
  PROVE  /\ CurOf(fl, la, l) \in [Slot -> Record \cup {Blank}]
         /\ WinOf(fl, la, l) \in Tables
         /\ \A x \in Slot : CurOf(fl, la, l)[x] # Blank =>
              Fit(l, x, CurOf(fl, la, l)[x]) /\ CurOf(fl, la, l)[x] \in Record
<1>1. ASSUME NEW x \in Slot
      PROVE /\ Top(l, x, fl[x], la[x]) \in Record \cup {Blank}
            /\ Win(l, x, fl[x], la[x]) \in Side \cup {"none"}
            /\ Top(l, x, fl[x], la[x]) # Blank => Fit(l, x, Top(l, x, fl[x], la[x]))
  <2>1. fl[x] \in Pairs /\ la[x] \in Side
    BY PairType
  <2>2. /\ Top(l, x, fl[x], la[x]) \in Cells \cup {Blank}
        /\ Win(l, x, fl[x], la[x]) \in Side \cup {"none"}
        /\ Top(l, x, fl[x], la[x]) # Blank => Fit(l, x, Top(l, x, fl[x], la[x]))
    BY <2>1, WinFacts
  <2>3. Top(l, x, fl[x], la[x]) # Garbage
    BY <2>2, BlankUnfit DEF Garbage, Blank
  <2> QED BY <2>2, <2>3 DEF Cells
<1> QED BY <1>1 DEF CurOf, WinOf, Tables

\* A change of one side, and what it leaves.
OneSide(fl, la, fl2, la2, x, t) ==
  /\ fl2[x][Other(t)] = fl[x][Other(t)] /\ la2[x] \in {la[x], t}
  /\ \A y \in Slot \ {x} : fl2[y] = fl[y] /\ la2[y] = la[y]

LEMMA WeedSlot ==
  ASSUME NEW fl \in Flashes, NEW la \in Lasts, NEW l, NEW x \in Slot, NEW t \in Side,
         NEW fl2, NEW la2, OneSide(fl, la, fl2, la2, x, t),
         t # Win(l, x, fl[x], la[x]), ~Fit(l, x, fl2[x][t])
  PROVE  /\ CurOf(fl2, la2, l) = CurOf(fl, la, l)
         /\ WinOf(fl2, la2, l) = WinOf(fl, la, l)
<1>1. ASSUME NEW y \in Slot
      PROVE /\ Top(l, y, fl2[y], la2[y]) = Top(l, y, fl[y], la[y])
            /\ Win(l, y, fl2[y], la2[y]) = Win(l, y, fl[y], la[y])
  <2>1. fl[y] \in Pairs /\ la[y] \in Side
    BY PairType
  <2>2. CASE y # x
    BY <2>2 DEF OneSide
  <2>3. CASE y = x
    <3>1. fl2[x][Other(t)] = fl[x][Other(t)] /\ la2[x] \in Side /\ (la2[x] = la[x] \/ la2[x] = t)
      BY <2>1, <2>3 DEF OneSide
    <3>2. fl[x] \in Pairs /\ la[x] \in Side
      BY <2>1, <2>3
    <3>3. /\ Win(l, x, fl2[x], la2[x]) = Win(l, x, fl[x], la[x])
          /\ Top(l, x, fl2[x], la2[x]) = Top(l, x, fl[x], la[x])
      <4> DEFINE q == fl2[x]
                 r == la2[x]
                 pair == fl[x]
                 s == la[x]
      <4>1. /\ pair \in Pairs /\ s \in Side /\ r \in Side /\ (r = s \/ r = t)
            /\ t # Win(l, x, pair, s) /\ ~Fit(l, x, q[t]) /\ q[Other(t)] = pair[Other(t)]
        BY <3>1, <3>2
      <4> HIDE DEF q, r, pair, s
      <4>2. Win(l, x, q, r) = Win(l, x, pair, s) /\ Top(l, x, q, r) = Top(l, x, pair, s)
        BY <4>1, Weed
      <4> QED BY <4>2 DEF q, r, pair, s
    <3> QED BY <2>3, <3>3
  <2> QED BY <2>2, <2>3
<1> QED BY <1>1 DEF CurOf, WinOf

LEMMA CrownSlot ==
  ASSUME NEW fl, NEW la, NEW l, NEW x \in Slot, NEW t \in Side,
         NEW fl2, NEW la2, OneSide(fl, la, fl2, la2, x, t), la2[x] = t,
         Fit(l, x, fl2[x][t])
  PROVE  /\ CurOf(fl2, la2, l) = Put(CurOf(fl, la, l), x, fl2[x][t])
         /\ WinOf(fl2, la2, l) = Put(WinOf(fl, la, l), x, t)
<1>1. ASSUME NEW y \in Slot
      PROVE /\ Top(l, y, fl2[y], la2[y]) = IF y = x THEN fl2[x][t] ELSE Top(l, y, fl[y], la[y])
            /\ Win(l, y, fl2[y], la2[y]) = IF y = x THEN t ELSE Win(l, y, fl[y], la[y])
  <2>1. CASE y # x
    BY <2>1 DEF OneSide
  <2>2. CASE y = x
    BY <2>2, Crown
  <2> QED BY <2>1, <2>2
<1>2. /\ CurOf(fl, la, l) = [y \in Slot |-> Top(l, y, fl[y], la[y])]
      /\ WinOf(fl, la, l) = [y \in Slot |-> Win(l, y, fl[y], la[y])]
      /\ CurOf(fl2, la2, l) = [y \in Slot |-> Top(l, y, fl2[y], la2[y])]
      /\ WinOf(fl2, la2, l) = [y \in Slot |-> Win(l, y, fl2[y], la2[y])]
  BY DEF CurOf, WinOf
<1>3. CurOf(fl2, la2, l) = [CurOf(fl, la, l) EXCEPT ![x] = fl2[x][t]]
  BY <1>1, <1>2
<1>4. WinOf(fl2, la2, l) = [WinOf(fl, la, l) EXCEPT ![x] = t]
  BY <1>1, <1>2
<1> QED BY <1>3, <1>4 DEF Put

LEMMA SameCur ==
  ASSUME NEW l, NEW m, l.epoch = m.epoch, l.gens = m.gens, NEW fl, NEW la
  PROVE  CurOf(fl, la, m) = CurOf(fl, la, l) /\ WinOf(fl, la, m) = WinOf(fl, la, l)
BY SameWin DEF CurOf, WinOf

\* The operators of the model are these.
LEMMA ElectIs ==
  TypeDisk => \A l : Elect(l) = WinOf(flash, last, l)
<1> SUFFICES ASSUME TypeDisk, NEW l PROVE Elect(l) = WinOf(flash, last, l)
  OBVIOUS
<1>1. ASSUME NEW x \in Slot
      PROVE (LET sides == Candidates(l, x)
             IN IF sides = {} THEN "none"
                ELSE IF last[x] \in sides THEN last[x] ELSE CHOOSE s \in sides : TRUE)
            = Win(l, x, flash[x], last[x])
  <2>1. flash[x] \in Pairs /\ last[x] \in Side
    BY PairType DEF TypeDisk
  <2>2. Candidates(l, x) = {s \in Side : Fit(l, x, flash[x][s])}
    BY DEF Candidates, Fit
  <2>3. CASE Fit(l, x, flash[x][last[x]])
    BY <2>1, <2>2, <2>3 DEF Win
  <2>4. CASE ~Fit(l, x, flash[x][last[x]]) /\ Fit(l, x, flash[x][Other(last[x])])
    <3>1. Candidates(l, x) = {Other(last[x])}
      BY <2>1, <2>2, <2>4, TwoSides
    <3>2. last[x] \notin Candidates(l, x)
      BY <2>1, <3>1, TwoSides
    <3>3. (CHOOSE s \in {Other(last[x])} : TRUE) = Other(last[x])
      OBVIOUS
    <3> QED BY <2>1, <2>4, <3>1, <3>2, <3>3 DEF Win
  <2>5. CASE ~Fit(l, x, flash[x][last[x]]) /\ ~Fit(l, x, flash[x][Other(last[x])])
    <3>1. Candidates(l, x) = {}
      BY <2>1, <2>2, <2>5, TwoSides
    <3> QED BY <2>5, <3>1 DEF Win
  <2> QED BY <2>3, <2>4, <2>5
<1> QED BY <1>1 DEF Elect, WinOf

LEMMA AtIs == TypeDisk => ElectOK
<1> SUFFICES ASSUME TypeDisk PROVE ElectOK
  OBVIOUS
<1>1. \A l : Elect(l) = WinOf(flash, last, l)
  BY ElectIs
<1>2. OnFlash = Winners
  BY <1>1 DEF OnFlash, Winners
<1>3. ASSUME NEW x \in Slot PROVE At(Winners, x) = Current[x]
  <2> DEFINE w == Win(ledger, x, flash[x], last[x])
             c == Top(ledger, x, flash[x], last[x])
  <2>1. flash[x] \in Pairs /\ last[x] \in Side
    BY PairType DEF TypeDisk
  <2>2. Winners[x] = w /\ Current[x] = c
    BY DEF WinOf, CurOf, Winners, Current
  <2>3. /\ w \in Side \cup {"none"}
        /\ w \in Side => c = flash[x][w]
        /\ w = "none" => c = Blank
    BY <2>1, WinFacts
  <2> HIDE DEF w, c
  <2>4. CASE w = "none"
    BY <2>2, <2>3, <2>4 DEF At
  <2>5. CASE w \in Side
    <3>1. w # "none"
      BY <2>5 DEF Side
    <3> QED BY <2>2, <2>3, <2>5, <3>1 DEF At
  <2> QED BY <2>3, <2>4, <2>5
<1> QED BY <1>1, <1>2, <1>3 DEF ElectOK

LEMMA SlotType == Slot = {Super} \cup Where /\ Where = User \cup Identity /\ Identity \subseteq Slot
                  /\ User \subseteq Slot /\ Super \in Slot /\ Super \notin Where /\ First \in Identity
BY NamesAssumption, VaultAssumption DEF Slot, Where

LEMMA StoredIs == TypeDisk => StoredOK
<1> SUFFICES ASSUME TypeDisk PROVE Stored = FoundOf(Current, ledger.gens)
  BY DEF StoredOK
<1>1. OnFlash = Winners /\ \A x \in Slot : At(Winners, x) = Current[x]
  BY AtIs DEF ElectOK
<1>2. Current \in [Slot -> Record \cup {Blank}]
  BY CurType DEF TypeDisk, Current
<1>3. \A x \in Slot : Current[x].kind = "record" <=> Current[x] # Blank
  BY <1>2 DEF Record, Blank
<1>4. \A i \in Identity : PinOf(Winners, i) = PinIn(Current, i)
  BY <1>1, <1>3, SlotType DEF PinOf, PinIn, HasSuper
<1>5. \A r : Owners(Winners, r) = OwnersIn(Current, ledger.gens, r)
  BY <1>4 DEF Owners, OwnersIn
<1>6. ASSUME NEW u \in User PROVE Holds(Winners, u) = HoldsIn(Current, ledger.gens, u)
  <2> DEFINE r == Current[u]
             owners == OwnersIn(Current, ledger.gens, r)
  <2>1. At(Winners, u) = r /\ Owners(Winners, r) = owners
    BY <1>1, <1>5, SlotType
  <2>2. Holds(Winners, u) = IF r = Blank \/ r.key = Filler THEN Nothing
                            ELSE IF owners = {} THEN Corrupt
                            ELSE <<CHOOSE i \in owners : TRUE, r.body>>
    BY <2>1 DEF Holds
  <2> QED BY <2>2 DEF HoldsIn
<1> QED BY <1>1, <1>4, <1>6 DEF Stored, FoundOf, Where

LEMMA StoredIsNext == TypeDisk' => StoredOK'
BY StoredIs, PTL

-----------------------------------------------------------------------------
(***************************************************************************)
(* What elected records that are owned amount to.                          *)
(***************************************************************************)
LEMMA KeysDiffer == /\ Filler \notin Pin /\ NoPin \notin Pin /\ Super \notin Pin /\ Super # Filler
                    /\ Corrupt \notin Policies /\ Corrupt # Nothing
BY NamesAssumption

LEMMA BlankIs == Blank \notin Record /\ Garbage \notin Record /\ Blank # Garbage
BY DEF Blank, Garbage, Record

LEMMA PinIs ==
  ASSUME NEW e, NEW g, Owned(e, g), NEW i \in Identity
  PROVE  /\ PinIn(e, i) = IF e[i] # Blank /\ e[i].key \in Pin THEN e[i].key ELSE NoPin
         /\ PinIn(e, i) # NoPin <=> e[i] # Blank /\ e[i].key \in Pin
         /\ PinIn(e, i) \in Pin \cup {NoPin}
         /\ e[i] # Blank /\ e[i].key \in Pin => e[i].gen = g[i] /\ g[i] # 0 /\ e[i].body \in Policies
<1>1. e[i] # Blank => e[Super] # Blank /\ e[Super].body # Corrupt
  BY KeysDiffer DEF Owned
<1>2. e[i] # Blank /\ e[i].key \in Pin => e[i].gen = g[i] /\ g[i] # 0 /\ e[i].body \in Policies
  BY KeysDiffer DEF Owned, IsFiller
<1> QED BY <1>1, <1>2, KeysDiffer DEF PinIn

\* Where the first identity has a canary there may be something, and only there.
LEMMA FirstIs ==
  ASSUME NEW e, NEW g, Owned(e, g)
  PROVE  /\ PinIn(e, First) # NoPin <=> e[First] # Blank
         /\ e[First] # Blank => e[First].key \in Pin /\ e[First].gen = g[First] /\ g[First] # 0
                                /\ e[Super] # Blank
         /\ e[First] = Blank => \A x \in Where : e[x] = Blank
<1>1. First \in Identity /\ First \in Where
  BY SlotType
<1>2. e[First] # Blank => e[First].key \in Pin
  BY <1>1 DEF Owned
<1>3. e[First] = Blank => \A x \in Where : e[x] = Blank
  BY SlotType DEF Owned, Where
<1>4. e[First] # Blank => e[Super] # Blank
  BY <1>1 DEF Owned
<1> QED BY <1>1, <1>2, <1>3, <1>4, PinIs

LEMMA HoldsIs ==
  ASSUME NEW e, NEW g, Owned(e, g), NEW u \in User
  PROVE  /\ e[u] = Blank \/ e[u].key = Filler => HoldsIn(e, g, u) = Nothing
         /\ e[u] # Blank /\ e[u].key # Filler =>
              /\ e[u].key \in Pin /\ e[u].body \in Data
              /\ \E i \in Identity : /\ e[u].gen = g[i] /\ e[i] # Blank /\ e[i].key = e[u].key
                                     /\ HoldsIn(e, g, u) = <<i, e[u].body>>
         /\ e[u] # Blank /\ e[u].key = Filler => e[u].gen = g[First]
<1>1. ASSUME e[u] # Blank, e[u].key # Filler
      PROVE  /\ e[u].key \in Pin /\ e[u].body \in Data
             /\ \E i \in Identity : /\ e[u].gen = g[i] /\ e[i] # Blank /\ e[i].key = e[u].key
                                    /\ HoldsIn(e, g, u) = <<i, e[u].body>>
  <2>1. /\ e[u].key \in Pin /\ e[u].body \in Data
        /\ \E i \in Identity : e[u].gen = g[i] /\ e[i] # Blank /\ e[i].key = e[u].key
    BY <1>1 DEF Owned, IsFiller
  <2>2. PICK i \in Identity : e[u].gen = g[i] /\ e[i] # Blank /\ e[i].key = e[u].key
    BY <2>1
  <2>3. PinIn(e, i) = e[u].key /\ g[i] # 0
    BY <2>1, <2>2, PinIs
  <2>4. \A j \in Identity : g[j] = e[u].gen => j = i
    BY <2>2, <2>3 DEF Owned, Uniq
  <2>5. OwnersIn(e, g, e[u]) = {i}
    BY <2>2, <2>3, <2>4 DEF OwnersIn
  <2>6. HoldsIn(e, g, u) = <<i, e[u].body>>
    BY <1>1, <2>5 DEF HoldsIn
  <2> QED BY <2>1, <2>2, <2>6
<1>2. e[u] # Blank /\ e[u].key = Filler => e[u].gen = g[First]
  BY KeysDiffer DEF Owned, IsFiller
<1> QED BY <1>1, <1>2 DEF HoldsIn

\* What a slot holds when its record is the user data of identity i.
LEMMA HoldsData ==
  ASSUME NEW e, NEW g, Owned(e, g), NEW u \in User, NEW i \in Identity,
         e[u] # Blank, e[u].key # Filler, e[u].gen = g[i]
  PROVE  HoldsIn(e, g, u) = <<i, e[u].body>>
<1>1. PICK j \in Identity : /\ e[u].gen = g[j] /\ e[j] # Blank /\ e[j].key = e[u].key
                            /\ HoldsIn(e, g, u) = <<j, e[u].body>> /\ e[u].key \in Pin
  BY HoldsIs
<1>2. g[j] # 0
  BY <1>1, PinIs
<1>3. i = j
  BY <1>1, <1>2 DEF Owned, Uniq
<1> QED BY <1>1, <1>3

\* What is found at a slot, by the kind of slot.
LEMMA FoundAt ==
  ASSUME NEW e, NEW g
  PROVE  /\ DOMAIN FoundOf(e, g) = Where
         /\ \A u \in User : FoundOf(e, g)[u] = HoldsIn(e, g, u)
         /\ \A i \in Identity : FoundOf(e, g)[i] = PinIn(e, i)
         /\ \A h : DOMAIN h = Where /\ (\A u \in User : h[u] = HoldsIn(e, g, u))
                   /\ (\A i \in Identity : h[i] = PinIn(e, i))
                   /\ (h = [x \in Where |-> h[x]]) => h = FoundOf(e, g)
BY NamesAssumption DEF FoundOf, Where

LEMMA PutIs ==
  ASSUME NEW S, NEW f, f = [x \in S |-> f[x]], NEW y \in S, NEW v
  PROVE  /\ Put(f, y, v) = [x \in S |-> IF x = y THEN v ELSE f[x]]
         /\ Put(f, y, v)[y] = v /\ \A x \in S \ {y} : Put(f, y, v)[x] = f[x]
         /\ f[y] = v => Put(f, y, v) = f
BY DEF Put

LEMMA PutFound ==
  ASSUME NEW e, NEW g, NEW y \in Where, NEW v
  PROVE  /\ Put(FoundOf(e, g), y, v) = [x \in Where |-> IF x = y THEN v ELSE FoundOf(e, g)[x]]
         /\ Put(FoundOf(e, g), y, v)[y] = v
         /\ \A x \in Where \ {y} : Put(FoundOf(e, g), y, v)[x] = FoundOf(e, g)[x]
BY DEF Put, FoundOf

LEMMA PutRecord ==
  ASSUME NEW e, e \in [Slot -> Record \cup {Blank}], NEW y \in Slot, NEW r \in Record
  PROVE  /\ Put(e, y, r) \in [Slot -> Record \cup {Blank}]
         /\ Put(e, y, r)[y] = r /\ \A x \in Slot \ {y} : Put(e, y, r)[x] = e[x]
         /\ r # Blank
BY BlankIs DEF Put

-----------------------------------------------------------------------------
(***************************************************************************)
(* What becomes of it when a record is sealed.                             *)
(***************************************************************************)
\* User data, under the canary of its identity.
LEMMA PutData ==
  ASSUME NEW e, NEW g, Owned(e, g), NEW u \in User, NEW i \in Identity, NEW r \in Record,
         e[i] # Blank, e[i].key = r.key, r.key \in Pin, r.gen = g[i], r.body \in Data
  PROVE  /\ Owned(Put(e, u, r), g)
         /\ FoundOf(Put(e, u, r), g) = Put(FoundOf(e, g), u, <<i, r.body>>)
<1> DEFINE h == Put(e, u, r)
<1>1. /\ h \in [Slot -> Record \cup {Blank}] /\ h[u] = r /\ r # Blank
      /\ \A x \in Slot \ {u} : h[x] = e[x]
  BY PutRecord, SlotType DEF Owned
<1>2. u \notin Identity /\ u # Super /\ First # u
  BY NamesAssumption, VaultAssumption
<1>3. r.gen # 0 /\ e[Super] # Blank /\ e[First] # Blank /\ e[First].key \in Pin
  <2>1. g[i] # 0
    BY PinIs
  <2>2. e[Super] # Blank /\ e[First] # Blank /\ e[First].key \in Pin
    BY DEF Owned
  <2> QED BY <2>1, <2>2
<1>4. /\ h[Super] = e[Super] /\ (\A j \in Identity : h[j] = e[j])
      /\ \A v \in User \ {u} : h[v] = e[v]
  BY <1>1, <1>2, SlotType
<1> HIDE DEF h
<1>5. Owned(h, g)
  <2>1. g \in [Identity -> Nat] /\ Uniq(g)
    BY DEF Owned
  <2>2. \A x \in Identity \cup User :
          h[x] # Blank => h[x].gen # 0 /\ h[Super] # Blank /\ h[First] # Blank /\ h[First].key \in Pin
    BY <1>1, <1>3, <1>4, VaultAssumption DEF Owned
  <2>3. h[Super] # Blank => h[Super].body \in Policies
    BY <1>4 DEF Owned
  <2>4. \A j \in Identity :
          h[j] # Blank => \/ IsFiller(h[j], g)
                          \/ h[j].key \in Pin /\ h[j].gen = g[j] /\ h[j].body \in Policies
    BY <1>4 DEF Owned
  <2>5. \A v \in User :
         h[v] # Blank => \/ IsFiller(h[v], g)
                         \/ /\ h[v].key \in Pin /\ h[v].body \in Data
                            /\ \E j \in Identity : /\ h[v].gen = g[j]
                                                   /\ h[j] # Blank /\ h[j].key = h[v].key
    BY <1>1, <1>4 DEF Owned
  <2> QED BY <1>1, <2>1, <2>2, <2>3, <2>4, <2>5 DEF Owned
<1>6. HoldsIn(h, g, u) = <<i, r.body>>
  BY <1>1, <1>5, HoldsData, KeysDiffer
<1>7. \A j \in Identity : PinIn(h, j) = PinIn(e, j)
  BY <1>4 DEF PinIn
<1>8. ASSUME NEW v \in User \ {u} PROVE HoldsIn(h, g, v) = HoldsIn(e, g, v)
  <2>1. h[v] = e[v] /\ OwnersIn(h, g, e[v]) = OwnersIn(e, g, e[v])
    BY <1>4, <1>7 DEF OwnersIn
  <2> QED BY <2>1 DEF HoldsIn
<1>9. FoundOf(h, g) = Put(FoundOf(e, g), u, <<i, r.body>>)
  <2>1. u \in Where
    BY SlotType
  <2>2. \A x \in Where : FoundOf(h, g)[x] = IF x = u THEN <<i, r.body>> ELSE FoundOf(e, g)[x]
    BY <1>2, <1>6, <1>7, <1>8, FoundAt, SlotType
  <2> QED BY <2>1, <2>2, PutFound DEF FoundOf
<1> QED BY <1>5, <1>9 DEF h

\* Filler.
LEMMA PutFiller ==
  ASSUME NEW e, NEW g, Owned(e, g), NEW x \in Where, NEW r \in Record, e[First] # Blank,
         r.key = Filler, r.gen = g[First], x \in User \/ e[x] = Blank
  PROVE  /\ Owned(Put(e, x, r), g)
         /\ FoundOf(Put(e, x, r), g) = IF x \in User THEN Put(FoundOf(e, g), x, Nothing)
                                       ELSE FoundOf(e, g)
<1> DEFINE h == Put(e, x, r)
<1>1. /\ h \in [Slot -> Record \cup {Blank}] /\ h[x] = r /\ r # Blank
      /\ \A y \in Slot \ {x} : h[y] = e[y]
  <2>1. x \in Slot /\ e \in [Slot -> Record \cup {Blank}]
    BY SlotType DEF Owned
  <2> QED BY <2>1, PutRecord
<1>2. x # Super /\ First # x
  <2>1. First \notin User /\ e[First] # Blank /\ (x \in User \/ e[x] = Blank)
    BY NamesAssumption, VaultAssumption
  <2> QED BY <2>1, SlotType
<1>3. r.gen # 0 /\ e[Super] # Blank /\ e[First] # Blank /\ e[First].key \in Pin
  BY FirstIs
<1>4. /\ h[Super] = e[Super] /\ h[First] = e[First]
      /\ (\A j \in Identity \ {x} : h[j] = e[j]) /\ \A v \in User \ {x} : h[v] = e[v]
  BY <1>1, <1>2, SlotType
<1> HIDE DEF h
<1>5. Owned(h, g)
  <2>1. g \in [Identity -> Nat] /\ Uniq(g)
    BY DEF Owned
  <2>2. ASSUME NEW y \in Identity \cup User, h[y] # Blank
        PROVE  h[y].gen # 0 /\ h[Super] # Blank /\ h[First] # Blank /\ h[First].key \in Pin
    BY <1>1, <1>3, <1>4, <2>2 DEF Owned
  <2>3. h[Super] # Blank => h[Super].body \in Policies
    BY <1>4 DEF Owned
  <2>4. \A j \in Identity :
          h[j] # Blank => \/ IsFiller(h[j], g)
                          \/ h[j].key \in Pin /\ h[j].gen = g[j] /\ h[j].body \in Policies
    BY <1>1, <1>4 DEF Owned, IsFiller
  <2>5. ASSUME NEW v \in User, h[v] # Blank, ~IsFiller(h[v], g)
        PROVE  /\ h[v].key \in Pin /\ h[v].body \in Data
               /\ \E j \in Identity : /\ h[v].gen = g[j]
                                      /\ h[j] # Blank /\ h[j].key = h[v].key
    <3>1. v # x
      BY <1>1, <2>5 DEF IsFiller
    <3>2. h[v] = e[v] /\ e[v].key \in Pin /\ e[v].body \in Data
      BY <1>4, <2>5, <3>1 DEF Owned
    <3>3. PICK j \in Identity : e[v].gen = g[j] /\ e[j] # Blank /\ e[j].key = e[v].key
      BY <1>4, <2>5, <3>1 DEF Owned
    <3>4. j # x
      BY <3>3, NamesAssumption
    <3> QED BY <1>4, <3>2, <3>3, <3>4
  <2> QED BY <1>1, <2>1, <2>2, <2>3, <2>4, <2>5 DEF Owned
<1>6. x \in User => HoldsIn(h, g, x) = Nothing
  BY <1>1 DEF HoldsIn
<1>7. \A j \in Identity : PinIn(h, j) = PinIn(e, j)
  BY <1>1, <1>4, KeysDiffer, NamesAssumption DEF PinIn
<1>8. ASSUME NEW v \in User \ {x} PROVE HoldsIn(h, g, v) = HoldsIn(e, g, v)
  <2>1. h[v] = e[v] /\ OwnersIn(h, g, e[v]) = OwnersIn(e, g, e[v])
    BY <1>4, <1>7 DEF OwnersIn
  <2> QED BY <2>1 DEF HoldsIn
<1>9. FoundOf(h, g) = IF x \in User THEN Put(FoundOf(e, g), x, Nothing) ELSE FoundOf(e, g)
  <2>1. \A y \in Where : FoundOf(h, g)[y] = IF x \in User /\ y = x THEN Nothing ELSE FoundOf(e, g)[y]
    BY <1>6, <1>7, <1>8, FoundAt, SlotType, NamesAssumption
  <2>2. x \in User => FoundOf(h, g) = [y \in Where |-> IF y = x THEN Nothing ELSE FoundOf(e, g)[y]]
    BY <2>1 DEF FoundOf
  <2>3. x \notin User => FoundOf(h, g) = FoundOf(e, g)
    BY <2>1 DEF FoundOf
  <2> QED BY <2>2, <2>3, PutFound
<1> QED BY <1>5, <1>9 DEF h

\* A canary under the PIN it has, and the superblock: nothing of it shows.
LEMMA PutCanary ==
  ASSUME NEW e, NEW g, Owned(e, g), NEW i \in Identity, NEW r \in Record,
         e[i] # Blank, e[i].key = r.key, r.key \in Pin, r.gen = g[i], r.body \in Policies
  PROVE  Owned(Put(e, i, r), g) /\ FoundOf(Put(e, i, r), g) = FoundOf(e, g)
<1> DEFINE h == Put(e, i, r)
<1>1. /\ h \in [Slot -> Record \cup {Blank}] /\ h[i] = r /\ r # Blank
      /\ \A y \in Slot \ {i} : h[y] = e[y]
  <2>1. i \in Slot /\ e \in [Slot -> Record \cup {Blank}]
    BY SlotType DEF Owned
  <2> QED BY <2>1, PutRecord
<1>2. i # Super /\ i \notin User
  BY NamesAssumption
<1>3. r.gen # 0
  BY PinIs
<1>4. /\ h[Super] = e[Super] /\ (\A j \in Identity \ {i} : h[j] = e[j])
      /\ (\A v \in User : h[v] = e[v]) /\ e[i].gen # 0
      /\ \A j \in Identity : /\ h[j] = Blank <=> e[j] = Blank
                             /\ e[j] # Blank => h[j].key = e[j].key
  BY <1>1, <1>2, <1>3, SlotType, PinIs
<1> HIDE DEF h
<1>5. Owned(h, g)
  <2>1. g \in [Identity -> Nat] /\ Uniq(g)
    BY DEF Owned
  <2>2. ASSUME NEW y \in Identity \cup User, h[y] # Blank
        PROVE  h[y].gen # 0 /\ h[Super] # Blank /\ h[First] # Blank /\ h[First].key \in Pin
    <3>1. e[y] # Blank
      BY <1>4, <2>2
    <3>2. e[y].gen # 0 /\ e[Super] # Blank /\ e[First] # Blank /\ e[First].key \in Pin
      BY <3>1 DEF Owned
    <3> QED BY <1>1, <1>3, <1>4, <3>2, VaultAssumption
  <2>3. h[Super] # Blank => h[Super].body \in Policies
    BY <1>4 DEF Owned
  <2>4. \A j \in Identity :
          h[j] # Blank => \/ IsFiller(h[j], g)
                          \/ h[j].key \in Pin /\ h[j].gen = g[j] /\ h[j].body \in Policies
    BY <1>1, <1>4 DEF Owned
  <2>5. \A v \in User :
         h[v] # Blank => \/ IsFiller(h[v], g)
                         \/ /\ h[v].key \in Pin /\ h[v].body \in Data
                            /\ \E j \in Identity : /\ h[v].gen = g[j]
                                                   /\ h[j] # Blank /\ h[j].key = h[v].key
    BY <1>4 DEF Owned
  <2> QED BY <1>1, <2>1, <2>2, <2>3, <2>4, <2>5 DEF Owned
<1>6. \A j \in Identity : PinIn(h, j) = PinIn(e, j)
  BY <1>4 DEF PinIn
<1>7. ASSUME NEW v \in User PROVE HoldsIn(h, g, v) = HoldsIn(e, g, v)
  <2>1. h[v] = e[v] /\ OwnersIn(h, g, e[v]) = OwnersIn(e, g, e[v])
    BY <1>4, <1>6 DEF OwnersIn
  <2> QED BY <2>1 DEF HoldsIn
<1>8. FoundOf(h, g) = FoundOf(e, g)
  BY <1>6, <1>7 DEF FoundOf, Where
<1> QED BY <1>5, <1>8 DEF h

LEMMA PutSuper ==
  ASSUME NEW e, NEW g, Owned(e, g), NEW r \in Record, r.body \in Policies
  PROVE  Owned(Put(e, Super, r), g) /\ FoundOf(Put(e, Super, r), g) = FoundOf(e, g)
<1> DEFINE h == Put(e, Super, r)
<1>1. /\ h \in [Slot -> Record \cup {Blank}] /\ h[Super] = r /\ r # Blank
      /\ \A y \in Where : h[y] = e[y]
  BY PutRecord, SlotType DEF Owned
<1> HIDE DEF h
<1>2. Owned(h, g)
  BY <1>1, VaultAssumption DEF Owned, Where
<1>3. ASSUME NEW j \in Identity PROVE PinIn(h, j) = PinIn(e, j)
  BY <1>1, <1>2, PinIs, SlotType
<1>4. ASSUME NEW v \in User PROVE HoldsIn(h, g, v) = HoldsIn(e, g, v)
  <2>1. h[v] = e[v] /\ OwnersIn(h, g, e[v]) = OwnersIn(e, g, e[v])
    BY <1>1, <1>3, SlotType DEF OwnersIn
  <2> QED BY <2>1 DEF HoldsIn
<1>5. FoundOf(h, g) = FoundOf(e, g)
  BY <1>3, <1>4 DEF FoundOf, Where
<1> QED BY <1>2, <1>5 DEF h

\* Format: the first canary, where nothing else is, under whatever generations.
LEMMA PutFirst ==
  ASSUME NEW e, NEW g, Owned(e, g), \A x \in Where \ {First} : e[x] = Blank, e[Super] # Blank,
         NEW m \in [Identity -> Nat], Uniq(m), NEW r \in Record, r.key \in Pin,
         r.gen = m[First], m[First] # 0, r.body \in Policies
  PROVE  /\ Owned(Put(e, First, r), m)
         /\ FoundOf(Put(e, First, r), m) = Put(FoundOf(e, g), First, r.key)
<1> DEFINE h == Put(e, First, r)
<1>1. /\ h \in [Slot -> Record \cup {Blank}] /\ h[First] = r /\ r # Blank
      /\ \A y \in Slot \ {First} : h[y] = e[y]
  <2>1. First \in Slot /\ e \in [Slot -> Record \cup {Blank}]
    BY SlotType DEF Owned
  <2> QED BY <2>1, PutRecord
<1>2. h[Super] = e[Super] /\ (\A x \in Where \ {First} : h[x] = Blank) /\ First # Super
      /\ e[Super].body \in Policies
  BY <1>1, SlotType DEF Owned
<1> HIDE DEF h
<1>3. Owned(h, m)
  <2>1. \A x \in Identity \cup User : h[x] # Blank => x = First
    BY <1>2 DEF Where
  <2>2. User \cap Identity = {} /\ First \in Identity
    BY NamesAssumption, VaultAssumption
  <2> QED BY <1>1, <1>2, <2>1, <2>2 DEF Owned
<1>4. \A j \in Identity : PinIn(h, j) = IF j = First THEN r.key ELSE PinIn(e, j)
  BY <1>1, <1>2, KeysDiffer, SlotType DEF PinIn
<1>5. ASSUME NEW v \in User PROVE HoldsIn(h, m, v) = Nothing /\ HoldsIn(e, g, v) = Nothing
  <2>1. v \in Where \ {First}
    BY SlotType, NamesAssumption
  <2> QED BY <1>2, <2>1 DEF HoldsIn
<1>6. \A y \in Where : FoundOf(h, m)[y] = IF y = First THEN r.key ELSE FoundOf(e, g)[y]
  BY <1>4, <1>5, FoundAt, SlotType, NamesAssumption
<1>7. FoundOf(h, m) = Put(FoundOf(e, g), First, r.key)
  <2>1. First \in Where
    BY SlotType
  <2> QED BY <1>6, <2>1, PutFound DEF FoundOf
<1> QED BY <1>3, <1>7 DEF h

\* A wipe.
LEMMA WipedIs ==
  ASSUME NEW g \in [Identity -> Nat], Uniq(g)
  PROVE  Owned(NoRecord, g) /\ FoundOf(NoRecord, g) = Nobody
<1>1. NoRecord \in [Slot -> Record \cup {Blank}] /\ \A x \in Slot : NoRecord[x] = Blank
  BY DEF NoRecord
<1>2. Owned(NoRecord, g)
  BY <1>1, SlotType DEF Owned, Where
<1>3. \A j \in Identity : PinIn(NoRecord, j) = NoPin
  BY <1>1, SlotType DEF PinIn
<1>4. \A v \in User : HoldsIn(NoRecord, g, v) = Nothing
  BY <1>1, SlotType DEF HoldsIn
<1>5. \A x \in Where : x \in User <=> x \notin Identity
  BY NamesAssumption DEF Where
<1> QED BY <1>2, <1>3, <1>4, <1>5 DEF FoundOf, Nobody, Where

\* A new identity, or one enrolled over: what it owned before counts no longer.
LEMMA Enrol ==
  ASSUME NEW e, NEW g, Owned(e, g), NEW i \in Identity \ {First}, NEW n \in Nat,
         \A j \in Identity : g[j] < n, e[First] # Blank,
         NEW r \in Record, r.gen = n, r.key \in Pin, r.body \in Policies,
         NEW h \in [Slot -> Record \cup {Blank}], h[i] = r, h[Super] = e[Super],
         \A x \in Where \ {i} :
           h[x] = IF e[x] # Blank /\ e[x].gen = g[i] THEN Blank ELSE e[x]
  PROVE  /\ Owned(h, [g EXCEPT ![i] = n])
         /\ FoundOf(h, [g EXCEPT ![i] = n]) =
              [x \in Where |-> IF FoundOf(e, g)[x] \in {i} \X Data THEN Nothing
                               ELSE IF x = i THEN r.key ELSE FoundOf(e, g)[x]]
<1> DEFINE m == [g EXCEPT ![i] = n]
<1>0. /\ g \in [Identity -> Nat] /\ Uniq(g) /\ i \notin User /\ User \cap Identity = {}
      /\ First \in Identity /\ First # i /\ e[First].key \in Pin /\ e[First].gen = g[First]
      /\ g[First] # 0 /\ e[Super] # Blank /\ n # 0 /\ r # Blank /\ e[Super].body \in Policies
  <2>1. g \in [Identity -> Nat] /\ Uniq(g) /\ e[Super].body \in Policies
    BY FirstIs DEF Owned
  <2>2. g[i] \in Nat /\ g[i] < n
    BY <2>1
  <2> QED BY <2>1, <2>2, NamesAssumption, VaultAssumption, FirstIs, BlankIs
<1>1. /\ m \in [Identity -> Nat] /\ m[i] = n /\ \A j \in Identity \ {i} : m[j] = g[j]
  BY <1>0
<1> HIDE DEF m
<1>2. Uniq(m)
  <2> SUFFICES ASSUME NEW j \in Identity, NEW k \in Identity, m[j] = m[k], m[j] # 0, j # k
               PROVE  FALSE
    BY DEF Uniq
  <2>1. g[j] \in Nat /\ g[k] \in Nat /\ g[j] < n /\ g[k] < n
    BY <1>0
  <2>2. j # i /\ k # i
    BY <1>1, <2>1
  <2> QED BY <1>0, <1>1, <2>2 DEF Uniq
<1>3. \A j \in Identity \ {i} :
        /\ h[j] # Blank => h[j] = e[j]
        /\ e[j] # Blank => h[j] = e[j]
  <2> TAKE j \in Identity \ {i}
  <2>1. h[j] = IF e[j] # Blank /\ e[j].gen = g[i] THEN Blank ELSE e[j]
    BY DEF Where
  <2>2. ASSUME e[j] # Blank, e[j].gen = g[i] PROVE FALSE
    <3>1. e[j].gen # 0 /\ (e[j].gen = g[First] \/ e[j].gen = g[j])
      BY <2>2 DEF Owned, IsFiller
    <3> QED BY <1>0, <2>2, <3>1 DEF Uniq
  <2> QED BY <2>1, <2>2
<1>4. h[First] = e[First] /\ h[First] # Blank
  BY <1>0, <1>3
<1>5. ASSUME NEW u \in User
      PROVE  h[u] = IF e[u] # Blank /\ e[u].gen = g[i] THEN Blank ELSE e[u]
  BY <1>0 DEF Where
<1>6. Owned(h, m)
  <2>2. ASSUME NEW y \in Identity \cup User, h[y] # Blank
        PROVE  h[y].gen # 0 /\ h[Super] # Blank /\ h[First] # Blank /\ h[First].key \in Pin
    <3>1. y # i => h[y] = e[y] /\ e[y] # Blank
      BY <1>3, <1>5, <2>2
    <3> QED BY <1>0, <1>4, <2>2, <3>1 DEF Owned
  <2>4. ASSUME NEW j \in Identity, h[j] # Blank
        PROVE  \/ IsFiller(h[j], m)
               \/ h[j].key \in Pin /\ h[j].gen = m[j] /\ h[j].body \in Policies
    <3>1. CASE j = i
      BY <1>1, <3>1
    <3>2. CASE j # i
      BY <1>0, <1>1, <1>3, <2>4, <3>2 DEF Owned, IsFiller
    <3> QED BY <3>1, <3>2
  <2>5. ASSUME NEW u \in User, h[u] # Blank, ~IsFiller(h[u], m)
        PROVE  /\ h[u].key \in Pin /\ h[u].body \in Data
               /\ \E j \in Identity : /\ h[u].gen = m[j]
                                      /\ h[j] # Blank /\ h[j].key = h[u].key
    <3>1. h[u] = e[u] /\ e[u] # Blank /\ e[u].gen # g[i]
      BY <1>5, <2>5
    <3>2. ~IsFiller(e[u], g)
      BY <1>0, <1>1, <2>5, <3>1 DEF IsFiller
    <3>3. /\ e[u].key \in Pin /\ e[u].body \in Data
          /\ \E j \in Identity : e[u].gen = g[j] /\ e[j] # Blank /\ e[j].key = e[u].key
      BY <3>1, <3>2 DEF Owned
    <3>4. PICK j \in Identity : e[u].gen = g[j] /\ e[j] # Blank /\ e[j].key = e[u].key
      BY <3>3
    <3>5. j # i
      BY <3>1, <3>4
    <3> QED BY <1>1, <1>3, <3>1, <3>3, <3>4, <3>5
  <2> QED BY <1>0, <1>1, <1>2, <2>2, <2>4, <2>5 DEF Owned
<1>7. ASSUME NEW j \in Identity
      PROVE  PinIn(h, j) = IF j = i THEN r.key ELSE PinIn(e, j)
  BY <1>0, <1>3, <1>6, PinIs
<1>8. ASSUME NEW u \in User
      PROVE  HoldsIn(h, m, u) = IF HoldsIn(e, g, u) \in {i} \X Data THEN Nothing
                                ELSE HoldsIn(e, g, u)
  <2>1. CASE e[u] = Blank \/ e[u].key = Filler
    <3>1. HoldsIn(e, g, u) = Nothing /\ HoldsIn(h, m, u) = Nothing
      <4>1. h[u] = Blank \/ h[u] = e[u]
        BY <1>5
      <4> QED BY <2>1, <4>1 DEF HoldsIn
    <3> QED BY <3>1
  <2>2. CASE e[u] # Blank /\ e[u].key # Filler
    <3>1. PICK j \in Identity : /\ e[u].gen = g[j] /\ e[j] # Blank /\ e[j].key = e[u].key
                                /\ HoldsIn(e, g, u) = <<j, e[u].body>>
                                /\ e[u].body \in Data /\ e[u].key \in Pin
      BY <2>2, HoldsIs
    <3>2. g[j] # 0
      BY <3>1, PinIs
    <3>3. CASE j = i
      BY <1>5, <2>2, <3>1, <3>3 DEF HoldsIn
    <3>4. CASE j # i
      <4>1. h[u] = e[u] /\ h[u].gen = m[j]
        BY <1>0, <1>1, <1>5, <3>1, <3>2, <3>4 DEF Uniq
      <4>2. HoldsIn(h, m, u) = <<j, e[u].body>>
        BY <1>6, <2>2, <4>1, HoldsData
      <4>3. <<j, e[u].body>> \notin {i} \X Data
        BY <3>4
      <4> QED BY <3>1, <4>2, <4>3
    <3> QED BY <3>3, <3>4
  <2> QED BY <2>1, <2>2
<1>9. \A j \in Identity : FoundOf(e, g)[j] = PinIn(e, j) /\ PinIn(e, j) \notin {i} \X Data
  BY FoundAt, PinIs, NamesAssumption
<1>10. \A u \in User : FoundOf(e, g)[u] = HoldsIn(e, g, u) /\ u # i
  BY <1>0, FoundAt
<1>11. \A x \in Where : FoundOf(h, m)[x] = IF FoundOf(e, g)[x] \in {i} \X Data THEN Nothing
                                           ELSE IF x = i THEN r.key ELSE FoundOf(e, g)[x]
  BY <1>7, <1>8, <1>9, <1>10, <1>0, FoundAt DEF Where
<1>12. FoundOf(h, m) = [x \in Where |-> IF FoundOf(e, g)[x] \in {i} \X Data THEN Nothing
                                        ELSE IF x = i THEN r.key ELSE FoundOf(e, g)[x]]
  BY <1>11 DEF FoundOf
<1> QED BY <1>6, <1>12 DEF m

\* A PIN change: what the identity's old generation sealed is sealed again.
LEMMA Rekey ==
  ASSUME NEW e, NEW g, Owned(e, g), NEW i \in Identity, NEW n \in Nat,
         \A j \in Identity : g[j] < n, e[i] # Blank, e[i].key \in Pin,
         NEW r \in Record, r.gen = n, r.key \in Pin, r.body \in Policies,
         NEW h \in [Slot -> Record \cup {Blank}], h[i] = r, h[Super] = e[Super],
         \A j \in Identity \ {i} :
           h[j] = IF e[j] # Blank /\ e[j].gen = g[i] THEN Blank ELSE e[j],
         \A u \in User :
           IF e[u] = Blank \/ e[u].gen # g[i] THEN h[u] = e[u]
           ELSE /\ h[u] # Blank /\ h[u].gen = n
                /\ IF e[u].key = Filler THEN h[u].key = Filler
                   ELSE h[u].key = r.key /\ h[u].body = e[u].body
  PROVE  /\ Owned(h, [g EXCEPT ![i] = n])
         /\ FoundOf(h, [g EXCEPT ![i] = n]) = Put(FoundOf(e, g), i, r.key)
<1> DEFINE m == [g EXCEPT ![i] = n]
<1>0. /\ g \in [Identity -> Nat] /\ Uniq(g) /\ i \notin User /\ User \cap Identity = {}
      /\ First \in Identity /\ e[First] # Blank /\ e[First].key \in Pin
      /\ e[First].gen = g[First] /\ e[i].gen = g[i] /\ g[i] # 0
      /\ g[First] # 0 /\ e[Super] # Blank /\ n # 0 /\ r # Blank /\ e[Super].body \in Policies
  <2>1. g \in [Identity -> Nat] /\ Uniq(g) /\ e[First] # Blank /\ e[Super] # Blank
        /\ e[Super].body \in Policies
    BY DEF Owned
  <2>2. g[i] \in Nat /\ g[i] < n
    BY <2>1
  <2>3. e[i].gen = g[i] /\ g[i] # 0
    BY PinIs
  <2> QED BY <2>1, <2>2, <2>3, NamesAssumption, VaultAssumption, FirstIs, BlankIs
<1>1. /\ m \in [Identity -> Nat] /\ m[i] = n /\ \A j \in Identity \ {i} : m[j] = g[j]
  BY <1>0
<1> HIDE DEF m
<1>2. Uniq(m)
  <2> SUFFICES ASSUME NEW j \in Identity, NEW k \in Identity, m[j] = m[k], m[j] # 0, j # k
               PROVE  FALSE
    BY DEF Uniq
  <2>1. g[j] \in Nat /\ g[k] \in Nat /\ g[j] < n /\ g[k] < n
    BY <1>0
  <2>2. j # i /\ k # i
    BY <1>1, <2>1
  <2> QED BY <1>0, <1>1, <2>2 DEF Uniq
<1>3. \A j \in Identity \ {i} :
        /\ h[j] # Blank => h[j] = e[j]
        /\ e[j] # Blank /\ e[j].key \in Pin => h[j] = e[j]
        /\ h[j] # Blank /\ h[j].key = Filler => g[First] # g[i]
  <2> TAKE j \in Identity \ {i}
  <2>1. h[j] = IF e[j] # Blank /\ e[j].gen = g[i] THEN Blank ELSE e[j]
    OBVIOUS
  <2>2. ASSUME e[j] # Blank, e[j].key \in Pin, e[j].gen = g[i] PROVE FALSE
    <3>1. e[j].gen = g[j] /\ g[j] # 0
      BY <2>2, PinIs
    <3> QED BY <1>0, <2>2, <3>1 DEF Uniq
  <2>3. ASSUME e[j] # Blank, e[j].key = Filler PROVE e[j].gen = g[First]
    BY <2>3, KeysDiffer DEF Owned, IsFiller
  <2> QED BY <2>1, <2>2, <2>3
<1>4. h[First] # Blank /\ h[First].key \in Pin
  <2>1. CASE First = i
    BY <1>0, <2>1
  <2>2. CASE First # i
    BY <1>0, <1>3, <2>2
  <2> QED BY <2>1, <2>2
<1>5. ASSUME NEW j \in Identity, e[j] # Blank, e[j].key \in Pin
      PROVE  h[j] # Blank /\ h[j].key = IF j = i THEN r.key ELSE e[j].key
  BY <1>0, <1>3, <1>5
<1>6. Owned(h, m)
  <2>2. ASSUME NEW y \in Identity \cup User, h[y] # Blank
        PROVE  h[y].gen # 0 /\ h[Super] # Blank /\ h[First] # Blank /\ h[First].key \in Pin
    <3>1. h[y].gen # 0
      <4>1. CASE y \in Identity
        BY <1>0, <1>3, <2>2, <4>1 DEF Owned
      <4>2. CASE y \in User
        BY <1>0, <2>2, <4>2 DEF Owned
      <4> QED BY <4>1, <4>2
    <3> QED BY <1>0, <1>4, <3>1
  <2>4. ASSUME NEW j \in Identity, h[j] # Blank
        PROVE  \/ IsFiller(h[j], m)
               \/ h[j].key \in Pin /\ h[j].gen = m[j] /\ h[j].body \in Policies
    <3>1. CASE j = i
      BY <1>1, <3>1
    <3>2. CASE j # i
      <4>1. h[j] = e[j] /\ m[j] = g[j]
        BY <1>1, <1>3, <2>4, <3>2
      <4>2. CASE IsFiller(e[j], g)
        <5>1. First # i
          BY <1>3, <2>4, <3>2, <4>1, <4>2 DEF IsFiller
        <5> QED BY <1>0, <1>1, <4>1, <4>2, <5>1 DEF IsFiller
      <4>3. CASE ~IsFiller(e[j], g)
        BY <2>4, <4>1, <4>3 DEF Owned
      <4> QED BY <4>2, <4>3
    <3> QED BY <3>1, <3>2
  <2>5. ASSUME NEW u \in User, h[u] # Blank, ~IsFiller(h[u], m)
        PROVE  /\ h[u].key \in Pin /\ h[u].body \in Data
               /\ \E j \in Identity : /\ h[u].gen = m[j]
                                      /\ h[j] # Blank /\ h[j].key = h[u].key
    <3>1. e[u] # Blank
      BY <2>5
    <3>2. CASE IsFiller(e[u], g)
      <4>1. e[u].key = Filler /\ e[u].gen = g[First]
        BY <3>2 DEF IsFiller
      <4>2. CASE g[First] = g[i]
        <5>1. First = i
          BY <1>0, <4>2 DEF Uniq
        <5>2. h[u].key = Filler /\ h[u].gen = n
          BY <3>1, <4>1, <4>2
        <5> QED BY <1>1, <2>5, <5>1, <5>2 DEF IsFiller
      <4>3. CASE g[First] # g[i]
        <5>1. h[u] = e[u] /\ m[First] = g[First]
          BY <1>0, <1>1, <4>1, <4>3
        <5> QED BY <2>5, <4>1, <5>1 DEF IsFiller
      <4> QED BY <4>2, <4>3
    <3>3. CASE ~IsFiller(e[u], g)
      <4>1. e[u].key \in Pin /\ e[u].body \in Data /\ e[u].key # Filler
        BY <3>1, <3>3, KeysDiffer DEF Owned
      <4>2. PICK j \in Identity : e[u].gen = g[j] /\ e[j] # Blank /\ e[j].key = e[u].key
        BY <3>1, <3>3 DEF Owned
      <4>3. h[j] # Blank /\ h[j].key = IF j = i THEN r.key ELSE e[j].key
        BY <1>5, <4>1, <4>2
      <4>4. g[j] # 0
        BY <4>1, <4>2, PinIs
      <4>5. CASE j = i
        BY <1>1, <3>1, <4>1, <4>2, <4>3, <4>5
      <4>6. CASE j # i
        <5>1. g[j] # g[i]
          BY <1>0, <4>4, <4>6 DEF Uniq
        <5> QED BY <1>1, <3>1, <4>1, <4>2, <4>3, <4>6, <5>1
      <4> QED BY <4>5, <4>6
    <3> QED BY <3>2, <3>3
  <2> QED BY <1>0, <1>1, <1>2, <2>2, <2>4, <2>5 DEF Owned
<1>7. ASSUME NEW j \in Identity
      PROVE  PinIn(h, j) = IF j = i THEN r.key ELSE PinIn(e, j)
  BY <1>0, <1>3, <1>6, PinIs
<1>8. ASSUME NEW u \in User
      PROVE  HoldsIn(h, m, u) = HoldsIn(e, g, u)
  <2>1. CASE e[u] = Blank \/ e[u].key = Filler
    BY <2>1 DEF HoldsIn
  <2>2. CASE e[u] # Blank /\ e[u].key # Filler
    <3>1. PICK j \in Identity : /\ e[u].gen = g[j] /\ e[j] # Blank /\ e[j].key = e[u].key
                                /\ HoldsIn(e, g, u) = <<j, e[u].body>>
                                /\ e[u].body \in Data /\ e[u].key \in Pin
      BY <2>2, HoldsIs
    <3>2. g[j] # 0
      BY <3>1, PinIs
    <3>3. h[u] # Blank /\ h[u].key # Filler /\ h[u].body = e[u].body /\ h[u].gen = m[j]
      <4>1. CASE j = i
        BY <1>1, <2>2, <3>1, <4>1, KeysDiffer
      <4>2. CASE j # i
        BY <1>0, <1>1, <2>2, <3>1, <3>2, <4>2 DEF Uniq
      <4> QED BY <4>1, <4>2
    <3>4. HoldsIn(h, m, u) = <<j, h[u].body>>
      BY <1>6, <3>3, HoldsData
    <3> QED BY <3>1, <3>3, <3>4
  <2> QED BY <2>1, <2>2
<1>9. \A x \in Where : FoundOf(h, m)[x] = IF x = i THEN r.key ELSE FoundOf(e, g)[x]
  BY <1>0, <1>7, <1>8, FoundAt DEF Where
<1>10. FoundOf(h, m) = Put(FoundOf(e, g), i, r.key)
  <2>1. i \in Where
    BY DEF Where
  <2>2. FoundOf(h, m) = [x \in Where |-> IF x = i THEN r.key ELSE FoundOf(e, g)[x]]
    BY <1>9 DEF FoundOf
  <2> QED BY <2>1, <2>2, PutFound
<1> QED BY <1>6, <1>10 DEF m

-----------------------------------------------------------------------------
(***************************************************************************)
(* Sessions.                                                               *)
(***************************************************************************)
LEMMA SessSame ==
  ASSUME NEW S, S \subseteq Session, NEW l, NEW m, NEW f, NEW h, SessOK(S, l, f),
         l.epoch = m.epoch, l.gens = m.gens, \A i \in Identity : h[i] = f[i]
  PROVE  SessOK(S, m, h)
<1>1. ASSUME NEW s \in S PROVE s.id \in Identity
  <2>1. s \in Session
    OBVIOUS
  <2> QED BY <2>1 DEF Session
<1>2. \A s \in S : IsCurrent(s, m) <=> IsCurrent(s, l)
  BY DEF IsCurrent
<1> QED BY <1>1, <1>2 DEF SessOK

\* A generation that is new is no session's.
LEMMA SessGen ==
  ASSUME NEW S, S \subseteq Session, NEW l \in Ledgers, NEW f, NEW h, SessOK(S, l, f),
         NEW i \in Identity, NEW n \in Nat, \A j \in Identity : l.gens[j] < n,
         NEW m, m.epoch = l.epoch, m.gens = [l.gens EXCEPT ![i] = n],
         \A j \in Identity \ {i} : h[j] = f[j]
  PROVE  SessOK(S, m, h)
<1> SUFFICES ASSUME NEW s \in S
             PROVE  /\ s.epoch <= m.epoch
                    /\ s.gen = 0 \/ \E j \in Identity : s.gen <= m.gens[j]
                    /\ IsCurrent(s, m) => s.gen # 0 /\ h[s.id] = s.key
  BY DEF SessOK
<1>1. /\ s \in Session /\ s.epoch <= l.epoch
      /\ s.gen = 0 \/ \E j \in Identity : s.gen <= l.gens[j]
      /\ IsCurrent(s, l) => s.gen # 0 /\ f[s.id] = s.key
  BY DEF SessOK
<1>2. s.id \in Identity /\ s.gen \in Nat /\ l.gens \in [Identity -> Nat]
  BY <1>1 DEF Session, Ledgers
<1>3. m.gens[i] = n /\ \A j \in Identity \ {i} : m.gens[j] = l.gens[j]
  BY <1>2
<1>4. \A j \in Identity : l.gens[j] \in Nat /\ l.gens[j] < n
  BY <1>2
<1>5. s.gen < n
  BY <1>1, <1>2, <1>4
<1>6. s.gen <= m.gens[i]
  BY <1>2, <1>3, <1>5
<1>7. IsCurrent(s, m) => s.id # i
  BY <1>2, <1>3, <1>5 DEF IsCurrent
<1>8. IsCurrent(s, m) => IsCurrent(s, l)
  BY <1>2, <1>3, <1>7 DEF IsCurrent
<1> QED BY <1>1, <1>2, <1>6, <1>7, <1>8

\* A wipe ends them all.
LEMMA SessEpoch ==
  ASSUME NEW S, S \subseteq Session, NEW l \in Ledgers, NEW f, NEW h, SessOK(S, l, f)
  PROVE  SessOK(S, WithEpoch(l), h) /\ \A s \in S : ~IsCurrent(s, WithEpoch(l))
<1>1. /\ WithEpoch(l).epoch = l.epoch + 1 /\ WithEpoch(l).gens = l.gens /\ l.epoch \in Nat
  BY DEF WithEpoch, Ledgers
<1>2. \A s \in S : s.epoch \in Nat /\ s.epoch <= l.epoch
  BY DEF Session, SessOK
<1> QED BY <1>1, <1>2 DEF SessOK, IsCurrent

-----------------------------------------------------------------------------
(***************************************************************************)
(* What is left of a call, and what comes in front of it.                  *)
(***************************************************************************)
LEMMA SimpleStep ==
  ASSUME NEW w \in {"refresh", "due", "cleanup", "sync", "fill", "rotate", "distrust", "done",
                    "mounted", "head", "epoch", "erase"}
  PROVE  Simple(w) \in Steps /\ Simple(w).do = w
BY DEF Simple, Steps

LEMMA StepKinds ==
  /\ \A s \in Programs : s \in Steps /\ s.do = "program" /\ s.slot \in Slot /\ s.key \in Key
                         /\ s.gen \in Nat /\ s.body \in Body /\ s.later \in BOOLEAN
  /\ \A s \in ResealSteps : s \in Steps /\ s.do = "reseal"
BY DEF Steps, Programs, ResealSteps

\* The shape of a sequence that has a step in it.
LEMMA TailIs ==
  ASSUME NEW S, NEW K \in Seq(S), K # <<>>
  PROVE  /\ Len(K) \in Nat \ {0} /\ DOMAIN K = 1 .. Len(K) /\ K[1] \in S
         /\ Tail(K) \in Seq(S) /\ Len(Tail(K)) = Len(K) - 1
         /\ DOMAIN Tail(K) = 1 .. (Len(K) - 1)
         /\ \A n \in 1 .. (Len(K) - 1) : Tail(K)[n] = K[n + 1]
         /\ Tail(K) = <<>> <=> Len(K) = 1
<1>1. Len(K) \in Nat \ {0} /\ DOMAIN K = 1 .. Len(K) /\ K \in [1 .. Len(K) -> S]
  BY EmptySeq, LenProperties
<1>2. /\ Tail(K) \in Seq(S) /\ Len(Tail(K)) = Len(K) - 1
      /\ \A i \in 1 .. Len(Tail(K)) : Tail(K)[i] = K[i + 1]
  BY HeadTailProperties
<1>3. DOMAIN Tail(K) = 1 .. (Len(K) - 1)
  BY <1>2, LenProperties
<1>4. Tail(K) = <<>> <=> Len(K) = 1
  BY <1>1, <1>2, EmptySeq, SMTT(30)
<1> QED BY <1>1, <1>2, <1>3, <1>4

\* What is left after the first step.
LEMMA NeedsTail ==
  ASSUME NEW K, NEW e, NEW f, NEW w, NEW S, NEW gp, Needs(K, e, f, w, S, gp),
         K[1].do \notin {"done", "mounted"},
         NEW gp2, K[1].do # "fill" => gp2 = gp, K[1].do = "fill" => FullIn(gp2, e, f),
         NEW S2, K[1].do # "session" => S2 = S
  PROVE  Needs(Tail(K), e, f, w, S2, gp2) /\ Tail(K) # <<>>
<1> DEFINE T == Tail(K)
<1>1. /\ K \in Seq(Steps) /\ K # <<>>
      /\ \A n \in DOMAIN K : /\ K[n].do \in SettleKinds
                             /\ K[n].do \in {"done", "mounted"} <=> n = Len(K)
                             /\ K[n].do = "session" => f[K[n].id] = K[n].key
                             /\ K[n].do = "prove" => \A m \in DOMAIN K : K[m].do = "fill" => m < n
      /\ Has(K, "done") => w = f
      /\ IF Has(K, "fill") THEN f[First] # NoPin ELSE FullIn(gp, e, f)
      /\ Has(K, "mounted") => S = {} /\ ~Has(K, "session")
      /\ Has(K, "due") => Has(K, "mounted") /\ ~Has(K, "fill")
  BY DEF Needs
<1>2. /\ Len(K) \in Nat \ {0} /\ DOMAIN K = 1 .. Len(K)
      /\ T \in Seq(Steps) /\ Len(T) = Len(K) - 1
      /\ DOMAIN T = 1 .. (Len(K) - 1)
      /\ \A n \in 1 .. (Len(K) - 1) : T[n] = K[n + 1]
      /\ T = <<>> <=> Len(K) = 1
  BY <1>1, TailIs
<1>3. \A v : Has(K, v) <=> K[1].do = v \/ Has(T, v)
  BY <1>1, HasTail
<1> HIDE DEF T
<1>4. Len(K) # 1 /\ T # <<>>
  BY <1>1, <1>2
<1>5. ASSUME NEW n \in DOMAIN T
      PROVE  /\ T[n].do \in SettleKinds
             /\ T[n].do \in {"done", "mounted"} <=> n = Len(T)
             /\ T[n].do = "session" => f[T[n].id] = T[n].key
             /\ T[n].do = "prove" => \A m \in DOMAIN T : T[m].do = "fill" => m < n
  <2>1. n + 1 \in DOMAIN K /\ T[n] = K[n + 1] /\ (n = Len(T) <=> n + 1 = Len(K))
    BY <1>2
  <2>2. ASSUME T[n].do = "prove", NEW m \in DOMAIN T, T[m].do = "fill" PROVE m < n
    <3>1. m + 1 \in DOMAIN K /\ T[m] = K[m + 1] /\ m \in Nat /\ n \in Nat
      BY <1>2
    <3>2. m + 1 < n + 1
      BY <1>1, <2>1, <2>2, <3>1
    <3> QED BY <3>1, <3>2
  <2>3. T[n].do \in SettleKinds /\ (T[n].do \in {"done", "mounted"} <=> n = Len(T))
        /\ (T[n].do = "session" => f[T[n].id] = T[n].key)
    BY <1>1, <2>1
  <2> QED BY <2>2, <2>3
<1>6. IF Has(T, "fill") THEN f[First] # NoPin ELSE FullIn(gp2, e, f)
  BY <1>1, <1>3
<1>7. Has(T, "mounted") => S2 = {} /\ ~Has(T, "session")
  BY <1>1, <1>3
<1>8. Has(T, "due") => Has(T, "mounted") /\ ~Has(T, "fill")
  BY <1>1, <1>3
<1> QED BY <1>1, <1>2, <1>3, <1>4, <1>5, <1>6, <1>7, <1>8 DEF Needs, T

\* What may come in front.
LEMMA NeedsBack ==
  ASSUME NEW K \in Seq(Steps), K # <<>>, NEW e, NEW f, NEW w, NEW S, NEW gp,
         Needs(Tail(K), e, f, w, S, gp), K[1].do \in SettleKinds \ {"done", "mounted"},
         K[1].do = "due" => Has(Tail(K), "mounted") /\ ~Has(Tail(K), "fill"),
         K[1].do = "session" => f[K[1].id] = K[1].key /\ ~Has(Tail(K), "mounted"),
         K[1].do = "fill" => f[First] # NoPin /\ ~Has(Tail(K), "due"),
         K[1].do = "prove" => ~Has(Tail(K), "fill")
  PROVE  Needs(K, e, f, w, S, gp)
<1> DEFINE T == Tail(K)
<1>1. /\ T \in Seq(Steps) /\ T # <<>>
      /\ \A n \in DOMAIN T : /\ T[n].do \in SettleKinds
                             /\ T[n].do \in {"done", "mounted"} <=> n = Len(T)
                             /\ T[n].do = "session" => f[T[n].id] = T[n].key
                             /\ T[n].do = "prove" => \A m \in DOMAIN T : T[m].do = "fill" => m < n
      /\ Has(T, "done") => w = f
      /\ IF Has(T, "fill") THEN f[First] # NoPin ELSE FullIn(gp, e, f)
      /\ Has(T, "mounted") => S = {} /\ ~Has(T, "session")
      /\ Has(T, "due") => Has(T, "mounted") /\ ~Has(T, "fill")
  BY DEF Needs
<1>2. /\ Len(K) \in Nat \ {0} /\ DOMAIN K = 1 .. Len(K)
      /\ Len(T) = Len(K) - 1
      /\ DOMAIN T = 1 .. (Len(K) - 1)
      /\ \A n \in 1 .. (Len(K) - 1) : T[n] = K[n + 1]
      /\ T = <<>> <=> Len(K) = 1
  BY TailIs
<1>3. \A v : Has(K, v) <=> K[1].do = v \/ Has(T, v)
  BY HasTail
<1> HIDE DEF T
<1>4. ASSUME NEW n \in DOMAIN K
      PROVE  /\ K[n].do \in SettleKinds
             /\ K[n].do \in {"done", "mounted"} <=> n = Len(K)
             /\ K[n].do = "session" => f[K[n].id] = K[n].key
             /\ K[n].do = "prove" => \A m \in DOMAIN K : K[m].do = "fill" => m < n
  <2>1. CASE n = 1
    <3>1. K[n].do \in SettleKinds /\ (K[n].do \in {"done", "mounted"} <=> n = Len(K))
          /\ (K[n].do = "session" => f[K[n].id] = K[n].key)
      BY <1>1, <1>2, <2>1
    <3>2. ASSUME K[n].do = "prove", NEW m \in DOMAIN K, K[m].do = "fill" PROVE FALSE
      <4>1. m - 1 \in DOMAIN T /\ T[m - 1] = K[m]
        BY <1>2, <2>1, <3>2
      <4> QED BY <2>1, <3>2, <4>1 DEF Has, T
    <3> QED BY <3>1, <3>2
  <2>2. CASE n # 1
    <3>1. n - 1 \in DOMAIN T /\ T[n - 1] = K[n] /\ (n - 1 = Len(T) <=> n = Len(K)) /\ n \in Nat
      BY <1>2, <2>2
    <3>2. K[n].do \in SettleKinds /\ (K[n].do \in {"done", "mounted"} <=> n = Len(K))
          /\ (K[n].do = "session" => f[K[n].id] = K[n].key)
      BY <1>1, <3>1
    <3>3. ASSUME K[n].do = "prove", NEW m \in DOMAIN K, K[m].do = "fill", m # 1 PROVE m < n
      <4>1. m - 1 \in DOMAIN T /\ T[m - 1] = K[m] /\ m \in Nat
        BY <1>2, <3>3
      <4>2. m - 1 < n - 1
        BY <1>1, <3>1, <3>3, <4>1
      <4> QED BY <3>1, <4>1, <4>2
    <3>4. 1 < n
      BY <1>2, <2>2
    <3> QED BY <3>2, <3>3, <3>4
  <2> QED BY <2>1, <2>2
<1>5. IF Has(K, "fill") THEN f[First] # NoPin ELSE FullIn(gp, e, f)
  BY <1>1, <1>3
<1>6. Has(K, "mounted") => S = {} /\ ~Has(K, "session")
  BY <1>1, <1>3 DEF T
<1>7. Has(K, "due") => Has(K, "mounted") /\ ~Has(K, "fill")
  <2>1. Has(T, "due") \/ K[1].do = "due" => Has(T, "mounted") /\ ~Has(T, "fill")
    BY <1>1 DEF T
  <2>2. K[1].do = "fill" => ~Has(T, "due")
    BY DEF T
  <2> QED BY <1>3, <2>1, <2>2
<1> QED BY <1>1, <1>2, <1>3, <1>4, <1>5, <1>6, <1>7 DEF Needs

\* The last step.
LEMMA NeedsEnd ==
  ASSUME NEW e, NEW f, NEW w, NEW S, NEW gp, FullIn(gp, e, f)
  PROVE  /\ w = f => Needs(<<Simple("done")>>, e, f, w, S, gp)
         /\ S = {} => Needs(<<Simple("mounted")>>, e, f, w, S, gp)
<1>1. /\ Simple("done") \in Steps /\ Simple("done").do = "done"
      /\ Simple("mounted") \in Steps /\ Simple("mounted").do = "mounted"
  BY SimpleStep
<1>2. ASSUME NEW a \in Steps
      PROVE  /\ <<a>> \in Seq(Steps) /\ <<a>> # <<>> /\ DOMAIN <<a>> = {1} /\ <<a>>[1] = a
             /\ Len(<<a>>) = 1 /\ \A v : Has(<<a>>, v) <=> a.do = v
  <2>1. <<a>> \in Seq(Steps) /\ <<a>> # <<>> /\ DOMAIN <<a>> = {1} /\ <<a>>[1] = a /\ Len(<<a>>) = 1
    OBVIOUS
  <2> QED BY <2>1 DEF Has
<1>3. "done" \in SettleKinds /\ "mounted" \in SettleKinds
  BY DEF SettleKinds
<1>4. ASSUME w = f PROVE Needs(<<Simple("done")>>, e, f, w, S, gp)
  BY <1>1, <1>2, <1>3, <1>4 DEF Needs
<1>5. ASSUME S = {} PROVE Needs(<<Simple("mounted")>>, e, f, w, S, gp)
  BY <1>1, <1>2, <1>3, <1>5 DEF Needs
<1> QED BY <1>4, <1>5

-----------------------------------------------------------------------------
(***************************************************************************)
(* A step that leaves everything a phase speaks of as it is.               *)
(***************************************************************************)
Frame == UNCHANGED <<flash, last, ledger, found, ram, sessions, goal, promised, gap>>

LEMMA DiskSame ==
  ASSUME UNCHANGED <<flash, last, ledger>>
  PROVE  /\ Current' = Current /\ Winners' = Winners
         /\ (Dated => Dated') /\ (Virgin => Virgin') /\ (TypeDisk => TypeDisk')
         /\ \A x : WinAt(x)' = WinAt(x) /\ (Clean(x)' <=> Clean(x))
BY DEF Current, Winners, Dated, Virgin, TypeDisk, WinAt, Clean, CleanOf

LEMMA SettleFrame ==
  ASSUME Frame, NEW R, Settle(R) PROVE Settle(R)'
BY DEF Frame, Settle, Ready, Swept, RamFor, StateIs, PolicyOK, Winners, Current, CleanOf

LEMMA SealFrame ==
  ASSUME Frame, NEW R, Seal(R) PROVE Seal(R)'
BY DEF Frame, Seal, Live, Winners, Sealed, Current, Ahead, Ready, RamFor, StateIs, PolicyOK, Swept,
       CleanOf

LEMMA CommitAfterFrame ==
  ASSUME Frame, NEW R, NEW st, CommitAfter(st, R) PROVE CommitAfter(st, R)'
BY DEF Frame, CommitAfter, Gen, Fresh, Live, Room, FullNow, Current, CurrentOf, Sealed, Ahead, Ready,
       Swept, CleanOf

LEMMA InSlotFrame ==
  ASSUME Frame, NEW x, InSlot(x) PROVE InSlot(x)'
BY DEF Frame, InSlot, WinAt, Clean, CleanOf

LEMMA ResealingFrame ==
  ASSUME Frame, NEW R, Resealing(R) PROVE Resealing(R)'
<1>1. ASSUME NEW x, NEW st, Moved(x, st) PROVE Moved(x, st)'
  BY <1>1 DEF Frame, Moved, IsOld, Resealed1, Current, WinAt
<1>2. ASSUME NEW st, ResealFacts(st) PROVE ResealFacts(st)'
  BY <1>1, <1>2, InSlotFrame DEF Frame, ResealFacts, Live, Fresh, FullNow, Current
<1> QED BY <1>2 DEF Resealing

LEMMA AheadFrame ==
  ASSUME Frame, NEW R, Ahead1(R) PROVE Ahead1(R)'
<1>1. Seal(R) => Seal(R)'
  BY SealFrame
<1>2. Amend(R) => Amend(R)'
  BY SealFrame DEF Amend
<1>3. Canary(R) => Canary(R)'
  BY CommitAfterFrame, InSlotFrame DEF Canary
<1>4. Resealing(R) => Resealing(R)'
  BY ResealingFrame
<1>5. ResealingOne(R) => ResealingOne(R)'
  BY ResealingFrame, InSlotFrame DEF ResealingOne, Frame, Current, Sealed, Resealed1, IsOld
<1>6. Epoch(R) => Epoch(R)'
  BY DEF Frame, Epoch, Live, Ready
<1> QED BY <1>1, <1>2, <1>3, <1>4, <1>5, <1>6 DEF Ahead1

-----------------------------------------------------------------------------
(***************************************************************************)
(* Which phase a call is in, by its next step.                             *)
(***************************************************************************)
LEMMA FormatPlanIs ==
  ASSUME NEW p \in Pin, NEW b
  PROVE  LET P == FormatPlan(p, b)
             T == Tail(Tail(Tail(Tail(P))))
         IN /\ P[1] = Simple("head") /\ Tail(P)[1] = Simple("refresh")
            /\ Tail(Tail(P))[1] = SealStep(Super, Super, 0, b, FALSE)
            /\ Tail(Tail(Tail(P)))[1] = RetireStep(Super)
            /\ P # <<>> /\ Tail(P) # <<>> /\ Tail(Tail(P)) # <<>> /\ Tail(Tail(Tail(P))) # <<>>
            /\ T = IF ledger.gens[First] = 0
                   THEN <<SealStep(First, p, FormatGen, b, FALSE), RetireStep(First),
                          [do |-> "gen", id |-> First, gen |-> FormatGen],
                          Simple("refresh"), Simple("fill"), Simple("refresh"),
                          [do |-> "prove", id |-> First, key |-> p],
                          [do |-> "session", id |-> First, key |-> p], Simple("done")>>
                   ELSE <<SealStep(First, p, FormatGen, b, FALSE), RetireStep(First),
                          Simple("refresh"), Simple("fill"), Simple("refresh"),
                          [do |-> "prove", id |-> First, key |-> p],
                          [do |-> "session", id |-> First, key |-> p], Simple("done")>>
<1> DEFINE s1 == Simple("head")
           s2 == Simple("refresh")
           s3 == SealStep(Super, Super, 0, b, FALSE)
           s4 == RetireStep(Super)
           s5 == SealStep(First, p, FormatGen, b, FALSE)
           s6 == RetireStep(First)
           s7 == [do |-> "gen", id |-> First, gen |-> FormatGen]
           s8 == Simple("refresh")
           s9 == Simple("fill")
           s10 == Simple("refresh")
           s11 == [do |-> "prove", id |-> First, key |-> p]
           s12 == [do |-> "session", id |-> First, key |-> p]
           s13 == Simple("done")
<1>1. CASE ledger.gens[First] = 0
  <2>1. FormatPlan(p, b) = <<s1, s2, s3, s4, s5, s6, s7, s8, s9, s10, s11, s12, s13>>
    BY <1>1 DEF FormatPlan
  <2> DEFINE P == <<s1, s2, s3, s4, s5, s6, s7, s8, s9, s10, s11, s12, s13>>
  <2> HIDE DEF s1, s2, s3, s4, s5, s6, s7, s8, s9, s10, s11, s12, s13
  <2>2. P # <<>> /\ P[1] = s1 /\ Tail(P) = <<s2, s3, s4, s5, s6, s7, s8, s9, s10, s11, s12, s13>>
    OBVIOUS
  <2> DEFINE P2 == <<s2, s3, s4, s5, s6, s7, s8, s9, s10, s11, s12, s13>>
  <2>3. P2 # <<>> /\ P2[1] = s2 /\ Tail(P2) = <<s3, s4, s5, s6, s7, s8, s9, s10, s11, s12, s13>>
    OBVIOUS
  <2> DEFINE P3 == <<s3, s4, s5, s6, s7, s8, s9, s10, s11, s12, s13>>
  <2>4. P3 # <<>> /\ P3[1] = s3 /\ Tail(P3) = <<s4, s5, s6, s7, s8, s9, s10, s11, s12, s13>>
    OBVIOUS
  <2> DEFINE P4 == <<s4, s5, s6, s7, s8, s9, s10, s11, s12, s13>>
  <2>5. P4 # <<>> /\ P4[1] = s4 /\ Tail(P4) = <<s5, s6, s7, s8, s9, s10, s11, s12, s13>>
    OBVIOUS
  <2> HIDE DEF P, P2, P3, P4
  <2>6. FormatPlan(p, b) = P
    BY <2>1 DEF P
  <2>7. Tail(P) = P2 /\ Tail(P2) = P3 /\ Tail(P3) = P4
    BY <2>2, <2>3, <2>4 DEF P2, P3, P4
  <2>8. Tail(P4) = <<s5, s6, s7, s8, s9, s10, s11, s12, s13>>
    BY <2>5
  <2> QED BY <1>1, <2>2, <2>3, <2>4, <2>5, <2>6, <2>7, <2>8 DEF s1, s2, s3, s4, s5, s6, s7, s8, s9, s10, s11, s12, s13
<1>2. CASE ledger.gens[First] # 0
  <2>1. FormatPlan(p, b) = <<s1, s2, s3, s4, s5, s6, s8, s9, s10, s11, s12, s13>>
    BY <1>2 DEF FormatPlan
  <2> DEFINE P == <<s1, s2, s3, s4, s5, s6, s8, s9, s10, s11, s12, s13>>
  <2> HIDE DEF s1, s2, s3, s4, s5, s6, s7, s8, s9, s10, s11, s12, s13
  <2>2. P # <<>> /\ P[1] = s1 /\ Tail(P) = <<s2, s3, s4, s5, s6, s8, s9, s10, s11, s12, s13>>
    OBVIOUS
  <2> DEFINE P2 == <<s2, s3, s4, s5, s6, s8, s9, s10, s11, s12, s13>>
  <2>3. P2 # <<>> /\ P2[1] = s2 /\ Tail(P2) = <<s3, s4, s5, s6, s8, s9, s10, s11, s12, s13>>
    OBVIOUS
  <2> DEFINE P3 == <<s3, s4, s5, s6, s8, s9, s10, s11, s12, s13>>
  <2>4. P3 # <<>> /\ P3[1] = s3 /\ Tail(P3) = <<s4, s5, s6, s8, s9, s10, s11, s12, s13>>
    OBVIOUS
  <2> DEFINE P4 == <<s4, s5, s6, s8, s9, s10, s11, s12, s13>>
  <2>5. P4 # <<>> /\ P4[1] = s4 /\ Tail(P4) = <<s5, s6, s8, s9, s10, s11, s12, s13>>
    OBVIOUS
  <2> HIDE DEF P, P2, P3, P4
  <2>6. FormatPlan(p, b) = P
    BY <2>1 DEF P
  <2>7. Tail(P) = P2 /\ Tail(P2) = P3 /\ Tail(P3) = P4
    BY <2>2, <2>3, <2>4 DEF P2, P3, P4
  <2>8. Tail(P4) = <<s5, s6, s8, s9, s10, s11, s12, s13>>
    BY <2>5
  <2> QED BY <1>2, <2>2, <2>3, <2>4, <2>5, <2>6, <2>7, <2>8 DEF s1, s2, s3, s4, s5, s6, s7, s8, s9, s10, s11, s12, s13
<1> QED BY <1>1, <1>2

LEMMA PhaseHead ==
  ASSUME Types, Phase
  PROVE  /\ Settle(plan) => plan[1].do \in SettleKinds
         /\ plan[1].do = "rotate" => Settle(plan) \/ Ahead1(Tail(plan))
         /\ plan[1].do = "program" =>
              \/ Seal(plan) \/ Canary(plan) \/ ResealingOne(plan) \/ FirstCanary(plan)
              \/ \E p \in Pin : FormatFacts(p) /\ Formatting2(p, plan)
         /\ plan[1].do = "retire" =>
              \/ Retire(plan) \/ FirstRetire(plan)
              \/ \E p \in Pin : FormatFacts(p) /\ Formatting3(p, plan)
         /\ plan[1].do = "gen" => Commit(plan)
         /\ plan[1].do = "policy" => Amend(plan)
         /\ plan[1].do = "reseal" => Resealing(plan)
         /\ plan[1].do = "epoch" => Epoch(plan)
         /\ plan[1].do = "erase" => Erasing(plan)
         /\ plan[1].do = "head" => \E p \in Pin : FormatFacts(p) /\ Formatting0(p, plan)
         /\ plan[1].do = "refresh" =>
              Settle(plan) \/ \E p \in Pin : FormatFacts(p) /\ Formatting1(p, plan)
         /\ plan[1].do \in {"due", "cleanup", "sync", "fill", "distrust", "prove", "session",
                            "done", "mounted"} => Settle(plan)
         /\ plan[1].do # "fail"
<1>1. Settle(plan) => plan[1].do \in SettleKinds
  <2>1. ASSUME Settle(plan) PROVE 1 \in DOMAIN plan
    BY <2>1, TailIs DEF Types, Settle, Ready, Needs
  <2> QED BY <2>1 DEF Settle, Ready, Needs
<1>2. /\ Seal(plan) => plan[1].do = "program"
      /\ Amend(plan) => plan[1].do = "policy"
      /\ Canary(plan) => plan[1].do = "program"
      /\ Resealing(plan) => plan[1].do = "reseal"
      /\ ResealingOne(plan) => plan[1].do = "program"
      /\ Epoch(plan) => plan[1].do = "epoch"
      /\ Retire(plan) => plan[1].do = "retire"
      /\ Commit(plan) => plan[1].do = "gen"
      /\ Erasing(plan) => plan[1].do = "erase"
      /\ FirstCanary(plan) => plan[1].do = "program"
      /\ FirstRetire(plan) => plan[1].do = "retire"
  <2>1. Seal(plan) => plan[1].do = "program"
    BY StepKinds DEF Seal
  <2>2. Canary(plan) => plan[1].do = "program"
    BY StepKinds DEF Canary, CommitAfter
  <2>3. FirstCanary(plan) => plan[1].do = "program"
    BY StepKinds DEF FirstCanary, CommitAfter
  <2>4. ResealingOne(plan) => plan[1].do = "program"
    BY StepKinds DEF ResealingOne
  <2>5. /\ Amend(plan) => plan[1].do = "policy"
        /\ Resealing(plan) => plan[1].do = "reseal"
        /\ Epoch(plan) => plan[1].do = "epoch"
        /\ Retire(plan) => plan[1].do = "retire"
        /\ Erasing(plan) => plan[1].do = "erase"
    BY DEF Amend, Resealing, Epoch, Retire, Erasing
  <2>6. Commit(plan) => plan[1].do = "gen"
    BY DEF Commit, Gen
  <2>7. FirstRetire(plan) => plan[1].do = "retire"
    BY DEF FirstRetire
  <2> QED BY <2>1, <2>2, <2>3, <2>4, <2>5, <2>6, <2>7
<1>3. ASSUME NEW p \in Pin
      PROVE  /\ Formatting0(p, plan) => plan[1].do = "head"
             /\ Formatting1(p, plan) => plan[1].do = "refresh"
             /\ Formatting2(p, plan) => plan[1].do = "program"
             /\ Formatting3(p, plan) => plan[1].do = "retire"
  <2>1. /\ Formatting0(p, plan) => plan[1] = Simple("head")
        /\ Formatting1(p, plan) => plan[1] = Simple("refresh")
        /\ Formatting2(p, plan) => plan[1] = SealStep(Super, Super, 0, ledger.policy, FALSE)
        /\ Formatting3(p, plan) => plan[1] = RetireStep(Super)
    <3>1. Formatting0(p, plan) => plan[1] = Simple("head")
      BY FormatPlanIs DEF Formatting0
    <3>2. Formatting1(p, plan) => plan[1] = Simple("refresh")
      BY FormatPlanIs DEF Formatting1
    <3>3. Formatting2(p, plan) => plan[1] = SealStep(Super, Super, 0, ledger.policy, FALSE)
      BY FormatPlanIs DEF Formatting2
    <3>4. Formatting3(p, plan) => plan[1] = RetireStep(Super)
      BY FormatPlanIs DEF Formatting3
    <3> QED BY <3>1, <3>2, <3>3, <3>4
  <2> QED BY <2>1 DEF Simple, SealStep, RetireStep
<1>4. Ahead1(plan) => plan[1].do \in {"program", "policy", "reseal", "epoch"}
  BY <1>2 DEF Ahead1
<1>5. plan[1] = Simple("rotate") => plan[1].do = "rotate"
  BY DEF Simple
<1>6. /\ SettleKinds = {"refresh", "due", "cleanup", "sync", "fill", "rotate", "distrust", "prove",
                        "session", "done", "mounted"}
  BY DEF SettleKinds
<1>7. \/ Settle(plan) \/ Seal(plan) \/ Amend(plan) \/ Canary(plan) \/ Resealing(plan)
      \/ ResealingOne(plan) \/ Epoch(plan)
      \/ plan[1] = Simple("rotate") /\ Ahead1(Tail(plan))
      \/ Retire(plan) \/ Commit(plan) \/ Erasing(plan) \/ FirstCanary(plan) \/ FirstRetire(plan)
      \/ \E p \in Pin : FormatFacts(p) /\ Formatting0(p, plan)
      \/ \E p \in Pin : FormatFacts(p) /\ Formatting1(p, plan)
      \/ \E p \in Pin : FormatFacts(p) /\ Formatting2(p, plan)
      \/ \E p \in Pin : FormatFacts(p) /\ Formatting3(p, plan)
  BY DEF Phase, Ahead1, Formatting
<1> HIDE DEF SettleKinds
<1>8. CASE Settle(plan)
  BY <1>1, <1>6, <1>8
<1>9. CASE Seal(plan) \/ Canary(plan) \/ ResealingOne(plan) \/ FirstCanary(plan)
  BY <1>1, <1>2, <1>6, <1>9
<1>10. CASE Amend(plan) \/ Resealing(plan) \/ Epoch(plan) \/ Retire(plan) \/ Commit(plan)
            \/ Erasing(plan) \/ FirstRetire(plan)
  BY <1>1, <1>2, <1>6, <1>10
<1>11. CASE plan[1] = Simple("rotate") /\ Ahead1(Tail(plan))
  BY <1>1, <1>5, <1>6, <1>11
<1>12. CASE \E p \in Pin : FormatFacts(p) /\ Formatting0(p, plan)
  BY <1>1, <1>3, <1>6, <1>12
<1>13. CASE \E p \in Pin : FormatFacts(p) /\ Formatting1(p, plan)
  BY <1>1, <1>3, <1>6, <1>13
<1>14. CASE \E p \in Pin : FormatFacts(p) /\ Formatting2(p, plan)
  BY <1>1, <1>3, <1>6, <1>14
<1>15. CASE \E p \in Pin : FormatFacts(p) /\ Formatting3(p, plan)
  BY <1>1, <1>3, <1>6, <1>15
<1> QED BY <1>7, <1>8, <1>9, <1>10, <1>11, <1>12, <1>13, <1>14, <1>15

-----------------------------------------------------------------------------
(***************************************************************************)
(* What a step on flash does to the types, and to what is elected.         *)
(***************************************************************************)
LEMMA LedgerType ==
  TypeDisk => /\ ledger.live \in BOOLEAN /\ ledger.epoch \in Nat /\ ledger.used \in Nat
              /\ ledger.gens \in [Identity -> Nat] /\ ledger.policy \in Policies
              /\ ledger.policy.gen \in Nat /\ ledger.policy.val \in Values \cup {Strict}
BY DEF TypeDisk, Ledgers, Policies

LEMMA MemoryType ==
  Types => /\ ram.ledger \in Ledgers /\ ram.table \in Tables /\ ram.policy \in Policies
           /\ ram.state \in {"off", "blank", "formatted"} /\ ram.tamper \in BOOLEAN
           /\ ram.policy.gen \in Nat /\ ram.policy.val \in Values \cup {Strict}
           /\ \A x \in Slot : ram.table[x] \in Side \cup {"none"} /\ Target(x) \in Side
BY DEF Types, Memory, Tables, Policies, Target, Side, Other

\* A side is written, and the side sealed last may have changed.
LEMMA WriteSide ==
  ASSUME TypeDisk, Dated, Virgin, NEW x \in Slot, NEW t \in Side, NEW c \in Cells,
         c.kind = "record" => c.epoch <= ledger.epoch,
         c = Blank \/ ledger.live,
         flash' = [flash EXCEPT ![x][t] = c], last' \in {last, [last EXCEPT ![x] = t]},
         ledger' = ledger
  PROVE  TypeDisk' /\ Dated' /\ Virgin'
<1>1. flash \in Flashes /\ last \in Lasts
  BY DEF TypeDisk
<1>2. \A y \in Slot : \A s \in Side :
        flash'[y][s] = IF y = x /\ s = t THEN c ELSE flash[y][s]
  BY <1>1 DEF Flashes, Pairs
<1>3. flash' \in Flashes /\ last' \in Lasts
  <2>1. flash[x] \in Pairs
    BY <1>1 DEF Flashes
  <2>2. [flash[x] EXCEPT ![t] = c] \in Pairs
    BY <2>1 DEF Pairs
  <2>3. flash' = [flash EXCEPT ![x] = [flash[x] EXCEPT ![t] = c]]
    OBVIOUS
  <2>4. flash' \in Flashes
    BY <1>1, <2>2, <2>3 DEF Flashes
  <2>5. last' \in Lasts
    BY <1>1 DEF Lasts
  <2> QED BY <2>4, <2>5
<1>4. Dated'
  BY <1>2 DEF Dated
<1>5. Virgin'
  BY <1>2 DEF Virgin
<1> QED BY <1>3, <1>4, <1>5 DEF TypeDisk

LEMMA OneSideWritten ==
  ASSUME TypeDisk, NEW x \in Slot, NEW t \in Side, NEW c,
         flash' = [flash EXCEPT ![x][t] = c], last' \in {last, [last EXCEPT ![x] = t]}
  PROVE  /\ OneSide(flash, last, flash', last', x, t) /\ flash'[x][t] = c
         /\ last' = [last EXCEPT ![x] = t] => last'[x] = t
<1>1. /\ flash \in [Slot -> Pairs] /\ last \in [Slot -> Side] /\ flash[x] \in [Side -> Cells]
      /\ Other(t) \in Side /\ Other(t) # t
  BY TwoSides DEF TypeDisk, Flashes, Lasts, Pairs
<1>2. flash'[x][t] = c /\ flash'[x][Other(t)] = flash[x][Other(t)]
  BY <1>1
<1>3. \A y \in Slot \ {x} : flash'[y] = flash[y] /\ last'[y] = last[y]
  BY <1>1
<1>4. last'[x] \in {last[x], t} /\ (last' = [last EXCEPT ![x] = t] => last'[x] = t)
  BY <1>1
<1> QED BY <1>2, <1>3, <1>4 DEF OneSide

\* A record is sealed and counts.
LEMMA Crowned ==
  ASSUME TypeDisk, Dated, Virgin, NEW x \in Slot, NEW t \in Side, NEW r \in Record,
         r.epoch = ledger.epoch, ledger.live, Fit(ledger, x, r),
         flash' = [flash EXCEPT ![x][t] = r], last' = [last EXCEPT ![x] = t], ledger' = ledger
  PROVE  /\ TypeDisk' /\ Dated' /\ Virgin'
         /\ Current' = Put(Current, x, r) /\ Winners' = Put(Winners, x, t)
<1>1. TypeDisk' /\ Dated' /\ Virgin'
  <2>1. r \in Cells /\ r.epoch <= ledger.epoch
    BY LedgerType DEF Cells
  <2>2. last' \in {last, [last EXCEPT ![x] = t]}
    OBVIOUS
  <2> QED BY <2>1, <2>2, WriteSide
<1>2. OneSide(flash, last, flash', last', x, t) /\ flash'[x][t] = r /\ last'[x] = t
  BY OneSideWritten
<1>3. ASSUME NEW fl, NEW la, OneSide(flash, last, fl, la, x, t), fl[x][t] = r, la[x] = t
      PROVE  /\ CurOf(fl, la, ledger) = Put(CurOf(flash, last, ledger), x, r)
             /\ WinOf(fl, la, ledger) = Put(WinOf(flash, last, ledger), x, t)
  <2>1. Fit(ledger, x, fl[x][t])
    BY <1>3
  <2> QED BY <1>3, <2>1, CrownSlot
<1> QED BY <1>1, <1>2, <1>3 DEF Current, Winners

\* What does not count is written where nothing counted, under l.
LEMMA Weeded ==
  ASSUME TypeDisk, NEW x \in Slot, NEW t \in Side, NEW c, NEW l, ~Fit(l, x, c),
         t # Win(l, x, flash[x], last[x]),
         flash' = [flash EXCEPT ![x][t] = c], last' \in {last, [last EXCEPT ![x] = t]}
  PROVE  /\ CurOf(flash', last', l) = CurOf(flash, last, l)
         /\ WinOf(flash', last', l) = WinOf(flash, last, l)
<1>1. OneSide(flash, last, flash', last', x, t) /\ flash'[x][t] = c
  BY OneSideWritten
<1>2. flash \in Flashes /\ last \in Lasts
  BY DEF TypeDisk
<1>3. ASSUME NEW fl, NEW la, OneSide(flash, last, fl, la, x, t), fl[x][t] = c
      PROVE  /\ CurOf(fl, la, l) = CurOf(flash, last, l)
             /\ WinOf(fl, la, l) = WinOf(flash, last, l)
  <2>1. ~Fit(l, x, fl[x][t])
    BY <1>3
  <2> QED BY <1>2, <1>3, <2>1, WeedSlot
<1> QED BY <1>1, <1>3

LEMMA WeededHere ==
  ASSUME TypeDisk, Dated, Virgin, NEW x \in Slot, NEW t \in Side, NEW c \in {Blank, Garbage},
         t # WinAt(x), c = Blank \/ ledger.live,
         flash' = [flash EXCEPT ![x][t] = c], last' = last, ledger' = ledger
  PROVE  TypeDisk' /\ Dated' /\ Virgin' /\ Current' = Current /\ Winners' = Winners
<1>1. TypeDisk' /\ Dated' /\ Virgin'
  <2>1. c \in Cells /\ c.kind # "record"
    BY DEF Cells, Blank, Garbage
  <2> QED BY <2>1, WriteSide
<1>2. ~Fit(ledger, x, c)
  BY BlankUnfit
<1>3. /\ CurOf(flash', last', ledger) = CurOf(flash, last, ledger)
      /\ WinOf(flash', last', ledger) = WinOf(flash, last, ledger)
  BY <1>2, Weeded DEF WinAt
<1> QED BY <1>1, <1>3 DEF Current, Winners

\* The policy, and the cells that are used, do not count.
LEMMA LedgerSame ==
  ASSUME TypeDisk, Dated, Virgin, ledger.live, flash' = flash, last' = last,
         ledger' \in Ledgers, ledger'.epoch = ledger.epoch, ledger'.gens = ledger.gens, ledger'.live
  PROVE  TypeDisk' /\ Dated' /\ Virgin' /\ Current' = Current /\ Winners' = Winners
<1>1. TypeDisk' /\ Dated' /\ Virgin'
  BY DEF TypeDisk, Dated, Virgin
<1>2. /\ CurOf(flash, last, ledger') = CurOf(flash, last, ledger)
      /\ WinOf(flash, last, ledger') = WinOf(flash, last, ledger)
  BY SameCur
<1> QED BY <1>1, <1>2 DEF Current, Winners

\* The elected records are a family of records, each under the ledger's epoch.
LEMMA CurrentType ==
  TypeDisk => /\ Current \in [Slot -> Record \cup {Blank}]
              /\ Winners \in Tables
              /\ \A x \in Slot : /\ Winners[x] = WinAt(x)
                                 /\ WinAt(x) \in Side \cup {"none"}
                                 /\ WinAt(x) \in Side => Current[x] = flash[x][WinAt(x)]
                                 /\ WinAt(x) = "none" <=> Current[x] = Blank
                                 /\ Current[x] # Blank => Fit(ledger, x, Current[x])
<1> SUFFICES ASSUME TypeDisk
             PROVE  /\ Current \in [Slot -> Record \cup {Blank}]
                    /\ Winners \in Tables
                    /\ \A x \in Slot : /\ Winners[x] = WinAt(x)
                                       /\ WinAt(x) \in Side \cup {"none"}
                                       /\ WinAt(x) \in Side => Current[x] = flash[x][WinAt(x)]
                                       /\ WinAt(x) = "none" <=> Current[x] = Blank
                                       /\ Current[x] # Blank => Fit(ledger, x, Current[x])
  OBVIOUS
<1>1. flash \in Flashes /\ last \in Lasts
  BY DEF TypeDisk
<1>2. /\ Current \in [Slot -> Record \cup {Blank}] /\ Winners \in Tables
      /\ \A x \in Slot : Current[x] # Blank => Fit(ledger, x, Current[x])
  BY <1>1, CurType DEF Current, Winners
<1>3. ASSUME NEW x \in Slot
      PROVE  /\ Winners[x] = WinAt(x)
             /\ WinAt(x) \in Side \cup {"none"}
             /\ WinAt(x) \in Side => Current[x] = flash[x][WinAt(x)]
             /\ WinAt(x) = "none" <=> Current[x] = Blank
  <2> DEFINE w == Win(ledger, x, flash[x], last[x])
             c == Top(ledger, x, flash[x], last[x])
  <2>1. flash[x] \in Pairs /\ last[x] \in Side
    BY <1>1, PairType
  <2>2. Winners[x] = w /\ Current[x] = c /\ WinAt(x) = w
    BY DEF Winners, Current, WinOf, CurOf, WinAt
  <2>3. /\ w \in Side \cup {"none"} /\ (w \in Side => c = flash[x][w] /\ Fit(ledger, x, c))
        /\ w = "none" => c = Blank
    BY <2>1, WinFacts
  <2>4. ~Fit(ledger, x, Blank) /\ "none" \notin Side
    BY BlankUnfit DEF Side
  <2> HIDE DEF w, c
  <2> QED BY <2>2, <2>3, <2>4
<1> QED BY <1>2, <1>3

\* The side a record is sealed into is not the one that is elected.
LEMMA TargetIsFree ==
  ASSUME Types, NEW x \in Slot, ram.table[x] = WinAt(x)
  PROVE  Target(x) \in Side /\ Target(x) # WinAt(x)
BY MemoryType DEF Target, Side, Other

-----------------------------------------------------------------------------
(***************************************************************************)
(* The flash has come to amount to something that is right.                *)
(***************************************************************************)
LEMMA HereIsAhead == Universal => Ahead(Current, ledger)
BY DEF Universal, FoundIs, Right, Ahead, Allowed

LEMMA SoundLess ==
  ASSUME NEW e, NEW l, NEW m, NEW pr, NEW S, NEW T, NEW st, NEW st2, Sound(e, l, pr, S, st),
         l.epoch = m.epoch, l.gens = m.gens, T \subseteq S, st2 \in {st, "off"}
  PROVE  Sound(e, m, pr, T, st2)
BY DEF Sound, SessOK, BlankOK, IsCurrent

LEMMA Arrive ==
  ASSUME TypeDisk', NEW e, NEW l, Ahead(e, l), Current' = e, ledger'.epoch = l.epoch,
         ledger'.gens = l.gens, promised' = promised, sessions' \in {sessions, {}},
         ram'.state \in {ram.state, "off"}, Observe
  PROVE  /\ FoundIs' /\ Right' /\ found' = FoundOf(e, l.gens)
         /\ Allowed(found, found')
<1>1. Sound(e, l, promised, sessions, ram.state) /\ Allowed(found, FoundOf(e, l.gens))
  BY DEF Ahead
<1>2. found' = FoundOf(e, l.gens) /\ FoundIs'
  BY StoredIsNext DEF Observe, StoredOK, FoundIs
<1>3. sessions' \subseteq sessions
  OBVIOUS
<1>4. Sound(e, ledger', promised, sessions', ram'.state)
  BY <1>1, <1>3, SoundLess
<1> QED BY <1>1, <1>2, <1>4 DEF Right

\* Nothing has changed there.
LEMMA Stay ==
  ASSUME Universal, TypeDisk', Current' = Current, ledger'.epoch = ledger.epoch,
         ledger'.gens = ledger.gens, promised' = promised, sessions' \in {sessions, {}},
         ram'.state \in {ram.state, "off"}, Observe
  PROVE  FoundIs' /\ Right' /\ found' = found /\ Allowed(found, found')
<1>1. Ahead(Current, ledger)
  BY HereIsAhead
<1>2. FoundIs' /\ Right' /\ found' = FoundOf(Current, ledger.gens) /\ Allowed(found, found')
  BY <1>1, Arrive
<1> QED BY <1>2 DEF Universal, FoundIs

-----------------------------------------------------------------------------
(***************************************************************************)
(* What every step may count on, and what a step that leaves the flash and *)
(* RAM alone has to show.                                                  *)
(***************************************************************************)
LEMMA Facts ==
  ASSUME TypeDisk, Universal
  PROVE  /\ Owned(Current, ledger.gens) /\ found = FoundOf(Current, ledger.gens)
         /\ found[First] # NoPin <=> Current[First] # Blank
         /\ \A x \in Slot : Current[x] # Blank => ledger.live
         /\ \A x \in Where : found[x] \in promised[x]
         /\ SessOK(sessions, ledger, found)
         /\ BlankOK(ram.state, sessions, Current, ledger)
         /\ DOMAIN found = Where /\ found = [x \in Where |-> found[x]]
         /\ \A i \in Identity : found[i] = PinIn(Current, i)
<1>1. found = FoundOf(Current, ledger.gens)
  BY DEF Universal, FoundIs
<1>2. /\ Owned(Current, ledger.gens) /\ SessOK(sessions, ledger, found)
      /\ BlankOK(ram.state, sessions, Current, ledger) /\ \A x \in Where : found[x] \in promised[x]
  BY <1>1 DEF Universal, Right, Sound
<1>3. First \in Identity
  BY VaultAssumption
<1>4. found[First] # NoPin <=> Current[First] # Blank
  BY <1>1, <1>2, <1>3, FirstIs, FoundAt
<1>5. ASSUME NEW x \in Slot, Current[x] # Blank PROVE ledger.live
  <2>1. WinAt(x) \in Side /\ Current[x] = flash[x][WinAt(x)]
    BY <1>5, CurrentType
  <2> QED BY <1>5, <2>1 DEF Universal, Virgin
<1>6. DOMAIN found = Where /\ found = [x \in Where |-> found[x]]
  BY <1>1 DEF FoundOf
<1>7. \A i \in Identity : found[i] = PinIn(Current, i)
  BY <1>1, FoundAt
<1> QED BY <1>1, <1>2, <1>4, <1>5, <1>6, <1>7

LEMMA FrameStep ==
  ASSUME Types, Universal, Frame, hits' = hits, plan' \in Seq(Steps), plan' # <<>>,
         ram.state # "off", Has(plan', "mounted") => Has(plan, "mounted"),
         Has(plan', "fill") \/ FullNow, Phase'
  PROVE  IBody' /\ Allowed(found, found')
<1>1. /\ Current' = Current /\ Dated' /\ Virgin' /\ TypeDisk'
  BY DiskSame DEF Frame, Universal, Types
<1>2. Types'
  BY <1>1 DEF Types, Frame
<1>3. FoundIs' /\ Right'
  BY <1>1 DEF Frame, Universal, FoundIs, Right
<1>4. Unread' /\ Mounting' /\ Known'
  BY DEF Frame, Universal, Unread, Mounting, Known, PolicyOK
<1>5. Occupied'
  BY <1>1 DEF Occupied, FullNow, Frame
<1>6. Universal'
  BY <1>1, <1>3, <1>4, <1>5 DEF Universal
<1>7. Allowed(found, found')
  BY DEF Allowed, Frame
<1> QED BY <1>2, <1>6, <1>7 DEF IBody

\* What is left after a step that reads and writes nothing.
LEMMA SettleTail ==
  ASSUME NEW K, Settle(K), K[1].do \notin {"refresh", "cleanup", "done", "mounted", "session", "fill"}
  PROVE  Settle(Tail(K)) /\ Tail(K) # <<>>
<1>1. Ready(K, Current, found) /\ K \in Seq(Steps) /\ K # <<>>
  BY DEF Settle, Ready, Needs
<1>2. Ready(Tail(K), Current, found) /\ Tail(K) # <<>>
  BY <1>1, NeedsTail DEF Ready, Settle
<1>3. \A v : Has(K, v) <=> K[1].do = v \/ Has(Tail(K), v)
  BY <1>1, HasTail
<1>4. Swept(Tail(K), ledger, Slot)
  BY <1>3 DEF Settle, Swept
<1>5. Has(Tail(K), "rotate") => ledger.live
  BY <1>3 DEF Settle
<1>6. ram.ledger = ledger /\ ram.table = Winners /\ StateIs(found) /\ PolicyOK
  BY DEF Settle, RamFor
<1> QED BY <1>2, <1>4, <1>5, <1>6 DEF Settle, RamFor

\* A tail has no more than the whole.
LEMMA TailHas ==
  ASSUME Types, plan # <<>>
  PROVE  /\ Tail(plan) \in Seq(Steps)
         /\ \A v : Has(plan, v) <=> plan[1].do = v \/ Has(Tail(plan), v)
         /\ Tail(plan) # <<>> <=> Len(plan) > 1
         /\ Len(plan) \in Nat \ {0} /\ plan[1] \in Steps
         /\ \A n \in 1 .. (Len(plan) - 1) : Tail(plan)[n] = plan[n + 1]
<1>1. plan \in Seq(Steps)
  BY DEF Types
<1>2. ASSUME NEW v PROVE Has(plan, v) <=> plan[1].do = v \/ Has(Tail(plan), v)
  BY <1>1, HasTail
<1>3. /\ Tail(plan) \in Seq(Steps) /\ Len(plan) \in Nat \ {0} /\ plan[1] \in Steps
      /\ Tail(plan) = <<>> <=> Len(plan) = 1
      /\ \A n \in 1 .. (Len(plan) - 1) : Tail(plan)[n] = plan[n + 1]
  BY <1>1, TailIs
<1> QED BY <1>2, <1>3

LEMMA AheadLong ==
  ASSUME NEW R, Ahead1(R) PROVE R # <<>>
<1>1. Len(R) >= 1
  BY DEF Ahead1, Seal, Amend, Canary, CommitAfter, Resealing, ResealingOne, Epoch
<1> QED BY <1>1

\* An action of the model, as the conditions on plan it begins with.

LEMMA Awake ==
  ASSUME Universal, plan # <<>>, plan[1].do # "refresh" PROVE ram.state # "off"
BY DEF Universal, Unread

LEMMA InPhase ==
  ASSUME IBody, plan # <<>> PROVE Types /\ Universal /\ Phase
BY DEF IBody

LEMMA StepNoRotation ==
  ASSUME IBody, NoRotation PROVE IBody' /\ Allowed(found, found')
<1>1. /\ plan # <<>> /\ plan[1].do = "rotate" /\ plan' = Tail(plan) /\ Frame /\ hits' = hits
  BY DEF NoRotation, Now, Next1, Frame, disk, ghost
<1>2. Types /\ Universal /\ Phase
  BY <1>1, InPhase
<1>3. Settle(plan) \/ Ahead1(Tail(plan))
  BY <1>1, <1>2, PhaseHead
<1>4. ram.state # "off"
  BY <1>1, <1>2, Awake
<1>5. /\ Tail(plan) \in Seq(Steps)
      /\ Has(Tail(plan), "mounted") => Has(plan, "mounted")
      /\ Has(Tail(plan), "fill") \/ FullNow
  BY <1>1, <1>2, TailHas DEF Universal, Occupied
<1>6. Tail(plan) # <<>> /\ Phase'
  <2>1. CASE Settle(plan)
    <3>1. Settle(Tail(plan)) /\ Tail(plan) # <<>>
      BY <1>1, <2>1, SettleTail
    <3>2. Settle(plan)'
      BY <1>1, <3>1, SettleFrame
    <3> QED BY <3>1, <3>2 DEF Phase
  <2>2. CASE Ahead1(Tail(plan))
    <3>1. Ahead1(plan)'
      BY <1>1, <2>2, AheadFrame
    <3> QED BY <2>2, <3>1, AheadLong DEF Phase
  <2> QED BY <1>3, <2>1, <2>2
<1> QED BY <1>1, <1>2, <1>4, <1>5, <1>6, FrameStep

-----------------------------------------------------------------------------
(***************************************************************************)
(* Steps that put others in front of what is left of a call.               *)
(***************************************************************************)
LEMMA HasCons ==
  ASSUME NEW a \in Steps, NEW K \in Seq(Steps), NEW w
  PROVE  Has(<<a>> \o K, w) <=> a.do = w \/ Has(K, w)
<1>1. /\ <<a>> \o K \in Seq(Steps) /\ <<a>> \o K # <<>>
      /\ (<<a>> \o K)[1] = a /\ Tail(<<a>> \o K) = K
  BY Cons
<1> QED BY <1>1, HasTail

LEMMA HasTwo ==
  ASSUME NEW a \in Steps, NEW b \in Steps, NEW K \in Seq(Steps), NEW w
  PROVE  Has(Two(a, b, K), w) <=> a.do = w \/ b.do = w \/ Has(K, w)
<1> DEFINE R == Two(a, b, K)
<1>1. /\ R \in Seq(Steps) /\ R # <<>> /\ R[1] = a /\ Tail(R) = <<b>> \o K
  <2>1. TwoOK(a, b, K)
    BY TwoIs
  <2> QED BY <2>1 DEF TwoOK
<1> HIDE DEF R
<1>2. Has(R, w) <=> a.do = w \/ Has(<<b>> \o K, w)
  BY <1>1, HasTail
<1>3. Has(R, w) <=> a.do = w \/ b.do = w \/ Has(K, w)
  BY <1>2, HasCons
<1> QED BY <1>3 DEF R

\* A step in front of what is right is right.
LEMMA NeedsCons ==
  ASSUME NEW K \in Seq(Steps), NEW e, NEW f, NEW w, NEW S, NEW gp, Needs(K, e, f, w, S, gp),
         NEW a \in Steps, a.do \in SettleKinds \ {"done", "mounted", "due"},
         a.do = "session" => f[a.id] = a.key /\ ~Has(K, "mounted"),
         a.do = "fill" => f[First] # NoPin /\ ~Has(K, "due"),
         a.do = "prove" => ~Has(K, "fill")
  PROVE  Needs(<<a>> \o K, e, f, w, S, gp)
<1> DEFINE R == <<a>> \o K
<1>1. /\ R \in Seq(Steps) /\ R # <<>> /\ R[1] = a /\ Tail(R) = K
  BY Cons
<1> HIDE DEF R
<1>2. Needs(R, e, f, w, S, gp)
  BY <1>1, NeedsBack
<1> QED BY <1>2 DEF R

\* The flash may amount to other records, if none is missing or is to be written.
LEMMA NeedsOther ==
  ASSUME NEW K, NEW e, NEW e2, NEW f, NEW w, NEW S, NEW gp, Needs(K, e, f, w, S, gp),
         Has(K, "fill") \/ FullIn(gp, e2, f)
  PROVE  Needs(K, e2, f, w, S, gp)
BY DEF Needs

LEMMA FullPut ==
  ASSUME NEW gp, NEW e, e \in [Slot -> Record \cup {Blank}], NEW f, NEW h, NEW x \in Slot,
         NEW r \in Record, FullIn(gp, e, f), h[First] # NoPin => f[First] # NoPin
  PROVE  FullIn(gp, Put(e, x, r), h)
BY PutRecord DEF FullIn

LEMMA NeedsPut ==
  ASSUME NEW K, NEW e, e \in [Slot -> Record \cup {Blank}], NEW f, NEW w, NEW S, NEW gp,
         Needs(K, e, f, w, S, gp), NEW x \in Slot, NEW r \in Record
  PROVE  Needs(K, Put(e, x, r), f, w, S, gp)
<1>1. Has(K, "fill") \/ FullIn(gp, e, f)
  BY DEF Needs
<1>2. FullIn(gp, e, f) => FullIn(gp, Put(e, x, r), f)
  BY FullPut
<1> QED BY <1>1, <1>2, NeedsOther

NowStep(x, k, g, b) == SealStep(x, k, g, b, FALSE)
LaterStep(x, k, g, b) == SealStep(x, k, g, b, TRUE)

StepIs(st, x, k, g, b) ==
  /\ st \in Programs /\ st \in Steps /\ st.do = "program" /\ st.slot = x /\ st.key = k
  /\ st.gen = g /\ st.body = b /\ x \in Slot

LEMMA NowStepIs ==
  ASSUME NEW x \in Slot, NEW k \in Key, NEW g \in Nat, NEW b \in Body
  PROVE  StepIs(NowStep(x, k, g, b), x, k, g, b) /\ ~NowStep(x, k, g, b).later
BY DEF NowStep, SealStep, Programs, Steps, StepIs

LEMMA LaterStepIs ==
  ASSUME NEW x \in Slot, NEW k \in Key, NEW g \in Nat, NEW b \in Body
  PROVE  StepIs(LaterStep(x, k, g, b), x, k, g, b) /\ LaterStep(x, k, g, b).later
BY DEF LaterStep, SealStep, Programs, Steps, StepIs

LEMMA RetireStepIs ==
  ASSUME NEW x \in Slot
  PROVE  RetireStep(x) \in Steps /\ RetireStep(x).do = "retire" /\ RetireStep(x).slot = x
BY DEF RetireStep, Steps

\* The model's way of writing them.
Sealing(st, K) == Two(st, RetireStep(st.slot), K)

LEMMA SealIs ==
  ASSUME NEW x, NEW k, NEW g, NEW b, NEW K
  PROVE  /\ SealNow(x, k, g, b) \o K = Sealing(NowStep(x, k, g, b), K)
         /\ SealLater(x, k, g, b) = <<LaterStep(x, k, g, b)>>
<1>1. SealNow(x, k, g, b) = <<NowStep(x, k, g, b), RetireStep(x)>>
  BY Cat1 DEF SealNow, Program, SealStep, RetireStep, NowStep
<1>2. NowStep(x, k, g, b).slot = x
  BY DEF NowStep, SealStep
<1> QED BY <1>1, <1>2 DEF Sealing, Two, SealLater, Program, LaterStep, SealStep

LEMMA SealedIs ==
  ASSUME Types, NEW st \in Programs
  PROVE  Sealed(st) \in Record /\ Sealed(st).key = st.key /\ Sealed(st).gen = st.gen
         /\ Sealed(st).body = st.body /\ Sealed(st).epoch = ram.ledger.epoch
         /\ Sealed(st).kind = "record"
<1>1. ram.ledger.epoch \in Nat
  BY MemoryType DEF Ledgers
<1>2. st.key \in Key /\ st.gen \in Nat /\ st.body \in Body
  BY StepKinds
<1> QED BY <1>1, <1>2 DEF Sealed, Rec, Record

\* A seal by itself, in front of K.
SealOK(st, K) ==
  /\ st \in Programs /\ ~st.later /\ K \in Seq(Steps) /\ K # <<>>
  /\ Live /\ ram.table = Winners /\ Fit(ledger, st.slot, Sealed(st))
  /\ LET e == Put(Current, st.slot, Sealed(st))
         f == FoundOf(e, ledger.gens)
     IN Ahead(e, ledger) /\ Ready(K, e, f) /\ RamFor(K, f)
  /\ Swept(K, ledger, Slot \ {st.slot})

SealedOK(R, K) ==
  /\ Seal(R) /\ R \in Seq(Steps) /\ R # <<>>
  /\ \A v : v \notin {"program", "retire"} => (Has(R, v) <=> Has(K, v))

LEMMA SealFirst ==
  ASSUME NEW st, NEW K, SealOK(st, K) PROVE SealedOK(Sealing(st, K), K)
<1> DEFINE R == Sealing(st, K)
<1>1. st \in Steps /\ RetireStep(st.slot) \in Steps /\ st.do = "program" /\ RetireStep(st.slot).do = "retire"
      /\ K \in Seq(Steps) /\ K # <<>> /\ st \in Programs /\ ~st.later
  BY StepKinds DEF SealOK, RetireStep, Steps
<1>2. /\ R \in Seq(Steps) /\ Len(R) = Len(K) + 2 /\ R[1] = st /\ R[2] = RetireStep(st.slot)
      /\ Tail(Tail(R)) = K /\ R # <<>>
  <2>1. TwoOK(st, RetireStep(st.slot), K)
    BY <1>1, TwoIs
  <2> QED BY <2>1 DEF TwoOK, Sealing
<1>5. \A v : v \notin {"program", "retire"} => (Has(R, v) <=> Has(K, v))
  BY <1>1, HasTwo DEF Sealing
<1> HIDE DEF R
<1>3. Len(R) >= 3
  <2>1. Len(K) \in Nat \ {0}
    BY <1>1, TailIs
  <2> QED BY <1>2, <2>1
<1>4. Seal(R)
  BY <1>2, <1>3 DEF Seal, RetireStep, SealOK
<1> QED BY <1>2, <1>4, <1>5 DEF SealedOK, R

\* What is fit under the ledger that RAM has.
LEMMA FitIs ==
  ASSUME NEW l, NEW x, NEW r \in Record, r.epoch = l.epoch,
         x = Super \/ (r.gen # 0 /\ \E i \in Identity : l.gens[i] = r.gen)
  PROVE  Fit(l, x, r)
BY DEF Fit, IsCandidate, Record

\* Records that say the same of who opens what.
LEMMA AheadSame ==
  ASSUME Types, Universal, NEW e, Owned(e, ledger.gens), FoundOf(e, ledger.gens) = found,
         ram.state # "blank" \/ \A x \in (Identity \cup User) \ {First} : e[x] = Current[x]
  PROVE  Ahead(e, ledger)
<1>1. TypeDisk
  BY DEF Types
<1>2. /\ \A x \in Where : found[x] \in promised[x]
      /\ SessOK(sessions, ledger, found) /\ BlankOK(ram.state, sessions, Current, ledger)
  BY <1>1, Facts
<1>3. BlankOK(ram.state, sessions, e, ledger)
  BY <1>2 DEF BlankOK
<1> QED BY <1>2, <1>3 DEF Ahead, Sound, Allowed

-----------------------------------------------------------------------------
(***************************************************************************)
(* The steps that only rearrange what is left of a call.                   *)
(***************************************************************************)
LEMMA StepFillOne ==
  ASSUME IBody, FillOne PROVE IBody' /\ Allowed(found, found')
<1> DEFINE x == CHOOSE y \in Unoccupied : TRUE
           st == NowStep(x, Filler, ledger.gens[First], Nothing)
           e == Put(Current, x, Sealed(st))
<1>1. /\ plan # <<>> /\ plan[1].do = "fill" /\ Unoccupied # {} /\ Frame /\ hits' = hits
      /\ plan' = WriteFiller(x) \o plan
  BY DEF FillOne, Now, Frame, disk, ghost
<1>2. Types /\ Universal /\ Phase /\ TypeDisk
  BY <1>1, InPhase DEF Types
<1>3. Settle(plan)
  BY <1>1, <1>2, PhaseHead
<1>4. /\ ram.ledger = ledger /\ ram.table = Winners /\ StateIs(found) /\ PolicyOK
      /\ Needs(plan, Current, found, goal, sessions, gap) /\ Swept(plan, ledger, Slot)
      /\ plan \in Seq(Steps)
  BY <1>1, <1>3 DEF Settle, RamFor, Ready, Needs
<1>5. Has(plan, "fill")
  BY <1>1, <1>2, TailHas
<1>6. found[First] # NoPin /\ ram.state = "formatted"
  BY <1>4, <1>5 DEF Needs, StateIs
<1>7. x \in Slot \ {Super} /\ x \in Where /\ Winners[x] = "none" /\ Current[x] = Blank
  <2>1. x \in Unoccupied
    BY <1>1
  <2>2. x \in Slot \ {Super} /\ Winners[x] = "none"
    BY <1>4, <2>1 DEF Unoccupied
  <2>3. WinAt(x) = "none" /\ Current[x] = Blank
    BY <1>2, <2>2, CurrentType
  <2> QED BY <2>2, <2>3, SlotType
<1>8. /\ Owned(Current, ledger.gens) /\ Current[First] # Blank /\ ledger.live
      /\ found = FoundOf(Current, ledger.gens) /\ First \in Identity
      /\ found = [y \in Where |-> found[y]]
  <2>1. First \in Slot /\ First \in Identity
    BY SlotType
  <2> QED BY <1>2, <1>6, <2>1, Facts
<1>9. ledger.gens[First] \in Nat /\ ledger.gens[First] # 0
  BY <1>2, <1>8, LedgerType, FirstIs
<1>10. StepIs(st, x, Filler, ledger.gens[First], Nothing) /\ ~st.later
  <2>1. Filler \in Key /\ Nothing \in Body
    BY DEF Key, Body
  <2> HIDE DEF x
  <2> QED BY <1>7, <1>9, <2>1, NowStepIs
<1> HIDE DEF x
<1>11. plan' = Sealing(st, plan)
  BY <1>1, <1>4, SealIs DEF WriteFiller
<1> HIDE DEF st
<1>12. /\ Sealed(st) \in Record /\ Sealed(st).key = Filler /\ Sealed(st).gen = ledger.gens[First]
       /\ Sealed(st).epoch = ledger.epoch
  BY <1>2, <1>4, <1>10, SealedIs DEF StepIs
<1>13. Owned(e, ledger.gens) /\ FoundOf(e, ledger.gens) = found
  <2> DEFINE r == Sealed(st)
             c == Current
             g == ledger.gens
  <2>0. /\ Owned(c, g) /\ x \in Where /\ r \in Record /\ c[First] # Blank /\ r.key = Filler
        /\ r.gen = g[First] /\ c[x] = Blank
    BY <1>7, <1>8, <1>12
  <2> HIDE DEF r, c, g
  <2>1. /\ Owned(Put(c, x, r), g)
        /\ FoundOf(Put(c, x, r), g) = IF x \in User THEN Put(FoundOf(c, g), x, Nothing)
                                      ELSE FoundOf(c, g)
    BY <2>0, PutFiller
  <2>2. x \in User => found[x] = Nothing
    BY <1>7, <1>8, HoldsIs, FoundAt
  <2>3. x \in User => Put(found, x, Nothing) = found
    BY <1>7, <1>8, <2>2, PutIs
  <2> QED BY <1>8, <2>1, <2>3 DEF r, c, g
<1>14. Fit(ledger, x, Sealed(st))
  BY <1>8, <1>9, <1>12, FitIs
<1> HIDE DEF e
<1>15. Ahead(e, ledger)
  BY <1>2, <1>6, <1>13, AheadSame
<1>16. Needs(plan, e, found, goal, sessions, gap)
  BY <1>4, <1>5, NeedsOther
<1>17. SealedOK(Sealing(st, plan), plan)
  <2>1. Ready(plan, e, FoundOf(e, ledger.gens)) /\ RamFor(plan, FoundOf(e, ledger.gens))
    BY <1>4, <1>13, <1>16 DEF Ready, RamFor
  <2>2. Swept(plan, ledger, Slot \ {st.slot}) /\ Live
    BY <1>4, <1>8 DEF Swept, Live
  <2>3. e = Put(Current, st.slot, Sealed(st))
    BY <1>10 DEF e, StepIs
  <2>4. SealOK(st, plan)
    BY <1>1, <1>4, <1>10, <1>14, <1>15, <2>1, <2>2, <2>3 DEF SealOK, StepIs
  <2> QED BY <2>4, SealFirst
<1>18. Phase' /\ plan' # <<>> /\ plan' \in Seq(Steps) /\ (Has(plan', "mounted") <=> Has(plan, "mounted"))
       /\ (Has(plan', "fill") <=> Has(plan, "fill"))
  <2>1. Seal(plan)'
    BY <1>1, <1>11, <1>17, SealFrame DEF SealedOK
  <2> QED BY <1>11, <1>17, <2>1 DEF Phase, Ahead1, SealedOK
<1> QED BY <1>1, <1>2, <1>5, <1>6, <1>18, FrameStep

LEMMA Assoc ==
  ASSUME NEW A \in Seq(Steps), NEW B \in Seq(Steps), NEW C \in Seq(Steps)
  PROVE  (A \o B) \o C = A \o (B \o C)
BY ConcatAssociative

LEMMA DoIs ==
  ASSUME NEW w \in {"refresh", "due", "cleanup", "sync", "fill", "rotate", "distrust", "done",
                    "mounted", "head", "epoch", "erase"}
  PROVE  /\ Do(w) = <<Simple(w)>> /\ Do(w) \in Seq(Steps) /\ Simple(w) \in Steps
         /\ Simple(w).do = w
<1>1. Simple(w) \in Steps /\ Simple(w).do = w
  BY SimpleStep
<1>2. Do(w) = <<Simple(w)>>
  BY DEF Do, Simple
<1> QED BY <1>1, <1>2

\* A simple step in front of K.
LEMMA DoFirst ==
  ASSUME NEW w \in {"refresh", "due", "cleanup", "sync", "fill", "rotate", "distrust", "done",
                    "mounted", "head", "epoch", "erase"}, NEW K \in Seq(Steps)
  PROVE  /\ Do(w) \o K \in Seq(Steps) /\ Do(w) \o K # <<>> /\ (Do(w) \o K)[1] = Simple(w)
         /\ Tail(Do(w) \o K) = K /\ Len(Do(w) \o K) = Len(K) + 1
         /\ \A v : Has(Do(w) \o K, v) <=> w = v \/ Has(K, v)
<1>1. Do(w) = <<Simple(w)>> /\ Simple(w) \in Steps /\ Simple(w).do = w
  BY DoIs
<1>2. /\ <<Simple(w)>> \o K \in Seq(Steps) /\ <<Simple(w)>> \o K # <<>>
      /\ (<<Simple(w)>> \o K)[1] = Simple(w)
      /\ Tail(<<Simple(w)>> \o K) = K /\ Len(<<Simple(w)>> \o K) = Len(K) + 1
  BY <1>1, Cons
<1>3. \A v : Has(<<Simple(w)>> \o K, v) <=> w = v \/ Has(K, v)
  BY <1>1, HasCons
<1> QED BY <1>1, <1>2, <1>3

LEMMA NeedsDo ==
  ASSUME NEW w \in {"refresh", "cleanup", "sync", "rotate", "distrust"}, NEW K \in Seq(Steps),
         NEW e, NEW f, NEW wish, NEW S, NEW gp, Needs(K, e, f, wish, S, gp)
  PROVE  Needs(Do(w) \o K, e, f, wish, S, gp)
<1>1. Do(w) = <<Simple(w)>> /\ Simple(w) \in Steps /\ Simple(w).do = w
  BY DoIs
<1>2. Simple(w).do \in SettleKinds \ {"done", "mounted", "due"}
  BY <1>1 DEF SettleKinds
<1>3. Needs(<<Simple(w)>> \o K, e, f, wish, S, gp)
  BY <1>1, <1>2, NeedsCons
<1> QED BY <1>1, <1>3

LEMMA SealSeq ==
  ASSUME NEW x \in Slot, NEW k \in Key, NEW g \in Nat, NEW b \in Body
  PROVE  SealNow(x, k, g, b) \in Seq(Steps) /\ SealLater(x, k, g, b) \in Seq(Steps)
<1>1. NowStep(x, k, g, b) \in Steps /\ LaterStep(x, k, g, b) \in Steps /\ RetireStep(x) \in Steps
  BY NowStepIs, LaterStepIs, RetireStepIs DEF StepIs
<1>2. SealNow(x, k, g, b) = <<NowStep(x, k, g, b), RetireStep(x)>>
  BY Cat1 DEF SealNow, Program, SealStep, RetireStep, NowStep
<1>3. SealLater(x, k, g, b) = <<LaterStep(x, k, g, b)>>
  BY DEF SealLater, Program, LaterStep, SealStep
<1> QED BY <1>1, <1>2, <1>3

\* What RAM's policy goes into.
LEMMA PolicyBody == Types => ram.policy \in Body /\ Super \in Key /\ 0 \in Nat
BY MemoryType DEF Body, Key

LEMMA StepSync ==
  ASSUME IBody, Sync PROVE IBody' /\ Allowed(found, found')
<1> DEFINE T == Tail(plan)
           K == Do("refresh") \o T
           st == NowStep(Super, Super, 0, ram.policy)
           e == Put(Current, Super, Sealed(st))
<1>1. /\ plan # <<>> /\ plan[1].do = "sync" /\ Frame /\ hits' = hits
      /\ plan' = IF MirrorStale
                 THEN (SealNow(Super, Super, 0, ram.policy) \o Do("refresh")) \o T ELSE T
  BY DEF Sync, Now, Frame, disk, ghost
<1>2. Types /\ Universal /\ Phase /\ TypeDisk
  BY <1>1, InPhase DEF Types
<1>3. Settle(plan)
  BY <1>1, <1>2, PhaseHead
<1>4. Settle(T) /\ T # <<>> /\ ram.state # "off"
  BY <1>1, <1>2, <1>3, SettleTail, Awake
<1>5. T \in Seq(Steps) /\ \A v : Has(plan, v) <=> "sync" = v \/ Has(T, v)
  BY <1>1, <1>2, TailHas
<1>6. CASE ~MirrorStale
  <2>1. Settle(plan)'
    BY <1>1, <1>4, <1>6, SettleFrame
  <2>2. Phase' /\ plan' = T
    BY <1>1, <1>6, <2>1 DEF Phase
  <2>3. Has(T, "fill") \/ FullNow
    BY <1>2, <1>5 DEF Universal, Occupied
  <2> QED BY <1>1, <1>2, <1>4, <1>5, <2>2, <2>3, FrameStep
<1>7. CASE MirrorStale
  <2>1. /\ K \in Seq(Steps) /\ K # <<>> /\ K[1].do = "refresh"
        /\ \A v : Has(K, v) <=> "refresh" = v \/ Has(T, v)
    BY <1>5, DoFirst, SimpleStep
  <2>2. StepIs(st, Super, Super, 0, ram.policy) /\ ~st.later /\ ram.policy \in Policies
        /\ SealNow(Super, Super, 0, ram.policy) \in Seq(Steps)
    BY <1>2, PolicyBody, NowStepIs, SealSeq, SlotType, MemoryType
  <2>3. plan' = Sealing(st, K)
    <3> DEFINE A == SealNow(Super, Super, 0, ram.policy)
               B == Do("refresh")
    <3>1. A \in Seq(Steps) /\ B \in Seq(Steps) /\ T \in Seq(Steps)
      BY <1>5, <2>2, DoIs
    <3>2. ASSUME NEW Q PROVE A \o Q = Sealing(st, Q)
      BY SealIs
    <3>3. plan' = (A \o B) \o T /\ K = B \o T
      BY <1>1, <1>7
    <3> HIDE DEF A, B, T, K, st
    <3>4. (A \o B) \o T = A \o (B \o T)
      BY <3>1, Assoc
    <3> QED BY <3>2, <3>3, <3>4
  <2>4. /\ ram.ledger = ledger /\ ram.table = Winners /\ StateIs(found)
        /\ Swept(T, ledger, Slot) /\ Needs(T, Current, found, goal, sessions, gap)
    BY <1>1, <1>3, <1>4 DEF Settle, RamFor, Ready
  <2>5. ram.state = "formatted" /\ found[First] # NoPin /\ First \in Slot
    BY <1>7, <2>4, SlotType DEF MirrorStale, StateIs
  <2>6. ledger.live /\ Owned(Current, ledger.gens) /\ found = FoundOf(Current, ledger.gens)
        /\ Current \in [Slot -> Record \cup {Blank}]
    BY <1>2, <2>5, Facts DEF Owned
  <2> HIDE DEF K, st
  <2>7. /\ Sealed(st) \in Record /\ Sealed(st).epoch = ledger.epoch /\ Sealed(st).body \in Policies
    BY <1>2, <2>2, <2>4, SealedIs DEF StepIs
  <2>8. Owned(e, ledger.gens) /\ FoundOf(e, ledger.gens) = found
    BY <2>6, <2>7, PutSuper
  <2>9. Fit(ledger, Super, Sealed(st))
    BY <2>7, FitIs
  <2>10. Ahead(e, ledger)
    BY <1>2, <2>5, <2>8, AheadSame
  <2>11. Needs(K, e, found, goal, sessions, gap)
    <3>1. Needs(T, e, found, goal, sessions, gap)
      BY <2>4, <2>6, <2>7, SlotType, NeedsPut
    <3> QED BY <1>5, <3>1, NeedsDo DEF K
  <2>12. SealOK(st, K)
    <3>1. Ready(K, e, FoundOf(e, ledger.gens)) /\ RamFor(K, FoundOf(e, ledger.gens))
      BY <2>1, <2>8, <2>11 DEF Ready, RamFor
    <3>2. Swept(K, ledger, Slot \ {Super}) /\ Live
      BY <2>1, <2>4, <2>6 DEF Swept, Live
    <3> QED BY <2>1, <2>2, <2>4, <2>9, <2>10, <3>1, <3>2 DEF SealOK, StepIs
  <2>13. SealedOK(Sealing(st, K), K)
    BY <2>12, SealFirst
  <2>14. Seal(plan)'
    BY <1>1, <2>3, <2>13, SealFrame DEF SealedOK
  <2>15. /\ Phase' /\ plan' # <<>> /\ plan' \in Seq(Steps)
         /\ Has(plan', "mounted") => Has(plan, "mounted")
         /\ Has(plan', "fill") <=> Has(plan, "fill")
    BY <1>5, <2>1, <2>3, <2>13, <2>14 DEF Phase, Ahead1, SealedOK
  <2> QED BY <1>1, <1>2, <1>4, <2>15, FrameStep DEF Universal, Occupied
<1> QED BY <1>6, <1>7

LEMMA StepProve ==
  ASSUME IBody, Prove PROVE IBody' /\ Allowed(found, found')
<1>1. plan # <<>> /\ plan[1].do = "prove" /\ Frame /\ hits' = hits /\ plan' = Tail(plan)
  BY DEF Prove, Proven, Now, Next1, Frame, disk, ghost
<1>2. Types /\ Universal /\ Phase
  BY <1>1, InPhase
<1>3. Settle(plan)
  BY <1>1, <1>2, PhaseHead
<1>4. Settle(Tail(plan)) /\ Tail(plan) # <<>> /\ ram.state # "off"
  BY <1>1, <1>2, <1>3, SettleTail, Awake
<1>5. /\ Tail(plan) \in Seq(Steps) /\ (Has(Tail(plan), "mounted") => Has(plan, "mounted"))
      /\ Has(Tail(plan), "fill") \/ FullNow
  BY <1>1, <1>2, TailHas DEF Universal, Occupied
<1>6. Phase'
  <2>1. Settle(plan)'
    BY <1>1, <1>4, SettleFrame
  <2> QED BY <2>1 DEF Phase
<1> QED BY <1>1, <1>2, <1>4, <1>5, <1>6, FrameStep

-----------------------------------------------------------------------------
(***************************************************************************)
(* Steps that leave the flash alone.                                       *)
(***************************************************************************)
RamIs == /\ ram.ledger = ledger /\ ram.table = Winners
         /\ StateIs(found) /\ PolicyOK

LEMMA SettleNext ==
  ASSUME NEW K, UNCHANGED disk, Needs(K, Current, found, goal', sessions', gap'),
         Swept(K, ledger, Slot), Has(K, "rotate") => ledger.live, RamIs' \/ K[1].do = "refresh"
  PROVE  Settle(K)'
<1>1. Current' = Current /\ Winners' = Winners /\ found' = found /\ ledger' = ledger
  BY DiskSame DEF disk
<1>2. Ready(K, Current, found)'
  BY <1>1 DEF Ready
<1>3. Swept(K, ledger, Slot)'
  BY DEF Swept, CleanOf, disk
<1>4. RamFor(K, found)'
  BY DEF RamFor, RamIs
<1> QED BY <1>1, <1>2, <1>3, <1>4 DEF Settle, RamIs

LEMMA DiskStep ==
  ASSUME Types, Universal, UNCHANGED disk, plan' \in Seq(Steps), ram' \in Memory,
         sessions' \in SUBSET Session, promised' = [x \in Where |-> promised'[x]],
         gap' \in BOOLEAN, hits' \in Nat, Right', Unread', Mounting', Known', Occupied',
         IF plan' = <<>> THEN Atrest' ELSE Phase'
  PROVE  IBody' /\ Allowed(found, found')
<1>1. /\ Current' = Current /\ Dated' /\ Virgin' /\ TypeDisk'
  BY DiskSame DEF disk, Universal, Types
<1>2. Types'
  BY <1>1 DEF Types
<1>3. FoundIs'
  BY <1>1 DEF disk, Universal, FoundIs
<1>4. Universal'
  BY <1>1, <1>3 DEF Universal
<1>5. Allowed(found, found')
  BY DEF Allowed, disk
<1> QED BY <1>2, <1>4, <1>5 DEF IBody

\* Where RAM's state is what the flash says, nothing is taken for blank that is not.
LEMMA RightView ==
  ASSUME Types, Universal, UNCHANGED <<disk, sessions, promised>>,
         ram'.state = IF found[First] # NoPin THEN "formatted" ELSE "blank"
  PROVE  Right'
<1>0. TypeDisk /\ Current' = Current /\ ledger' = ledger
  BY DiskSame DEF Types, disk
<1>1. /\ Owned(Current, ledger.gens)
      /\ found[First] # NoPin <=> Current[First] # Blank
      /\ found = FoundOf(Current, ledger.gens)
      /\ SessOK(sessions, ledger, found) /\ \A x \in Where : found[x] \in promised[x]
      /\ \A i \in Identity : found[i] = PinIn(Current, i)
  BY <1>0, Facts
<1>2. ASSUME ram'.state = "blank" PROVE BlankOK(ram'.state, sessions, Current, ledger)
  <2>1. Current[First] = Blank
    BY <1>1, <1>2
  <2>2. \A x \in Where : Current[x] = Blank
    BY <1>1, <2>1, FirstIs
  <2>3. ASSUME NEW s \in sessions PROVE ~IsCurrent(s, ledger)
    <3>1. s.id \in Identity /\ s.key \in Pin
      BY DEF Types, Session
    <3>2. found[s.id] = NoPin
      BY <1>1, <2>2, <3>1, SlotType DEF PinIn
    <3> QED BY <1>1, <3>1, <3>2, KeysDiffer DEF SessOK
  <2> QED BY <2>2, <2>3, SlotType DEF BlankOK
<1>3. BlankOK(ram'.state, sessions, Current, ledger)
  BY <1>2 DEF BlankOK
<1> QED BY <1>0, <1>1, <1>3 DEF Right, Sound

LEMMA RightSame ==
  ASSUME Universal, UNCHANGED <<disk, sessions, promised>>, ram'.state = ram.state
  PROVE  Right'
<1>0. Current' = Current /\ ledger' = ledger
  BY DiskSame DEF disk
<1> QED BY <1>0 DEF Universal, Right

LEMMA StepFilled ==
  ASSUME IBody, Filled PROVE IBody' /\ Allowed(found, found')
<1> DEFINE T == Tail(plan)
<1>1. /\ plan # <<>> /\ plan[1].do = "fill" /\ Unoccupied = {} /\ plan' = T /\ gap' = FALSE
      /\ UNCHANGED <<disk, ram, sessions, goal, promised, hits>>
  BY DEF Filled, Now, Next1
<1>2. Types /\ Universal /\ Phase /\ TypeDisk
  BY <1>1, InPhase DEF Types
<1>3. Settle(plan)
  BY <1>1, <1>2, PhaseHead
<1>4. RamIs /\ Needs(plan, Current, found, goal, sessions, gap) /\ Swept(plan, ledger, Slot)
      /\ (Has(plan, "rotate") => ledger.live) /\ ram.state # "off"
  BY <1>1, <1>2, <1>3, Awake DEF Settle, RamFor, Ready, RamIs
<1>5. T \in Seq(Steps) /\ \A v : Has(plan, v) <=> "fill" = v \/ Has(T, v)
  BY <1>1, <1>2, TailHas
<1>6. found[First] # NoPin
  BY <1>4, <1>5 DEF Needs
<1>7. ASSUME NEW x \in Slot PROVE Current[x] # Blank
  <2>1. First \in Slot /\ First \in Identity
    BY SlotType
  <2>2. Current[First] # Blank /\ Current[Super] # Blank
    BY <1>2, <1>6, Facts, FirstIs
  <2>3. CASE x = Super
    BY <2>2, <2>3
  <2>4. CASE x # Super
    <3>1. Winners[x] # "none"
      BY <1>1, <1>4, <2>4 DEF Unoccupied, RamIs
    <3> QED BY <1>2, <3>1, CurrentType
  <2> QED BY <2>3, <2>4
<1>8. FullIn(FALSE, Current, found)
  BY <1>7 DEF FullIn
<1>9. Needs(T, Current, found, goal, sessions, FALSE) /\ T # <<>>
  BY <1>1, <1>4, <1>8, NeedsTail
<1>10. Swept(T, ledger, Slot)
  BY <1>4, <1>5 DEF Swept
<1>11. RamIs'
  BY <1>1, <1>4, DiskSame DEF RamIs, StateIs, PolicyOK, disk
<1>12. Settle(plan)'
  BY <1>1, <1>4, <1>5, <1>9, <1>10, <1>11, SettleNext
<1>13. Right'
  BY <1>1, <1>2, RightSame
<1>14. Unread' /\ Mounting' /\ Known'
  BY <1>1, <1>2, <1>4, <1>5 DEF Universal, Unread, Mounting, Known, PolicyOK, disk
<1>15. Occupied'
  BY <1>1, <1>8, DiskSame DEF Occupied, FullNow, disk
<1> QED BY <1>1, <1>2, <1>5, <1>9, <1>12, <1>13, <1>14, <1>15, DiskStep DEF Types, Phase

LEMMA StepDistrust ==
  ASSUME IBody, Distrust PROVE IBody' /\ Allowed(found, found')
<1> DEFINE T == Tail(plan)
<1>1. /\ plan # <<>> /\ plan[1].do = "distrust" /\ plan' = T
      /\ UNCHANGED <<disk, sessions, goal, promised, gap, hits>>
      /\ ram' = [ram EXCEPT !.tamper = TRUE, !.policy = [val |-> Strict, gen |-> @.gen]]
  BY DEF Distrust, Now, Next1, ghost
<1>2. Types /\ Universal /\ Phase /\ TypeDisk
  BY <1>1, InPhase DEF Types
<1>3. Settle(plan)
  BY <1>1, <1>2, PhaseHead
<1>4. RamIs /\ ram.state # "off"
  BY <1>1, <1>2, <1>3, Awake DEF Settle, RamFor, RamIs
<1>5. T \in Seq(Steps) /\ \A v : Has(plan, v) <=> "distrust" = v \/ Has(T, v)
  BY <1>1, <1>2, TailHas
<1>6. Settle(T) /\ T # <<>>
  BY <1>1, <1>3, SettleTail
<1>7. /\ ram'.ledger = ram.ledger /\ ram'.table = ram.table /\ ram'.state = ram.state /\ ram'.tamper
      /\ ram' \in Memory
  <2>1. ram \in Memory /\ ram.policy.gen \in Nat
    BY <1>2, MemoryType DEF Types
  <2>2. [val |-> Strict, gen |-> ram.policy.gen] \in Policies
    BY <2>1 DEF Policies
  <2> QED BY <1>1, <2>1, <2>2 DEF Memory
<1>8. RamIs'
  BY <1>1, <1>4, <1>7, DiskSame DEF RamIs, StateIs, PolicyOK, disk
<1>9. Settle(plan)'
  BY <1>1, <1>6, <1>8, SettleNext DEF Settle, Ready
<1>10. Right'
  BY <1>1, <1>2, <1>7, RightSame
<1>11. Unread' /\ Mounting' /\ Known'
  BY <1>1, <1>2, <1>4, <1>5, <1>7 DEF Universal, Unread, Mounting, Known, PolicyOK, disk
<1>12. Occupied'
  BY <1>1, <1>2, <1>5, DiskSame DEF Universal, Occupied, FullNow, disk
<1> QED BY <1>1, <1>2, <1>5, <1>6, <1>7, <1>9, <1>10, <1>11, <1>12, DiskStep DEF Types, Phase

LEMMA StepFail ==
  ASSUME IBody, Fail PROVE IBody' /\ Allowed(found, found')
<1>1. /\ plan # <<>> /\ plan[1].do \in {"fail", "prove"} /\ plan' = <<>> /\ result' = "error"
      /\ UNCHANGED <<disk, ram, sessions, promised, gap, hits>>
  BY DEF Fail, Now
<1>2. Types /\ Universal /\ Phase /\ TypeDisk
  BY <1>1, InPhase DEF Types
<1>3. Settle(plan) /\ plan[1].do = "prove"
  BY <1>1, <1>2, PhaseHead
<1>4. Needs(plan, Current, found, goal, sessions, gap) /\ ram.state # "off"
  BY <1>1, <1>2, <1>3, Awake DEF Settle, Ready
<1>5. ~Has(plan, "fill")
  <2> SUFFICES ASSUME NEW m \in DOMAIN plan, plan[m].do = "fill" PROVE FALSE
    BY DEF Has
  <2>1. 1 \in DOMAIN plan /\ DOMAIN plan = 1 .. Len(plan) /\ Len(plan) \in Nat
    BY <1>1, <1>2, TailIs DEF Types
  <2>2. m < 1
    BY <1>3, <1>4, <2>1 DEF Needs
  <2> QED BY <2>1, <2>2
<1>6. Right'
  BY <1>1, <1>2, RightSame
<1>7. Unread' /\ Mounting' /\ Known'
  BY <1>1, <1>2, <1>4, HasNone DEF Universal, Unread, Mounting, Known, PolicyOK, disk
<1>8. Occupied'
  BY <1>1, <1>2, <1>5, DiskSame DEF Universal, Occupied, FullNow, disk
<1>9. Atrest' /\ plan' \in Seq(Steps)
  BY <1>1 DEF Atrest
<1> QED BY <1>1, <1>2, <1>6, <1>7, <1>8, <1>9, DiskStep DEF Types

LEMMA StepGenRefused ==
  ASSUME IBody, GenRefused PROVE IBody' /\ Allowed(found, found')
<1>1. /\ plan # <<>> /\ plan[1].do = "gen" /\ plan' = <<>> /\ result' = "uncommitted"
      /\ ledger.used = GenCells
      /\ UNCHANGED <<disk, ram, sessions, promised, gap, hits>>
  BY DEF GenRefused, Now
<1>2. Types /\ Universal /\ Phase /\ TypeDisk
  BY <1>1, InPhase DEF Types
<1>3. Commit(plan) /\ ram.state # "off"
  BY <1>1, <1>2, PhaseHead, Awake
<1>5. FullNow
  BY <1>1, <1>3, VaultAssumption DEF Commit, Room
<1>6. Right'
  BY <1>1, <1>2, RightSame
<1>7. Unread' /\ Mounting' /\ Known'
  BY <1>1, <1>2, <1>3, HasNone DEF Universal, Unread, Mounting, Known, PolicyOK, disk
<1>8. Occupied'
  BY <1>1, <1>2, <1>5, DiskSame DEF Occupied, FullNow, disk
<1>9. Atrest' /\ plan' \in Seq(Steps)
  BY <1>1 DEF Atrest
<1> QED BY <1>1, <1>2, <1>6, <1>7, <1>8, <1>9, DiskStep DEF Types

LEMMA StepOpenSession ==
  ASSUME IBody, OpenSession PROVE IBody' /\ Allowed(found, found')
<1> DEFINE T == Tail(plan)
           i == plan[1].id
           k == plan[1].key
           n == [id |-> i, key |-> k, gen |-> ram.ledger.gens[i], epoch |-> ram.ledger.epoch]
<1>1. /\ plan # <<>> /\ plan[1].do = "session" /\ plan' = T /\ sessions' = sessions \cup {n}
      /\ UNCHANGED <<disk, ram, goal, promised, gap, hits>>
  BY DEF OpenSession, Now, Next1, ghost
<1>2. Types /\ Universal /\ Phase /\ TypeDisk
  BY <1>1, InPhase DEF Types
<1>3. Settle(plan)
  BY <1>1, <1>2, PhaseHead
<1>4. RamIs /\ Needs(plan, Current, found, goal, sessions, gap) /\ Swept(plan, ledger, Slot)
      /\ (Has(plan, "rotate") => ledger.live) /\ ram.state # "off"
  BY <1>1, <1>2, <1>3, Awake DEF Settle, RamFor, Ready, RamIs
<1>5. T \in Seq(Steps) /\ plan[1] \in Steps /\ \A v : Has(plan, v) <=> "session" = v \/ Has(T, v)
  BY <1>1, <1>2, TailHas
<1>6. Needs(T, Current, found, goal, sessions \cup {n}, gap) /\ T # <<>> /\ ~Has(plan, "mounted")
  <2>1. ~Has(plan, "mounted")
    BY <1>4, <1>5 DEF Needs
  <2>2. Needs(T, Current, found, goal, sessions, gap) /\ T # <<>>
    BY <1>1, <1>4, NeedsTail
  <2> QED BY <1>5, <2>1, <2>2 DEF Needs
<1>7. i \in Identity /\ k \in Pin /\ found[i] = k
  <2>1. i \in Identity /\ k \in Pin
    BY <1>1, <1>5 DEF Steps, Programs, ResealSteps
  <2>2. 1 \in DOMAIN plan
    BY <1>1, <1>2, TailIs DEF Types
  <2> QED BY <1>1, <1>4, <2>1, <2>2 DEF Needs
<1>8. ledger.gens[i] \in Nat /\ ledger.gens[i] # 0 /\ Owned(Current, ledger.gens)
      /\ SessOK(sessions, ledger, found) /\ found = FoundOf(Current, ledger.gens)
      /\ Current[First] # Blank
  <2>1. /\ Owned(Current, ledger.gens) /\ SessOK(sessions, ledger, found)
        /\ found = FoundOf(Current, ledger.gens) /\ found[i] = PinIn(Current, i)
    BY <1>2, <1>7, Facts
  <2>2. Current[i] # Blank /\ ledger.gens[i] # 0
    BY <1>7, <2>1, PinIs, KeysDiffer
  <2>3. Current[First] # Blank
    BY <1>7, <2>1, <2>2, SlotType, FirstIs DEF Where
  <2> QED BY <1>2, <1>7, <2>1, <2>2, <2>3, LedgerType
<1>9. n \in Session /\ n.epoch = ledger.epoch /\ n.gen = ledger.gens[i] /\ n.id = i /\ n.key = k
      /\ ledger.epoch \in Nat
  BY <1>2, <1>4, <1>7, <1>8, LedgerType DEF Session, RamIs
<1> HIDE DEF n, i, k, T
<1>10. SessOK(sessions', ledger, found)
  <2> SUFFICES ASSUME NEW s \in sessions \cup {n}
               PROVE  /\ s.epoch <= ledger.epoch
                      /\ s.gen = 0 \/ \E j \in Identity : s.gen <= ledger.gens[j]
                      /\ IsCurrent(s, ledger) => s.gen # 0 /\ found[s.id] = s.key
    BY <1>1 DEF SessOK
  <2>1. CASE s \in sessions
    BY <1>8, <2>1 DEF SessOK
  <2>2. CASE s = n
    BY <1>7, <1>8, <1>9, <2>2
  <2> QED BY <2>1, <2>2
<1>11. ram.state = "formatted"
  <2>1. found[First] # NoPin
    BY <1>2, <1>8, Facts
  <2> QED BY <1>4, <2>1 DEF RamIs, StateIs
<1>12. Right'
  <2>1. Current' = Current /\ ledger' = ledger /\ ram' = ram /\ promised' = promised
    BY <1>1, DiskSame DEF disk
  <2>2. BlankOK(ram.state, sessions', Current, ledger)
    BY <1>11 DEF BlankOK
  <2>3. \A x \in Where : FoundOf(Current, ledger.gens)[x] \in promised[x]
    BY <1>2, <1>8, Facts
  <2> QED BY <1>8, <1>10, <2>1, <2>2, <2>3 DEF Right, Sound
<1>13. Settle(plan)'
  <2>1. RamIs'
    BY <1>1, <1>4, DiskSame DEF RamIs, StateIs, PolicyOK, disk
  <2>2. Swept(T, ledger, Slot)
    BY <1>4, <1>5 DEF Swept
  <2> QED BY <1>1, <1>4, <1>5, <1>6, <2>1, <2>2, SettleNext
<1>14. Unread' /\ Mounting' /\ Known'
  BY <1>1, <1>2, <1>4, <1>5, <1>6 DEF Universal, Unread, Mounting, Known, PolicyOK, disk
<1>15. Occupied'
  BY <1>1, <1>2, <1>5, DiskSame DEF Universal, Occupied, FullNow, disk
<1>16. sessions' \in SUBSET Session
  BY <1>1, <1>2, <1>9 DEF Types
<1> QED BY <1>1, <1>2, <1>5, <1>6, <1>12, <1>13, <1>14, <1>15, <1>16, DiskStep DEF Types, Phase

LEMMA StepDone ==
  ASSUME IBody, Done PROVE IBody' /\ Allowed(found, found')
<1>1. /\ plan # <<>> /\ plan[1].do \in {"done", "mounted"} /\ plan' = <<>> /\ result' = "ok"
      /\ promised' = [x \in DOMAIN promised |->
                        {IF plan[1].do = "done" THEN goal[x] ELSE found[x]}]
      /\ UNCHANGED <<disk, ram, sessions, gap, hits>>
  BY DEF Done, Now
<1>2. Types /\ Universal /\ Phase /\ TypeDisk
  BY <1>1, InPhase DEF Types
<1>3. Settle(plan)
  BY <1>1, <1>2, PhaseHead
<1>4. RamIs /\ Needs(plan, Current, found, goal, sessions, gap) /\ Swept(plan, ledger, Slot)
      /\ ram.state # "off"
  BY <1>1, <1>2, <1>3, Awake DEF Settle, RamFor, Ready, RamIs
<1>5. DOMAIN plan = {1}
  <2>1. Len(plan) \in Nat \ {0} /\ DOMAIN plan = 1 .. Len(plan)
    BY <1>1, <1>2, TailIs DEF Types
  <2>2. 1 = Len(plan)
    BY <1>1, <1>4, <2>1 DEF Needs
  <2> QED BY <2>1, <2>2
<1>6. ~Has(plan, "fill") /\ ~Has(plan, "cleanup") /\ (plan[1].do = "done" => Has(plan, "done"))
  BY <1>1, <1>5 DEF Has
<1>7. \A x \in Slot : Clean(x)
  BY <1>4, <1>6 DEF Swept, Clean
<1>8. promised' = [x \in Where |-> {found[x]}]
  <2>1. DOMAIN promised = Where
    BY <1>2 DEF Types
  <2>2. plan[1].do = "done" => goal = found
    BY <1>4, <1>6 DEF Needs
  <2> QED BY <1>1, <2>1, <2>2
<1>9. Right'
  <2>1. Current' = Current /\ ledger' = ledger /\ ram' = ram /\ sessions' = sessions
    BY <1>1, DiskSame DEF disk
  <2>2. /\ Owned(Current, ledger.gens) /\ SessOK(sessions, ledger, found)
        /\ found = FoundOf(Current, ledger.gens) /\ BlankOK(ram.state, sessions, Current, ledger)
    BY <1>2, Facts
  <2>3. \A x \in Where : found[x] \in promised'[x]
    BY <1>8
  <2> QED BY <2>1, <2>2, <2>3 DEF Right, Sound
<1>10. Unread' /\ Mounting' /\ Known'
  BY <1>1, <1>2, <1>4, HasNone DEF Universal, Unread, Mounting, Known, PolicyOK, disk
<1>11. Occupied'
  BY <1>1, <1>2, <1>6, DiskSame DEF Universal, Occupied, FullNow, disk
<1>12. Atrest'
  BY <1>1, <1>4, <1>7, DiskSame DEF Atrest, RamIs, StateIs, PolicyOK, disk, Clean, CleanOf
<1>13. promised' = [x \in Where |-> promised'[x]] /\ plan' \in Seq(Steps)
  BY <1>1, <1>8
<1> QED BY <1>1, <1>2, <1>9, <1>10, <1>11, <1>12, <1>13, DiskStep DEF Types

-----------------------------------------------------------------------------
(***************************************************************************)
(* C3 of a PIN change, record by record.                                   *)
(***************************************************************************)
\* What the table of RAM leads to in a slot that is in order.
LEMMA AtInSlot ==
  ASSUME TypeDisk, NEW x \in Slot, InSlot(x) PROVE At(ram.table, x) = Current[x]
<1>1. ram.table[x] = WinAt(x)
  BY DEF InSlot
<1>2. /\ WinAt(x) \in Side \cup {"none"}
      /\ WinAt(x) \in Side => Current[x] = flash[x][WinAt(x)]
      /\ WinAt(x) = "none" <=> Current[x] = Blank
  BY CurrentType
<1> QED BY <1>1, <1>2 DEF At, Side

\* What the loop of C3 takes for old is in order yet, and old.
LEMMA OldIs ==
  ASSUME Types, NEW st, ResealFacts(st), NEW u \in ToReseal(st)
  PROVE  /\ u \in User /\ u \in Slot /\ InSlot(u) /\ IsOld(Current[u], st)
         /\ At(ram.table, u) = Current[u] /\ Current[u] \in Record
         /\ Opens(ram.table, u, Filler) <=> Current[u].key = Filler
<1>1. /\ u \in User /\ At(ram.table, u).kind = "record" /\ At(ram.table, u).gen = st.old
      /\ \/ Opens(ram.table, u, Filler) /\ st.id = First
         \/ Opens(ram.table, u, st.from)
  BY DEF ToReseal
<1>2. u \in Slot /\ TypeDisk
  BY <1>1, SlotType DEF Types
<1>3. ~Moved(u, st)
  <2> SUFFICES ASSUME Moved(u, st) PROVE FALSE
    OBVIOUS
  <2>1. ram.table[u] = Other(WinAt(u)) /\ ram.table[u] = last[u] /\ last[u] \in Side
    BY <1>2 DEF Moved, TypeDisk, Lasts
  <2>2. At(ram.table, u) = Resealed1(Current[u], st)
    BY <2>1 DEF At, Side, Moved
  <2>3. Resealed1(Current[u], st).gen = st.gen
    BY DEF Resealed1, Rec
  <2>4. st.old < st.gen /\ st.old \in Nat /\ st.gen \in Nat
    BY <1>2, LedgerType DEF ResealFacts, Fresh, ResealSteps
  <2> QED BY <1>1, <2>2, <2>3, <2>4
<1>4. InSlot(u)
  BY <1>2, <1>3 DEF ResealFacts
<1>5. At(ram.table, u) = Current[u]
  BY <1>2, <1>4, AtInSlot
<1>6. Current[u] \in Record /\ Current[u] # Blank
  <2>1. Current[u] \in Record \cup {Blank} /\ Current[u].kind = "record"
    BY <1>1, <1>2, <1>5, CurrentType
  <2> QED BY <2>1 DEF Blank
<1>7. \A k : Opens(ram.table, u, k) <=> Current[u].key = k
  BY <1>1, <1>5 DEF Opens
<1> QED BY <1>1, <1>2, <1>4, <1>5, <1>6, <1>7 DEF IsOld

LEMMA StepResealOne ==
  ASSUME IBody, ResealOne PROVE IBody' /\ Allowed(found, found')
<1> DEFINE st == plan[1]
           u == CHOOSE x \in ToReseal(st) : TRUE
           c == Current[u]
           k == IF c.key = Filler THEN Filler ELSE st.key
           b == IF c.key = Filler THEN Nothing ELSE c.body
           a == LaterStep(u, k, st.gen, b)
<1>1. /\ plan # <<>> /\ plan[1].do = "reseal" /\ ToReseal(st) # {} /\ Frame /\ hits' = hits
      /\ plan' = (IF Opens(ram.table, u, Filler)
                  THEN SealLater(u, Filler, st.gen, Nothing)
                  ELSE SealLater(u, st.key, st.gen, At(ram.table, u).body)) \o plan
  BY DEF ResealOne, Now, Frame, disk, ghost
<1>2. Types /\ Universal /\ Phase /\ TypeDisk
  BY <1>1, InPhase DEF Types
<1>3. Resealing(plan)
  BY <1>1, <1>2, PhaseHead
<1>4. Len(plan) = 9 /\ ResealFacts(st) /\ st \in ResealSteps /\ ram.ledger = ledger
      /\ ram.state = "formatted" /\ FullNow
  BY <1>3 DEF Resealing, ResealFacts, Live
<1>5. /\ u \in User /\ u \in Slot /\ InSlot(u) /\ IsOld(c, st)
      /\ At(ram.table, u) = c /\ c \in Record
      /\ Opens(ram.table, u, Filler) <=> c.key = Filler
  <2>1. u \in ToReseal(st)
    BY <1>1
  <2> QED BY <1>2, <1>4, <2>1, OldIs
<1>6. k \in Key /\ b \in Body /\ st.gen \in Nat
  BY <1>4, <1>5 DEF ResealSteps, Key, Body, Record
<1> HIDE DEF u
<1>7. StepIs(a, u, k, st.gen, b) /\ a.later
  BY <1>5, <1>6, LaterStepIs
<1>8. plan' = <<a>> \o plan
  <2>1. CASE c.key = Filler
    <3>1. k = Filler /\ b = Nothing /\ plan' = SealLater(u, Filler, st.gen, Nothing) \o plan
      BY <1>1, <1>5, <2>1
    <3>2. a = LaterStep(u, Filler, st.gen, Nothing)
      BY <3>1
    <3> HIDE DEF a, k, b
    <3> QED BY <3>1, <3>2, SealIs
  <2>2. CASE c.key # Filler
    <3>1. k = st.key /\ b = c.body /\ plan' = SealLater(u, st.key, st.gen, c.body) \o plan
      BY <1>1, <1>5, <2>2
    <3>2. a = LaterStep(u, st.key, st.gen, c.body)
      BY <3>1
    <3> HIDE DEF a, k, b, c
    <3> QED BY <3>1, <3>2, SealIs
  <2> QED BY <2>1, <2>2
<1>9. Sealed(a) = Resealed1(c, st)
  BY <1>4, <1>7 DEF Sealed, Resealed1, StepIs
<1> HIDE DEF a, c
<1>10. /\ <<a>> \o plan \in Seq(Steps) /\ Len(<<a>> \o plan) = 10
       /\ (<<a>> \o plan)[1] = a /\ Tail(<<a>> \o plan) = plan /\ <<a>> \o plan # <<>>
  <2>1. a \in Steps /\ plan \in Seq(Steps)
    BY <1>2, <1>7 DEF Types, StepIs
  <2>2. /\ <<a>> \o plan \in Seq(Steps) /\ Len(<<a>> \o plan) = Len(plan) + 1
        /\ (<<a>> \o plan)[1] = a /\ Tail(<<a>> \o plan) = plan /\ <<a>> \o plan # <<>>
    BY <2>1, Cons
  <2> QED BY <1>4, <2>2
<1>11. ResealingOne(<<a>> \o plan)
  <2> DEFINE R == <<a>> \o plan
  <2>1. Len(R) = 10 /\ R[1] = a /\ Tail(R) = plan /\ R[2] = st
    <3>1. Tail(R)[1] = R[2]
      BY <1>10, TailIs
    <3> QED BY <1>10, <3>1
  <2> HIDE DEF R
  <2>2. ResealingOne(R)
    BY <1>3, <1>5, <1>7, <1>9, <2>1 DEF ResealingOne, StepIs, c
  <2> QED BY <2>2 DEF R
<1>12. Phase'
  <2>1. Ahead1(<<a>> \o plan)
    BY <1>11 DEF Ahead1
  <2>2. Ahead1(plan)'
    BY <1>1, <1>8, <2>1, AheadFrame
  <2> QED BY <2>2 DEF Phase
<1>13. \A v : Has(<<a>> \o plan, v) <=> a.do = v \/ Has(plan, v)
  BY <1>2, <1>7, HasCons DEF Types, StepIs
<1>14. a.do = "program"
  BY <1>7 DEF StepIs
<1> QED BY <1>1, <1>2, <1>4, <1>8, <1>10, <1>12, <1>13, <1>14, FrameStep

-----------------------------------------------------------------------------
(***************************************************************************)
(* A new generation.                                                       *)
(***************************************************************************)
LEMMA GenLedger ==
  ASSUME TypeDisk, NEW st \in [do : {"gen"}, id : Identity, gen : Nat]
  PROVE  LET l == WithGen(ledger, st)
         IN /\ l \in Ledgers /\ l.epoch = ledger.epoch /\ l.live = ledger.live
            /\ l.gens = [ledger.gens EXCEPT ![st.id] = st.gen]
            /\ l.used = ledger.used + 1 /\ l.policy = ledger.policy
            /\ l.gens[st.id] = st.gen
            /\ \A j \in Identity \ {st.id} : l.gens[j] = ledger.gens[j]
<1>1. ledger \in Ledgers /\ st.id \in Identity /\ st.gen \in Nat
  BY DEF TypeDisk
<1>2. ledger.gens \in [Identity -> Nat] /\ ledger.used \in Nat
  BY <1>1 DEF Ledgers
<1> DEFINE g == [ledger.gens EXCEPT ![st.id] = st.gen]
           l == WithGen(ledger, st)
<1>3. /\ g \in [Identity -> Nat] /\ g[st.id] = st.gen
      /\ \A j \in Identity \ {st.id} : g[j] = ledger.gens[j]
  BY <1>1, <1>2
<1>4. l = [[ledger EXCEPT !.gens = g] EXCEPT !.used = ledger.used + 1]
  BY DEF WithGen
<1> HIDE DEF g, l
<1>5. ledger.used + 1 \in Nat
  BY <1>2
<1>6. /\ l \in Ledgers /\ l.epoch = ledger.epoch /\ l.live = ledger.live /\ l.gens = g
      /\ l.used = ledger.used + 1 /\ l.policy = ledger.policy
  BY <1>1, <1>3, <1>4, <1>5 DEF Ledgers
<1> QED BY <1>3, <1>6 DEF g, l

\* It unseats, in the slots that are in order, what the one before it has sealed.
LEMMA RecountGen ==
  ASSUME TypeDisk, Owned(Current, ledger.gens),
         NEW st \in [do : {"gen"}, id : Identity, gen : Nat], Fresh(st.gen),
         NEW x \in Slot, Clean(x)
  PROVE  CurrentOf(WithGen(ledger, st))[x] =
           IF x # Super /\ Current[x] # Blank /\ Current[x].gen = ledger.gens[st.id]
           THEN Blank ELSE Current[x]
<1> DEFINE l == WithGen(ledger, st)
           c == Top(ledger, x, flash[x], last[x])
<1>1. /\ l.epoch = ledger.epoch /\ l.gens[st.id] = st.gen
      /\ \A j \in Identity \ {st.id} : l.gens[j] = ledger.gens[j]
  BY GenLedger
<1>2. flash[x] \in Pairs /\ last[x] \in Side /\ CleanPair(ledger, x, flash[x], last[x])
  BY PairType DEF TypeDisk, Clean, CleanOf
<1> HIDE DEF l
<1>3. Top(l, x, flash[x], last[x]) = IF Fit(l, x, c) THEN c ELSE Blank
  BY <1>2, Recount
<1>4. Current[x] = c /\ CurrentOf(l)[x] = Top(l, x, flash[x], last[x])
  BY DEF Current, CurrentOf, CurOf
<1> HIDE DEF c
<1>5. c # Blank => Fit(ledger, x, c) /\ c \in Record
  BY <1>4, CurrentType
<1>6. ASSUME c # Blank, x # Super
      PROVE  Fit(l, x, c) <=> c.gen # ledger.gens[st.id]
  <2>1. c.epoch = ledger.epoch /\ c.kind = "record" /\ c.gen \in Nat /\ c.gen # 0
        /\ \E i \in Identity : ledger.gens[i] = c.gen
    BY <1>5, <1>6 DEF Fit, IsCandidate, Record
  <2>2. Fit(l, x, c) <=> \E i \in Identity : l.gens[i] = c.gen
    BY <1>1, <1>6, <2>1 DEF Fit, IsCandidate
  <2>3. c.gen # st.gen
    BY <2>1, LedgerType DEF Fresh
  <2>4. \A i \in Identity : ledger.gens[i] = ledger.gens[st.id] /\ ledger.gens[i] # 0 => i = st.id
    BY DEF Owned, Uniq
  <2> QED BY <1>1, <2>1, <2>2, <2>3, <2>4
<1>7. c # Blank /\ x = Super => Fit(l, x, c)
  BY <1>1, <1>5 DEF Fit, IsCandidate
<1> QED BY <1>3, <1>4, <1>6, <1>7 DEF l

\* Where filler is to be written none need be there.
LEMMA NeedsGap ==
  ASSUME NEW K, NEW e, NEW f, NEW w, NEW S, NEW gp, NEW gp2, Needs(K, e, f, w, S, gp), Has(K, "fill")
  PROVE  Needs(K, e, f, w, S, gp2)
BY DEF Needs

SessionStep(i, k) == [do |-> "session", id |-> i, key |-> k]
ProveStep(i, k) == [do |-> "prove", id |-> i, key |-> k]
GenStep(i, g) == [do |-> "gen", id |-> i, gen |-> g]

LEMMA SessionStepIs ==
  ASSUME NEW i \in Identity, NEW k \in Pin, NEW g \in Nat
  PROVE  /\ SessionStep(i, k) \in Steps /\ SessionStep(i, k).do = "session"
         /\ SessionStep(i, k).id = i /\ SessionStep(i, k).key = k
         /\ ProveStep(i, k) \in Steps /\ ProveStep(i, k).do = "prove"
         /\ GenStep(i, g) \in Steps /\ GenStep(i, g).do = "gen"
         /\ GenStep(i, g) \in [do : {"gen"}, id : Identity, gen : Nat]
         /\ GenStep(i, g).id = i /\ GenStep(i, g).gen = g
BY DEF SessionStep, ProveStep, GenStep, Steps

\* A sequence, as its first step in front of the others.
LEMMA Uncons ==
  ASSUME NEW S, NEW R \in Seq(S), R # <<>>, NEW a, NEW T, R[1] = a, Tail(R) = T
  PROVE  <<a>> \o T = R
<1>1. /\ Len(R) \in Nat \ {0} /\ R[1] \in S /\ Tail(R) \in Seq(S) /\ Len(Tail(R)) = Len(R) - 1
      /\ \A n \in 1 .. (Len(R) - 1) : Tail(R)[n] = R[n + 1]
  BY TailIs
<1>2. <<a>> \in Seq(S) /\ Len(<<a>>) = 1 /\ <<a>>[1] = a
  BY <1>1
<1>3. /\ <<a>> \o T \in Seq(S) /\ Len(<<a>> \o T) = Len(R)
      /\ (<<a>> \o T)[1] = a /\ \A n \in 1 .. (Len(R) - 1) : (<<a>> \o T)[n + 1] = T[n]
  <2>1. <<a>> \o T \in Seq(S) /\ Len(<<a>> \o T) = 1 + Len(T)
    BY <1>1, <1>2, ConcatProperties
  <2>2. \A i \in 1 .. (1 + Len(T)) : (<<a>> \o T)[i] = IF i <= 1 THEN <<a>>[i] ELSE T[i - 1]
    BY <1>1, <1>2, ConcatProperties
  <2>3. (<<a>> \o T)[1] = a
    BY <1>1, <1>2, <2>2
  <2>4. ASSUME NEW n \in 1 .. (Len(R) - 1) PROVE (<<a>> \o T)[n + 1] = T[n]
    <3>1. n + 1 \in 1 .. (1 + Len(T)) /\ ~(n + 1 <= 1) /\ n + 1 - 1 = n
      BY <1>1
    <3> QED BY <2>2, <3>1
  <2> DEFINE Q == <<a>> \o T
  <2>5. Q \in Seq(S) /\ Len(Q) = Len(R)
    <3>1. Q \in Seq(S) /\ Len(Q) = 1 + Len(T) /\ Len(T) = Len(R) - 1
      BY <1>1, <2>1
    <3> HIDE DEF Q
    <3> QED BY <1>1, <3>1
  <2> QED BY <2>3, <2>4, <2>5
<1>4. ASSUME NEW i \in 1 .. Len(R) PROVE (<<a>> \o T)[i] = R[i]
  <2>1. CASE i = 1
    BY <1>3, <2>1
  <2>2. CASE i # 1
    <3>1. i - 1 \in 1 .. (Len(R) - 1) /\ (i - 1) + 1 = i
      BY <1>1, <2>2
    <3> QED BY <1>1, <1>3, <3>1
  <2> QED BY <2>1, <2>2
<1> QED BY <1>3, <1>4, SeqEqual

\* The end of a call that opens a session.
LEMMA NeedsSession ==
  ASSUME NEW i \in Identity, NEW k \in Pin, NEW e, NEW f, NEW S, NEW gp, f[i] = k, FullIn(gp, e, f)
  PROVE  /\ Needs(<<SessionStep(i, k), Simple("done")>>, e, f, f, S, gp)
         /\ ~Has(<<SessionStep(i, k), Simple("done")>>, "mounted")
         /\ ~Has(<<SessionStep(i, k), Simple("done")>>, "due")
         /\ ~Has(<<SessionStep(i, k), Simple("done")>>, "fill")
<1> DEFINE a == SessionStep(i, k)
           d == Simple("done")
<1>1. a \in Steps /\ a.do = "session" /\ a.id = i /\ a.key = k /\ d \in Steps /\ d.do = "done"
  BY SessionStepIs, SimpleStep
<1>2. Needs(<<d>>, e, f, f, S, gp)
  BY NeedsEnd
<1> HIDE DEF a, d
<1>3. <<d>> \in Seq(Steps) /\ <<a>> \o <<d>> = <<a, d>>
  BY <1>1, Cat1
<1>4. \A v : Has(<<d>>, v) <=> v = "done"
  BY <1>1 DEF Has
<1>5. a.do \in SettleKinds \ {"done", "mounted", "due"}
  BY <1>1 DEF SettleKinds
<1>6. Needs(<<a>> \o <<d>>, e, f, f, S, gp)
  BY <1>1, <1>2, <1>3, <1>4, <1>5, NeedsCons
<1>7. \A v : Has(<<a>> \o <<d>>, v) <=> v = "session" \/ v = "done"
  BY <1>1, <1>3, <1>4, HasCons
<1> QED BY <1>3, <1>6, <1>7 DEF a, d

\* C6 and C7.
Tail6(i, k) ==
  <<Simple("refresh"), Simple("cleanup"), Simple("fill"), Simple("refresh"), SessionStep(i, k),
    Simple("done")>>

LEMMA NeedsTail6 ==
  ASSUME NEW i \in Identity, NEW k \in Pin, NEW e, NEW f, NEW S, NEW gp, f[i] = k, f[First] # NoPin
  PROVE  Needs(Tail6(i, k), e, f, f, S, gp) /\ Has(Tail6(i, k), "cleanup")
<1> DEFINE a == SessionStep(i, k)
           d == Simple("done")
           r == Simple("refresh")
           fi == Simple("fill")
           cl == Simple("cleanup")
           K == <<a, d>>
<1>1. /\ a \in Steps /\ d \in Steps /\ r \in Steps /\ fi \in Steps /\ cl \in Steps
      /\ r.do = "refresh" /\ fi.do = "fill" /\ cl.do = "cleanup"
  BY SessionStepIs, SimpleStep
<1>2. FullIn(TRUE, e, f)
  BY DEF FullIn
<1>3. Needs(K, e, f, f, S, TRUE) /\ ~Has(K, "due") /\ K \in Seq(Steps)
  <2>1. Needs(K, e, f, f, S, TRUE) /\ ~Has(K, "due")
    BY <1>2, NeedsSession
  <2> QED BY <2>1 DEF Needs
<1>4. Do("refresh") = <<r>> /\ Do("cleanup") = <<cl>>
  BY DoIs
<1> HIDE DEF K
<1>5. Needs(<<r>> \o K, e, f, f, S, TRUE) /\ <<r>> \o K \in Seq(Steps) /\ ~Has(<<r>> \o K, "due")
  <2>1. Needs(<<r>> \o K, e, f, f, S, TRUE)
    BY <1>3, <1>4, NeedsDo
  <2>2. <<r>> \o K \in Seq(Steps)
    BY <2>1 DEF Needs
  <2>3. ~Has(<<r>> \o K, "due")
    BY <1>1, <1>3, HasCons
  <2> QED BY <2>1, <2>2, <2>3
<1> DEFINE K1 == <<r>> \o K
           K2 == <<fi>> \o K1
<1> HIDE DEF K1, r, fi, cl
<1>6. fi.do \in SettleKinds \ {"done", "mounted", "due"}
  BY <1>1 DEF SettleKinds
<1>7. Needs(K2, e, f, f, S, TRUE) /\ Has(K2, "fill") /\ K2 \in Seq(Steps)
  <2>1. Needs(K2, e, f, f, S, TRUE)
    BY <1>1, <1>5, <1>6, NeedsCons DEF K1
  <2>2. Has(K2, "fill")
    BY <1>1, <1>5, HasCons DEF K1
  <2> QED BY <2>1, <2>2 DEF Needs
<1> HIDE DEF K2
<1>8. Needs(K2, e, f, f, S, gp)
  BY <1>7, NeedsGap
<1>9. Needs(<<cl>> \o K2, e, f, f, S, gp) /\ <<cl>> \o K2 \in Seq(Steps)
  <2>1. Needs(Do("cleanup") \o K2, e, f, f, S, gp)
    BY <1>7, <1>8, NeedsDo
  <2>2. Needs(<<cl>> \o K2, e, f, f, S, gp)
    BY <1>4, <2>1
  <2> QED BY <2>2 DEF Needs
<1>10. Needs(<<r>> \o (<<cl>> \o K2), e, f, f, S, gp)
  BY <1>4, <1>9, NeedsDo
<1>11. Has(<<r>> \o (<<cl>> \o K2), "cleanup")
  BY <1>1, <1>7, <1>9, HasCons
<1>12. <<r>> \o (<<cl>> \o K2) = <<r, cl, fi, r, a, d>>
  <2> DEFINE S0 == {a, d, r, fi, cl}
             R1 == <<r, a, d>>
             R2 == <<fi, r, a, d>>
             R3 == <<cl, fi, r, a, d>>
             R4 == <<r, cl, fi, r, a, d>>
  <2> HIDE DEF a, d
  <2>1. /\ R1 \in Seq(S0) /\ R1 # <<>> /\ R1[1] = r /\ Tail(R1) = K
        /\ R2 \in Seq(S0) /\ R2 # <<>> /\ R2[1] = fi /\ Tail(R2) = R1
        /\ R3 \in Seq(S0) /\ R3 # <<>> /\ R3[1] = cl /\ Tail(R3) = R2
        /\ R4 \in Seq(S0) /\ R4 # <<>> /\ R4[1] = r /\ Tail(R4) = R3
    BY DEF K
  <2> HIDE DEF S0, R1, R2, R3, R4
  <2>2. <<r>> \o K = R1
    BY <2>1, Uncons
  <2>3. <<fi>> \o R1 = R2
    BY <2>1, Uncons
  <2>4. <<cl>> \o R2 = R3
    BY <2>1, Uncons
  <2>5. <<r>> \o R3 = R4
    BY <2>1, Uncons
  <2> QED BY <2>2, <2>3, <2>4, <2>5 DEF K1, K2, R4
<1> QED BY <1>10, <1>11, <1>12 DEF Tail6, r, cl, fi

ResealPlanOK(st, b) ==
  LET R == Tail(ResealPlan(st, b))
  IN /\ ResealPlan(st, b) # <<>> /\ ResealPlan(st, b)[1] = st
     /\ R # <<>> /\ Len(R) = 8 /\ R[1] = LaterStep(st.id, st.key, st.gen, b)
     /\ Tail(R) # <<>> /\ Len(Tail(R)) = 7 /\ Tail(R)[1] = GenStep(st.id, st.gen)
     /\ Tail(Tail(R)) = Tail6(st.id, st.key)
     /\ Tail(R)[2] = Simple("refresh")
     /\ Has(Tail(R), "cleanup") /\ Has(Tail(R), "fill")

LEMMA ResealPlanIs ==
  ASSUME NEW st, NEW b PROVE ResealPlanOK(st, b)
<1> DEFINE p == LaterStep(st.id, st.key, st.gen, b)
           g == GenStep(st.id, st.gen)
           r == Simple("refresh")
           cl == Simple("cleanup")
           fi == Simple("fill")
           s == SessionStep(st.id, st.key)
           d == Simple("done")
           P == <<st, p, g, r, cl, fi, r, s, d>>
           R1 == <<p, g, r, cl, fi, r, s, d>>
           R2 == <<g, r, cl, fi, r, s, d>>
<1>1. ResealPlan(st, b) = P /\ Tail6(st.id, st.key) = <<r, cl, fi, r, s, d>>
  BY DEF ResealPlan, LaterStep, SealStep, GenStep, SessionStep, Tail6
<1>2. cl.do = "cleanup" /\ fi.do = "fill"
  BY DEF Simple
<1> HIDE DEF p, g, r, cl, fi, s, d
<1>3. /\ P # <<>> /\ P[1] = st /\ Tail(P) = R1
      /\ R1 # <<>> /\ Len(R1) = 8 /\ R1[1] = p /\ Tail(R1) = R2
      /\ R2 # <<>> /\ Len(R2) = 7 /\ R2[1] = g /\ R2[2] = r /\ Tail(R2) = <<r, cl, fi, r, s, d>>
  OBVIOUS
<1>4. Has(R2, "cleanup") /\ Has(R2, "fill")
  <2>1. DOMAIN R2 = 1 .. 7 /\ R2[3] = cl /\ R2[4] = fi
    OBVIOUS
  <2> QED BY <1>2, <2>1 DEF Has
<1> HIDE DEF P, R1, R2
<1> QED BY <1>1, <1>3, <1>4 DEF ResealPlanOK, p, g, r

\* What is elected once the new generation is in force.
LEMMA ResealCounts ==
  ASSUME TypeDisk, Owned(Current, ledger.gens), NEW st, ResealFacts(st), ToReseal(st) = {},
         found[st.id] = PinIn(Current, st.id)
  PROVE  LET h == CurrentOf(WithGen(ledger, GenStep(st.id, st.gen)))
         IN /\ h \in [Slot -> Record \cup {Blank}]
            /\ h[Super] = Current[Super]
            /\ \A j \in Identity \ {st.id} :
                 h[j] = IF Current[j] # Blank /\ Current[j].gen = ledger.gens[st.id] THEN Blank
                        ELSE Current[j]
            /\ \A u \in User :
                 IF Current[u] = Blank \/ Current[u].gen # ledger.gens[st.id]
                 THEN h[u] = Current[u]
                 ELSE /\ h[u] # Blank /\ h[u].gen = st.gen
                      /\ IF Current[u].key = Filler THEN h[u].key = Filler
                         ELSE h[u].key = st.key /\ h[u].body = Current[u].body
<1> DEFINE gs == GenStep(st.id, st.gen)
           l == WithGen(ledger, gs)
           h == CurrentOf(l)
<1>1. /\ gs \in [do : {"gen"}, id : Identity, gen : Nat] /\ gs.id = st.id /\ gs.gen = st.gen
      /\ st.id \in Identity /\ st.gen \in Nat /\ st.from \in Pin /\ st.key \in Pin
      /\ Fresh(st.gen) /\ ram.ledger = ledger /\ st.old = ledger.gens[st.id]
      /\ \A x \in Slot : InSlot(x) \/ Moved(x, st)
  <2>1. st \in ResealSteps
    BY DEF ResealFacts
  <2>2. st.id \in Identity /\ st.gen \in Nat /\ st.from \in Pin /\ st.key \in Pin
    BY <2>1 DEF ResealSteps
  <2> QED BY <2>2, SessionStepIs DEF ResealFacts, Live
<1>2. l.epoch = ledger.epoch /\ l.gens[st.id] = st.gen
  BY <1>1, GenLedger
<1> HIDE DEF gs
<1>3. ASSUME NEW x \in Slot, InSlot(x)
      PROVE  h[x] = IF x # Super /\ Current[x] # Blank /\ Current[x].gen = ledger.gens[st.id]
                    THEN Blank ELSE Current[x]
  <2>1. Clean(x)
    BY <1>3 DEF InSlot
  <2> QED BY <1>1, <2>1, RecountGen
<1>4. h \in [Slot -> Record \cup {Blank}]
  BY CurType DEF TypeDisk, CurrentOf
<1>5. \A x \in Slot \ User : InSlot(x)
  BY <1>1 DEF Moved
<1>6. /\ Super \in Slot \ User /\ \A j \in Identity : j \in Slot \ User /\ j # Super
      /\ \A u \in User : u \in Slot /\ u # Super
  BY NamesAssumption, SlotType
<1>7. ASSUME NEW u \in User, InSlot(u) PROVE Current[u] = Blank \/ Current[u].gen # ledger.gens[st.id]
  <2> SUFFICES ASSUME Current[u] # Blank, Current[u].gen = ledger.gens[st.id] PROVE FALSE
    OBVIOUS
  <2>1. At(ram.table, u) = Current[u] /\ Current[u] \in Record
    BY <1>6, <1>7, AtInSlot, CurrentType
  <2>2. Current[u].kind = "record"
    BY <2>1 DEF Record
  <2>3. ~(Current[u].key = Filler /\ st.id = First) /\ Current[u].key # st.from
    BY <1>1, <2>1, <2>2 DEF ToReseal, Opens
  <2>4. \A i \in Identity : ledger.gens[i] = ledger.gens[st.id] /\ ledger.gens[i] # 0 => i = st.id
    BY <1>1 DEF Owned, Uniq
  <2>5. Current[u].gen # 0
    BY DEF Owned
  <2>6. First \in Identity
    BY VaultAssumption
  <2>7. CASE IsFiller(Current[u], ledger.gens)
    <3>1. First = st.id
      BY <2>4, <2>5, <2>6, <2>7 DEF IsFiller
    <3> QED BY <2>3, <2>7, <3>1 DEF IsFiller
  <2>8. CASE ~IsFiller(Current[u], ledger.gens)
    <3>1. PICK i \in Identity : /\ Current[u].gen = ledger.gens[i]
                                /\ Current[i] # Blank /\ Current[i].key = Current[u].key
                                /\ Current[u].key \in Pin
      BY <2>8 DEF Owned
    <3>2. i = st.id
      BY <2>4, <2>5, <3>1
    <3>3. PinIn(Current, i) = Current[u].key
      BY <3>1, PinIs
    <3> QED BY <1>1, <2>3, <3>2, <3>3 DEF ResealFacts
  <2> QED BY <2>7, <2>8
<1>8. ASSUME NEW u \in User, Moved(u, st)
      PROVE  h[u] = Resealed1(Current[u], st) /\ Current[u] # Blank /\ Current[u].gen = ledger.gens[st.id]
  <2>1. /\ IsOld(Current[u], st) /\ ram.table[u] = last[u] /\ last[u] \in Side
        /\ flash[u][last[u]] = Resealed1(Current[u], st)
    BY <1>6, <1>8 DEF Moved, TypeDisk, Lasts
  <2>2. Resealed1(Current[u], st).epoch = ledger.epoch /\ Resealed1(Current[u], st).gen = st.gen
        /\ Resealed1(Current[u], st).kind = "record"
    BY DEF Resealed1, Rec
  <2>3. st.gen # 0
    BY <1>1, LedgerType DEF Fresh
  <2>4. Fit(l, u, flash[u][last[u]])
    BY <1>1, <1>2, <2>1, <2>2, <2>3 DEF Fit, IsCandidate
  <2>5. Top(l, u, flash[u], last[u]) = flash[u][last[u]]
    BY <2>1, <2>4, Crown
  <2>6. h[u] = Top(l, u, flash[u], last[u])
    BY <1>6 DEF CurrentOf, CurOf
  <2> QED BY <1>1, <2>1, <2>5, <2>6 DEF IsOld
<1>9. ASSUME NEW u \in User
      PROVE  IF Current[u] = Blank \/ Current[u].gen # ledger.gens[st.id]
             THEN h[u] = Current[u]
             ELSE /\ h[u] # Blank /\ h[u].gen = st.gen
                  /\ IF Current[u].key = Filler THEN h[u].key = Filler
                     ELSE h[u].key = st.key /\ h[u].body = Current[u].body
  <2>1. CASE InSlot(u)
    BY <1>3, <1>6, <1>7, <2>1
  <2>2. CASE Moved(u, st)
    <3>1. /\ h[u] = Resealed1(Current[u], st) /\ Current[u] # Blank
          /\ Current[u].gen = ledger.gens[st.id]
      BY <1>8, <2>2
    <3>2. /\ Resealed1(Current[u], st) # Blank /\ Resealed1(Current[u], st).gen = st.gen
          /\ IF Current[u].key = Filler THEN Resealed1(Current[u], st).key = Filler
             ELSE /\ Resealed1(Current[u], st).key = st.key
                  /\ Resealed1(Current[u], st).body = Current[u].body
      BY DEF Resealed1, Rec, Blank
    <3> QED BY <3>1, <3>2
  <2> QED BY <1>1, <1>6, <2>1, <2>2
<1> HIDE DEF h
<1>10. h[Super] = Current[Super]
       /\ \A j \in Identity \ {st.id} :
            h[j] = IF Current[j] # Blank /\ Current[j].gen = ledger.gens[st.id] THEN Blank
                   ELSE Current[j]
  BY <1>3, <1>5, <1>6
<1> QED BY <1>4, <1>9, <1>10 DEF h, l, gs

LEMMA CommitAfterIs ==
  ASSUME NEW R, NEW g, NEW T, NEW st, Len(R) >= 2, R[1] = g, Tail(R) = T, R[2].do = "refresh",
         Gen(g), Live, Room, st \in Programs, st.slot = g.id, st.gen = g.gen,
         NEW l, l = WithGen(ledger, g), NEW e, e = Put(CurrentOf(l), g.id, Sealed(st)),
         Ahead(e, l), Ready(T, e, FoundOf(e, l.gens)), Swept(T, l, Slot \ {g.id})
  PROVE  CommitAfter(st, R)
BY DEF CommitAfter

GenOK(S, l, f, h, i, n, m) ==
  /\ S \subseteq Session /\ l \in Ledgers /\ SessOK(S, l, f)
  /\ i \in Identity /\ n \in Nat /\ \A j \in Identity : l.gens[j] < n
  /\ m.epoch = l.epoch /\ m.gens = [l.gens EXCEPT ![i] = n]
  /\ \A j \in Identity \ {i} : h[j] = f[j]

LEMMA SessNew ==
  ASSUME NEW S, NEW l, NEW f, NEW h, NEW i, NEW n, NEW m, GenOK(S, l, f, h, i, n, m)
  PROVE  SessOK(S, m, h)
BY SessGen DEF GenOK

LEMMA StepResealed ==
  ASSUME IBody, Resealed PROVE IBody' /\ Allowed(found, found')
<1> DEFINE st == plan[1]
           b == plan[2].body
           c == LaterStep(st.id, st.key, st.gen, b)
           gs == GenStep(st.id, st.gen)
           l == WithGen(ledger, gs)
           h == CurrentOf(l)
           e == Put(h, st.id, Sealed(c))
           R == Tail(plan)
<1>1. /\ plan # <<>> /\ plan[1].do = "reseal" /\ ToReseal(st) = {} /\ Frame /\ hits' = hits
      /\ plan' = R
  BY DEF Resealed, Now, Next1, Frame, disk, ghost
<1>2. Types /\ Universal /\ Phase /\ TypeDisk
  BY <1>1, InPhase DEF Types
<1>3. Resealing(plan)
  BY <1>1, <1>2, PhaseHead
<1>4. /\ plan = ResealPlan(st, b) /\ b \in Policies /\ ResealFacts(st) /\ st \in ResealSteps
      /\ ram.ledger = ledger /\ Live /\ ledger.live /\ FullNow /\ ram.state = "formatted"
      /\ Fresh(st.gen)
  BY <1>3 DEF Resealing, ResealFacts, Live
<1>5. st.id \in Identity /\ st.key \in Pin /\ st.gen \in Nat /\ st.from \in Pin /\ st.id \in Slot
      /\ st.id \notin User /\ st.key \in Key /\ b \in Body /\ st.id \in Where
  BY <1>4, SlotType, NamesAssumption DEF ResealSteps, Key, Body
<1>6. /\ R # <<>> /\ Len(R) = 8 /\ R[1] = c
      /\ Tail(R) # <<>> /\ Len(Tail(R)) = 7 /\ Tail(R)[1] = gs
      /\ Tail(Tail(R)) = Tail6(st.id, st.key) /\ Tail(R)[2] = Simple("refresh")
      /\ Has(Tail(R), "cleanup") /\ Has(Tail(R), "fill")
  <2>1. ResealPlanOK(st, b)
    BY ResealPlanIs
  <2>2. R = Tail(ResealPlan(st, b))
    BY <1>4
  <2> HIDE DEF R, c, gs
  <2> QED BY <2>1, <2>2 DEF ResealPlanOK, c, gs
<1>7. /\ Owned(Current, ledger.gens) /\ found = FoundOf(Current, ledger.gens)
      /\ found[st.id] = PinIn(Current, st.id) /\ SessOK(sessions, ledger, found)
      /\ found[First] # NoPin <=> Current[First] # Blank
      /\ found = [x \in Where |-> found[x]]
  BY <1>2, <1>5, Facts
<1>8. Current[st.id] # Blank /\ Current[st.id].key \in Pin /\ found[st.id] = st.from
  BY <1>4, <1>5, <1>7, PinIs, KeysDiffer DEF ResealFacts
<1>9. StepIs(c, st.id, st.key, st.gen, b) /\ c.later
  BY <1>5, LaterStepIs
<1>10. gs \in [do : {"gen"}, id : Identity, gen : Nat] /\ gs.id = st.id /\ gs.gen = st.gen
  BY <1>5, SessionStepIs
<1>11. /\ l.epoch = ledger.epoch /\ l.gens = [ledger.gens EXCEPT ![st.id] = st.gen]
       /\ l.gens[st.id] = st.gen
  BY <1>2, <1>10, GenLedger
<1> HIDE DEF c, gs
<1>12. /\ Sealed(c) \in Record /\ Sealed(c).key = st.key /\ Sealed(c).gen = st.gen
       /\ Sealed(c).body = b
  BY <1>2, <1>9, SealedIs DEF StepIs
<1>13. /\ h \in [Slot -> Record \cup {Blank}]
       /\ h[Super] = Current[Super]
       /\ \A j \in Identity \ {st.id} :
            h[j] = IF Current[j] # Blank /\ Current[j].gen = ledger.gens[st.id] THEN Blank
                   ELSE Current[j]
       /\ \A u \in User :
            IF Current[u] = Blank \/ Current[u].gen # ledger.gens[st.id]
            THEN h[u] = Current[u]
            ELSE /\ h[u] # Blank /\ h[u].gen = st.gen
                 /\ IF Current[u].key = Filler THEN h[u].key = Filler
                    ELSE h[u].key = st.key /\ h[u].body = Current[u].body
  BY <1>1, <1>2, <1>4, <1>7, ResealCounts DEF gs
<1> HIDE DEF h
<1>14. /\ e \in [Slot -> Record \cup {Blank}] /\ e[st.id] = Sealed(c)
       /\ \A x \in Slot \ {st.id} : e[x] = h[x]
  BY <1>5, <1>12, <1>13, PutRecord
<1> HIDE DEF e, l
<1>15. /\ Owned(e, l.gens) /\ FoundOf(e, l.gens) = Put(found, st.id, st.key)
  <2> DEFINE cu == Current
             g == ledger.gens
             i == st.id
             n == st.gen
             r == Sealed(c)
  <2>1. /\ Owned(cu, g) /\ i \in Identity /\ n \in Nat /\ (\A j \in Identity : g[j] < n)
        /\ cu[i] # Blank /\ cu[i].key \in Pin /\ r \in Record /\ r.gen = n /\ r.key \in Pin
        /\ r.body \in Policies /\ e[i] = r
    BY <1>4, <1>5, <1>7, <1>8, <1>12, <1>14 DEF Fresh
  <2>2. /\ e \in [Slot -> Record \cup {Blank}] /\ e[Super] = cu[Super]
        /\ \A j \in Identity \ {i} : e[j] = IF cu[j] # Blank /\ cu[j].gen = g[i] THEN Blank ELSE cu[j]
    BY <1>5, <1>13, <1>14, SlotType, NamesAssumption
  <2>3. \A u \in User :
          IF cu[u] = Blank \/ cu[u].gen # g[i] THEN e[u] = cu[u]
          ELSE /\ e[u] # Blank /\ e[u].gen = n
               /\ IF cu[u].key = Filler THEN e[u].key = Filler
                  ELSE e[u].key = r.key /\ e[u].body = cu[u].body
    BY <1>5, <1>12, <1>13, <1>14, SlotType
  <2>4. l.gens = [g EXCEPT ![i] = n] /\ r.key = st.key /\ FoundOf(cu, g) = found
    BY <1>7, <1>11, <1>12
  <2> HIDE DEF cu, g, i, n, r
  <2>5. Owned(e, [g EXCEPT ![i] = n]) /\ FoundOf(e, [g EXCEPT ![i] = n]) = Put(FoundOf(cu, g), i, r.key)
    BY <2>1, <2>2, <2>3, Rekey
  <2> QED BY <2>4, <2>5 DEF i
<1>16. goal = Put(found, st.id, st.key) /\ FoundOf(e, l.gens) = goal
       /\ \A x \in Where : goal[x] \in promised[x]
  BY <1>4, <1>15 DEF ResealFacts
<1>17. /\ goal[st.id] = st.key /\ \A x \in Where \ {st.id} : goal[x] = found[x]
  BY <1>5, <1>7, <1>16, PutIs
<1>18. Ahead(e, l)
  <2>1. SessOK(sessions, l, goal)
    <3> DEFINE i == st.id
               n == st.gen
    <3>1. /\ i \in Identity /\ n \in Nat /\ (\A j \in Identity : ledger.gens[j] < n)
          /\ l.epoch = ledger.epoch /\ l.gens = [ledger.gens EXCEPT ![i] = n]
          /\ SessOK(sessions, ledger, found) /\ ledger \in Ledgers /\ sessions \subseteq Session
      BY <1>2, <1>4, <1>5, <1>7, <1>11 DEF Fresh, Types, TypeDisk
    <3>2. \A j \in Identity \ {i} : goal[j] = found[j]
      BY <1>17, SlotType
    <3>3. GenOK(sessions, ledger, found, goal, i, n, l)
      BY <3>1, <3>2 DEF GenOK
    <3> QED BY <3>3, SessNew
  <2>2. BlankOK(ram.state, sessions, e, l)
    BY <1>4 DEF BlankOK
  <2>3. Allowed(found, goal)
    BY <1>4, <1>5, <1>8, <1>16, KeysDiffer DEF Allowed
  <2> QED BY <1>15, <1>16, <2>1, <2>2, <2>3 DEF Ahead, Sound
<1>19. goal[First] # NoPin
  <2>1. found[First] # NoPin /\ First \in Where
    BY <1>7, <1>8, <1>5, SlotType, FirstIs
  <2> QED BY <1>5, <1>17, <2>1, KeysDiffer
<1>20. Needs(Tail6(st.id, st.key), e, goal, goal, sessions, gap) /\ Has(Tail6(st.id, st.key), "cleanup")
  BY <1>5, <1>17, <1>19, NeedsTail6
<1>21. CommitAfter(c, Tail(R))
  <2>1. Gen(gs)
    BY <1>4, <1>10 DEF Gen
  <2>2. Simple("refresh").do = "refresh"
    BY DEF Simple
  <2>3. Ready(Tail6(st.id, st.key), e, FoundOf(e, l.gens)) /\ Swept(Tail6(st.id, st.key), l, Slot \ {st.id})
    BY <1>16, <1>20 DEF Ready, Swept
  <2>4. e = Put(CurrentOf(l), st.id, Sealed(c)) /\ l = WithGen(ledger, gs)
    BY DEF e, h, l
  <2>5. /\ c \in Programs /\ c.slot = gs.id /\ c.gen = gs.gen /\ Live /\ Room
        /\ e = Put(CurrentOf(l), gs.id, Sealed(c))
        /\ Swept(Tail6(st.id, st.key), l, Slot \ {gs.id})
    BY <1>4, <1>9, <1>10, <2>3, <2>4 DEF StepIs, Room
  <2>6. Len(Tail(R)) >= 2 /\ Tail(R)[2].do = "refresh"
    BY <1>6, <2>2
  <2> HIDE DEF R
  <2> QED BY <1>6, <1>18, <2>1, <2>3, <2>4, <2>5, <2>6, CommitAfterIs
<1>22. InSlot(st.id)
  BY <1>4, <1>5 DEF ResealFacts, Moved
<1>23. Canary(R)
  <2> HIDE DEF R
  <2> QED BY <1>6, <1>9, <1>21, <1>22 DEF Canary, StepIs
<1>24. Ahead1(plan)' /\ Phase'
  <2>1. Ahead1(R)
    BY <1>23 DEF Ahead1
  <2>2. Ahead1(plan)'
    BY <1>1, <2>1, AheadFrame
  <2> QED BY <2>2 DEF Phase
<1>25. R \in Seq(Steps) /\ (Has(R, "mounted") => Has(plan, "mounted"))
  BY <1>1, <1>2, TailHas
<1> QED BY <1>1, <1>2, <1>4, <1>6, <1>24, <1>25, FrameStep

-----------------------------------------------------------------------------
(***************************************************************************)
(* The wipe that is due.                                                   *)
(***************************************************************************)
WipeOK(K) ==
  LET P == WipeSteps \o K
      R == Tail(P)
  IN /\ P \in Seq(Steps) /\ P # <<>> /\ Len(P) = Len(K) + 3 /\ P[1] = Simple("rotate")
     /\ Len(R) = Len(K) + 2 /\ R[1].do = "epoch" /\ R[2].do = "erase" /\ R[3] = K[1]
     /\ Tail(Tail(R)) = K
     /\ \A v : Has(P, v) <=> v \in {"rotate", "epoch", "erase"} \/ Has(K, v)

LEMMA WipeIs ==
  ASSUME NEW K \in Seq(Steps), K # <<>> PROVE WipeOK(K)
<1> DEFINE A == Do("rotate")
           B == Do("epoch")
           C == Do("erase")
           K1 == C \o K
           K2 == B \o K1
           K3 == A \o K2
<1>1. A \in Seq(Steps) /\ B \in Seq(Steps) /\ C \in Seq(Steps)
  BY DoIs
<1>2. /\ K1 \in Seq(Steps) /\ K1 # <<>> /\ K1[1] = Simple("erase") /\ Tail(K1) = K
      /\ Len(K1) = Len(K) + 1 /\ \A v : Has(K1, v) <=> "erase" = v \/ Has(K, v)
  BY DoFirst
<1> HIDE DEF K1
<1>3. /\ K2 \in Seq(Steps) /\ K2 # <<>> /\ K2[1] = Simple("epoch") /\ Tail(K2) = K1
      /\ Len(K2) = Len(K1) + 1 /\ \A v : Has(K2, v) <=> "epoch" = v \/ Has(K1, v)
  BY <1>2, DoFirst
<1> HIDE DEF K2
<1>4. /\ K3 \in Seq(Steps) /\ K3 # <<>> /\ K3[1] = Simple("rotate") /\ Tail(K3) = K2
      /\ Len(K3) = Len(K2) + 1 /\ \A v : Has(K3, v) <=> "rotate" = v \/ Has(K2, v)
  BY <1>3, DoFirst
<1>5. WipeSteps \o K = K3
  <2>1. WipeSteps = (A \o B) \o C
    BY DEF WipeSteps
  <2> HIDE DEF A, B, C
  <2>2. ((A \o B) \o C) \o K = (A \o B) \o (C \o K)
    <3>1. A \o B \in Seq(Steps)
      BY <1>1
    <3> QED BY <1>1, <3>1, Assoc
  <2>3. (A \o B) \o (C \o K) = A \o (B \o (C \o K))
    <3> DEFINE D == C \o K
    <3>1. D \in Seq(Steps)
      BY <1>2 DEF K1
    <3> HIDE DEF D
    <3>2. (A \o B) \o D = A \o (B \o D)
      BY <1>1, <3>1, Assoc, ZenonT(60)
    <3> QED BY <3>2 DEF D
  <2> QED BY <2>1, <2>2, <2>3 DEF K3, K2, K1
<1> HIDE DEF K3
<1>6. Len(K) \in Nat \ {0} /\ K2[2] = K1[1] /\ K2[3] = K[1]
  <2>1. Len(K) \in Nat \ {0} /\ Len(K1) \in Nat \ {0}
    BY <1>2, TailIs
  <2>2. K2[2] = K1[1] /\ K2[3] = K1[2]
    <3>1. \A n \in 1 .. (Len(K2) - 1) : Tail(K2)[n] = K2[n + 1]
      BY <1>3, TailIs
    <3>2. Len(K2) >= 3
      BY <1>2, <1>3, <2>1
    <3> QED BY <1>3, <3>1, <3>2, SMTT(30)
  <2>3. K1[2] = K[1]
    <3>1. \A n \in 1 .. (Len(K1) - 1) : Tail(K1)[n] = K1[n + 1]
      BY <1>2, TailIs
    <3> QED BY <1>2, <2>1, <3>1
  <2> QED BY <2>1, <2>2, <2>3
<1>7. Simple("epoch").do = "epoch" /\ Simple("erase").do = "erase"
  BY DEF Simple
<1>8. Len(K3) = Len(K) + 3 /\ Len(K2) = Len(K) + 2
  BY <1>2, <1>3, <1>4, <1>6
<1>9. Tail(Tail(K2)) = K
  BY <1>2, <1>3
<1> QED BY <1>2, <1>3, <1>4, <1>5, <1>6, <1>7, <1>8, <1>9 DEF WipeOK

\* What is left of a mount is right for a store that holds nothing.
LEMMA NeedsWiped ==
  ASSUME NEW K, NEW e, NEW f, NEW w, NEW S, NEW gp, Needs(K, e, f, w, S, gp),
         Has(K, "mounted"), ~Has(K, "fill")
  PROVE  Needs(K, NoRecord, Nobody, w, S, gp)
<1>1. FullIn(gp, NoRecord, Nobody)
  BY VaultAssumption DEF FullIn, Nobody
<1>2. ~Has(K, "done")
  <2>1. PICK n \in DOMAIN K : K[n].do = "mounted"
    BY DEF Has
  <2>2. n = Len(K) /\ \A m \in DOMAIN K : K[m].do = "done" => m = Len(K)
    BY <2>1 DEF Needs
  <2> QED BY <2>1, <2>2 DEF Has
<1>3. ~Has(K, "session")
  BY DEF Needs
<1>4. \A n \in DOMAIN K : K[n].do # "session"
  BY <1>3 DEF Has
<1> QED BY <1>1, <1>2, <1>4 DEF Needs

LEMMA RightMore ==
  ASSUME Universal, UNCHANGED <<disk, sessions, ram>>, \A x \in Where : promised[x] \subseteq promised'[x]
  PROVE  Right'
<1>0. Current' = Current /\ ledger' = ledger
  BY DiskSame DEF disk
<1> QED BY <1>0 DEF Universal, Right, Sound

LEMMA StepDueNot ==
  ASSUME IBody, Now("due"), Next1, UNCHANGED promised,
         UNCHANGED <<disk, ram, sessions, goal, result, kept, gap, calls, hits>>
  PROVE  IBody' /\ Allowed(found, found')
<1>1. plan # <<>> /\ plan[1].do = "due" /\ Frame /\ hits' = hits /\ plan' = Tail(plan)
  BY DEF Now, Next1, Frame, disk, ghost
<1>2. Types /\ Universal /\ Phase
  BY <1>1, InPhase
<1>3. Settle(plan)
  BY <1>1, <1>2, PhaseHead
<1>4. Settle(Tail(plan)) /\ Tail(plan) # <<>> /\ ram.state # "off"
  BY <1>1, <1>2, <1>3, SettleTail, Awake
<1>5. /\ Tail(plan) \in Seq(Steps) /\ (Has(Tail(plan), "mounted") => Has(plan, "mounted"))
      /\ Has(Tail(plan), "fill") \/ FullNow
  BY <1>1, <1>2, TailHas DEF Universal, Occupied
<1>6. Phase'
  <2>1. Settle(plan)'
    BY <1>1, <1>4, SettleFrame
  <2> QED BY <2>1 DEF Phase
<1> QED BY <1>1, <1>2, <1>4, <1>5, <1>6, FrameStep

\* RAM and the flash are as they were, and the wipe is all that is left.
LEMMA EpochNext ==
  ASSUME UNCHANGED <<disk, ram>>, Live,
         NEW K, Needs(K, NoRecord, Nobody, goal', sessions', gap'), K # <<>>, K[1].do = "refresh",
         NEW P, WipeOK(K), P = WipeSteps \o K, plan' = P,
         \A x \in Where : Nobody[x] \in promised'[x]
  PROVE  /\ Phase' /\ plan' # <<>> /\ plan' \in Seq(Steps)
         /\ \A v : Has(plan', v) <=> v \in {"rotate", "epoch", "erase"} \/ Has(K, v)
<1> DEFINE R == Tail(P)
<1>1. Len(K) \in Nat \ {0}
  BY TailIs DEF Needs
<1>2. /\ P \in Seq(Steps) /\ P # <<>> /\ Len(P) = Len(K) + 3 /\ P[1] = Simple("rotate")
      /\ Len(R) = Len(K) + 2 /\ R[1].do = "epoch" /\ R[2].do = "erase" /\ R[3].do = "refresh"
      /\ Tail(Tail(R)) = K
      /\ \A v : Has(P, v) <=> v \in {"rotate", "epoch", "erase"} \/ Has(K, v)
  BY DEF WipeOK
<1>3. Len(P) > 1 /\ Len(R) >= 3
  BY <1>1, <1>2
<1> HIDE DEF R
<1>4. ASSUME NEW Q, Len(Q) >= 3, Q[1].do = "epoch", Q[2].do = "erase", Q[3].do = "refresh",
             Tail(Tail(Q)) = K
      PROVE  Epoch(Q)'
  BY <1>4 DEF Epoch, Ready, Live, disk
<1>5. ASSUME NEW Q, Len(Q) > 1, Q[1] = Simple("rotate"), Epoch(Tail(Q))', plan' = Q
      PROVE  Phase'
  BY <1>5 DEF Phase, Ahead1
<1>6. Epoch(R)'
  BY <1>2, <1>3, <1>4
<1>7. Phase'
  BY <1>2, <1>3, <1>5, <1>6 DEF R
<1> QED BY <1>2, <1>7

LEMMA StepDue ==
  ASSUME IBody, Due PROVE IBody' /\ Allowed(found, found')
<1> DEFINE T == Tail(plan)
           K == Do("refresh") \o T
           P == WipeSteps \o K
<1>1. /\ plan # <<>> /\ plan[1].do = "due"
      /\ UNCHANGED <<disk, ram, sessions, goal, gap, hits>>
  BY DEF Due, Now
<1>2. Types /\ Universal /\ Phase /\ TypeDisk
  BY <1>1, InPhase DEF Types
<1>3. Settle(plan)
  BY <1>1, <1>2, PhaseHead
<1>4. RamIs /\ Needs(plan, Current, found, goal, sessions, gap) /\ Swept(plan, ledger, Slot)
      /\ ram.state # "off"
  BY <1>1, <1>2, <1>3, Awake DEF Settle, RamFor, Ready, RamIs
<1>5. T \in Seq(Steps) /\ \A v : Has(plan, v) <=> "due" = v \/ Has(T, v)
  BY <1>1, <1>2, TailHas
<1>6. Needs(T, Current, found, goal, sessions, gap) /\ T # <<>>
  BY <1>1, <1>4, NeedsTail
<1>7. Has(T, "mounted") /\ ~Has(T, "fill") /\ sessions = {}
  BY <1>4, <1>5 DEF Needs
<1>8. CASE Next1 /\ UNCHANGED promised
  BY <1>8, StepDueNot DEF Due
<1>9. CASE /\ ram.state = "formatted"
           /\ plan' = (WipeSteps \o Do("refresh")) \o T
           /\ promised' = [x \in DOMAIN promised |-> promised[x] \cup {Nobody[x]}]
  <2>1. /\ K \in Seq(Steps) /\ K # <<>> /\ K[1] = Simple("refresh")
        /\ \A v : Has(K, v) <=> "refresh" = v \/ Has(T, v)
    BY <1>5, DoFirst
  <2>2. WipeOK(K)
    <3> HIDE DEF K
    <3> QED BY <2>1, WipeIs
  <2>3. plan' = P
    <3> DEFINE A == WipeSteps
               B == Do("refresh")
    <3>1. A \in Seq(Steps) /\ B \in Seq(Steps)
      BY DoIs DEF WipeSteps
    <3>2. plan' = (A \o B) \o T /\ P = A \o (B \o T)
      BY <1>9
    <3> HIDE DEF A, B, T, P
    <3> QED BY <1>5, <3>1, <3>2, Assoc
  <2>4. ledger.live /\ ram.ledger = ledger
    <3>1. found[First] # NoPin /\ First \in Slot
      BY <1>4, <1>9, SlotType DEF RamIs, StateIs
    <3> QED BY <1>2, <1>4, <3>1, Facts DEF RamIs
  <2>5. promised' = [x \in Where |-> promised[x] \cup {Nobody[x]}]
    BY <1>2, <1>9 DEF Types
  <2>6. Needs(K, NoRecord, Nobody, goal, sessions, gap)
    <3>1. Needs(T, NoRecord, Nobody, goal, sessions, gap)
      BY <1>6, <1>7, NeedsWiped
    <3> QED BY <1>5, <3>1, NeedsDo
  <2> HIDE DEF K
  <2>7. Live /\ K[1].do = "refresh"
    BY <2>1, <2>4 DEF Live, Simple
  <2>8. \A x \in Where : Nobody[x] \in promised'[x]
    BY <2>5
  <2>9. /\ Phase' /\ plan' # <<>> /\ plan' \in Seq(Steps)
        /\ \A v : Has(plan', v) <=> v \in {"rotate", "epoch", "erase"} \/ Has(K, v)
    BY <1>1, <2>1, <2>2, <2>3, <2>6, <2>7, <2>8, EpochNext
  <2>10. Right'
    BY <1>1, <1>2, <2>5, RightMore
  <2>11. Unread' /\ Mounting' /\ Known'
    BY <1>1, <1>2, <1>4, <1>7 DEF Universal, Unread, Mounting, Known, PolicyOK, disk
  <2>12. Occupied'
    BY <1>1, <1>2, <1>5, <1>7, DiskSame DEF Universal, Occupied, FullNow, disk
  <2>13. promised' = [x \in Where |-> promised'[x]]
    BY <2>5
  <2> QED BY <1>1, <1>2, <2>9, <2>10, <2>11, <2>12, <2>13, DiskStep DEF Types
<1> QED BY <1>8, <1>9 DEF Due

-----------------------------------------------------------------------------
(***************************************************************************)
(* A rotation: the ledger counts what it counted, and has room.            *)
(***************************************************************************)
Turned ==
  /\ UNCHANGED <<flash, last, found, sessions, goal, promised, gap>>
  /\ ram.ledger = ledger /\ ram'.ledger = ledger' /\ ledger.live /\ ledger'.live
  /\ ram'.table = ram.table /\ ram'.state = ram.state /\ ram'.policy = ram.policy
  /\ ram'.tamper = ram.tamper
  /\ ledger'.policy = ram.policy /\ ledger'.used = 0
  /\ ledger'.epoch = ledger.epoch /\ ledger'.gens = ledger.gens
  /\ Current' = Current /\ Winners' = Winners

\* Two ledgers that count the same.
Alike(l, m) == m.epoch = l.epoch /\ m.gens = l.gens

LEMMA AlikeIs ==
  ASSUME NEW l, NEW m, Alike(l, m)
  PROVE  /\ \A x : CleanOf(m, x) <=> CleanOf(l, x)
         /\ CurrentOf(m) = CurrentOf(l)
         /\ \A K, X : Swept(K, m, X) <=> Swept(K, l, X)
         /\ \A x, c : Fit(m, x, c) <=> Fit(l, x, c)
<1>1. \A x : CleanOf(m, x) <=> CleanOf(l, x)
  BY SameWin DEF Alike, CleanOf
<1>2. CurrentOf(m) = CurrentOf(l)
  BY SameCur DEF Alike, CurrentOf
<1>3. \A K, X : Swept(K, m, X) <=> Swept(K, l, X)
  BY <1>1 DEF Swept
<1>4. \A x, c : Fit(m, x, c) <=> Fit(l, x, c)
  BY DEF Alike, Fit, IsCandidate
<1> QED BY <1>1, <1>2, <1>3, <1>4

LEMMA TurnedIs ==
  ASSUME Turned
  PROVE  /\ \A l, x : CleanOf(l, x)' <=> CleanOf(l, x)
         /\ \A x : WinAt(x)' = WinAt(x) /\ (Clean(x)' <=> Clean(x)) /\ (InSlot(x)' <=> InSlot(x))
         /\ \A l : CurrentOf(l)' = CurrentOf(l)
         /\ \A K, l, X : Swept(K, l, X)' <=> Swept(K, l, X)
         /\ \A K, e, f : Ready(K, e, f)' <=> Ready(K, e, f)
         /\ \A K, f : RamFor(K, f) => RamFor(K, f)'
         /\ \A st : Sealed(st)' = Sealed(st)
         /\ Live /\ Live' /\ (FullNow' <=> FullNow) /\ Room'
         /\ \A g : Fresh(g)' <=> Fresh(g)
         /\ Alike(ledger, ledger')
         /\ \A K, X : Swept(K, ledger, X)' <=> Swept(K, ledger, X)
<1>1. \A l, x : CleanOf(l, x)' <=> CleanOf(l, x)
  BY DEF Turned, CleanOf
<1>2. ASSUME NEW x PROVE WinAt(x)' = WinAt(x)
  BY SameWin DEF Turned, WinAt
<1>3. Alike(ledger, ledger')
  BY DEF Turned, Alike
<1>4. ASSUME NEW x PROVE Clean(x)' <=> Clean(x)
  <2>1. CleanOf(ledger', x) <=> CleanOf(ledger, x)
    BY <1>3, AlikeIs
  <2>2. Clean(x)' <=> CleanPair(ledger', x, flash[x], last[x])
    BY DEF Clean, CleanOf, Turned
  <2> QED BY <2>1, <2>2 DEF Clean, CleanOf
<1>5. ASSUME NEW x PROVE InSlot(x)' <=> InSlot(x)
  BY <1>2, <1>4 DEF InSlot, Turned
<1>6. \A l : CurrentOf(l)' = CurrentOf(l)
  BY DEF Turned, CurrentOf
<1>7. \A K, l, X : Swept(K, l, X)' <=> Swept(K, l, X)
  BY <1>1 DEF Swept
<1>8. \A K, e, f : Ready(K, e, f)' <=> Ready(K, e, f)
  BY DEF Turned, Ready
<1>9. \A K, f : RamFor(K, f) => RamFor(K, f)'
  BY DEF Turned, RamFor, StateIs, PolicyOK
<1>10. \A st : Sealed(st)' = Sealed(st)
  BY DEF Turned, Sealed
<1>11. Live /\ Live'
  BY DEF Turned, Live
<1>12. FullNow' <=> FullNow
  BY DEF FullNow, Turned
<1>13. Room'
  BY VaultAssumption DEF Room, Turned
<1>14. \A g : Fresh(g)' <=> Fresh(g)
  BY DEF Turned, Fresh
<1>15. \A K, X : Swept(K, ledger, X)' <=> Swept(K, ledger, X)
  BY <1>4 DEF Swept, Clean
<1> QED BY <1>1, <1>2, <1>3, <1>4, <1>5, <1>6, <1>7, <1>8, <1>9, <1>10, <1>11, <1>12, <1>13, <1>14,
           <1>15

LEMMA AheadHere ==
  ASSUME Turned, NEW e, Ahead(e, ledger) PROVE Ahead(e, ledger)'
<1>1. Sound(e, ledger, promised, sessions, ram.state) /\ Allowed(found, FoundOf(e, ledger.gens))
  BY DEF Ahead
<1>2. Sound(e, ledger', promised, sessions, ram.state)
  BY <1>1, SoundLess DEF Turned
<1> QED BY <1>1, <1>2 DEF Ahead, Turned

LEMMA SealTurned ==
  ASSUME Turned, NEW R, Seal(R) PROVE Seal(R)'
<1> DEFINE st == R[1]
           e == Put(Current, st.slot, Sealed(st))
           f == FoundOf(e, ledger.gens)
           K == Tail(Tail(R))
<1>1. /\ Len(R) >= 3 /\ st \in Programs /\ ~st.later /\ R[2] = [do |-> "retire", slot |-> st.slot]
      /\ ram.table = Winners /\ Fit(ledger, st.slot, Sealed(st))
      /\ Ahead(e, ledger) /\ Ready(K, e, f) /\ RamFor(K, f) /\ Swept(K, ledger, Slot \ {st.slot})
  BY DEF Seal
<1>2. Current' = Current /\ Winners' = Winners /\ ram'.table = ram.table /\ ledger'.gens = ledger.gens
      /\ Sealed(st)' = Sealed(st) /\ Live' /\ Alike(ledger, ledger')
  BY TurnedIs DEF Turned
<1>3. Fit(ledger', st.slot, Sealed(st)) /\ Swept(K, ledger', Slot \ {st.slot})
  BY <1>1, <1>2, AlikeIs
<1> HIDE DEF e, f
<1>4. Ahead(e, ledger)'
  <2>1. ASSUME NEW d, Ahead(d, ledger) PROVE Ahead(d, ledger)'
    BY <2>1, AheadHere
  <2>2. ASSUME NEW d, e = d PROVE Ahead(e, ledger)'
    <3>1. e' = d
      BY <1>2, <2>2 DEF e
    <3>2. Ahead(d, ledger)'
      BY <1>1, <2>1, <2>2
    <3> QED BY <3>1, <3>2
  <2> QED BY <2>2
<1>5. e' = e /\ f' = f
  BY <1>2 DEF e, f
<1>6. /\ Ready(K, e, f)' /\ RamFor(K, f)' /\ Swept(K, ledger, Slot \ {st.slot})'
  BY <1>1, <1>3, <1>5, TurnedIs
<1>8. Fit(ledger, st.slot, Sealed(st))'
  BY <1>2, <1>3
<1> QED BY <1>1, <1>2, <1>4, <1>6, <1>8 DEF Seal, e, f

LEMMA WithGenTurned ==
  ASSUME Turned, NEW g, TypeDisk, g \in [do : {"gen"}, id : Identity, gen : Nat], TypeDisk'
  PROVE  LET l == WithGen(ledger, g)
         IN Alike(l, l') /\ CurrentOf(l)' = CurrentOf(l) /\ l'.gens = l.gens
            /\ \A K, X : Swept(K, l, X)' <=> Swept(K, l, X)
<1> DEFINE l == WithGen(ledger, g)
<1>1. l.epoch = ledger.epoch /\ l.gens = [ledger.gens EXCEPT ![g.id] = g.gen]
  BY GenLedger
<1>2. l'.epoch = ledger'.epoch /\ l'.gens = [ledger'.gens EXCEPT ![g.id] = g.gen]
  <2>1. ASSUME NEW k, k \in Ledgers
        PROVE  WithGen(k, g).epoch = k.epoch /\ WithGen(k, g).gens = [k.gens EXCEPT ![g.id] = g.gen]
    BY <2>1 DEF WithGen, Ledgers
  <2>2. ledger' \in Ledgers
    BY DEF TypeDisk
  <2> QED BY <2>1, <2>2
<1>3. Alike(l, l') /\ l'.gens = l.gens
  BY <1>1, <1>2 DEF Turned, Alike
<1> HIDE DEF l
<1>4. CurrentOf(l)' = CurrentOf(l)
  <2>1. CurOf(flash, last, l') = CurOf(flash, last, l)
    BY <1>3, SameCur DEF Alike
  <2> QED BY <2>1 DEF CurrentOf, Turned
<1>5. ASSUME NEW K, NEW X PROVE Swept(K, l, X)' <=> Swept(K, l, X)
  <2>1. \A x : CleanPair(l', x, flash[x], last[x]) <=> CleanPair(l, x, flash[x], last[x])
    BY <1>3, SameWin DEF Alike
  <2> QED BY <2>1 DEF Swept, CleanOf, Turned
<1> QED BY <1>3, <1>4, <1>5 DEF l

LEMMA CommitAfterTurned ==
  ASSUME Turned, TypeDisk, TypeDisk', NEW R, NEW st, CommitAfter(st, R) PROVE CommitAfter(st, R)'
<1> DEFINE g == R[1]
           l == WithGen(ledger, g)
           e == Put(CurrentOf(l), g.id, Sealed(st))
           f == FoundOf(e, l.gens)
           K == Tail(R)
<1>1. /\ Len(R) >= 2 /\ Gen(g) /\ R[2].do = "refresh"
      /\ st \in Programs /\ st.slot = g.id /\ st.gen = g.gen
      /\ Ahead(e, l) /\ Ready(K, e, f) /\ Swept(K, l, Slot \ {g.id})
  BY DEF CommitAfter
<1>2. g \in [do : {"gen"}, id : Identity, gen : Nat] /\ Fresh(g.gen)
  BY <1>1 DEF Gen
<1>3. Alike(l, l') /\ CurrentOf(l)' = CurrentOf(l) /\ l'.gens = l.gens
      /\ \A X : Swept(K, l, X)' <=> Swept(K, l, X)
  BY <1>2, WithGenTurned
<1>4. Sealed(st)' = Sealed(st) /\ Live' /\ Room' /\ Fresh(g.gen)'
  BY <1>2, TurnedIs
<1> HIDE DEF l
<1>5. e' = e /\ f' = f
  BY <1>3, <1>4
<1> HIDE DEF e, f
<1>6. Ahead(e, l)'
  <2>1. Sound(e, l, promised, sessions, ram.state) /\ Allowed(found, FoundOf(e, l.gens))
    BY <1>1 DEF Ahead
  <2>2. Sound(e, l', promised, sessions, ram.state)
    BY <1>3, <2>1, SoundLess DEF Alike
  <2> QED BY <1>3, <1>5, <2>1, <2>2 DEF Ahead, Turned
<1>7. Ready(K, e, f)'
  BY <1>1, <1>5, TurnedIs
<1>8. Gen(g)'
  BY <1>2, <1>4 DEF Gen
<1> QED BY <1>1, <1>3, <1>4, <1>6, <1>7, <1>8 DEF CommitAfter, l, e, f

LEMMA ResealingTurned ==
  ASSUME Turned, NEW R, Resealing(R) PROVE Resealing(R)'
<1>1. ASSUME NEW x, NEW st, Moved(x, st) PROVE Moved(x, st)'
  <2>1. WinAt(x)' = WinAt(x)
    BY TurnedIs
  <2> QED BY <1>1, <2>1 DEF Turned, Moved, IsOld, Resealed1
<1>2. ASSUME NEW st, ResealFacts(st) PROVE ResealFacts(st)'
  <2>1. Live' /\ FullNow' /\ Fresh(st.gen)'
    BY <1>2, TurnedIs DEF ResealFacts
  <2>2. \A x \in Slot : InSlot(x)' \/ Moved(x, st)'
    BY <1>1, <1>2, TurnedIs DEF ResealFacts
  <2> QED BY <1>2, <2>1, <2>2 DEF ResealFacts, Turned
<1> QED BY <1>2 DEF Resealing

LEMMA AheadTurn ==
  ASSUME Turned, TypeDisk, TypeDisk', NEW R, Ahead1(R) PROVE Ahead1(R)'
<1>1. Seal(R) => Seal(R)'
  BY SealTurned
<1>2. Amend(R) => Amend(R)'
  BY SealTurned DEF Amend
<1>3. Canary(R) => Canary(R)'
  BY CommitAfterTurned, TurnedIs DEF Canary
<1>4. Resealing(R) => Resealing(R)'
  BY ResealingTurned
<1>5. ResealingOne(R) => ResealingOne(R)'
  <2> SUFFICES ASSUME ResealingOne(R) PROVE ResealingOne(R)'
    OBVIOUS
  <2>1. Resealing(Tail(R))' /\ InSlot(R[1].slot)' /\ Sealed(R[1])' = Sealed(R[1])
    BY ResealingTurned, TurnedIs DEF ResealingOne
  <2> QED BY <2>1 DEF ResealingOne, Turned, IsOld, Resealed1
<1>6. Epoch(R) => Epoch(R)'
  BY TurnedIs DEF Epoch, Turned
<1> QED BY <1>1, <1>2, <1>3, <1>4, <1>5, <1>6 DEF Ahead1

LEMMA SettleTurned ==
  ASSUME Turned, NEW K, Settle(K), Winners = ram.table PROVE Settle(K)'
<1>1. Ready(K, Current, found)'
  BY TurnedIs DEF Settle, Turned
<1>2. Swept(K, ledger, Slot)' /\ RamFor(K, found)'
  BY TurnedIs DEF Settle, Turned
<1> QED BY <1>1, <1>2 DEF Settle, Turned

LEMMA AheadLive ==
  ASSUME NEW R, Ahead1(R) PROVE Live
BY DEF Ahead1, Seal, Amend, Canary, CommitAfter, Resealing, ResealFacts, ResealingOne, Epoch

LEMMA StepRotate ==
  ASSUME IBody, Rotate PROVE IBody' /\ Allowed(found, found')
<1> DEFINE T == Tail(plan)
<1>1. /\ plan # <<>> /\ plan[1].do = "rotate" /\ plan' = T
      /\ ledger' = [ram.ledger EXCEPT !.used = 0, !.policy = ram.policy]
      /\ ram' = [ram EXCEPT !.ledger = ledger']
      /\ UNCHANGED <<flash, last, sessions, goal, promised, gap, hits>> /\ Observe
  BY DEF Rotate, Rotated, Now, Next1, ghost
<1>2. Types /\ Universal /\ Phase /\ TypeDisk /\ ram.state # "off"
  BY <1>1, InPhase, Awake DEF Types
<1>3. Settle(plan) \/ Ahead1(T)
  BY <1>1, <1>2, PhaseHead
<1>4. T \in Seq(Steps) /\ \A v : Has(plan, v) <=> "rotate" = v \/ Has(T, v)
  BY <1>1, <1>2, TailHas
<1>5. Live
  <2>1. CASE Settle(plan)
    BY <1>1, <1>4, <2>1 DEF Settle, Live
  <2>2. CASE Ahead1(T)
    BY <2>2, AheadLive
  <2> QED BY <1>3, <2>1, <2>2
<1>6. /\ ledger' \in Ledgers /\ ledger'.epoch = ledger.epoch /\ ledger'.gens = ledger.gens
      /\ ledger'.live /\ ledger'.used = 0 /\ ledger'.policy = ram.policy
      /\ ram.ledger = ledger /\ ledger.live
  <2>1. ledger \in Ledgers /\ ram.policy \in Policies
    BY <1>2, MemoryType DEF TypeDisk
  <2> QED BY <1>1, <1>5, <2>1 DEF Live, Ledgers
<1>7. /\ ram' \in Memory /\ ram'.ledger = ledger' /\ ram'.table = ram.table /\ ram'.state = ram.state
      /\ ram'.policy = ram.policy /\ ram'.tamper = ram.tamper
  BY <1>1, <1>2, <1>6 DEF Types, Memory
<1>8. TypeDisk' /\ Dated' /\ Virgin' /\ Current' = Current /\ Winners' = Winners
  BY <1>1, <1>2, <1>6, LedgerSame DEF Universal
<1>9. FoundIs' /\ Right' /\ found' = found /\ Allowed(found, found')
  BY <1>1, <1>2, <1>6, <1>7, <1>8, Stay
<1>10. Turned
  BY <1>1, <1>6, <1>7, <1>8, <1>9 DEF Turned
<1>11. Phase' /\ T # <<>>
  <2>1. CASE Settle(plan)
    <3>1. Settle(T) /\ T # <<>> /\ Winners = ram.table
      BY <1>1, <2>1, SettleTail DEF Settle
    <3>2. Settle(plan)'
      BY <1>1, <1>10, <3>1, SettleTurned
    <3> QED BY <3>1, <3>2 DEF Phase
  <2>2. CASE Ahead1(T)
    <3>1. Ahead1(plan)'
      BY <1>1, <1>2, <1>8, <1>10, <2>2, AheadTurn
    <3> QED BY <2>2, <3>1, AheadLong DEF Phase
  <2> QED BY <1>3, <2>1, <2>2
<1>12. Unread' /\ Mounting' /\ Known'
  BY <1>1, <1>2, <1>4, <1>6, <1>7 DEF Universal, Unread, Mounting, Known, PolicyOK
<1>13. Occupied'
  BY <1>1, <1>2, <1>4, <1>10, TurnedIs DEF Universal, Occupied
<1> QED BY <1>1, <1>2, <1>4, <1>7, <1>8, <1>9, <1>11, <1>12, <1>13 DEF IBody, Types, Universal

-----------------------------------------------------------------------------
(***************************************************************************)
(* What RAM learns from the flash, and the erasing of leftovers.           *)
(***************************************************************************)
\* What is elected is taken for a formatted store where the first identity has a PIN.
LEMMA ClassifyIs ==
  ASSUME TypeDisk, Owned(Current, ledger.gens)
  PROVE  Classify(Winners) = IF PinIn(Current, First) # NoPin THEN "formatted" ELSE "blank"
<1>1. /\ \A x \in Slot : At(Winners, x) = Current[x] /\ Winners[x] = WinAt(x)
      /\ \A x \in Slot : WinAt(x) = "none" <=> Current[x] = Blank
  BY AtIs, CurrentType DEF ElectOK
<1>2. \A x \in Slot : Current[x] # Blank => Current[x].kind = "record"
  BY CurrentType DEF Fit
<1>3. Blank.kind # "record"
  BY DEF Blank
<1>4. Super \in Slot /\ First \in Identity /\ Identity \subseteq Slot
  BY SlotType
<1>5. CASE Current[First] # Blank
  <2>1. /\ PinIn(Current, First) # NoPin /\ Current[First].key \in Pin /\ Current[Super] # Blank
    BY <1>5, FirstIs
  <2>2. Current[Super].body # Corrupt
    BY <2>1, KeysDiffer DEF Owned
  <2>3. HasSuper(Winners)
    BY <1>1, <1>2, <1>4, <2>1, <2>2 DEF HasSuper
  <2>4. First \in Present(Winners)
    BY <1>1, <1>4, <1>5, <2>1, KeysDiffer DEF Present, Opens
  <2> QED BY <2>1, <2>3, <2>4 DEF Classify
<1>6. CASE Current[First] = Blank
  <2>1. PinIn(Current, First) = NoPin /\ \A x \in Where : Current[x] = Blank
    BY <1>6, FirstIs
  <2>2. Present(Winners) = {}
    BY <1>1, <1>4, <2>1, SlotType DEF Present
  <2> QED BY <2>1, <2>2 DEF Classify
<1> QED BY <1>5, <1>6

LEMMA ViewIs ==
  ASSUME Types, Universal
  PROVE  /\ View(ledger) \in Memory /\ View(ledger).ledger = ledger /\ View(ledger).table = Winners
         /\ View(ledger).state = (IF found[First] # NoPin THEN "formatted" ELSE "blank")
         /\ View(ledger).policy = ledger.policy /\ View(ledger).tamper = FALSE
<1>1. TypeDisk /\ Owned(Current, ledger.gens) /\ found[First] = PinIn(Current, First)
  BY Facts, SlotType DEF Types
<1>2. Elect(ledger) = Winners /\ Winners \in Tables
  BY <1>1, ElectIs, CurrentType DEF Winners
<1>3. Classify(Winners) = IF found[First] # NoPin THEN "formatted" ELSE "blank"
  BY <1>1, ClassifyIs
<1>4. ledger \in Ledgers /\ ledger.policy \in Policies
  BY <1>1, LedgerType DEF TypeDisk
<1> QED BY <1>2, <1>3, <1>4 DEF View, Memory

LEMMA StepRefresh ==
  ASSUME IBody, DoRefresh PROVE IBody' /\ Allowed(found, found')
<1> DEFINE T == Tail(plan)
<1>1. /\ plan # <<>> /\ plan[1].do = "refresh" /\ plan' = T /\ ram' = View(ledger)
      /\ UNCHANGED <<disk, sessions, goal, promised, gap, hits>>
  BY DEF DoRefresh, Now, Next1, ghost
<1>2. Types /\ Universal /\ Phase /\ TypeDisk
  BY <1>1, InPhase DEF Types
<1>3. /\ ram' \in Memory /\ ram'.ledger = ledger /\ ram'.table = Winners
      /\ ram'.state = (IF found[First] # NoPin THEN "formatted" ELSE "blank")
      /\ ram'.policy = ledger.policy
  BY <1>1, <1>2, ViewIs
<1>4. T \in Seq(Steps) /\ \A v : Has(plan, v) <=> "refresh" = v \/ Has(T, v)
  BY <1>1, <1>2, TailHas
<1>5. UNCHANGED <<flash, last, ledger, found>> /\ Winners' = Winners /\ Current' = Current
  BY <1>1, DiskSame DEF disk
<1>6. RamIs' /\ PolicyOK'
  BY <1>1, <1>3, <1>5 DEF RamIs, StateIs, PolicyOK
<1>7. Right'
  BY <1>1, <1>2, <1>3, RightView
<1>8. Unread' /\ Mounting' /\ Known'
  BY <1>1, <1>2, <1>3, <1>4, <1>6 DEF Universal, Unread, Mounting, Known
<1>9. Occupied'
  BY <1>1, <1>2, <1>4, <1>5 DEF Universal, Occupied, FullNow
<1>10. CASE Settle(plan)
  <2>1. Needs(plan, Current, found, goal, sessions, gap) /\ Swept(plan, ledger, Slot)
        /\ (Has(plan, "rotate") => ledger.live)
    BY <1>10 DEF Settle, Ready
  <2>2. Needs(T, Current, found, goal, sessions, gap) /\ T # <<>>
    BY <1>1, <2>1, NeedsTail
  <2>3. Swept(T, ledger, Slot) /\ (Has(T, "rotate") => ledger.live)
    BY <1>4, <2>1 DEF Swept
  <2>4. Settle(plan)'
    BY <1>1, <1>6, <2>2, <2>3, SettleNext
  <2> QED BY <1>1, <1>2, <1>3, <1>4, <1>7, <1>8, <1>9, <2>2, <2>4, DiskStep DEF Types, Phase
<1>11. ASSUME NEW p \in Pin, FormatFacts(p), Formatting1(p, plan)
       PROVE  IBody' /\ Allowed(found, found')
  <2>1. T # <<>> /\ T = Tail(Tail(FormatPlan(p, ledger.policy)))
    BY <1>11, FormatPlanIs DEF Formatting1
  <2>2. FormatFacts(p)'
    BY <1>1, <1>3, <1>5, <1>11 DEF FormatFacts, Clean, CleanOf
  <2>3. Formatting2(p, plan)'
    BY <1>1, <1>3, <1>5, <1>11, <2>1 DEF Formatting1, Formatting2, Live, Clean, CleanOf, FormatPlan, FormatGen
  <2>4. Formatting(plan)'
    BY <2>2, <2>3 DEF Formatting
  <2> QED BY <1>1, <1>2, <1>3, <1>4, <1>7, <1>8, <1>9, <2>1, <2>4, DiskStep DEF Types, Phase
<1> QED BY <1>1, <1>2, <1>10, <1>11, PhaseHead

LEMMA AnyStep ==
  ASSUME Types, Universal, TypeDisk', Dated', Virgin', FoundIs', Right', plan' \in Seq(Steps),
         ram' \in Memory, sessions' \in SUBSET Session, promised' = [x \in Where |-> promised'[x]],
         gap' \in BOOLEAN, hits' \in Nat, Unread', Mounting', Known', Occupied',
         IF plan' = <<>> THEN Atrest' ELSE Phase'
  PROVE  IBody'
BY DEF IBody, Universal, Types

LEMMA SettleThere ==
  ASSUME NEW K, Needs(K, Current', found', goal', sessions', gap'),
         Has(K, "cleanup") \/ \A x \in Slot : Clean(x)',
         Has(K, "rotate") => ledger'.live, RamIs' \/ K[1].do = "refresh"
  PROVE  Settle(K)'
BY DEF Settle, Ready, RamFor, RamIs, Swept, Clean

\* Nothing to be seen of the flash but what is elected.
LEMMA NoLeftovers ==
  ASSUME TypeDisk, NEW t, Leftovers(t) = {}, \A x \in Slot : t[x] = WinAt(x)
  PROVE  \A x \in Slot : Clean(x)
<1> SUFFICES ASSUME NEW x \in Slot, NEW s \in Side, flash[x][s] # Blank PROVE s = WinAt(x)
  BY DEF Clean, CleanOf, CleanPair, WinAt
<1>1. <<x, s>> \notin Leftovers(t)
  OBVIOUS
<1> QED BY <1>1 DEF Leftovers

LEMMA StepErased ==
  ASSUME IBody, Erased PROVE IBody' /\ Allowed(found, found')
<1> DEFINE T == Tail(plan)
<1>1. /\ plan # <<>> /\ plan[1].do \in {"cleanup", "erase"} /\ plan' = T
      /\ UNCHANGED <<disk, sessions, goal, promised, gap, hits>>
      /\ ram' = IF plan[1].do = "erase" THEN [ram EXCEPT !.table = Off.table] ELSE ram
      /\ plan[1].do = "cleanup" => Leftovers(ram.table) = {}
      /\ plan[1].do = "erase" => Leftovers(Off.table) = {}
  BY DEF Erased, Doomed, Now, Next1, ghost
<1>2. Types /\ Universal /\ Phase /\ TypeDisk
  BY <1>1, InPhase DEF Types
<1>3. T \in Seq(Steps) /\ \A v : Has(plan, v) <=> plan[1].do = v \/ Has(T, v)
  BY <1>1, <1>2, TailHas
<1>4. ram.state # "off" /\ ram \in Memory
  BY <1>1, <1>2, Awake DEF Types
<1>5. UNCHANGED <<flash, last, ledger, found>> /\ Winners' = Winners /\ Current' = Current
      /\ \A x : Clean(x)' <=> Clean(x)
  BY <1>1, DiskSame DEF disk
<1>6. /\ ram'.ledger = ram.ledger /\ ram'.state = ram.state /\ ram'.policy = ram.policy
      /\ ram'.tamper = ram.tamper /\ ram' \in Memory
  <2>1. Off.table \in Tables
    BY DEF Off, Tables
  <2> HIDE DEF Off
  <2> QED BY <1>1, <1>4, <2>1 DEF Memory
<1>7. /\ \A x \in Slot : Winners[x] = WinAt(x) /\ WinAt(x) \in Side \cup {"none"}
      /\ Winners \in Tables
  BY <1>2, CurrentType
<1>8. Right'
  BY <1>1, <1>2, <1>6, RightSame
<1>9. Unread' /\ Mounting' /\ Known'
  BY <1>1, <1>2, <1>3, <1>4, <1>5, <1>6 DEF Universal, Unread, Mounting, Known, PolicyOK
<1>10. Occupied'
  BY <1>1, <1>2, <1>3, <1>5 DEF Universal, Occupied, FullNow
<1>11. CASE plan[1].do = "cleanup"
  <2>1. Settle(plan)
    BY <1>1, <1>2, <1>11, PhaseHead
  <2>2. RamIs /\ Needs(plan, Current, found, goal, sessions, gap)
        /\ (Has(plan, "rotate") => ledger.live)
    BY <1>11, <2>1 DEF Settle, RamFor, Ready, RamIs
  <2>3. \A x \in Slot : Clean(x)
    BY <1>1, <1>2, <1>7, <1>11, <2>2, NoLeftovers DEF RamIs
  <2>4. Needs(T, Current, found, goal, sessions, gap) /\ T # <<>>
    BY <1>11, <2>2, NeedsTail
  <2>5. RamIs'
    BY <1>1, <1>5, <1>11, <2>2 DEF RamIs, StateIs, PolicyOK
  <2>6. Settle(plan)'
    BY <1>1, <1>3, <1>5, <2>2, <2>3, <2>4, <2>5, SettleThere
  <2> QED BY <1>1, <1>2, <1>3, <1>6, <1>8, <1>9, <1>10, <2>4, <2>6, DiskStep DEF Types, Phase
<1>12. CASE plan[1].do = "erase"
  <2>1. Erasing(plan)
    BY <1>1, <1>2, <1>12, PhaseHead
  <2>2. /\ \A x \in Slot : WinAt(x) = "none"
        /\ Needs(T, Current, found, goal, sessions, gap) /\ T[1].do = "refresh"
        /\ Has(T, "rotate") => ledger.live
    <3>1. Len(plan) \in Nat /\ Len(plan) >= 2 /\ T[1] = plan[2]
      BY <1>1, <1>2, <2>1, TailHas DEF Erasing
    <3> QED BY <2>1, <3>1 DEF Erasing, Ready
  <2>3. \A x \in Slot : Off.table[x] = WinAt(x)
    BY <2>2 DEF Off
  <2>4. \A x \in Slot : Clean(x)
    BY <1>1, <1>2, <1>12, <2>3, NoLeftovers
  <2>5. Settle(plan)'
    BY <1>1, <1>3, <1>5, <2>2, <2>4, SettleThere
  <2>6. T # <<>>
    BY <2>2 DEF Needs
  <2> QED BY <1>1, <1>2, <1>3, <1>6, <1>8, <1>9, <1>10, <2>5, <2>6, DiskStep DEF Types, Phase
<1> QED BY <1>1, <1>11, <1>12

LEMMA StepEraseOne ==
  ASSUME IBody, EraseOne PROVE IBody' /\ Allowed(found, found')
<1> DEFINE p == NextDoomed
<1>1. /\ Doomed # {} /\ flash' = [flash EXCEPT ![p[1]][p[2]] = Blank]
      /\ UNCHANGED <<last, ledger, ram, sessions, plan, goal, promised, gap, hits>> /\ Observe
  BY DEF EraseOne, ghost
<1>2. p \in Doomed
  BY <1>1 DEF NextDoomed
<1>3. /\ plan # <<>> /\ plan[1].do \in {"cleanup", "erase"}
      /\ p \in IF plan[1].do = "cleanup" THEN Leftovers(ram.table) ELSE Leftovers(Off.table)
  BY <1>2 DEF Doomed, Now
<1>4. Types /\ Universal /\ Phase /\ TypeDisk
  BY <1>3, InPhase DEF Types
<1>5. p[1] \in Slot /\ p[2] \in Side
  BY <1>3 DEF Leftovers
<1> HIDE DEF p
<1>6. p[2] # WinAt(p[1])
  <2>1. CASE plan[1].do = "cleanup"
    <3>1. Settle(plan)
      BY <1>3, <1>4, <2>1, PhaseHead
    <3>2. ram.table[p[1]] = WinAt(p[1])
      BY <1>4, <1>5, <2>1, <3>1, CurrentType DEF Settle
    <3> QED BY <1>3, <2>1, <3>2 DEF Leftovers
  <2>2. CASE plan[1].do = "erase"
    <3>1. Erasing(plan)
      BY <1>3, <1>4, <2>2, PhaseHead
    <3> QED BY <1>5, <3>1 DEF Erasing, Side
  <2> QED BY <1>3, <2>1, <2>2
<1>7. TypeDisk' /\ Dated' /\ Virgin' /\ Current' = Current /\ Winners' = Winners
  BY <1>1, <1>4, <1>5, <1>6, WeededHere DEF Universal
<1>8. FoundIs' /\ Right' /\ found' = found /\ Allowed(found, found')
  BY <1>1, <1>4, <1>7, Stay
<1>9. Unread' /\ Mounting' /\ Known' /\ Occupied'
  BY <1>1, <1>4, <1>7, <1>8 DEF Universal, Unread, Mounting, Known, PolicyOK, Occupied, FullNow
<1>10. Phase'
  <2>1. CASE plan[1].do = "cleanup"
    <3>1. Settle(plan) /\ Has(plan, "cleanup")
      BY <1>3, <1>4, <2>1, PhaseHead, TailHas
    <3>2. RamIs /\ Needs(plan, Current, found, goal, sessions, gap)
          /\ (Has(plan, "rotate") => ledger.live)
      BY <2>1, <3>1 DEF Settle, RamFor, Ready, RamIs
    <3>3. RamIs'
      BY <1>1, <1>7, <1>8, <3>2 DEF RamIs, StateIs, PolicyOK
    <3>4. Settle(plan)'
      BY <1>1, <1>7, <1>8, <3>1, <3>2, <3>3, SettleThere
    <3> QED BY <3>4 DEF Phase
  <2>2. CASE plan[1].do = "erase"
    <3>1. Erasing(plan)
      BY <1>3, <1>4, <2>2, PhaseHead
    <3>2. \A x \in Slot : WinAt(x)' = "none"
      <4>1. \A x \in Slot : Winners[x] = WinAt(x) /\ Winners'[x] = WinAt(x)'
        BY DEF Winners, WinOf, WinAt
      <4> QED BY <1>7, <3>1, <4>1 DEF Erasing
    <3>3. Erasing(plan)'
      BY <1>1, <1>7, <1>8, <3>1, <3>2 DEF Erasing, Ready
    <3> QED BY <3>3 DEF Phase
  <2> QED BY <1>3, <2>1, <2>2
<1>11. plan' \in Seq(Steps) /\ ram' \in Memory /\ sessions' \in SUBSET Session /\ plan' # <<>>
       /\ promised' = [x \in Where |-> promised'[x]] /\ gap' \in BOOLEAN /\ hits' \in Nat
  BY <1>1, <1>3, <1>4 DEF Types
<1> QED BY <1>4, <1>7, <1>8, <1>9, <1>10, <1>11, AnyStep

-----------------------------------------------------------------------------
(***************************************************************************)
(* A record is programmed.                                                 *)
(***************************************************************************)
Wrote(st) ==
  /\ st \in Programs
  /\ flash' = [flash EXCEPT ![st.slot][Target(st.slot)] = Sealed(st)]
  /\ last' = [last EXCEPT ![st.slot] = Target(st.slot)]
  /\ ram' = IF st.later THEN [ram EXCEPT !.table[st.slot] = Target(st.slot)] ELSE ram
  /\ UNCHANGED <<ledger, sessions, goal, promised, gap, hits>> /\ Observe

WroteOK(x, t, r, later) ==
  /\ x \in Slot /\ t \in Side /\ r \in Record /\ r.epoch = ram.ledger.epoch
  /\ OneSide(flash, last, flash', last', x, t) /\ flash'[x][t] = r /\ last'[x] = t
  /\ TypeDisk' /\ Dated' /\ Virgin'
  /\ ram' \in Memory /\ ram'.ledger = ram.ledger /\ ram'.state = ram.state
  /\ ram'.policy = ram.policy /\ ram'.tamper = ram.tamper
  /\ later => ram'.table[x] = t /\ \A y \in Slot \ {x} : ram'.table[y] = ram.table[y]
  /\ ~later => ram' = ram
  /\ \A l : \A y \in Slot \ {x} : CleanPair(l, y, flash'[y], last'[y]) <=> CleanOf(l, y)
  /\ UNCHANGED <<ledger, sessions, goal, promised, gap, hits>> /\ Observe

LEMMA WroteIs ==
  ASSUME Types, Universal, Live, NEW st, Wrote(st)
  PROVE  WroteOK(st.slot, Target(st.slot), Sealed(st), st.later)
<1> DEFINE x == st.slot
           t == Target(x)
           r == Sealed(st)
<1>1. /\ st \in Programs /\ x \in Slot /\ r \in Record /\ r.epoch = ram.ledger.epoch
      /\ st.later \in BOOLEAN
  BY SealedIs, StepKinds DEF Wrote
<1>2. TypeDisk /\ ram \in Memory /\ ram.table \in Tables /\ t \in Side
  BY <1>1, MemoryType DEF Types
<1>3. /\ flash' = [flash EXCEPT ![x][t] = r] /\ last' = [last EXCEPT ![x] = t]
      /\ ram' = IF st.later THEN [ram EXCEPT !.table[x] = t] ELSE ram
      /\ UNCHANGED <<ledger, sessions, goal, promised, gap, hits>> /\ Observe
  BY DEF Wrote
<1> HIDE DEF x, t, r
<1>4. OneSide(flash, last, flash', last', x, t) /\ flash'[x][t] = r /\ last'[x] = t
  BY <1>1, <1>2, <1>3, OneSideWritten
<1> DEFINE tb == [ram.table EXCEPT ![x] = t]
<1>5. tb \in Tables /\ tb[x] = t /\ \A y \in Slot \ {x} : tb[y] = ram.table[y]
  BY <1>1, <1>2 DEF Tables
<1>6. ram' = IF st.later THEN [ram EXCEPT !.table = tb] ELSE ram
  BY <1>3
<1> HIDE DEF tb
<1>7. /\ ram' \in Memory /\ ram'.ledger = ram.ledger /\ ram'.state = ram.state
      /\ ram'.policy = ram.policy /\ ram'.tamper = ram.tamper
      /\ ram'.table = IF st.later THEN tb ELSE ram.table
  BY <1>2, <1>5, <1>6 DEF Memory
<1>8. \A l : \A y \in Slot \ {x} : CleanPair(l, y, flash'[y], last'[y]) <=> CleanOf(l, y)
  BY <1>4 DEF OneSide, CleanOf
<1>9. TypeDisk' /\ Dated' /\ Virgin'
  <2>1. r \in Cells /\ r.epoch <= ledger.epoch /\ ledger.live
    BY <1>1, <1>2, LedgerType DEF Live, Cells
  <2>2. last' \in {last, [last EXCEPT ![x] = t]} /\ ledger' = ledger
    BY <1>3
  <2>3. Dated /\ Virgin
    BY DEF Universal
  <2> QED BY <1>1, <1>2, <1>3, <2>1, <2>2, <2>3, WriteSide
<1>10. UNCHANGED <<ledger, sessions, goal, promised, gap, hits>> /\ Observe
  BY <1>3
<1>11. st.later => ram'.table[x] = t /\ \A y \in Slot \ {x} : ram'.table[y] = ram.table[y]
  BY <1>5, <1>7
<1>12. ~st.later => ram' = ram
  BY <1>6
<1>13. WroteOK(x, t, r, st.later)
  BY <1>1, <1>2, <1>4, <1>7, <1>8, <1>9, <1>10, <1>11, <1>12 DEF WroteOK
<1> QED BY <1>13 DEF x, t, r

\* It counts.
LEMMA WroteHere ==
  ASSUME Types, Universal, NEW x, NEW t, NEW r, NEW later, WroteOK(x, t, r, later), Live,
         Fit(ledger, x, r), Ahead(Put(Current, x, r), ledger)
  PROVE  /\ TypeDisk' /\ Dated' /\ Virgin' /\ FoundIs' /\ Right' /\ Allowed(found, found')
         /\ Current' = Put(Current, x, r) /\ Winners' = Put(Winners, x, t)
         /\ found' = FoundOf(Put(Current, x, r), ledger.gens)
<1>1. TypeDisk' /\ Dated' /\ Virgin' /\ Current' = Put(Current, x, r) /\ Winners' = Put(Winners, x, t)
  <2>1. /\ OneSide(flash, last, flash', last', x, t) /\ flash'[x][t] = r /\ last'[x] = t
        /\ ledger' = ledger /\ x \in Slot /\ t \in Side
    BY DEF WroteOK
  <2>2. ASSUME NEW fl, NEW la, OneSide(flash, last, fl, la, x, t), fl[x][t] = r, la[x] = t
        PROVE  /\ CurOf(fl, la, ledger) = Put(CurOf(flash, last, ledger), x, r)
               /\ WinOf(fl, la, ledger) = Put(WinOf(flash, last, ledger), x, t)
    <3>1. Fit(ledger, x, fl[x][t]) /\ x \in Slot /\ t \in Side
      BY <2>1, <2>2
    <3> QED BY <2>2, <3>1, CrownSlot
  <2> QED BY <2>1, <2>2 DEF Current, Winners, WroteOK
<1>2. /\ FoundIs' /\ Right' /\ found' = FoundOf(Put(Current, x, r), ledger.gens)
      /\ Allowed(found, found')
  BY <1>1, Arrive DEF WroteOK
<1> QED BY <1>1, <1>2

\* It does not count yet.
LEMMA WroteAhead ==
  ASSUME Types, Universal, NEW x, NEW t, NEW r, NEW later, WroteOK(x, t, r, later), Live,
         ~Fit(ledger, x, r), t # WinAt(x)
  PROVE  /\ TypeDisk' /\ Dated' /\ Virgin' /\ FoundIs' /\ Right' /\ Allowed(found, found')
         /\ Current' = Current /\ Winners' = Winners /\ found' = found
<1>1. TypeDisk' /\ Dated' /\ Virgin'
  BY DEF WroteOK
<1>2. Current' = Current /\ Winners' = Winners
  <2>1. /\ OneSide(flash, last, flash', last', x, t) /\ flash'[x][t] = r
        /\ ledger' = ledger /\ x \in Slot /\ t \in Side
        /\ flash \in Flashes /\ last \in Lasts /\ t # Win(ledger, x, flash[x], last[x])
    BY DEF WroteOK, WinAt, Types, TypeDisk
  <2>2. /\ CurOf(flash', last', ledger) = CurOf(flash, last, ledger)
        /\ WinOf(flash', last', ledger) = WinOf(flash, last, ledger)
    BY <2>1, WeedSlot
  <2> QED BY <2>1, <2>2 DEF Current, Winners
<1>3. FoundIs' /\ Right' /\ found' = found /\ Allowed(found, found')
  BY <1>1, <1>2, Stay DEF WroteOK
<1> QED BY <1>1, <1>2, <1>3

\* What a step is to show when it has written.
LEMMA WroteStep ==
  ASSUME Types, Universal, NEW x, NEW t, NEW r, NEW later, WroteOK(x, t, r, later),
         TypeDisk', Dated', Virgin', FoundIs', Right', plan # <<>>, plan[1].do = "program",
         plan' = Tail(plan), plan' # <<>>, Phase', Occupied'
  PROVE  IBody'
<1>1. plan' \in Seq(Steps) /\ \A v : Has(plan, v) <=> "program" = v \/ Has(plan', v)
  BY TailHas
<1>2. ram.state # "off"
  BY Awake
<1>3. Unread' /\ Mounting' /\ Known'
  BY <1>1, <1>2 DEF WroteOK, Universal, Unread, Mounting, Known, PolicyOK
<1>4. /\ ram' \in Memory /\ sessions' \in SUBSET Session
      /\ promised' = [y \in Where |-> promised'[y]] /\ gap' \in BOOLEAN /\ hits' \in Nat
  BY DEF WroteOK, Types
<1> QED BY <1>1, <1>3, <1>4, AnyStep

\* The next step is to erase the side it takes the place of.
LEMMA RetireThere ==
  ASSUME NEW x \in Slot, NEW t, NEW K, NEW P, Len(P) >= 2, P[1] = RetireStep(x), Tail(P) = K,
         plan' = P, Live', WinAt(x)' = t, Target(x)' = t,
         \A y \in Slot \ {x} : ram'.table[y] = WinAt(y)',
         Needs(K, Current', found', goal', sessions', gap'),
         K[1].do = "refresh" \/ (StateIs(found)' /\ PolicyOK'),
         Has(K, "cleanup") \/ \A y \in Slot \ {x} : Clean(y)'
  PROVE  Retire(plan)'
<1>1. P[1].do = "retire" /\ P[1].slot = x
  BY RetireStepIs
<1>2. Ready(K, Current, found)' /\ RamFor(K, found)' /\ Swept(K, ledger, Slot \ {x})'
  BY DEF Ready, RamFor, Swept, Clean
<1>3. Retire(P)'
  BY <1>1, <1>2 DEF Retire
<1> QED BY <1>3

LEMMA ProgramSeal ==
  ASSUME Types, Universal, Seal(plan), NEW st, st = plan[1], Wrote(st), plan' = Tail(plan),
         plan # <<>>, plan[1].do = "program"
  PROVE  IBody' /\ Allowed(found, found')
<1> DEFINE x == st.slot
           t == Target(x)
           r == Sealed(st)
           T == Tail(plan)
           K == Tail(T)
           e == Put(Current, x, r)
           f == FoundOf(e, ledger.gens)
<1>1. /\ Len(plan) >= 3 /\ st \in Programs /\ ~st.later /\ plan[2] = RetireStep(x)
      /\ Live /\ ram.table = Winners /\ Fit(ledger, x, r) /\ Ahead(e, ledger)
      /\ Ready(K, e, f) /\ RamFor(K, f) /\ Swept(K, ledger, Slot \ {x})
  BY DEF Seal, RetireStep
<1>2. WroteOK(x, t, r, FALSE)
  <2>1. st.later = FALSE
    BY <1>1, StepKinds
  <2> QED BY <1>1, <2>1, WroteIs
<1>3. T \in Seq(Steps) /\ Len(T) = Len(plan) - 1 /\ Len(plan) \in Nat /\ T[1] = plan[2] /\ T # <<>>
  BY <1>1, TailIs DEF Types
<1>4. Current \in [Slot -> Record \cup {Blank}] /\ x \in Slot /\ t \in Side /\ r \in Record
      /\ \A y \in Slot : Winners[y] = WinAt(y)
  BY <1>2, CurrentType DEF WroteOK, Types
<1>6. t = Target(x)'
  BY <1>2 DEF WroteOK, Target
<1> HIDE DEF x, t, r, T, K, e, f
<1>7. /\ TypeDisk' /\ Dated' /\ Virgin' /\ FoundIs' /\ Right' /\ Allowed(found, found')
      /\ Current' = e /\ Winners' = Put(Winners, x, t) /\ found' = f
  BY <1>1, <1>2, WroteHere DEF e, f
<1>8. WinAt(x)' = t /\ \A y \in Slot \ {x} : ram'.table[y] = WinAt(y)'
  <2>1. Winners'[x] = t /\ \A y \in Slot \ {x} : Winners'[y] = Winners[y]
    <3>1. Winners \in [Slot -> Side \cup {"none"}]
      BY CurrentType DEF Types, Tables
    <3> QED BY <1>4, <1>7, <3>1 DEF Put
  <2>2. \A y \in Slot : Winners'[y] = WinAt(y)'
    BY DEF Winners, WinOf, WinAt
  <2> QED BY <1>1, <1>2, <1>4, <2>1, <2>2 DEF WroteOK
<1>9. Ready(K, Current', found') /\ RamFor(K, found')
  BY <1>1, <1>7
<1>10. Has(K, "cleanup") \/ \A y \in Slot \ {x} : Clean(y)'
  <2>1. Has(K, "cleanup") \/ \A y \in Slot \ {x} : CleanOf(ledger, y)
    BY <1>1 DEF Swept
  <2>2. \A y \in Slot \ {x} : CleanOf(ledger, y) => Clean(y)'
    BY <1>2 DEF Clean, CleanOf, WroteOK
  <2> QED BY <2>1, <2>2
<1>11. Live'
  BY <1>1, <1>2 DEF Live, WroteOK
<1>12. Retire(plan)'
  <2>1. Needs(K, Current', found', goal', sessions', gap')
    BY <1>2, <1>9 DEF Ready, WroteOK
  <2>2. K[1].do = "refresh" \/ (StateIs(found)' /\ PolicyOK')
    <3>1. ram' = ram /\ ledger' = ledger
      BY <1>2 DEF WroteOK
    <3> QED BY <1>9, <3>1 DEF RamFor, StateIs, PolicyOK
  <2>3. Len(T) >= 2 /\ T[1] = RetireStep(x) /\ Tail(T) = K /\ plan' = T
    BY <1>1, <1>3 DEF T, K
  <2> QED BY <1>4, <1>6, <1>8, <1>10, <1>11, <2>1, <2>2, <2>3, RetireThere
<1>13. Occupied'
  <2>1. CASE Has(K, "fill")
    <3>1. plan' = T /\ T \in Seq(Steps) /\ T # <<>> /\ Tail(T) = K
      BY <1>3 DEF T, K
    <3>2. Has(plan', "fill")
      BY <2>1, <3>1, HasTail
    <3> QED BY <3>2 DEF Occupied
  <2>2. CASE ~Has(K, "fill")
    <3>1. FullIn(gap, e, f) /\ gap' = gap
      BY <1>1, <1>2, <2>2 DEF Ready, Needs, WroteOK
    <3> QED BY <1>7, <3>1 DEF Occupied, FullNow
  <2> QED BY <2>1, <2>2
<1> QED BY <1>2, <1>3, <1>7, <1>12, <1>13, WroteStep DEF Phase, T

\* A generation is to be committed next.
CommitOK(P, g, T, l, e) ==
  /\ Len(P) >= 2 /\ P[1] = g /\ P[2].do = "refresh" /\ Tail(P) = T
  /\ Gen(g)' /\ Live' /\ Room' /\ l = WithGen(ledger', g) /\ CurOf(flash', last', l) = e
  /\ Sound(e, l, promised', sessions', ram'.state) /\ Allowed(found', FoundOf(e, l.gens))
  /\ Needs(T, e, FoundOf(e, l.gens), goal', sessions', gap')
  /\ Has(T, "cleanup") \/ \A x \in Slot : CleanPair(l, x, flash'[x], last'[x])

LEMMA CommitThen ==
  ASSUME NEW P, NEW g, NEW T, NEW l, NEW e, CommitOK(P, g, T, l, e) PROVE Commit(P)'
BY DEF CommitOK, Commit, Ahead, Ready, Swept, CleanOf, CurrentOf

LEMMA CommitThere ==
  ASSUME NEW P, NEW g, NEW T, NEW l, NEW e, CommitOK(P, g, T, l, e), plan' = P PROVE Commit(plan)'
<1>1. Commit(P)'
  BY CommitThen
<1> QED BY <1>1

\* A record of a generation to come does not count.
LEMMA UnfitIs ==
  ASSUME TypeDisk, NEW n \in Nat, Fresh(n), NEW x \in Slot \ {Super}, NEW r \in Record, r.gen = n
  PROVE  ~Fit(ledger, x, r)
<1>1. \A j \in Identity : ledger.gens[j] < n /\ ledger.gens[j] \in Nat
  BY LedgerType DEF Fresh
<1>2. \A j \in Identity : ledger.gens[j] # n
  BY <1>1
<1> QED BY <1>2 DEF Fit, IsCandidate

\* A canary is sealed, and its generation comes into force.
CanaryOK(st, R, g, T, l, e) ==
  /\ Len(R) >= 2 /\ Len(R) \in Nat /\ R # <<>> /\ R[1] = g /\ R[2].do = "refresh" /\ Tail(R) = T
  /\ R \in Seq(Steps) /\ T \in Seq(Steps) /\ g.do = "gen"
  /\ Gen(g) /\ Live /\ Room /\ st \in Programs /\ st.slot = g.id /\ st.gen = g.gen
  /\ l = WithGen(ledger, g) /\ e = Put(CurOf(flash, last, l), g.id, Sealed(st))
  /\ Sound(e, l, promised, sessions, ram.state) /\ Allowed(found, FoundOf(e, l.gens))
  /\ Needs(T, e, FoundOf(e, l.gens), goal, sessions, gap)
  /\ Has(T, "cleanup") \/ \A x \in Slot \ {g.id} : CleanOf(l, x)

LEMMA CanaryIs ==
  ASSUME NEW st, NEW R \in Seq(Steps), CommitAfter(st, R)
  PROVE  LET g == R[1]
             l == WithGen(ledger, g)
         IN CanaryOK(st, R, g, Tail(R), l, Put(CurrentOf(l), g.id, Sealed(st)))
<1>1. Len(R) \in Nat /\ Len(R) >= 2
  BY LenProperties DEF CommitAfter
<1>2. R # <<>>
  BY <1>1
<1>3. Tail(R) \in Seq(Steps)
  BY <1>2, TailIs
<1>4. R[1].do = "gen"
  BY DEF CommitAfter, Gen
<1> DEFINE T == Tail(R)
<1> HIDE DEF T
<1>5. CommitAfter(st, R) => CanaryOK(st, R, R[1], Tail(R), WithGen(ledger, R[1]), Put(CurrentOf(WithGen(ledger, R[1])), R[1].id, Sealed(st)))
  BY <1>1, <1>2, <1>3, <1>4 DEF CommitAfter, CanaryOK, Ahead, Ready, Swept, CurrentOf
<1> QED BY <1>5

\* Both where it is sealed later and where format does it.
LEMMA CanaryWritten ==
  ASSUME Types, Universal, NEW st, NEW R, NEW g, NEW T, NEW l, NEW e, CanaryOK(st, R, g, T, l, e),
         NEW t, NEW r, r = Sealed(st), NEW later, WroteOK(g.id, t, r, later),
         t # WinAt(g.id),
         Has(T, "cleanup") \/ CleanPair(l, g.id, flash'[g.id], last'[g.id])
  PROVE  /\ TypeDisk' /\ Dated' /\ Virgin' /\ FoundIs' /\ Right' /\ Allowed(found, found')
         /\ Current' = Current /\ Winners' = Winners /\ found' = found
         /\ CommitOK(R, g, T, l, e) /\ (FullNow' <=> FullNow)
<1> DEFINE x == g.id
<1>1. /\ g \in [do : {"gen"}, id : Identity, gen : Nat] /\ Fresh(g.gen) /\ Live /\ Room
      /\ r.gen = g.gen /\ TypeDisk
  BY SealedIs DEF CanaryOK, Gen, Types
<1>2. x \in Identity /\ g.gen \in Nat /\ x \in Slot \ {Super}
  BY <1>1, SlotType, NamesAssumption
<1>3. r \in Record /\ ledger' = ledger /\ ram'.ledger = ram.ledger /\ ram'.state = ram.state
      /\ goal' = goal /\ gap' = gap /\ promised' = promised /\ sessions' = sessions
      /\ r.epoch = ledger.epoch
  BY <1>1 DEF WroteOK, Live
<1>4. ~Fit(ledger, x, r)
  BY <1>1, <1>2, <1>3, UnfitIs
<1> HIDE DEF x
<1>5. /\ TypeDisk' /\ Dated' /\ Virgin' /\ FoundIs' /\ Right' /\ Allowed(found, found')
      /\ Current' = Current /\ Winners' = Winners /\ found' = found
  BY <1>1, <1>4, WroteAhead DEF x
<1>6. FullNow' <=> FullNow
  BY <1>3, <1>5 DEF FullNow
<1>7. Gen(g)' /\ Live' /\ Room'
  BY <1>1, <1>3, <1>6 DEF Gen, Fresh, Live, Room, CanaryOK
<1>8. l = WithGen(ledger', g) /\ l.epoch = ledger.epoch /\ l.gens[x] = g.gen
  BY <1>1, <1>3, GenLedger DEF CanaryOK, x
<1>9. Fit(l, x, r)
  <2>1. \A j \in Identity : ledger.gens[j] \in Nat /\ ledger.gens[j] < g.gen
    BY <1>1, LedgerType DEF Fresh
  <2>2. g.gen # 0
    BY <1>2, <2>1
  <2> QED BY <1>1, <1>2, <1>3, <1>8, <2>2, FitIs
<1>10. CurOf(flash', last', l) = e
  <2>1. /\ OneSide(flash, last, flash', last', x, t) /\ flash'[x][t] = r /\ last'[x] = t
        /\ x \in Slot /\ t \in Side
    BY DEF WroteOK, x
  <2>2. ASSUME NEW fl, NEW la, OneSide(flash, last, fl, la, x, t), fl[x][t] = r, la[x] = t
        PROVE  CurOf(fl, la, l) = Put(CurOf(flash, last, l), x, r)
    <3>1. Fit(l, x, fl[x][t]) /\ x \in Slot /\ t \in Side
      BY <1>9, <2>1, <2>2
    <3> QED BY <2>2, <3>1, CrownSlot
  <2>3. CurOf(flash', last', l) = Put(CurOf(flash, last, l), x, r)
    BY <2>1, <2>2
  <2> QED BY <2>3 DEF CanaryOK, x
<1>11. Has(T, "cleanup") \/ \A y \in Slot : CleanPair(l, y, flash'[y], last'[y])
  <2>1. \A y \in Slot \ {x} : CleanPair(l, y, flash'[y], last'[y]) <=> CleanOf(l, y)
    BY DEF WroteOK, x
  <2>2. Has(T, "cleanup") \/ \A y \in Slot \ {x} : CleanOf(l, y)
    BY DEF CanaryOK, x
  <2>3. Has(T, "cleanup") \/ CleanPair(l, x, flash'[x], last'[x])
    BY DEF x
  <2> QED BY <2>1, <2>2, <2>3
<1>12. /\ Sound(e, l, promised', sessions', ram'.state) /\ Allowed(found', FoundOf(e, l.gens))
       /\ Needs(T, e, FoundOf(e, l.gens), goal', sessions', gap')
       /\ Len(R) >= 2 /\ R[1] = g /\ R[2].do = "refresh" /\ Tail(R) = T
  BY <1>3, <1>5 DEF CanaryOK
<1>13. CommitOK(R, g, T, l, e)
  BY <1>7, <1>8, <1>10, <1>11, <1>12 DEF CommitOK
<1> QED BY <1>5, <1>6, <1>13

LEMMA ProgramCanary ==
  ASSUME Types, Universal, Canary(plan), NEW st, st = plan[1], Wrote(st), plan' = Tail(plan),
         plan # <<>>, plan[1].do = "program"
  PROVE  IBody' /\ Allowed(found, found')
<1> DEFINE x == st.slot
           t == Target(x)
           r == Sealed(st)
           R == Tail(plan)
           g == R[1]
           T == Tail(R)
           l == WithGen(ledger, g)
           e == Put(CurrentOf(l), g.id, r)
<1>1. R \in Seq(Steps)
  BY TailHas
<1>2. CanaryOK(st, R, g, T, l, e)
  BY <1>1, CanaryIs DEF Canary
<1>3. InSlot(x) /\ Has(R, "cleanup") /\ st.later /\ Live /\ x = g.id /\ st \in Programs
  BY <1>2 DEF Canary, CanaryOK
<1>4. WroteOK(x, t, r, st.later)
  BY <1>3, WroteIs
<1>5. t # WinAt(x)
  BY <1>3, <1>4, TargetIsFree DEF InSlot, WroteOK
<1>6. Has(T, "cleanup")
  <2>1. R # <<>> /\ R[1].do = "gen"
    BY <1>2 DEF CanaryOK
  <2> QED BY <1>1, <1>3, <2>1, HasTail
<1> HIDE DEF x, t, r, R, g, T, l, e
<1>7. /\ TypeDisk' /\ Dated' /\ Virgin' /\ FoundIs' /\ Right' /\ Allowed(found, found')
      /\ CommitOK(R, g, T, l, e) /\ (FullNow' <=> FullNow)
  <2>1. r = Sealed(st) /\ WroteOK(g.id, t, r, st.later) /\ t # WinAt(g.id)
    BY <1>3, <1>4, <1>5 DEF r
  <2> QED BY <1>2, <1>6, <2>1, CanaryWritten
<1>8. plan' = R /\ R # <<>>
  BY <1>2 DEF R, CanaryOK
<1>9. Phase'
  BY <1>7, <1>8, CommitThere DEF Phase
<1>10. Occupied'
  <2>1. \A v : Has(plan, v) <=> plan[1].do = v \/ Has(R, v)
    BY TailHas DEF R
  <2> QED BY <1>7, <1>8, <2>1 DEF Universal, Occupied
<1> QED BY <1>4, <1>7, <1>8, <1>9, <1>10, WroteStep

\* A record of C3 is sealed.
MovedOK(x, t, st) ==
  /\ x \in User /\ x \in Slot /\ IsOld(Current[x], st) /\ InSlot(x) /\ WinAt(x) \in Side
  /\ t = Other(WinAt(x))

LEMMA ResealingThere ==
  ASSUME Types, Universal, NEW P, Resealing(P), NEW st, st = P[1], NEW x, NEW t, NEW r,
         MovedOK(x, t, st), r = Resealed1(Current[x], st), WroteOK(x, t, r, TRUE),
         Current' = Current, found' = found, FullNow' <=> FullNow, plan' = P
  PROVE  Resealing(plan)'
<1>1. /\ st \in ResealSteps /\ Live /\ Fresh(st.gen) /\ st.old = ledger.gens[st.id]
      /\ found[st.id] = st.from /\ goal = Put(found, st.id, st.key)
      /\ (\A y \in Where : goal[y] \in promised[y]) /\ FullNow /\ ram.state = "formatted"
      /\ \A y \in Slot : InSlot(y) \/ Moved(y, st)
  BY DEF Resealing, ResealFacts
<1>2. /\ ledger' = ledger /\ ram'.ledger = ram.ledger /\ ram'.state = ram.state
      /\ goal' = goal /\ promised' = promised /\ last'[x] = t /\ flash'[x][t] = r
      /\ ram'.table[x] = t /\ (\A y \in Slot \ {x} : ram'.table[y] = ram.table[y])
      /\ OneSide(flash, last, flash', last', x, t)
      /\ \A y \in Slot \ {x} : CleanPair(ledger, y, flash'[y], last'[y]) <=> CleanOf(ledger, y)
  BY DEF WroteOK
<1>3. \A y \in Slot : WinAt(y)' = WinAt(y)
  <2> SUFFICES ASSUME NEW y \in Slot PROVE WinAt(y)' = WinAt(y)
    OBVIOUS
  <2>1. TypeDisk' /\ TypeDisk
    BY DEF WroteOK, Types
  <2>2. CASE y # x
    BY <1>2, <2>2 DEF OneSide, WinAt
  <2>3. CASE y = x
    <3>1. t \in Side /\ t # WinAt(x)
      BY DEF MovedOK, Other, Side
    <3>2. ~Fit(ledger, x, r) /\ r \in Record
      <4>1. r.gen = st.gen
        BY DEF Resealed1, Rec
      <4>2. st.gen \in Nat
        BY <1>1 DEF ResealSteps
      <4>3. x \in Slot \ {Super} /\ r \in Record
        BY SlotType DEF MovedOK, WroteOK, Where
      <4> QED BY <1>1, <2>1, <4>1, <4>2, <4>3, UnfitIs
    <3>3. WinOf(flash', last', ledger) = WinOf(flash, last, ledger)
      <4>1. flash \in Flashes /\ last \in Lasts /\ t # Win(ledger, x, flash[x], last[x]) /\ x \in Slot
        BY <2>1, <3>1 DEF TypeDisk, WinAt, MovedOK
      <4>2. ~Fit(ledger, x, flash'[x][t])
        BY <1>2, <3>2
      <4> QED BY <1>2, <3>1, <4>1, <4>2, WeedSlot, SMTT(30)
    <3>4. WinOf(flash', last', ledger)[x] = WinOf(flash, last, ledger)[x]
      BY <3>3
    <3> QED BY <1>2, <2>3, <3>4 DEF WinOf, WinAt, MovedOK
  <2> QED BY <2>2, <2>3
<1>4. ASSUME NEW y \in Slot PROVE InSlot(y)' \/ Moved(y, st)'
  <2>1. WinAt(y)' = WinAt(y)
    BY <1>3
  <2>2. CASE y = x
    <3>1. IsOld(Current[x], st)'
      BY DEF MovedOK, IsOld
    <3>2. Resealed1(Current[x], st)' = Resealed1(Current[x], st)
      BY <1>2 DEF Resealed1
    <3> QED BY <1>2, <2>1, <2>2, <3>1, <3>2 DEF Moved, MovedOK
  <2>3. CASE y # x
    <3>1. ram'.table[y] = ram.table[y] /\ last'[y] = last[y] /\ flash'[y] = flash[y]
          /\ (Clean(y)' <=> Clean(y))
      BY <1>2, <2>3 DEF OneSide, Clean, CleanOf
    <3>2. Resealed1(Current[y], st)' = Resealed1(Current[y], st)
          /\ (IsOld(Current[y], st)' <=> IsOld(Current[y], st))
      BY <1>2 DEF Resealed1, IsOld
    <3> QED BY <1>1, <2>1, <3>1, <3>2 DEF Moved, InSlot
  <2> QED BY <2>2, <2>3
<1>5. Live' /\ Fresh(st.gen)'
  BY <1>1, <1>2 DEF Live, Fresh
<1>6. ResealFacts(st)'
  BY <1>1, <1>2, <1>4, <1>5 DEF ResealFacts
<1>7. Resealing(P)'
  BY <1>6 DEF Resealing
<1> QED BY <1>7

LEMMA ProgramReseal ==
  ASSUME Types, Universal, ResealingOne(plan), NEW st, st = plan[1], Wrote(st),
         plan' = Tail(plan), plan # <<>>, plan[1].do = "program"
  PROVE  IBody' /\ Allowed(found, found')
<1> DEFINE x == st.slot
           t == Target(x)
           r == Sealed(st)
           P == Tail(plan)
           c == Current[x]
<1>1. /\ Len(plan) = 10 /\ Resealing(P) /\ st \in Programs /\ st.later /\ x \in User /\ InSlot(x)
      /\ IsOld(c, plan[2]) /\ r = Resealed1(c, plan[2])
  BY DEF ResealingOne
<1>2. P # <<>> /\ plan[2] = P[1] /\ \A v : Has(plan, v) <=> plan[1].do = v \/ Has(P, v)
  <2>1. /\ Len(plan) \in Nat /\ P # <<>> <=> Len(plan) > 1
        /\ \A n \in 1 .. (Len(plan) - 1) : P[n] = plan[n + 1]
    BY TailHas
  <2> QED BY <1>1, <2>1, TailHas
<1>3. Live /\ Fresh(P[1].gen) /\ P[1] \in ResealSteps /\ TypeDisk
  BY <1>1 DEF Resealing, ResealFacts, Types
<1>4. WroteOK(x, t, r, TRUE)
  <2>1. st.later = TRUE
    BY <1>1, StepKinds
  <2> QED BY <1>3, <2>1, WroteIs
<1>5. MovedOK(x, t, P[1])
  <2>1. x \in Slot /\ ram.table[x] = WinAt(x) /\ c # Blank
    BY <1>1, SlotType DEF InSlot, IsOld
  <2>2. WinAt(x) \in Side
    BY <1>3, <2>1, CurrentType
  <2>3. t = Other(WinAt(x))
    BY <2>1, <2>2 DEF Target, Side
  <2> QED BY <1>1, <1>2, <2>1, <2>2, <2>3 DEF MovedOK
<1>6. ~Fit(ledger, x, r) /\ t # WinAt(x)
  <2>1. r.gen = P[1].gen
    BY <1>1, <1>2 DEF Resealed1, Rec
  <2>2. P[1].gen \in Nat
    BY <1>3 DEF ResealSteps
  <2>3. x \in Slot \ {Super} /\ r \in Record
    BY <1>1, <1>4, SlotType DEF WroteOK, Where
  <2>4. ~Fit(ledger, x, r)
    BY <1>3, <2>1, <2>2, <2>3, UnfitIs
  <2>5. t # WinAt(x)
    BY <1>5 DEF MovedOK, Other, Side
  <2> QED BY <2>4, <2>5
<1>7. r = Resealed1(Current[x], P[1])
  BY <1>1, <1>2
<1> HIDE DEF x, t, r, P, c
<1>8. /\ TypeDisk' /\ Dated' /\ Virgin' /\ FoundIs' /\ Right' /\ Allowed(found, found')
      /\ Current' = Current /\ Winners' = Winners /\ found' = found
  BY <1>3, <1>4, <1>6, WroteAhead
<1>9. FullNow' <=> FullNow
  BY <1>4, <1>8 DEF FullNow, WroteOK
<1>10. plan' = P
  BY DEF P
<1>11. Resealing(plan)'
  BY <1>1, <1>4, <1>5, <1>7, <1>8, <1>9, <1>10, ResealingThere
<1>12. Phase'
  BY <1>11 DEF Phase, Ahead1
<1>13. Occupied'
  BY <1>2, <1>9, <1>10 DEF Universal, Occupied
<1> QED BY <1>2, <1>4, <1>8, <1>10, <1>12, <1>13, WroteStep

\* The first canary is sealed, where there was none.
LEMMA FirstRetireThere ==
  ASSUME NEW P, NEW R, Len(P) >= 2, P[1] = RetireStep(First), Tail(P) = R, plan' = P,
         Target(First)' = "A", flash'[First]["B"] = Blank, Current'[First] = Blank,
         NEW g, NEW T, NEW l, NEW e, CommitOK(R, g, T, l, e)
  PROVE  FirstRetire(plan)'
<1>1. Commit(R)'
  BY CommitThen
<1>2. FirstRetire(P)'
  BY <1>1 DEF FirstRetire, RetireStep
<1> QED BY <1>2

LEMMA ProgramFirst ==
  ASSUME Types, Universal, FirstCanary(plan), NEW st, st = plan[1], Wrote(st),
         plan' = Tail(plan), plan # <<>>, plan[1].do = "program"
  PROVE  IBody' /\ Allowed(found, found')
<1> DEFINE x == st.slot
           t == Target(x)
           r == Sealed(st)
           P == Tail(plan)
           R == Tail(P)
           g == R[1]
           T == Tail(R)
           l == WithGen(ledger, g)
           e == Put(CurrentOf(l), g.id, r)
<1>1. /\ Len(plan) >= 3 /\ CommitAfter(st, R) /\ ~st.later /\ x = First
      /\ plan[2] = RetireStep(First) /\ InSlot(First) /\ Current[First] = Blank
  BY DEF FirstCanary, RetireStep
<1>2. /\ P \in Seq(Steps) /\ P # <<>> /\ Len(P) = Len(plan) - 1 /\ P[1] = plan[2]
      /\ Len(plan) \in Nat /\ \A v : Has(plan, v) <=> plan[1].do = v \/ Has(P, v)
  BY <1>1, TailHas, TailIs DEF Types
<1>3. R \in Seq(Steps)
  BY <1>2, TailIs
<1>4. CanaryOK(st, R, g, T, l, e)
  BY <1>1, <1>3, CanaryIs
<1>5. Live /\ x = g.id /\ st \in Programs /\ Gen(g) /\ TypeDisk
  BY <1>4 DEF CanaryOK, Types
<1>6. WroteOK(x, t, r, FALSE)
  <2>1. st.later = FALSE
    BY <1>1, <1>5, StepKinds
  <2> QED BY <1>5, <2>1, WroteIs
<1>7. /\ First \in Slot /\ ram.table[First] = "none" /\ WinAt(First) = "none" /\ t = "A"
      /\ flash[First]["A"] = Blank /\ flash[First]["B"] = Blank
  <2>1. First \in Slot
    BY SlotType
  <2>2. WinAt(First) = "none" /\ ram.table[First] = WinAt(First)
    BY <1>1, <1>5, <2>1, CurrentType DEF InSlot
  <2>3. Target(First) = "A"
    BY <2>2 DEF Target
  <2>4. \A s \in Side : flash[First][s] = Blank
    BY <1>1, <2>2 DEF InSlot, Clean, CleanOf, CleanPair, WinAt, Side
  <2> QED BY <1>1, <2>1, <2>2, <2>3, <2>4 DEF Side
<1>8. flash'[First]["B"] = Blank /\ flash'[First]["A"] = r /\ last'[First] = "A"
      /\ Target(First)' = "A"
  <2>1. OneSide(flash, last, flash', last', First, "A") /\ flash'[First]["A"] = r
        /\ last'[First] = "A" /\ ram' = ram
    BY <1>1, <1>6, <1>7 DEF WroteOK
  <2> QED BY <1>7, <2>1 DEF OneSide, Other, Target
<1>9. CleanPair(l, First, flash'[First], last'[First])
  <2>1. Fit(l, First, r)
    <3>1. /\ g \in [do : {"gen"}, id : Identity, gen : Nat] /\ Fresh(g.gen) /\ r.gen = g.gen
          /\ r.epoch = ledger.epoch /\ r \in Record
      BY <1>4, <1>5, <1>6, SealedIs DEF CanaryOK, Gen, WroteOK, Live
    <3>2. l.epoch = ledger.epoch /\ l.gens[g.id] = g.gen
      BY <1>5, <3>1, GenLedger
    <3> HIDE DEF l, g, r
    <3>3. g.gen # 0
      <4>1. \A j \in Identity : ledger.gens[j] \in Nat /\ ledger.gens[j] < g.gen
        BY <1>5, <3>1, LedgerType DEF Fresh
      <4> QED BY <3>1, <4>1, SlotType
    <3>4. g.id = First /\ First \in Identity
      BY <1>1, <1>5, SlotType DEF g
    <3> QED BY <3>1, <3>2, <3>3, <3>4, FitIs
  <2>2. flash'[First][last'[First]] = r
    BY <1>8
  <2> HIDE DEF l, r
  <2>3. Win(l, First, flash'[First], last'[First]) = "A"
    BY <1>8, <2>1, <2>2 DEF Win
  <2> QED BY <1>8, <2>3 DEF CleanPair, Side
<1> HIDE DEF x, t, r, P, R, g, T, l, e
<1>10. /\ TypeDisk' /\ Dated' /\ Virgin' /\ FoundIs' /\ Right' /\ Allowed(found, found')
       /\ Current' = Current /\ CommitOK(R, g, T, l, e) /\ (FullNow' <=> FullNow)
  <2>1. r = Sealed(st) /\ WroteOK(g.id, t, r, FALSE) /\ t # WinAt(g.id) /\ g.id = First
    BY <1>1, <1>5, <1>6, <1>7 DEF r
  <2> QED BY <1>4, <1>9, <2>1, CanaryWritten
<1>11. plan' = P /\ R = Tail(P)
  BY DEF P, R
<1>12. FirstRetire(plan)'
  <2>1. Current'[First] = Blank /\ Len(P) >= 2 /\ P[1] = RetireStep(First)
    BY <1>1, <1>2, <1>10
  <2> QED BY <1>8, <1>10, <1>11, <2>1, FirstRetireThere
<1>13. Phase'
  BY <1>12 DEF Phase
<1>14. Occupied'
  BY <1>2, <1>10, <1>11 DEF Universal, Occupied
<1> QED BY <1>2, <1>6, <1>10, <1>11, <1>13, <1>14, WroteStep

\* The superblock of a format.
LEMMA ProgramFormat ==
  ASSUME Types, Universal, NEW p \in Pin, FormatFacts(p), Formatting2(p, plan), NEW st,
         st = plan[1], Wrote(st), plan' = Tail(plan), plan # <<>>, plan[1].do = "program"
  PROVE  IBody' /\ Allowed(found, found')
<1> DEFINE t == Target(Super)
           r == Sealed(st)
           b == ledger.policy
           P == Tail(plan)
           e == Put(Current, Super, r)
<1>1. /\ plan = Tail(Tail(FormatPlan(p, b))) /\ Live /\ ledger.used < GenCells /\ Clean(Super)
      /\ ram.table = Winners
  BY DEF Formatting2
<1>2. st = NowStep(Super, Super, 0, b) /\ P # <<>>
  BY <1>1, FormatPlanIs DEF NowStep
<1>3. Super \in Slot /\ TypeDisk /\ b \in Policies
  BY SlotType, LedgerType DEF Types
<1>4. StepIs(st, Super, Super, 0, b) /\ ~st.later
  BY <1>2, <1>3, NowStepIs DEF Key, Body
<1>5. WroteOK(Super, t, r, FALSE)
  <2>1. st.slot = Super /\ st.later = FALSE
    BY <1>4, StepKinds DEF StepIs
  <2> QED BY <1>1, <2>1, WroteIs
<1>6. r \in Record /\ r.body = b /\ r.epoch = ledger.epoch
  BY <1>1, <1>4, SealedIs DEF StepIs, Live
<1> HIDE DEF t, r, b, P
<1>7. Fit(ledger, Super, r)
  BY <1>6, FitIs
<1>8. Owned(e, ledger.gens) /\ FoundOf(e, ledger.gens) = found /\ Ahead(e, ledger)
      /\ \A x \in Slot \ {Super} : e[x] = Current[x]
  <2>1. Owned(Current, ledger.gens) /\ found = FoundOf(Current, ledger.gens)
    BY <1>3, Facts
  <2>2. Owned(e, ledger.gens) /\ FoundOf(e, ledger.gens) = FoundOf(Current, ledger.gens)
    BY <1>3, <1>6, <2>1, PutSuper
  <2>3. \A x \in Slot \ {Super} : e[x] = Current[x]
    <3>1. Current \in [Slot -> Record \cup {Blank}]
      BY <1>3, CurrentType
    <3> QED BY <1>3, <1>6, <3>1, PutRecord
  <2>4. \A x \in (Identity \cup User) \ {First} : e[x] = Current[x]
    BY <2>3, SlotType, NamesAssumption
  <2> HIDE DEF e
  <2> QED BY <2>1, <2>2, <2>3, <2>4, AheadSame
<1>9. /\ TypeDisk' /\ Dated' /\ Virgin' /\ FoundIs' /\ Right' /\ Allowed(found, found')
      /\ Current' = e /\ Winners' = Put(Winners, Super, t) /\ found' = found
  BY <1>1, <1>5, <1>7, <1>8, WroteHere
<1>10. /\ ledger' = ledger /\ ram' = ram /\ sessions' = sessions /\ goal' = goal
       /\ promised' = promised /\ gap' = gap
       /\ \A y \in Slot \ {Super} : CleanPair(ledger, y, flash'[y], last'[y]) <=> CleanOf(ledger, y)
  BY <1>5 DEF WroteOK
<1> HIDE DEF e
<1>11. WinAt(Super)' = Target(Super)' /\ \A y \in Slot \ {Super} : ram'.table[y] = WinAt(y)'
  <2>1. Winners \in [Slot -> Side \cup {"none"}]
    BY <1>3, CurrentType DEF Tables
  <2>2. Winners'[Super] = t /\ \A y \in Slot \ {Super} : Winners'[y] = Winners[y]
    BY <1>3, <1>9, <2>1 DEF Put
  <2>3. \A y \in Slot : Winners'[y] = WinAt(y)'
    BY DEF Winners, WinOf, WinAt
  <2>4. Target(Super)' = t
    BY <1>10 DEF Target, t
  <2> QED BY <1>1, <1>3, <1>10, <2>2, <2>3, <2>4
<1>12. FormatFacts(p)'
  <2>1. \A x \in Slot \ {Super} : Clean(x)'
    BY <1>10 DEF FormatFacts, Clean, CleanOf
  <2>2. \A x \in Slot \ {Super, First} : Current'[x] = Blank
    BY <1>8, <1>9 DEF FormatFacts
  <2> QED BY <1>9, <1>10, <2>1, <2>2 DEF FormatFacts
<1>13. Formatting3(p, plan)'
  <2>1. FormatPlan(p, ledger.policy)' = FormatPlan(p, ledger.policy)
    BY <1>10 DEF FormatPlan, FormatGen
  <2>2. plan' = Tail(Tail(Tail(FormatPlan(p, ledger.policy)')))
    BY <1>1, <2>1 DEF b
  <2>3. Live' /\ ledger'.used < GenCells
    BY <1>1, <1>10 DEF Live
  <2> QED BY <1>11, <2>2, <2>3 DEF Formatting3
<1>14. Phase'
  BY <1>12, <1>13 DEF Phase, Formatting
<1>15. Occupied'
  <2>1. \A v : Has(plan, v) <=> plan[1].do = v \/ Has(P, v)
    BY TailHas DEF P
  <2>2. FullNow => FullNow'
    <3>1. ASSUME NEW x \in Slot, Current[x] # Blank PROVE e[x] # Blank
      <4>1. Current \in [Slot -> Record \cup {Blank}]
        BY <1>3, CurrentType
      <4>2. e[Super] = r /\ r # Blank
        BY <1>3, <1>6, <4>1, PutRecord DEF e
      <4> QED BY <1>8, <3>1, <4>2
    <3> QED BY <1>9, <1>10, <3>1 DEF FullNow, FullIn
  <2> QED BY <2>1, <2>2 DEF Universal, Occupied, P
<1>16. plan' # <<>>
  BY <1>2 DEF P
<1> QED BY <1>5, <1>9, <1>14, <1>15, <1>16, WroteStep

LEMMA StepProgram ==
  ASSUME IBody, DoProgram PROVE IBody' /\ Allowed(found, found')
<1>1. plan # <<>> /\ plan[1].do = "program" /\ plan' = Tail(plan)
  BY DEF DoProgram, Now, Next1
<1>2. Types /\ Universal /\ Phase
  BY <1>1, InPhase
<1>3. \/ Seal(plan) \/ Canary(plan) \/ ResealingOne(plan) \/ FirstCanary(plan)
      \/ \E p \in Pin : FormatFacts(p) /\ Formatting2(p, plan)
  BY <1>1, <1>2, PhaseHead
<1>4. plan[1] \in Programs
  <2>1. plan[1] \in Steps
    BY <1>1, <1>2, TailHas
  <2> QED BY <1>1, <2>1 DEF Steps, ResealSteps
<1>5. Wrote(plan[1])
  BY <1>4 DEF DoProgram, Wrote, ghost
<1>6. ASSUME NEW st, st = plan[1] PROVE IBody' /\ Allowed(found, found')
  <2>1. Wrote(st)
    BY <1>5, <1>6
  <2> QED BY <1>1, <1>2, <1>3, <1>6, <2>1, ProgramSeal, ProgramCanary, ProgramReseal, ProgramFirst,
             ProgramFormat
<1> QED BY <1>6

-----------------------------------------------------------------------------
(***************************************************************************)
(* A cell of the ledger is committed.                                      *)
(***************************************************************************)
LEMMA GenNextIs ==
  ASSUME NEW l, l.gens \in [Identity -> Nat]
  PROVE  GenNext(l) \in Nat /\ GenNext(l) # 0 /\ \A j \in Identity : l.gens[j] < GenNext(l)
<1> DEFINE G == {l.gens[i] : i \in Identity}
           m == CHOOSE g \in G : \A j \in Identity : l.gens[j] <= g
<1>1. G \in SUBSET Nat /\ G # {}
  BY SlotType
<1>2. PICK b \in Nat : \A i \in Identity : l.gens[i] <= b
  BY VaultAssumption, FamilyBounded
<1>3. \E g \in G : \A k \in G : k <= g
  <2>1. \A k \in G : k <= b
    BY <1>2
  <2> HIDE DEF G
  <2> QED BY <1>1, <2>1, GreatestNatural
<1>4. \E g \in G : \A j \in Identity : l.gens[j] <= g
  BY <1>3
<1>5. m \in G /\ \A j \in Identity : l.gens[j] <= m
  BY <1>4
<1>6. GenNext(l) = 1 + m
  BY DEF GenNext
<1>7. m \in Nat /\ \A j \in Identity : l.gens[j] \in Nat
  BY <1>1, <1>5
<1> HIDE DEF m, G
<1> QED BY <1>5, <1>6, <1>7

\* Where the ledger's cell is all that has changed, and what the flash then
\* amounts to was right ahead.
LEMMA CellStep ==
  ASSUME Types, Universal, plan # <<>>, plan[1].do # "refresh", plan' = Tail(plan), plan' # <<>>,
         TypeDisk', Dated', Virgin', FoundIs', Right', ram' \in Memory, ram'.state = ram.state,
         UNCHANGED <<sessions, goal, promised, gap, hits>>, Known', Occupied', Phase'
  PROVE  IBody'
<1>1. plan' \in Seq(Steps) /\ \A v : Has(plan, v) <=> plan[1].do = v \/ Has(plan', v)
  BY TailHas
<1>2. ram.state # "off"
  BY Awake
<1>3. Unread' /\ Mounting'
  BY <1>1, <1>2 DEF Universal, Unread, Mounting
<1>4. /\ sessions' \in SUBSET Session /\ promised' = [y \in Where |-> promised'[y]]
      /\ gap' \in BOOLEAN /\ hits' \in Nat
  BY DEF Types
<1> QED BY <1>1, <1>3, <1>4, AnyStep

LEMMA StepGen ==
  ASSUME IBody, DoGen PROVE IBody' /\ Allowed(found, found')
<1> DEFINE g == plan[1]
           T == Tail(plan)
           l == WithGen(ledger, g)
           e == CurrentOf(l)
           f == FoundOf(e, l.gens)
<1>1. /\ plan # <<>> /\ g.do = "gen" /\ plan' = T /\ ledger' = l
      /\ ram' = [ram EXCEPT !.ledger.gens[g.id] = g.gen, !.ledger.used = ledger'.used]
      /\ UNCHANGED <<flash, last, sessions, goal, promised, gap, hits>> /\ Observe
  BY DEF DoGen, Now, Next1, ghost
<1>2. Types /\ Universal /\ Phase /\ TypeDisk
  BY <1>1, InPhase DEF Types
<1>3. Commit(plan)
  BY <1>1, <1>2, PhaseHead
<1>4. /\ Len(plan) >= 2 /\ g \in [do : {"gen"}, id : Identity, gen : Nat] /\ Live
      /\ plan[2].do = "refresh" /\ Ahead(e, l) /\ Needs(T, e, f, goal, sessions, gap)
      /\ Swept(T, l, Slot)
  BY <1>3 DEF Commit, Gen, Ready
<1>5. /\ l \in Ledgers /\ l.epoch = ledger.epoch /\ l.live = ledger.live
      /\ l.gens = [ledger.gens EXCEPT ![g.id] = g.gen] /\ l.used = ledger.used + 1
      /\ l.policy = ledger.policy
  BY <1>2, <1>4, GenLedger
<1>6. T \in Seq(Steps) /\ T # <<>> /\ T[1] = plan[2]
      /\ \A v : Has(plan, v) <=> "gen" = v \/ Has(T, v)
  BY <1>1, <1>2, <1>4, TailHas
<1> HIDE DEF l
<1>7. /\ ram' \in Memory /\ ram'.ledger = l /\ ram'.state = ram.state /\ ram'.policy = ram.policy
      /\ ram'.tamper = ram.tamper /\ ram'.table = ram.table
  <2>1. ram.ledger = ledger /\ ram \in Memory
    BY <1>2, <1>4 DEF Live, Types
  <2> DEFINE h == [ram.ledger EXCEPT !.gens = [ram.ledger.gens EXCEPT ![g.id] = g.gen],
                                     !.used = ledger'.used]
  <2>2. ram' = [ram EXCEPT !.ledger = h]
    BY <1>1, <1>2, <2>1 DEF Memory, Ledgers
  <2>3. h = l
    <3>1. ledger \in Ledgers /\ l \in Ledgers /\ ledger'.used = l.used
      BY <1>1, <1>2, <1>5 DEF TypeDisk
    <3> QED BY <1>5, <2>1, <3>1 DEF Ledgers
  <2> HIDE DEF h
  <2> QED BY <1>5, <2>1, <2>2, <2>3 DEF Memory
<1>8. TypeDisk' /\ Dated' /\ Virgin'
  BY <1>1, <1>2, <1>4, <1>5 DEF TypeDisk, Universal, Dated, Virgin, Live
<1>9. Current' = e
  BY <1>1 DEF Current, CurrentOf
<1> HIDE DEF e, f
<1>10. /\ FoundIs' /\ Right' /\ found' = FoundOf(e, l.gens) /\ Allowed(found, found')
  BY <1>1, <1>4, <1>7, <1>8, <1>9, Arrive
<1>11. Known'
  BY <1>1, <1>2, <1>4, <1>5, <1>7 DEF Universal, Known, PolicyOK, Live
<1>12. Occupied'
  BY <1>1, <1>4, <1>6, <1>9, <1>10 DEF Occupied, FullNow, Needs, f
<1>13. Settle(plan)'
  <2>1. Needs(T, Current', found', goal', sessions', gap')
    BY <1>1, <1>4, <1>9, <1>10 DEF f
  <2>2. Has(T, "cleanup") \/ \A x \in Slot : Clean(x)'
    BY <1>1, <1>4 DEF Swept, Clean, CleanOf
  <2>3. T[1].do = "refresh" /\ ledger'.live
    BY <1>1, <1>4, <1>5, <1>6 DEF Live
  <2> HIDE DEF T
  <2> QED BY <1>1, <2>1, <2>2, <2>3, SettleThere
<1> QED BY <1>1, <1>2, <1>6, <1>7, <1>8, <1>10, <1>11, <1>12, <1>13, CellStep DEF Phase

\* A wipe is committed: the flash amounts to nothing, as was right ahead.
EpochOK(l) ==
  /\ l \in Ledgers /\ l.live /\ TypeDisk' /\ Dated' /\ Virgin'
  /\ Current' = NoRecord /\ \A x \in Slot : WinAt(x)' = "none"
  /\ FoundOf(NoRecord, l.gens) = Nobody /\ Ahead(NoRecord, l)

LEMMA EpochIs ==
  ASSUME Types, Universal, Epoch(plan), flash' = flash, last' = last,
         ledger' = WithEpoch(ledger)
  PROVE  EpochOK(WithEpoch(ledger))
<1> DEFINE l == WithEpoch(ledger)
<1>1. /\ flash' = flash /\ last' = last /\ ledger' = l
  OBVIOUS
<1>2. Types /\ Universal /\ TypeDisk
  BY DEF Types
<1>4. Live /\ \A x \in Where : Nobody[x] \in promised[x]
  BY DEF Epoch
<1>5. /\ l \in Ledgers /\ l.epoch = ledger.epoch + 1 /\ l.live = ledger.live
      /\ l.gens = ledger.gens /\ l.policy = ledger.policy /\ ledger.epoch \in Nat
      /\ ledger \in Ledgers
  BY <1>2 DEF TypeDisk, Ledgers, WithEpoch
<1> HIDE DEF l
<1>8. TypeDisk' /\ Dated' /\ Virgin'
  <2>1. TypeDisk'
    BY <1>1, <1>2, <1>5 DEF TypeDisk
  <2>2. Virgin'
    BY <1>1, <1>4, <1>5 DEF Virgin, Live
  <2>3. Dated'
    <3> SUFFICES ASSUME NEW x \in Slot, NEW s \in Side, flash[x][s].kind = "record"
                 PROVE  flash[x][s].epoch <= ledger.epoch + 1
      BY <1>1, <1>5 DEF Dated
    <3>1. flash[x][s].epoch <= ledger.epoch
      BY <1>2 DEF Universal, Dated
    <3>2. flash[x][s].epoch \in Nat
      <4>1. flash[x][s] \in Cells
        BY <1>2 DEF TypeDisk, Flashes, Pairs
      <4> QED BY <4>1 DEF Cells, Record, Blank, Garbage
    <3> QED BY <1>5, <3>1, <3>2
  <2> QED BY <2>1, <2>2, <2>3
<1>9. \A x \in Slot : \A s \in Side : ~Fit(l, x, flash[x][s])
  <2> SUFFICES ASSUME NEW x \in Slot, NEW s \in Side, Fit(l, x, flash[x][s]) PROVE FALSE
    OBVIOUS
  <2>1. flash[x][s].kind = "record" /\ flash[x][s].epoch = ledger.epoch + 1
    BY <1>5 DEF Fit, IsCandidate
  <2>2. flash[x][s].epoch <= ledger.epoch
    BY <1>2, <2>1 DEF Universal, Dated
  <2> QED BY <1>5, <2>1, <2>2
<1>10. Current' = NoRecord /\ \A x \in Slot : WinAt(x)' = "none"
  <2>1. ASSUME NEW x \in Slot
        PROVE  Top(l, x, flash[x], last[x]) = Blank /\ Win(l, x, flash[x], last[x]) = "none"
    <3>1. last[x] \in Side /\ Other(last[x]) \in Side
      BY <1>2 DEF TypeDisk, Lasts, Other, Side
    <3> QED BY <1>9, <3>1 DEF Top, Win
  <2> QED BY <1>1, <2>1 DEF Current, CurOf, NoRecord, WinAt
<1>11. /\ Owned(Current, ledger.gens) /\ SessOK(sessions, ledger, found)
       /\ ledger.gens \in [Identity -> Nat] /\ Uniq(ledger.gens)
  BY <1>2, Facts DEF Owned
<1>12. Owned(NoRecord, l.gens) /\ FoundOf(NoRecord, l.gens) = Nobody
  BY <1>5, <1>11, WipedIs
<1>13. SessOK(sessions, l, Nobody) /\ \A s \in sessions : ~IsCurrent(s, l)
  BY <1>2, <1>11, SessEpoch DEF l, Types, TypeDisk
<1>14. Ahead(NoRecord, l)
  <2>1. BlankOK(ram.state, sessions, NoRecord, l)
    BY <1>13, SlotType DEF BlankOK, NoRecord, Where
  <2> QED BY <1>4, <1>12, <1>13, <2>1 DEF Ahead, Sound, Allowed
<1> QED BY <1>4, <1>5, <1>8, <1>10, <1>12, <1>14 DEF EpochOK, Live, l

LEMMA StepEpoch ==
  ASSUME IBody, DoEpoch PROVE IBody' /\ Allowed(found, found')
<1> DEFINE T == Tail(plan)
           K == Tail(T)
           l == WithEpoch(ledger)
<1>1. /\ plan # <<>> /\ plan[1].do = "epoch" /\ plan' = T /\ ledger' = l
      /\ ram' = [ram EXCEPT !.ledger = l]
      /\ UNCHANGED <<flash, last, sessions, goal, promised, gap, hits>> /\ Observe
  BY DEF DoEpoch, Now, Next1, ghost
<1>2. Types /\ Universal /\ Phase /\ TypeDisk
  BY <1>1, InPhase DEF Types
<1>3. Epoch(plan)
  BY <1>1, <1>2, PhaseHead
<1>4. /\ Len(plan) >= 3 /\ plan[2].do = "erase" /\ plan[3].do = "refresh" /\ Live
      /\ Needs(K, NoRecord, Nobody, goal, sessions, gap)
      /\ \A x \in Where : Nobody[x] \in promised[x]
  BY <1>3 DEF Epoch, Ready
<1>5. /\ l \in Ledgers /\ l.epoch = ledger.epoch + 1 /\ l.live = ledger.live
      /\ l.gens = ledger.gens /\ l.policy = ledger.policy /\ ledger.epoch \in Nat
      /\ ledger \in Ledgers
  BY <1>2 DEF TypeDisk, Ledgers, WithEpoch
<1>6. /\ T \in Seq(Steps) /\ T # <<>> /\ T[1] = plan[2] /\ T[2] = plan[3] /\ Len(T) >= 2
      /\ \A v : Has(plan, v) <=> "epoch" = v \/ Has(T, v)
  <2>1. /\ T \in Seq(Steps) /\ Len(T) = Len(plan) - 1 /\ Len(plan) \in Nat \ {0}
        /\ \A n \in 1 .. (Len(plan) - 1) : T[n] = plan[n + 1]
    BY <1>1, <1>2, TailIs DEF Types
  <2> QED BY <1>1, <1>2, <1>4, <2>1, TailHas
<1> HIDE DEF l
<1>7. /\ ram' \in Memory /\ ram'.ledger = l /\ ram'.state = ram.state /\ ram'.policy = ram.policy
      /\ ram'.tamper = ram.tamper /\ ram'.table = ram.table
  BY <1>1, <1>2, <1>5 DEF Memory, Types
<1>8. EpochOK(l)
  BY <1>1, <1>2, <1>3, EpochIs DEF l
<1>15. FoundIs' /\ Right' /\ found' = Nobody /\ Allowed(found, found')
  BY <1>1, <1>7, <1>8, Arrive DEF EpochOK
<1>16. Known'
  BY <1>1, <1>2, <1>4, <1>5, <1>7 DEF Universal, Known, PolicyOK, Live
<1>17. Occupied'
  <2>1. found'[First] = NoPin
    BY <1>15, SlotType DEF Nobody
  <2> QED BY <2>1 DEF Occupied, FullNow, FullIn
<1>18. Erasing(plan)'
  <2>1. Ready(Tail(plan), Current, found)'
    BY <1>1, <1>4, <1>8, <1>15 DEF Ready, EpochOK
  <2>2. ram'.ledger = ledger' /\ ledger'.live
    BY <1>1, <1>4, <1>5, <1>7 DEF Live
  <2> QED BY <1>1, <1>4, <1>6, <1>8, <2>1, <2>2 DEF Erasing, EpochOK
<1> QED BY <1>1, <1>2, <1>6, <1>7, <1>8, <1>15, <1>16, <1>17, <1>18, CellStep DEF Phase, EpochOK

\* The record that is to follow a policy.
LEMMA SealAmended ==
  ASSUME NEW R, Seal(R), Tail(Tail(R))[1].do = "refresh",
         UNCHANGED <<flash, last, found, sessions, goal, promised, gap>>,
         ram'.ledger = ledger', ledger'.live, ram'.table = ram.table, ram'.state = ram.state,
         ledger'.epoch = ledger.epoch, ledger'.gens = ledger.gens,
         Current' = Current, Winners' = Winners
  PROVE  Seal(R)'
<1> DEFINE st == R[1]
           e == Put(Current, st.slot, Sealed(st))
           f == FoundOf(e, ledger.gens)
           K == Tail(Tail(R))
<1>1. /\ Len(R) >= 3 /\ st \in Programs /\ ~st.later /\ R[2] = [do |-> "retire", slot |-> st.slot]
      /\ Live /\ ram.table = Winners /\ Fit(ledger, st.slot, Sealed(st))
      /\ Ahead(e, ledger) /\ Ready(K, e, f) /\ Swept(K, ledger, Slot \ {st.slot})
  BY DEF Seal
<1>2. Sealed(st)' = Sealed(st) /\ Live' /\ Alike(ledger, ledger')
  BY <1>1 DEF Sealed, Live, Alike
<1>3. Fit(ledger', st.slot, Sealed(st)) /\ Swept(K, ledger', Slot \ {st.slot})
  BY <1>1, <1>2, AlikeIs
<1>4. e' = e /\ f' = f
  BY <1>2
<1>5. Sound(e, ledger', promised, sessions, ram.state) /\ Allowed(found, f)
  BY <1>1, SoundLess DEF Ahead
<1> HIDE DEF e, f
<1>6. Ahead(e, ledger)'
  <2>1. Sound(e', ledger', promised', sessions', ram'.state)
    BY <1>4, <1>5
  <2>2. Allowed(found', FoundOf(e', ledger'.gens))
    BY <1>4, <1>5 DEF f
  <2> QED BY <2>1, <2>2 DEF Ahead
<1>7. Ready(K, e, f)'
  BY <1>1, <1>4 DEF Ready
<1>8. Swept(K, ledger, Slot \ {st.slot})'
  BY <1>3 DEF Swept, CleanOf
<1>9. RamFor(K, f)'
  BY DEF RamFor
<1>10. Fit(ledger, st.slot, Sealed(st))'
  BY <1>2, <1>3
<1> QED BY <1>1, <1>2, <1>6, <1>7, <1>8, <1>9, <1>10 DEF Seal, e, f

LEMMA StepPolicy ==
  ASSUME IBody, DoPolicy PROVE IBody' /\ Allowed(found, found')
<1> DEFINE p == plan[1].policy
           T == Tail(plan)
<1>1. /\ plan # <<>> /\ plan[1].do = "policy" /\ plan' = T /\ ledger' = WithPolicy(ledger, p)
      /\ ram' = [ram EXCEPT !.ledger = ledger', !.policy = p]
      /\ UNCHANGED <<flash, last, sessions, goal, promised, gap, hits>> /\ Observe
  BY DEF DoPolicy, Now, Next1, ghost
<1>2. Types /\ Universal /\ Phase /\ TypeDisk
  BY <1>1, InPhase DEF Types
<1>3. Amend(plan)
  BY <1>1, <1>2, PhaseHead
<1>4. /\ Len(plan) >= 2 /\ p \in Policies /\ Seal(T) /\ Tail(Tail(T))[1].do = "refresh" /\ Live
  BY <1>3 DEF Amend, Seal
<1>5. T \in Seq(Steps) /\ T # <<>> /\ \A v : Has(plan, v) <=> "policy" = v \/ Has(T, v)
  BY <1>1, <1>2, <1>4, TailHas
<1>6. /\ ledger' \in Ledgers /\ ledger'.epoch = ledger.epoch /\ ledger'.gens = ledger.gens
      /\ ledger'.live /\ ledger.live /\ ledger'.policy = p
  BY <1>1, <1>2, <1>4 DEF TypeDisk, Ledgers, WithPolicy, Live
<1> HIDE DEF p
<1>7. /\ ram' \in Memory /\ ram'.ledger = ledger' /\ ram'.policy = p /\ ram'.state = ram.state
      /\ ram'.table = ram.table
  BY <1>1, <1>2, <1>4, <1>6 DEF Types, Memory
<1>8. TypeDisk' /\ Dated' /\ Virgin' /\ Current' = Current /\ Winners' = Winners
  BY <1>1, <1>2, <1>6, LedgerSame DEF Universal
<1>9. FoundIs' /\ Right' /\ found' = found /\ Allowed(found, found')
  BY <1>1, <1>2, <1>6, <1>7, <1>8, Stay
<1>10. Known'
  BY <1>6, <1>7 DEF Known, PolicyOK
<1>11. Occupied'
  BY <1>1, <1>2, <1>5, <1>8, <1>9 DEF Universal, Occupied, FullNow
<1>12. Seal(plan)'
  <2>1. ASSUME NEW R, R = T PROVE Seal(plan)'
    <3>1. Seal(R)'
      BY <1>1, <1>4, <1>6, <1>7, <1>8, <1>9, <2>1, SealAmended
    <3> QED BY <1>1, <2>1, <3>1
  <2> QED BY <2>1
<1> QED BY <1>1, <1>2, <1>5, <1>7, <1>8, <1>9, <1>10, <1>11, <1>12, CellStep DEF Phase, Ahead1

LEMMA FormatHeadIs ==
  ASSUME Types, Universal, ram.ledger = ledger
  PROVE  /\ FormatHead \in Ledgers /\ FormatHead.live /\ FormatHead.used = 0
         /\ FormatHead.epoch = ledger.epoch /\ FormatHead.gens = ledger.gens
<1>1. CASE ledger.live
  <2>1. ledger \in Ledgers /\ ledger.policy.gen \in Nat
    BY LedgerType DEF Types, TypeDisk
  <2>2. [val |-> Strict, gen |-> ledger.policy.gen + 1] \in Policies
    BY <2>1 DEF Policies
  <2>3. FormatHead = [ledger EXCEPT !.used = 0,
                                    !.policy = [val |-> Strict, gen |-> ledger.policy.gen + 1]]
    BY <1>1 DEF FormatHead
  <2> QED BY <1>1, <2>1, <2>2, <2>3 DEF Ledgers
<1>2. CASE ~ledger.live
  <2>1. ledger = NoLedger /\ ledger \in Ledgers
    BY <1>2 DEF Universal, Virgin, Types, TypeDisk
  <2>2. FormatHead = [NoLedger EXCEPT !.live = TRUE]
    BY <1>2 DEF FormatHead
  <2> QED BY <2>1, <2>2 DEF NoLedger, Ledgers
<1> QED BY <1>1, <1>2

LEMMA StepHead ==
  ASSUME IBody, DoHead PROVE IBody' /\ Allowed(found, found')
<1> DEFINE T == Tail(plan)
           l == FormatHead
<1>1. /\ plan # <<>> /\ plan[1].do = "head" /\ plan' = T /\ ledger' = l
      /\ ram' = [ram EXCEPT !.ledger = l]
      /\ UNCHANGED <<flash, last, sessions, goal, promised, gap, hits>> /\ Observe
  BY DEF DoHead, Now, Next1, ghost
<1>2. Types /\ Universal /\ Phase /\ TypeDisk
  BY <1>1, InPhase DEF Types
<1>3. PICK p \in Pin : FormatFacts(p) /\ Formatting0(p, plan)
  BY <1>1, <1>2, PhaseHead
<1>4. /\ plan = FormatPlan(p, l.policy) /\ ram.table = Winners /\ ram.state = "blank"
      /\ Clean(Super) /\ ram.ledger = ledger
  BY <1>3 DEF Formatting0, FormatFacts
<1>5. l \in Ledgers /\ l.live /\ l.used = 0 /\ l.epoch = ledger.epoch /\ l.gens = ledger.gens
  BY <1>2, <1>4, FormatHeadIs
<1> HIDE DEF l
<1>6. T \in Seq(Steps) /\ T # <<>> /\ \A v : Has(plan, v) <=> "head" = v \/ Has(T, v)
  BY <1>1, <1>2, <1>4, TailHas, FormatPlanIs
<1>7. ram' \in Memory /\ ram'.ledger = l /\ ram'.state = ram.state /\ ram'.table = ram.table
  BY <1>1, <1>2, <1>5 DEF Types, Memory
<1>8. TypeDisk' /\ Dated' /\ Virgin'
  BY <1>1, <1>2, <1>5 DEF TypeDisk, Universal, Dated, Virgin
<1>9. Current' = Current /\ Winners' = Winners
  BY <1>1, <1>5, SameCur DEF Current, Winners
<1>10. FoundIs' /\ Right' /\ found' = found /\ Allowed(found, found')
  BY <1>1, <1>2, <1>5, <1>7, <1>8, <1>9, Stay
<1>11. Known'
  BY <1>4, <1>7 DEF Known
<1>12. Occupied'
  BY <1>1, <1>2, <1>6, <1>9, <1>10 DEF Universal, Occupied, FullNow
<1>13. \A x \in Slot : Clean(x)' <=> Clean(x)
  BY <1>1, <1>5, SameWin DEF Clean, CleanOf
<1>14. FormatFacts(p)'
  BY <1>1, <1>3, <1>5, <1>7, <1>9, <1>10, <1>13, SlotType DEF FormatFacts, IsCurrent
<1>15. Formatting1(p, plan)'
  <2>2. plan' = Tail(FormatPlan(p, ledger.policy)')
    <3>1. GenNext(ledger') = GenNext(ledger)
      BY <1>1, <1>5 DEF GenNext
    <3>2. FormatPlan(p, ledger.policy)' = FormatPlan(p, l.policy)
      BY <1>1, <1>5, <3>1 DEF FormatPlan, FormatGen
    <3> QED BY <1>1, <1>4, <3>2
  <2>3. Live' /\ ledger'.used < GenCells /\ Clean(Super)'
    BY <1>1, <1>4, <1>5, <1>7, <1>13, VaultAssumption, SlotType DEF Live
  <2> QED BY <2>2, <2>3 DEF Formatting1
<1>16. Phase'
  BY <1>14, <1>15 DEF Phase, Formatting
<1> QED BY <1>1, <1>2, <1>6, <1>7, <1>8, <1>10, <1>11, <1>12, <1>16, CellStep

-----------------------------------------------------------------------------
(***************************************************************************)
(* Format, once the superblock is there.                                   *)
(***************************************************************************)
TailF(p) ==
  <<Simple("refresh"), Simple("fill"), Simple("refresh"), ProveStep(First, p),
    SessionStep(First, p), Simple("done")>>

LEMMA NeedsTailF ==
  ASSUME NEW p \in Pin, NEW e, NEW f, NEW S, NEW gp, f[First] = p
  PROVE  /\ Needs(TailF(p), e, f, f, S, gp) /\ TailF(p)[1] = Simple("refresh")
         /\ ~Has(TailF(p), "rotate") /\ Has(TailF(p), "fill")
<1> DEFINE a == SessionStep(First, p)
           v == ProveStep(First, p)
           d == Simple("done")
           r == Simple("refresh")
           fi == Simple("fill")
           K == <<a, d>>
<1>1. /\ a \in Steps /\ d \in Steps /\ r \in Steps /\ fi \in Steps /\ v \in Steps
      /\ r.do = "refresh" /\ fi.do = "fill" /\ v.do = "prove" /\ d.do = "done" /\ a.do = "session"
  <2>1. First \in Identity /\ 0 \in Nat
    BY SlotType
  <2> QED BY <2>1, SessionStepIs, SimpleStep
<1>2. FullIn(TRUE, e, f) /\ f[First] # NoPin
  BY KeysDiffer DEF FullIn
<1>3. Needs(K, e, f, f, S, TRUE) /\ ~Has(K, "due") /\ ~Has(K, "fill") /\ K \in Seq(Steps)
  <2>1. Needs(K, e, f, f, S, TRUE) /\ ~Has(K, "due") /\ ~Has(K, "fill")
    BY <1>2, SlotType, NeedsSession
  <2> QED BY <2>1 DEF Needs
<1>4. Do("refresh") = <<r>>
  BY DoIs
<1>5. /\ v.do \in SettleKinds \ {"done", "mounted", "due"}
      /\ r.do \in SettleKinds \ {"done", "mounted", "due"}
      /\ fi.do \in SettleKinds \ {"done", "mounted", "due"}
  BY <1>1 DEF SettleKinds
<1> HIDE DEF K, a, v, d, r, fi
<1> DEFINE K1 == <<v>> \o K
           K2 == <<r>> \o K1
           K3 == <<fi>> \o K2
           K4 == <<r>> \o K3
<1>6. Needs(K1, e, f, f, S, TRUE) /\ K1 \in Seq(Steps) /\ ~Has(K1, "due")
  <2>1. Needs(K1, e, f, f, S, TRUE)
    BY <1>1, <1>3, <1>5, NeedsCons
  <2>2. ~Has(K1, "due")
    BY <1>1, <1>3, HasCons
  <2> QED BY <2>1, <2>2 DEF Needs
<1> HIDE DEF K1
<1>7. Needs(K2, e, f, f, S, TRUE) /\ K2 \in Seq(Steps) /\ ~Has(K2, "due")
  <2>1. Needs(K2, e, f, f, S, TRUE)
    BY <1>1, <1>5, <1>6, NeedsCons
  <2>2. ~Has(K2, "due")
    BY <1>1, <1>6, HasCons
  <2> QED BY <2>1, <2>2 DEF Needs
<1> HIDE DEF K2
<1>8. Needs(K3, e, f, f, S, TRUE) /\ K3 \in Seq(Steps) /\ Has(K3, "fill")
  <2>1. Needs(K3, e, f, f, S, TRUE)
    BY <1>1, <1>2, <1>5, <1>7, NeedsCons
  <2>2. Has(K3, "fill")
    BY <1>1, <1>7, HasCons
  <2> QED BY <2>1, <2>2 DEF Needs
<1> HIDE DEF K3
<1>9. Needs(K4, e, f, f, S, TRUE) /\ Has(K4, "fill")
  <2>1. Needs(K4, e, f, f, S, TRUE)
    BY <1>1, <1>5, <1>8, NeedsCons
  <2>2. Has(K4, "fill")
    BY <1>1, <1>8, HasCons
  <2> QED BY <2>1, <2>2
<1> HIDE DEF K4
<1>10. Needs(K4, e, f, f, S, gp)
  BY <1>9, NeedsGap
<1>11. K4 = <<r, fi, r, v, a, d>>
  <2> DEFINE S0 == {r, fi, v, a, d}
             L0 == <<r, fi, r, v, a, d>>
             L1 == <<fi, r, v, a, d>>
             L2 == <<r, v, a, d>>
             L3 == <<v, a, d>>
             L4 == <<a, d>>
  <2>1. /\ L0 \in Seq(S0) /\ L1 \in Seq(S0) /\ L2 \in Seq(S0) /\ L3 \in Seq(S0) /\ L4 \in Seq(S0)
        /\ L0 # <<>> /\ L1 # <<>> /\ L2 # <<>> /\ L3 # <<>>
        /\ L0[1] = r /\ L1[1] = fi /\ L2[1] = r /\ L3[1] = v
        /\ Tail(L0) = L1 /\ Tail(L1) = L2 /\ Tail(L2) = L3 /\ Tail(L3) = L4
    OBVIOUS
  <2>2. K = L4
    BY DEF K
  <2> HIDE DEF S0, L0, L1, L2, L3, L4
  <2>3. <<v>> \o L4 = L3
    BY <2>1, Uncons
  <2>4. <<r>> \o L3 = L2
    BY <2>1, Uncons
  <2>5. <<fi>> \o L2 = L1
    BY <2>1, Uncons
  <2>6. <<r>> \o L1 = L0
    BY <2>1, Uncons
  <2> QED BY <2>2, <2>3, <2>4, <2>5, <2>6 DEF K1, K2, K3, K4, L0
<1>12. TailF(p) = K4
  BY <1>11 DEF TailF, r, fi, v, a, d
<1>13. K4[1] = r
  BY <1>11
<1>14. ~Has(<<r, fi, r, v, a, d>>, "rotate")
  BY <1>1 DEF Has
<1> QED BY <1>9, <1>10, <1>11, <1>12, <1>13, <1>14 DEF r

FormatReady(p) ==
  /\ p \in Pin /\ TypeDisk /\ ram \in Memory /\ sessions \in SUBSET Session
  /\ FoundIs /\ Right /\ FormatFacts(p) /\ Live /\ ledger.used < GenCells
  /\ ram.table = Winners /\ (\A x \in Slot : Clean(x)) /\ Current[Super] # Blank

\* With the first canary the store is the caller's.
LEMMA FormatAhead ==
  ASSUME NEW p, FormatReady(p), NEW m, m.gens \in [Identity -> Nat], Uniq(m.gens),
         NEW r \in Record, r.key = p, r.gen = m.gens[First], m.gens[First] # 0, r.body \in Policies,
         SessOK(sessions, m, goal), \A s \in sessions : ~IsCurrent(s, m)
  PROVE  LET e == Put(Current, First, r)
         IN Ahead(e, m) /\ FoundOf(e, m.gens) = goal /\ goal[First] = p
<1> DEFINE e == Put(Current, First, r)
           f == FoundOf(e, m.gens)
<1>1. /\ p \in Pin /\ TypeDisk /\ Owned(Current, ledger.gens) /\ found = FoundOf(Current, ledger.gens)
      /\ Current[Super] # Blank /\ goal = Put(found, First, p)
      /\ \A x \in Slot \ {Super, First} : Current[x] = Blank
      /\ \A x \in Where : goal[x] \in promised[x]
  BY DEF FormatReady, FoundIs, Right, Sound, FormatFacts
<1>2. First \in Slot /\ First \in Where /\ \A x \in Where \ {First} : Current[x] = Blank
  BY <1>1, SlotType
<1>3. Owned(e, m.gens) /\ f = goal
  BY <1>1, <1>2, PutFirst
<1>4. goal[First] = p
  BY <1>1, <1>2, PutFound
<1>5. \A x \in Slot \ {First} : e[x] = Current[x]
  <2>1. Current \in [Slot -> Record \cup {Blank}]
    BY <1>1, CurrentType
  <2> QED BY <1>2, <2>1, PutRecord
<1> HIDE DEF e, f
<1>6. BlankOK(ram.state, sessions, e, m)
  BY <1>2, <1>5, SlotType DEF BlankOK, Where
<1>7. Sound(e, m, promised, sessions, ram.state)
  BY <1>1, <1>3, <1>6 DEF Sound, f
<1>8. Allowed(found, goal)
  <2>1. CASE Current[First] = Blank
    <3>1. \A i \in Identity : found[i] = NoPin
      BY <1>1, <2>1, FirstIs, PinIs, FoundAt, SlotType
    <3> QED BY <1>1, <3>1 DEF Allowed
  <2>2. CASE Current[First] # Blank
    <3>1. found[First] # NoPin
      BY <1>1, <2>2, FirstIs, FoundAt, SlotType
    <3> QED BY <1>1, <3>1, SlotType DEF Allowed
  <2> QED BY <2>1, <2>2
<1>9. Ahead(e, m)
  BY <1>3, <1>7, <1>8 DEF Ahead, f
<1> QED BY <1>3, <1>4, <1>9 DEF e, f

LEMMA SealedHere ==
  ASSUME ram \in Memory, NEW st \in Programs
  PROVE  /\ Sealed(st) \in Record /\ Sealed(st).key = st.key /\ Sealed(st).gen = st.gen
         /\ Sealed(st).body = st.body /\ Sealed(st).epoch = ram.ledger.epoch
BY StepKinds DEF Sealed, Rec, Record, Memory, Ledgers

\* The plan, from the first canary on.
FormatRest(p) == Tail(Tail(Tail(Tail(FormatPlan(p, ledger.policy)))))

LEMMA FormatSeal ==
  ASSUME NEW p, FormatReady(p), ledger.gens[First] # 0 PROVE Seal(FormatRest(p))
<1> DEFINE b == ledger.policy
           n == ledger.gens[First]
           st == NowStep(First, p, n, b)
           r == Sealed(st)
           rt == RetireStep(First)
           T == FormatRest(p)
           K == TailF(p)
           e == Put(Current, First, r)
           f == FoundOf(e, ledger.gens)
<1>1. /\ p \in Pin /\ TypeDisk /\ ram \in Memory /\ sessions \in SUBSET Session
      /\ Owned(Current, ledger.gens) /\ SessOK(sessions, ledger, found)
      /\ FormatFacts(p) /\ Live /\ ram.table = Winners /\ \A x \in Slot : Clean(x)
  BY DEF FormatReady, FoundIs, Right, Sound
<1>2. T = <<st, rt, Simple("refresh"), Simple("fill"), Simple("refresh"), ProveStep(First, p),
            SessionStep(First, p), Simple("done")>>
  BY <1>1, FormatPlanIs DEF FormatRest, FormatGen, ProveStep, SessionStep, NowStep
<1>3. n \in Nat /\ b \in Policies /\ First \in Slot /\ First \in Identity
  BY <1>1, LedgerType, SlotType
<1>4. StepIs(st, First, p, n, b) /\ st.later = FALSE
  <2>1. p \in Key /\ b \in Body
    BY <1>1, <1>3 DEF Key, Body
  <2> QED BY <1>3, <2>1, NowStepIs DEF NowStep, SealStep
<1>5. /\ r \in Record /\ r.key = p /\ r.gen = n /\ r.body = b /\ r.epoch = ledger.epoch
      /\ st \in Programs /\ st.slot = First
  BY <1>1, <1>4, SealedHere DEF StepIs, Live
<1> HIDE DEF st, rt
<1>6. /\ Len(T) >= 3 /\ T[1] = st /\ T[2] = rt /\ Tail(Tail(T)) = K
  <2> DEFINE a1 == Simple("refresh")
             a2 == Simple("fill")
             a3 == ProveStep(First, p)
             a4 == SessionStep(First, p)
             a5 == Simple("done")
  <2>1. T = <<st, rt, a1, a2, a1, a3, a4, a5>> /\ K = <<a1, a2, a1, a3, a4, a5>>
    BY <1>2 DEF TailF
  <2> HIDE DEF a1, a2, a3, a4, a5, T, K
  <2>2. Len(T) = 8 /\ T[1] = st /\ T[2] = rt /\ Tail(Tail(T)) = K
    BY <2>1
  <2> QED BY <2>2
<1>7. SessOK(sessions, ledger, goal) /\ \A s \in sessions : ~IsCurrent(s, ledger)
  BY <1>1 DEF SessOK, FormatFacts
<1>8. Ahead(e, ledger) /\ f = goal /\ goal[First] = p
  <2>1. ledger.gens \in [Identity -> Nat] /\ Uniq(ledger.gens) /\ r.gen = ledger.gens[First]
    BY <1>1, <1>5 DEF Owned
  <2>2. r.body \in Policies
    BY <1>3, <1>5
  <2> HIDE DEF r
  <2> QED BY <1>5, <1>7, <2>1, <2>2, FormatAhead
<1> HIDE DEF e, f, r, n
<1>9. Needs(K, e, f, goal, sessions, gap) /\ K[1] = Simple("refresh")
  BY <1>1, <1>8, NeedsTailF
<1>10. Fit(ledger, First, r)
  <2>1. r.gen # 0 /\ ledger.gens[First] = r.gen
    BY <1>5 DEF n
  <2> QED BY <1>3, <1>5, <2>1, FitIs
<1>11. RamFor(K, f) /\ Ready(K, e, f) /\ Swept(K, ledger, Slot \ {First})
  <2>1. K[1].do = "refresh"
    BY <1>9 DEF Simple
  <2> QED BY <1>1, <1>9, <2>1 DEF RamFor, Ready, Swept, Clean
<1> HIDE DEF T, K
<1> QED BY <1>1, <1>4, <1>5, <1>6, <1>8, <1>10, <1>11 DEF Seal, rt, RetireStep, e, f, r, T, K

LEMMA FormatCanary ==
  ASSUME NEW p, FormatReady(p), ledger.gens[First] = 0 PROVE FirstCanary(FormatRest(p))
<1> DEFINE b == ledger.policy
           n == FormatGen
           st == NowStep(First, p, n, b)
           g == GenStep(First, n)
           r == Sealed(st)
           rt == RetireStep(First)
           T == FormatRest(p)
           R == Tail(Tail(T))
           K == TailF(p)
           l == WithGen(ledger, g)
           e == Put(CurrentOf(l), First, r)
           f == FoundOf(e, l.gens)
<1>1. /\ p \in Pin /\ TypeDisk /\ ram \in Memory /\ sessions \in SUBSET Session
      /\ Owned(Current, ledger.gens) /\ SessOK(sessions, ledger, found)
      /\ FormatFacts(p) /\ Live /\ ram.table = Winners /\ (\A x \in Slot : Clean(x))
      /\ ledger.used < GenCells /\ ledger \in Ledgers
  BY DEF FormatReady, FoundIs, Right, Sound, TypeDisk
<1>2. T = <<st, rt, g, Simple("refresh"), Simple("fill"), Simple("refresh"), ProveStep(First, p),
            SessionStep(First, p), Simple("done")>>
  BY <1>1, FormatPlanIs DEF FormatRest, ProveStep, SessionStep, NowStep, GenStep
<1>3. /\ n \in Nat /\ n # 0 /\ (\A j \in Identity : ledger.gens[j] < n)
      /\ b \in Policies /\ First \in Slot /\ First \in Identity /\ First # Super
  <2>1. ledger.gens \in [Identity -> Nat] /\ b \in Policies
    BY <1>1, LedgerType
  <2> QED BY <2>1, GenNextIs, SlotType, NamesAssumption DEF FormatGen
<1> HIDE DEF n
<1>4. StepIs(st, First, p, n, b) /\ st.later = FALSE
  <2>1. p \in Key /\ b \in Body
    BY <1>1, <1>3 DEF Key, Body
  <2> QED BY <1>3, <2>1, NowStepIs DEF NowStep, SealStep
<1>5. /\ r \in Record /\ r.key = p /\ r.gen = n /\ r.body = b
      /\ st \in Programs /\ st.slot = First /\ st.gen = n
  BY <1>1, <1>4, SealedHere DEF StepIs, Live
<1>6. g \in [do : {"gen"}, id : Identity, gen : Nat] /\ g.id = First /\ g.gen = n
  BY <1>1, <1>3, SessionStepIs
<1>7. /\ l \in Ledgers /\ l.epoch = ledger.epoch /\ l.gens = [ledger.gens EXCEPT ![First] = n]
      /\ l.gens[First] = n /\ \A j \in Identity \ {First} : l.gens[j] = ledger.gens[j]
  BY <1>1, <1>6, GenLedger
<1> HIDE DEF st, rt, g, l, r
<1>8. /\ Len(T) >= 3 /\ T[1] = st /\ T[2] = rt /\ Len(R) >= 2 /\ R[1] = g /\ Tail(R) = K
      /\ R[2].do = "refresh"
  <2> DEFINE a1 == Simple("refresh")
             a2 == Simple("fill")
             a3 == ProveStep(First, p)
             a4 == SessionStep(First, p)
             a5 == Simple("done")
  <2>1. T = <<st, rt, g, a1, a2, a1, a3, a4, a5>> /\ K = <<a1, a2, a1, a3, a4, a5>>
    BY <1>2 DEF TailF
  <2>0. a1.do = "refresh"
    BY DEF Simple
  <2> HIDE DEF a1, a2, a3, a4, a5, T, K
  <2>2. Len(T) = 9 /\ T[1] = st /\ T[2] = rt /\ R = <<g, a1, a2, a1, a3, a4, a5>>
    BY <2>1
  <2> HIDE DEF R
  <2>3. Len(R) = 7 /\ R[1] = g /\ R[2] = a1 /\ Tail(R) = K
    BY <2>1, <2>2
  <2> QED BY <2>0, <2>2, <2>3
<1>9. Fresh(g.gen) /\ Gen(g)
  BY <1>3, <1>6 DEF Fresh, Gen
<1>10. Current[First] = Blank /\ \A x \in Slot \ {Super} : Current[x] = Blank
  <2>1. Current[First] = Blank
    BY <1>1, <1>3, FirstIs
  <2> QED BY <1>1, <2>1 DEF FormatFacts
<1>11. CurrentOf(l) = Current
  <2>1. Current \in [Slot -> Record \cup {Blank}] /\ CurrentOf(l) \in [Slot -> Record \cup {Blank}]
    BY <1>1, CurType, CurrentType DEF CurrentOf, TypeDisk
  <2>2. ASSUME NEW x \in Slot PROVE CurrentOf(l)[x] = Current[x]
    <3>1. CurrentOf(WithGen(ledger, g))[x] =
            IF x # Super /\ Current[x] # Blank /\ Current[x].gen = ledger.gens[g.id]
            THEN Blank ELSE Current[x]
      BY <1>1, <1>6, <1>9, RecountGen
    <3> QED BY <1>10, <3>1 DEF l
  <2> QED BY <2>1, <2>2
<1>12. goal = Put(found, First, p) /\ \A j \in Identity \ {First} : goal[j] = found[j]
  <2>1. goal = Put(found, First, p) /\ found = FoundOf(Current, ledger.gens)
    BY <1>1 DEF FormatFacts, FormatReady, FoundIs
  <2> QED BY <2>1, PutFound, SlotType
<1>13. SessOK(sessions, l, goal)
  <2>1. GenOK(sessions, ledger, found, goal, First, n, l)
    BY <1>1, <1>3, <1>7, <1>12 DEF GenOK
  <2> QED BY <2>1, SessNew
<1>14. \A s \in sessions : ~IsCurrent(s, l)
  <2> SUFFICES ASSUME NEW s \in sessions, s.epoch = l.epoch, s.gen = l.gens[s.id] PROVE FALSE
    BY DEF IsCurrent
  <2>1. s.id \in Identity /\ s.gen \in Nat /\ ~IsCurrent(s, ledger)
        /\ (s.gen = 0 \/ \E j \in Identity : s.gen <= ledger.gens[j])
    BY <1>1 DEF Session, SessOK, FormatFacts
  <2>2. CASE s.id = First
    <3>1. s.gen = n
      BY <1>7, <2>2
    <3>2. \A j \in Identity : ledger.gens[j] \in Nat /\ ledger.gens[j] < n
      BY <1>1, <1>3, LedgerType
    <3> QED BY <1>3, <2>1, <3>1, <3>2
  <2>3. CASE s.id # First
    BY <1>7, <2>1, <2>3 DEF IsCurrent
  <2> QED BY <2>2, <2>3
<1>15. Ahead(e, l) /\ f = goal /\ goal[First] = p
  <2>1. l.gens \in [Identity -> Nat] /\ Uniq(l.gens)
    <3>1. l.gens \in [Identity -> Nat]
      BY <1>7 DEF Ledgers
    <3>2. Uniq(ledger.gens) /\ \A j \in Identity : ledger.gens[j] \in Nat /\ ledger.gens[j] # n
      <4>1. Uniq(ledger.gens)
        BY <1>1 DEF Owned
      <4>2. \A j \in Identity : ledger.gens[j] \in Nat /\ ledger.gens[j] < n
        BY <1>1, <1>3, LedgerType
      <4> QED BY <4>1, <4>2
    <3> QED BY <1>7, <3>1, <3>2 DEF Uniq
  <2>2. r.gen = l.gens[First] /\ l.gens[First] # 0 /\ r.body \in Policies
    BY <1>3, <1>5, <1>7
  <2>3. Ahead(Put(Current, First, r), l) /\ FoundOf(Put(Current, First, r), l.gens) = goal
        /\ goal[First] = p
    BY <1>5, <1>13, <1>14, <2>1, <2>2, FormatAhead
  <2> QED BY <1>11, <2>3
<1>16. e = Put(CurrentOf(l), g.id, r)
  BY <1>6
<1> HIDE DEF e, f
<1>17. Needs(K, e, f, goal, sessions, gap)
  BY <1>1, <1>15, NeedsTailF
<1>18. Swept(K, l, Slot \ {g.id})
  <2>1. \A x \in Slot \ {First} : CleanOf(l, x)
    <3> SUFFICES ASSUME NEW x \in Slot \ {First} PROVE CleanOf(l, x)
      OBVIOUS
    <3>1. CASE x = Super
      <4>1. CleanOf(ledger, Super)
        BY <1>1, <3>1 DEF Clean
      <4>2. Win(l, Super, flash[Super], last[Super]) = Win(ledger, Super, flash[Super], last[Super])
        BY <1>7 DEF Win, Fit, IsCandidate
      <4> QED BY <3>1, <4>1, <4>2 DEF CleanOf, CleanPair
    <3>2. CASE x # Super
      <4>1. WinAt(x) = "none" /\ CleanOf(ledger, x)
        BY <1>1, <1>10, <3>2, CurrentType DEF Clean
      <4>2. \A s \in Side : flash[x][s] = Blank
        BY <4>1 DEF CleanOf, CleanPair, WinAt, Side
      <4> QED BY <4>2 DEF CleanOf, CleanPair
    <3> QED BY <3>1, <3>2
  <2> QED BY <1>6, <2>1 DEF Swept
<1>19. CommitAfter(st, R)
  <2>1. Ready(K, e, FoundOf(e, l.gens)) /\ Room /\ l = WithGen(ledger, g) /\ e = Put(CurrentOf(l), g.id, Sealed(st))
    BY <1>1, <1>16, <1>17 DEF Ready, Room, f, l, r
  <2>2. st.slot = g.id /\ st.gen = g.gen
    BY <1>5, <1>6
  <2> HIDE DEF R, K
  <2> QED BY <1>1, <1>5, <1>8, <1>9, <1>15, <1>18, <2>1, <2>2, CommitAfterIs
<1>20. InSlot(First)
  BY <1>1, <1>3, CurrentType DEF InSlot
<1> HIDE DEF R, T
<1> QED BY <1>3, <1>4, <1>5, <1>8, <1>10, <1>19, <1>20 DEF FirstCanary, rt, RetireStep, R, T

FormatGoes(p) == FormatReady(p) => Seal(FormatRest(p)) \/ FirstCanary(FormatRest(p))

LEMMA FormatOn == \A p \in Pin : FormatGoes(p)
BY FormatSeal, FormatCanary DEF FormatGoes

LEMMA FormatOnNext == \A p \in Pin : FormatGoes(p)'
<1>1. (\A p \in Pin : FormatGoes(p))'
  BY FormatOn, PTL
<1> QED BY <1>1

-----------------------------------------------------------------------------
(***************************************************************************)
(* The side a record has taken the place of is erased.                     *)
(***************************************************************************)
Retired(x) ==
  /\ flash' = [flash EXCEPT ![x][Other(Target(x))] = Blank]
  /\ ram' = [ram EXCEPT !.table[x] = Target(x)]
  /\ UNCHANGED <<last, ledger, sessions, goal, promised, gap, hits>> /\ Observe

RetiredOK(x, t) ==
  /\ x \in Slot /\ t \in Side /\ TypeDisk' /\ Dated' /\ Virgin'
  /\ Current' = Current /\ Winners' = Winners /\ WinAt(x)' = WinAt(x)
  /\ FoundIs' /\ Right' /\ found' = found /\ Allowed(found, found')
  /\ ram' \in Memory /\ ram'.ledger = ram.ledger /\ ram'.state = ram.state
  /\ ram'.policy = ram.policy /\ ram'.tamper = ram.tamper
  /\ ram'.table[x] = t /\ \A y \in Slot \ {x} : ram'.table[y] = ram.table[y]
  /\ flash'[x][Other(t)] = Blank /\ flash'[x][t] = flash[x][t] /\ last' = last
  /\ \A y \in Slot \ {x} : flash'[y] = flash[y]
  /\ UNCHANGED <<ledger, sessions, goal, promised, gap, hits>>
  /\ (FullNow' <=> FullNow)

LEMMA RetiredIs ==
  ASSUME Types, Universal, NEW x \in Slot, Retired(x),
         WinAt(x) = Target(x) \/ flash[x][Other(Target(x))] = Blank
  PROVE  RetiredOK(x, Target(x))
<1> DEFINE t == Target(x)
           c == Other(t)
<1>1. t \in Side /\ c \in Side /\ t # c /\ Other(c) = t /\ TypeDisk /\ flash \in Flashes
  BY MemoryType DEF Types, TypeDisk, Other, Side
<1>2. /\ flash' = [flash EXCEPT ![x][c] = Blank] /\ ram' = [ram EXCEPT !.table[x] = t]
      /\ UNCHANGED <<last, ledger, sessions, goal, promised, gap, hits>> /\ Observe
  BY DEF Retired
<1>3. ram \in Memory /\ ram.table \in [Slot -> Side \cup {"none"}]
  BY DEF Types, Memory, Tables
<1>3a. /\ ram' \in Memory /\ ram'.ledger = ram.ledger /\ ram'.state = ram.state
       /\ ram'.policy = ram.policy /\ ram'.tamper = ram.tamper
       /\ ram'.table[x] = t /\ \A y \in Slot \ {x} : ram'.table[y] = ram.table[y]
  <2> HIDE DEF t, c
  <2>1. [ram.table EXCEPT ![x] = t] \in Tables
    BY <1>1, <1>3 DEF Tables
  <2>2. ram' = [ram EXCEPT !.table = [ram.table EXCEPT ![x] = t]]
    BY <1>2
  <2> QED BY <1>3, <2>1, <2>2 DEF Memory
<1>4. /\ flash'[x][c] = Blank /\ flash'[x][t] = flash[x][t]
      /\ \A y \in Slot \ {x} : flash'[y] = flash[y]
  <2> HIDE DEF t, c
  <2>1. flash[x] \in [Side -> Cells] /\ flash \in [Slot -> Pairs]
    BY <1>1 DEF Flashes, Pairs
  <2> QED BY <1>1, <1>2, <2>1
<1>5. TypeDisk' /\ Dated' /\ Virgin' /\ Current' = Current /\ Winners' = Winners
  <2>1. CASE c # WinAt(x)
    <3> HIDE DEF t, c
    <3>1. last' = last /\ ledger' = ledger /\ Blank \in {Blank, Garbage} /\ Dated /\ Virgin
      BY <1>2 DEF Universal
    <3> QED BY <1>1, <1>2, <2>1, <3>1, WeededHere
  <2>2. CASE flash[x][c] = Blank
    <3> HIDE DEF t, c
    <3>1. flash' = flash
      <4>1. flash \in [Slot -> Pairs] /\ flash[x] \in [Side -> Cells]
        BY <1>1 DEF Flashes, Pairs
      <4>2. [flash[x] EXCEPT ![c] = Blank] = flash[x]
        BY <1>1, <2>2, <4>1
      <4> QED BY <1>2, <4>1, <4>2
    <3> QED BY <1>1, <1>2, <3>1, DiskSame DEF Universal
  <2> QED BY <1>1, <2>1, <2>2
<1>6. FoundIs' /\ Right' /\ found' = found /\ Allowed(found, found')
  BY <1>2, <1>3a, <1>5, Stay
<1>7. WinAt(x)' = WinAt(x)
  <2>1. Winners[x] = WinAt(x) /\ Winners'[x] = WinAt(x)'
    BY DEF Winners, WinOf, WinAt
  <2> QED BY <1>5, <2>1
<1>8. FullNow' <=> FullNow
  BY <1>2, <1>5, <1>6 DEF FullNow, FullIn
<1> HIDE DEF t, c
<1>9. flash'[x][Other(t)] = Blank
  BY <1>4 DEF c
<1> QED BY <1>1, <1>2, <1>3a, <1>4, <1>5, <1>6, <1>7, <1>8, <1>9 DEF RetiredOK, t

\* What is left of the plan is right, then so is all of it.
LEMMA RetiredStep ==
  ASSUME Types, Universal, NEW x, NEW t, RetiredOK(x, t), plan # <<>>, plan[1].do = "retire",
         plan' = Tail(plan), plan' # <<>>, Phase'
  PROVE  IBody'
<1>1. /\ ram' \in Memory /\ ram'.state = ram.state /\ ram'.policy = ram.policy
      /\ ram'.tamper = ram.tamper /\ ram'.ledger = ram.ledger
      /\ TypeDisk' /\ Dated' /\ Virgin' /\ FoundIs' /\ Right'
      /\ UNCHANGED <<ledger, sessions, goal, promised, gap, hits>> /\ (FullNow' <=> FullNow)
  BY DEF RetiredOK
<1>2. Known'
  BY <1>1 DEF Universal, Known, PolicyOK
<1>3. Occupied'
  <2>1. \A v : Has(plan, v) <=> plan[1].do = v \/ Has(Tail(plan), v)
    BY TailHas
  <2> QED BY <1>1, <2>1 DEF Universal, Occupied
<1> QED BY <1>1, <1>2, <1>3, CellStep

LEMMA RetireRecord ==
  ASSUME Types, Universal, Retire(plan), NEW x, x = plan[1].slot, Retired(x),
         plan' = Tail(plan), plan # <<>>, plan[1].do = "retire"
  PROVE  IBody' /\ Allowed(found, found')
<1> DEFINE t == Target(x)
           K == Tail(plan)
<1>1. /\ Len(plan) >= 2 /\ x \in Slot /\ Live /\ WinAt(x) = t
      /\ \A y \in Slot \ {x} : ram.table[y] = WinAt(y)
      /\ Ready(K, Current, found) /\ RamFor(K, found) /\ Swept(K, ledger, Slot \ {x})
  BY DEF Retire
<1>2. RetiredOK(x, t)
  BY <1>1, RetiredIs
<1>3. K # <<>>
  BY <1>1, TailHas
<1> HIDE DEF t, K
<1>4. Needs(K, Current', found', goal', sessions', gap')
  BY <1>1, <1>2 DEF RetiredOK, Ready
<1>5. Has(K, "cleanup") \/ \A y \in Slot : Clean(y)'
  <2>1. ASSUME NEW y \in Slot \ {x}, CleanOf(ledger, y) PROVE Clean(y)'
    <3>1. flash'[y] = flash[y] /\ last' = last /\ ledger' = ledger
      BY <1>2 DEF RetiredOK
    <3> QED BY <2>1, <3>1 DEF Clean, CleanOf
  <2>2. Clean(x)'
    <3>1. WinAt(x)' = t /\ flash'[x][Other(t)] = Blank /\ t \in Side
      BY <1>1, <1>2 DEF RetiredOK
    <3> QED BY <3>1 DEF Clean, CleanOf, CleanPair, WinAt, Side, Other
  <2> QED BY <1>1, <2>1, <2>2 DEF Swept
<1>6. RamIs' \/ K[1].do = "refresh"
  <2>1. ram'.table = Winners'
    <3>1. ram' \in Memory /\ \A y \in Slot : ram'.table[y] = WinAt(y)
      BY <1>1, <1>2 DEF RetiredOK
    <3>2. Winners' = Winners /\ Winners = [y \in Slot |-> WinAt(y)]
      BY <1>2 DEF RetiredOK, Winners, WinOf, WinAt
    <3>3. ram'.table \in [Slot -> Side \cup {"none"}]
      BY <3>1 DEF Memory, Tables
    <3> QED BY <3>1, <3>2, <3>3
  <2>2. ram'.ledger = ledger' /\ (StateIs(found) /\ PolicyOK => StateIs(found)' /\ PolicyOK')
    BY <1>1, <1>2 DEF RetiredOK, Live, StateIs, PolicyOK
  <2> QED BY <1>1, <2>1, <2>2 DEF RamIs, RamFor
<1>7. Has(K, "rotate") => ledger'.live
  BY <1>1, <1>2 DEF RetiredOK, Live
<1>9. Settle(plan)'
  <2>1. ASSUME NEW P, P = K PROVE Settle(plan)'
    <3>1. Settle(P)' /\ plan' = P
      BY <1>4, <1>5, <1>6, <1>7, <2>1, SettleThere DEF K
    <3> QED BY <3>1 DEF Settle, Ready, Swept, RamFor
  <2> QED BY <2>1
<1> QED BY <1>2, <1>3, <1>9, RetiredStep DEF Phase, K, RetiredOK

LEMMA RetireFirst ==
  ASSUME Types, Universal, FirstRetire(plan), NEW x, x = plan[1].slot, Retired(x),
         plan' = Tail(plan), plan # <<>>, plan[1].do = "retire"
  PROVE  IBody' /\ Allowed(found, found')
<1> DEFINE P == Tail(plan)
           g == P[1]
           T == Tail(P)
           l == WithGen(ledger, g)
           e == CurrentOf(l)
<1>1. /\ Len(plan) >= 2 /\ x = First /\ Target(First) = "A" /\ flash[First]["B"] = Blank
      /\ Commit(P) /\ First \in Slot
  BY SlotType DEF FirstRetire
<1>2. RetiredOK(x, "A")
  <2>1. flash[x][Other(Target(x))] = Blank /\ x \in Slot
    BY <1>1 DEF Other
  <2> QED BY <1>1, <2>1, RetiredIs
<1>3. /\ flash' = flash /\ last' = last /\ ledger' = ledger /\ ram'.ledger = ram.ledger
      /\ ram'.state = ram.state /\ UNCHANGED <<goal, promised, sessions, gap>>
      /\ found' = found /\ (FullNow' <=> FullNow)
  <2>1. flash'[First]["B"] = Blank /\ flash'[First]["A"] = flash[First]["A"]
        /\ \A y \in Slot \ {First} : flash'[y] = flash[y]
    BY <1>1, <1>2 DEF RetiredOK, Other
  <2>2. flash \in [Slot -> Pairs] /\ flash' \in [Slot -> Pairs]
    BY <1>2 DEF Types, TypeDisk, RetiredOK, Flashes
  <2>3. flash'[First] = flash[First]
    <3>1. flash[First] \in [Side -> Cells] /\ flash'[First] \in [Side -> Cells]
      BY <1>1, <2>2 DEF Pairs
    <3>2. \A s \in Side : flash'[First][s] = flash[First][s]
      BY <1>1, <2>1 DEF Side
    <3> QED BY <3>1, <3>2
  <2> QED BY <1>2, <2>1, <2>2, <2>3 DEF RetiredOK
<1>4. /\ Len(P) >= 2 /\ Gen(g) /\ Live /\ Room /\ P[2].do = "refresh" /\ Ahead(e, l)
      /\ Ready(T, e, FoundOf(e, l.gens)) /\ Swept(T, l, Slot)
  BY <1>1 DEF Commit
<1>5. P # <<>>
  BY <1>1, TailHas
<1>6. P = Tail(plan)
  OBVIOUS
<1>7. ASSUME NEW Q, Q = P, NEW h, h = g, NEW U, U = T, NEW m, m = l, NEW d, d = e
      PROVE  Commit(plan)'
  <2>1. /\ Len(Q) >= 2 /\ Q[1] = h /\ Tail(Q) = U /\ plan' = Q /\ m = WithGen(ledger, h)
        /\ d = CurrentOf(m) /\ Q[2].do = "refresh" /\ Gen(h) /\ Live /\ Room
        /\ Ahead(d, m) /\ Ready(U, d, FoundOf(d, m.gens)) /\ Swept(U, m, Slot)
    BY <1>4, <1>7
  <2> HIDE DEF P, g, T, l, e
  <2>2. m = WithGen(ledger', h) /\ CurOf(flash', last', m) = d
    BY <1>3, <2>1 DEF CurrentOf
  <2>3. Gen(h)' /\ Live' /\ Room'
    BY <1>3, <2>1 DEF Gen, Fresh, Live, Room
  <2>4. Sound(d, m, promised', sessions', ram'.state) /\ Allowed(found', FoundOf(d, m.gens))
    BY <1>3, <2>1 DEF Ahead
  <2>5. Needs(U, d, FoundOf(d, m.gens), goal', sessions', gap')
    BY <1>3, <2>1 DEF Ready
  <2>6. Has(U, "cleanup") \/ \A y \in Slot : CleanPair(m, y, flash'[y], last'[y])
    BY <1>3, <2>1 DEF Swept, CleanOf
  <2>7. CommitOK(Q, h, U, m, d)
    BY <2>1, <2>2, <2>3, <2>4, <2>5, <2>6 DEF CommitOK
  <2> QED BY <2>1, <2>7, CommitThere
<1> HIDE DEF P, g, T, l, e
<1>8. Commit(plan)'
  BY <1>7
<1> QED BY <1>2, <1>5, <1>8, RetiredStep DEF Phase, P, RetiredOK

LEMMA LongIs ==
  ASSUME NEW R, Len(R) >= 3 PROVE R # <<>>
OBVIOUS

LEMMA RetireFormat ==
  ASSUME Types, Universal, NEW p \in Pin, FormatFacts(p), Formatting3(p, plan), NEW x,
         x = plan[1].slot, Retired(x), plan' = Tail(plan), plan # <<>>, plan[1].do = "retire"
  PROVE  IBody' /\ Allowed(found, found')
<1> DEFINE b == ledger.policy
           t == Target(Super)
<1>1. /\ plan = Tail(Tail(Tail(FormatPlan(p, b)))) /\ Live /\ ledger.used < GenCells
      /\ WinAt(Super) = t /\ \A y \in Slot \ {Super} : ram.table[y] = WinAt(y)
  BY DEF Formatting3
<1>2. plan[1] = RetireStep(Super) /\ Super \in Slot
  BY <1>1, FormatPlanIs, SlotType
<1>3. x = Super
  BY <1>2 DEF RetireStep
<1>4. RetiredOK(Super, t)
  BY <1>1, <1>2, <1>3, RetiredIs
<1> HIDE DEF t
<1>5. t \in Side /\ Current[Super] # Blank /\ TypeDisk
  <2>1. t \in Side /\ TypeDisk
    BY <1>4 DEF RetiredOK, Types
  <2> QED BY <1>1, <1>2, <2>1, CurrentType DEF Side
<1>6. \A y \in Slot : Clean(y)'
  <2>1. ASSUME NEW y \in Slot \ {Super} PROVE Clean(y)'
    <3>1. flash'[y] = flash[y] /\ last' = last /\ ledger' = ledger
      BY <1>4 DEF RetiredOK
    <3>2. CleanOf(ledger, y)
      BY DEF FormatFacts, Clean
    <3> QED BY <3>1, <3>2 DEF Clean, CleanOf
  <2>2. Clean(Super)'
    <3>1. WinAt(Super)' = t /\ flash'[Super][Other(t)] = Blank
      BY <1>1, <1>4 DEF RetiredOK
    <3> QED BY <1>5, <3>1 DEF Clean, CleanOf, CleanPair, WinAt, Side, Other
  <2> QED BY <2>1, <2>2
<1>7. ram'.table = Winners'
  <2>1. ram' \in Memory /\ \A y \in Slot : ram'.table[y] = WinAt(y)
    BY <1>1, <1>4 DEF RetiredOK
  <2>2. Winners' = Winners /\ Winners = [y \in Slot |-> WinAt(y)]
    BY <1>4 DEF RetiredOK, Winners, WinOf, WinAt
  <2>3. ram'.table \in [Slot -> Side \cup {"none"}]
    BY <2>1 DEF Memory, Tables
  <2> QED BY <2>1, <2>2, <2>3
<1>8. /\ ledger' = ledger /\ ram'.ledger = ram.ledger /\ ram' \in Memory /\ Current' = Current
      /\ UNCHANGED <<goal, promised, sessions>> /\ found' = found
      /\ TypeDisk' /\ FoundIs' /\ Right'
  BY <1>4 DEF RetiredOK
<1>9. FormatFacts(p)'
  <2>1. p \in Pin /\ ram'.ledger = ledger' /\ \A y \in Slot \ {Super} : Clean(y)'
    BY <1>6, <1>8 DEF FormatFacts
  <2>2. /\ \A y \in Slot \ {Super, First} : Current'[y] = Blank
        /\ \A s \in sessions' : ~IsCurrent(s, ledger')
        /\ goal' = Put(found', First, p) /\ \A y \in Where : goal'[y] \in promised'[y]
    BY <1>8 DEF FormatFacts
  <2> QED BY <2>1, <2>2 DEF FormatFacts
<1>10. FormatReady(p)'
  <2>1. Live' /\ ledger'.used < GenCells /\ sessions' \in SUBSET Session /\ Current'[Super] # Blank
    BY <1>1, <1>5, <1>8 DEF Live, Types
  <2> QED BY <1>6, <1>7, <1>8, <1>9, <2>1 DEF FormatReady
<1>11. plan' = FormatRest(p)'
  <2>1. FormatPlan(p, ledger.policy)' = FormatPlan(p, b)
    BY <1>8 DEF FormatPlan, FormatGen
  <2> QED BY <1>1, <2>1 DEF FormatRest
<1>12. Seal(FormatRest(p))' \/ FirstCanary(FormatRest(p))'
  <2>1. FormatGoes(p)'
    BY FormatOnNext
  <2> QED BY <1>10, <2>1 DEF FormatGoes
<1>13. Seal(plan)' \/ FirstCanary(plan)'
  <2>1. Seal(FormatRest(p))' => Seal(plan)'
    BY <1>11 DEF Seal
  <2>2. FirstCanary(FormatRest(p))' => FirstCanary(plan)'
    BY <1>11 DEF FirstCanary
  <2> QED BY <1>12, <2>1, <2>2
<1>14. Phase'
  BY <1>13 DEF Phase, Ahead1
<1>15. plan' # <<>>
  <2>1. Len(plan') >= 3
    BY <1>13 DEF Seal, FirstCanary
  <2> QED BY <2>1, LongIs
<1> QED BY <1>2, <1>4, <1>14, <1>15, RetiredStep DEF RetiredOK

LEMMA StepRetire ==
  ASSUME IBody, DoRetire PROVE IBody' /\ Allowed(found, found')
<1>1. plan # <<>> /\ plan[1].do = "retire" /\ plan' = Tail(plan)
  BY DEF DoRetire, Now, Next1
<1>2. Types /\ Universal /\ Phase
  BY <1>1, InPhase
<1>3. \/ Retire(plan) \/ FirstRetire(plan)
      \/ \E p \in Pin : FormatFacts(p) /\ Formatting3(p, plan)
  BY <1>1, <1>2, PhaseHead
<1>4. Retired(plan[1].slot)
  BY DEF DoRetire, Retired, ghost
<1>5. ASSUME NEW x, x = plan[1].slot PROVE IBody' /\ Allowed(found, found')
  <2>1. Retired(x)
    BY <1>4, <1>5
  <2> QED BY <1>1, <1>2, <1>3, <1>5, <2>1, RetireRecord, RetireFirst, RetireFormat
<1> QED BY <1>5

-----------------------------------------------------------------------------
(***************************************************************************)
(* The steps of a plan that tell of the policy.                            *)
(***************************************************************************)
\* The first step, and the others.
LEMMA StepsTail ==
  ASSUME NEW K \in Seq(Steps), K # <<>>
  PROVE  StepsOf(K) = {K[1]} \cup StepsOf(Tail(K))
<1>1. /\ Len(K) \in Nat \ {0} /\ DOMAIN K = 1 .. Len(K) /\ DOMAIN Tail(K) = 1 .. (Len(K) - 1)
      /\ \A n \in 1 .. (Len(K) - 1) : Tail(K)[n] = K[n + 1]
  BY TailIs
<1>2. ASSUME NEW n \in DOMAIN K PROVE n = 1 \/ (n - 1 \in DOMAIN Tail(K) /\ K[n] = Tail(K)[n - 1])
  <2>1. n \in Nat /\ 1 <= n /\ n <= Len(K) /\ Len(K) \in Nat
    BY <1>1
  <2>2. CASE n # 1
    <3> DEFINE m == n - 1
    <3>1. m \in 1 .. (Len(K) - 1) /\ m + 1 = n
      BY <2>1, <2>2
    <3> HIDE DEF m
    <3>2. Tail(K)[m] = K[n] /\ m \in DOMAIN Tail(K)
      BY <1>1, <3>1
    <3> QED BY <3>2 DEF m
  <2> QED BY <2>2
<1>3. 1 \in DOMAIN K /\ \A n \in DOMAIN Tail(K) : n + 1 \in DOMAIN K /\ Tail(K)[n] = K[n + 1]
  BY <1>1
<1>4. ASSUME NEW st \in StepsOf(K) PROVE st \in {K[1]} \cup StepsOf(Tail(K))
  <2>1. PICK n \in DOMAIN K : st = K[n]
    BY <1>4 DEF StepsOf
  <2>2. CASE n = 1
    BY <2>1, <2>2
  <2>3. CASE n - 1 \in DOMAIN Tail(K) /\ K[n] = Tail(K)[n - 1]
    BY <2>1, <2>3 DEF StepsOf
  <2> QED BY <1>2, <2>2, <2>3
<1>5. {K[1]} \cup StepsOf(Tail(K)) \subseteq StepsOf(K)
  BY <1>3 DEF StepsOf
<1> QED BY <1>4, <1>5

LEMMA StepsCat ==
  ASSUME NEW A \in Seq(Steps), NEW B \in Seq(Steps)
  PROVE  A \o B \in Seq(Steps) /\ StepsOf(A \o B) = StepsOf(A) \cup StepsOf(B)
<1>1. /\ Len(A) \in Nat /\ Len(B) \in Nat /\ DOMAIN A = 1 .. Len(A) /\ DOMAIN B = 1 .. Len(B)
      /\ DOMAIN (A \o B) = 1 .. (Len(A) + Len(B))
      /\ \A n \in 1 .. Len(A) : (A \o B)[n] = A[n]
      /\ \A n \in 1 .. Len(B) : (A \o B)[Len(A) + n] = B[n]
  OBVIOUS
<1>2. ASSUME NEW n \in DOMAIN (A \o B)
      PROVE  \/ n \in DOMAIN A /\ (A \o B)[n] = A[n]
             \/ n - Len(A) \in DOMAIN B /\ (A \o B)[n] = B[n - Len(A)]
  <2>1. n \in 1 .. Len(A) \/ n - Len(A) \in 1 .. Len(B)
    BY <1>1, <1>2
  <2>2. n = Len(A) + (n - Len(A))
    BY <1>1, <1>2
  <2> QED BY <1>1, <2>1, <2>2
<1>3. /\ \A n \in DOMAIN A : n \in DOMAIN (A \o B) /\ (A \o B)[n] = A[n]
      /\ \A n \in DOMAIN B : Len(A) + n \in DOMAIN (A \o B) /\ (A \o B)[Len(A) + n] = B[n]
  BY <1>1
<1>4. A \o B \in Seq(Steps)
  OBVIOUS
<1>5. StepsOf(A \o B) \subseteq StepsOf(A) \cup StepsOf(B)
  BY <1>2 DEF StepsOf
<1>6. StepsOf(A) \cup StepsOf(B) \subseteq StepsOf(A \o B)
  BY <1>3 DEF StepsOf
<1> QED BY <1>4, <1>5, <1>6

LEMMA StepsOne == ASSUME NEW a PROVE StepsOf(<<a>>) = {a}
<1>1. DOMAIN <<a>> = {1} /\ <<a>>[1] = a
  OBVIOUS
<1> QED BY <1>1 DEF StepsOf

\* What a sequence has.
LEMMA StepsHas ==
  ASSUME NEW K, NEW w PROVE Has(K, w) <=> \E st \in StepsOf(K) : st.do = w
BY DEF Has, StepsOf

LEMMA TellTail ==
  ASSUME NEW K \in Seq(Steps), K # <<>>
  PROVE  /\ TellOf(K) = (IF Telling(K[1]) THEN {K[1]} ELSE {}) \cup TellOf(Tail(K))
         /\ \A w : Has(K, w) <=> K[1].do = w \/ Has(Tail(K), w)
<1>1. StepsOf(K) = {K[1]} \cup StepsOf(Tail(K))
  BY StepsTail
<1>2. \A w : Has(K, w) <=> K[1].do = w \/ Has(Tail(K), w)
  BY <1>1, StepsHas
<1> QED BY <1>1, <1>2 DEF TellOf

LEMMA TellNone == TellOf(<<>>) = {} /\ \A w : ~Has(<<>>, w)
<1>1. DOMAIN <<>> = {}
  OBVIOUS
<1>2. StepsOf(<<>>) = {}
  BY <1>1 DEF StepsOf
<1> QED BY <1>2, StepsHas DEF TellOf

LEMMA TellCat ==
  ASSUME NEW A \in Seq(Steps), NEW B \in Seq(Steps)
  PROVE  /\ A \o B \in Seq(Steps) /\ TellOf(A \o B) = TellOf(A) \cup TellOf(B)
         /\ \A w : Has(A \o B, w) <=> Has(A, w) \/ Has(B, w)
<1>1. A \o B \in Seq(Steps) /\ StepsOf(A \o B) = StepsOf(A) \cup StepsOf(B)
  BY StepsCat
<1>2. \A w : Has(A \o B, w) <=> Has(A, w) \/ Has(B, w)
  BY <1>1, StepsHas
<1> QED BY <1>1, <1>2 DEF TellOf

\* What a call that settles has left tells nothing.
LEMMA NeedsTold ==
  ASSUME NEW K, NEW e, NEW f, NEW w, NEW S, NEW gp, Needs(K, e, f, w, S, gp)
  PROVE  TellOf(K) = {} /\ ~Has(K, "gen") /\ ~Has(K, "head") /\ ~Has(K, "policy")
<1>1. \A st \in StepsOf(K) : st.do \in SettleKinds
  BY DEF Needs, StepsOf
<1>2. \A st \in StepsOf(K) : st.do \notin {"program", "policy", "head", "gen"}
  BY <1>1 DEF SettleKinds
<1> QED BY <1>2, StepsHas DEF TellOf, Telling, Wit

LEMMA SettleTold ==
  ASSUME NEW K, Settle(K)
  PROVE  TellOf(K) = {} /\ ~Has(K, "gen") /\ ~Has(K, "head") /\ ~Has(K, "policy")
BY NeedsTold DEF Settle, Ready

\* Steps that tell nothing, and commit no generation.
Mute(K) == TellOf(K) = {} /\ ~Has(K, "gen")

OnlyWits(K) == \A st \in TellOf(K) : Wit(st)

LEMMA SealTold ==
  ASSUME NEW R \in Seq(Steps), Seal(R)
  PROVE  /\ R # <<>> /\ R[1].do = "program" /\ Tail(R) \in Seq(Steps) /\ Mute(Tail(R))
         /\ OnlyWits(R) /\ ~Has(R, "gen")
<1>1. /\ Len(R) >= 3 /\ R[1] \in Programs /\ R[2] = [do |-> "retire", slot |-> R[1].slot]
      /\ \E e, f : Ready(Tail(Tail(R)), e, f)
  BY DEF Seal
<1>2. R[1].do = "program" /\ R[2].do = "retire"
  BY <1>1, StepKinds
<1>3. R # <<>> /\ Tail(R) \in Seq(Steps) /\ Tail(R) # <<>> /\ Tail(R)[1] = R[2]
  BY <1>1, TailIs
<1>4. Mute(Tail(Tail(R)))
  BY <1>1, NeedsTold DEF Ready, Mute
<1>5. ~Telling(R[2]) /\ (Telling(R[1]) => Wit(R[1]))
  BY <1>2 DEF Telling, Wit
<1>6. Mute(Tail(R))
  BY <1>2, <1>3, <1>4, <1>5, TellTail DEF Mute
<1> QED BY <1>2, <1>3, <1>5, <1>6, TellTail DEF Mute, OnlyWits

\* A generation, and what follows it.
LEMMA GenTold ==
  ASSUME NEW R \in Seq(Steps), Len(R) >= 2, R[1].do = "gen",
         NEW e, NEW f, Ready(Tail(R), e, f)
  PROVE  R # <<>> /\ TellOf(R) = {} /\ Mute(Tail(R))
<1>1. R # <<>> /\ Mute(Tail(R))
  BY NeedsTold DEF Ready, Mute
<1>2. ~Telling(R[1])
  BY DEF Telling, Wit
<1> QED BY <1>1, <1>2, TellTail DEF Mute

LEMMA CommitTold ==
  ASSUME NEW R \in Seq(Steps), Commit(R) \/ \E st : CommitAfter(st, R)
  PROVE  R # <<>> /\ TellOf(R) = {} /\ Mute(Tail(R)) /\ R[1].do = "gen"
<1>1. Len(R) >= 2 /\ R[1].do = "gen" /\ \E e, f : Ready(Tail(R), e, f)
  BY DEF Commit, CommitAfter, Gen
<1> QED BY <1>1, GenTold

LEMMA ResealTold ==
  ASSUME NEW R \in Seq(Steps), Resealing(R)
  PROVE  /\ R # <<>> /\ R[1].do = "reseal" /\ OnlyWits(R) /\ OnlyWits(Tail(R))
         /\ Tail(R) \in Seq(Steps) /\ Tail(R) # <<>> /\ Tail(R)[1].do = "program"
<1>1. R = ResealPlan(R[1], R[2].body) /\ R[1] \in ResealSteps
  BY DEF Resealing, ResealFacts
<1>2. R[1].do = "reseal" /\ R[1].id \in Identity /\ R[1].key \in Pin
  BY <1>1 DEF ResealSteps
<1> DEFINE st == R[1]
           b == R[2].body
           T == Tail(R)
           U == Tail(T)
<1>3. ResealPlanOK(st, b)
  BY ResealPlanIs
<1>4. /\ R # <<>> /\ T # <<>> /\ T[1] = LaterStep(st.id, st.key, st.gen, b)
      /\ U # <<>> /\ U[1] = GenStep(st.id, st.gen) /\ Tail(U) = Tail6(st.id, st.key)
  BY <1>1, <1>3 DEF ResealPlanOK
<1>5. T \in Seq(Steps) /\ U \in Seq(Steps) /\ Tail(U) \in Seq(Steps)
  BY <1>4, TailIs
<1>6. T[1].do = "program" /\ U[1].do = "gen"
  <2>1. /\ LaterStep(st.id, st.key, st.gen, b).do = "program"
        /\ GenStep(st.id, st.gen).do = "gen"
    BY DEF LaterStep, SealStep, GenStep
  <2> QED BY <1>4, <2>1
<1>7. TellOf(Tail(U)) = {}
  <2> DEFINE f == [x \in Identity |-> st.key]
  <2>1. f[st.id] = st.key /\ f[First] # NoPin
    BY <1>2, KeysDiffer, VaultAssumption
  <2> HIDE DEF f
  <2>2. \E e, S, gp : Needs(Tail(U), e, f, f, S, gp)
    BY <1>2, <1>4, <2>1, NeedsTail6
  <2> QED BY <2>2, NeedsTold
<1> HIDE DEF st, T, U
<1>8. TellOf(U) = {}
  BY <1>4, <1>5, <1>6, <1>7, TellTail DEF Telling, Wit
<1>9. OnlyWits(T)
  BY <1>4, <1>5, <1>6, <1>8, TellTail DEF Telling, OnlyWits, U
<1>10. OnlyWits(R)
  BY <1>2, <1>4, <1>9, TellTail DEF Telling, OnlyWits, T, Wit
<1> QED BY <1>2, <1>4, <1>5, <1>6, <1>9, <1>10 DEF T

\* The steps of a format, from the first canary on.
FormatWit(p, b) == SealStep(First, p, FormatGen, b, FALSE)

LEMMA FormatTold ==
  ASSUME NEW p \in Pin, NEW b
  PROVE  LET T == Tail(Tail(Tail(Tail(FormatPlan(p, b)))))
         IN /\ TellOf(T) = {FormatWit(p, b)} /\ Wit(FormatWit(p, b))
            /\ T[1] = FormatWit(p, b)
<1> DEFINE T == Tail(Tail(Tail(Tail(FormatPlan(p, b)))))
           w == FormatWit(p, b)
<1>1. T = IF ledger.gens[First] = 0
          THEN <<w, RetireStep(First), [do |-> "gen", id |-> First, gen |-> FormatGen],
                 Simple("refresh"), Simple("fill"), Simple("refresh"),
                 [do |-> "prove", id |-> First, key |-> p],
                 [do |-> "session", id |-> First, key |-> p], Simple("done")>>
          ELSE <<w, RetireStep(First),
                 Simple("refresh"), Simple("fill"), Simple("refresh"),
                 [do |-> "prove", id |-> First, key |-> p],
                 [do |-> "session", id |-> First, key |-> p], Simple("done")>>
  BY FormatPlanIs DEF FormatWit
<1>2. Wit(w)
  BY DEF Wit, FormatWit, SealStep
<1> HIDE DEF T, w
<1>3. T[1] = w /\ 1 \in DOMAIN T
  BY <1>1
<1>4. ASSUME NEW n \in DOMAIN T, n # 1
      PROVE  T[n].do \in {"retire", "gen", "refresh", "fill", "prove", "session", "done"}
  <2>1. CASE ledger.gens[First] = 0
    <3>1. n \in 2 .. 9
      BY <1>1, <1>4, <2>1
    <3> QED BY <1>1, <2>1, <3>1 DEF RetireStep, Simple
  <2>2. CASE ledger.gens[First] # 0
    <3>1. n \in 2 .. 8
      BY <1>1, <1>4, <2>2
    <3> QED BY <1>1, <2>2, <3>1 DEF RetireStep, Simple
  <2> QED BY <2>1, <2>2
<1>5. ASSUME NEW st \in TellOf(T) PROVE st = w
  <2>1. PICK n \in DOMAIN T : st = T[n]
    BY <1>5 DEF TellOf, StepsOf
  <2> QED BY <1>3, <1>4, <1>5, <2>1 DEF TellOf, Telling, Wit
<1>6. w \in TellOf(T)
  BY <1>2, <1>3 DEF TellOf, StepsOf, Telling
<1>7. TellOf(T) = {w}
  BY <1>5, <1>6
<1> QED BY <1>2, <1>3, <1>7 DEF T, w

\* Where in a plan the steps that tell, and a generation, may be.
Closed == {"gen", "epoch", "due", "cleanup", "sync", "fill", "distrust", "prove", "session", "done",
           "mounted", "erase"}

Shape(K) ==
  LET T == Tail(K)
  IN /\ \A st \in TellOf(T) : st.do # "head" /\ (st.do = "policy" => K[1].do = "rotate")
     /\ K[1].do \in Closed => TellOf(K) = {} /\ ~Has(T, "gen")
     /\ Wit(K[1]) => TellOf(T) = {}
     /\ T # <<>> /\ T[1].do = "gen" => Canary(K) \/ FirstRetire(K)
     /\ T # <<>> /\ T[1].do = "retire" /\ Tail(T) # <<>> /\ Tail(T)[1].do = "gen" => FirstCanary(K)

LEMMA ShapeMute ==
  ASSUME NEW K \in Seq(Steps), K # <<>>, Mute(Tail(K)), K[1].do # "policy", K[1].do # "head"
  PROVE  Shape(K)
<1> DEFINE T == Tail(K)
<1>1. T \in Seq(Steps)
  BY TailIs
<1>2. K[1].do \in Closed => TellOf(K) = {}
  <2>1. K[1].do \in Closed => ~Telling(K[1])
    BY DEF Closed, Telling, Wit
  <2> QED BY <2>1, TellTail DEF Mute
<1> HIDE DEF T
<1>3. T # <<>> => T[1].do # "gen" /\ (Tail(T) # <<>> => Tail(T)[1].do # "gen")
  <2>1. ASSUME T # <<>> PROVE T[1].do # "gen" /\ ~Has(Tail(T), "gen") /\ Tail(T) \in Seq(Steps)
    BY <1>1, <2>1, TellTail, TailIs DEF Mute, T
  <2>2. ASSUME T # <<>>, Tail(T) # <<>> PROVE Tail(T)[1].do # "gen"
    BY <2>1, <2>2, TellTail
  <2> QED BY <2>1, <2>2
<1> QED BY <1>2, <1>3 DEF Shape, Mute, T

LEMMA ShapeWits ==
  ASSUME NEW K \in Seq(Steps), K # <<>>, OnlyWits(Tail(K)), K[1].do \notin Closed, ~Wit(K[1]),
         Tail(K) # <<>>, Tail(K)[1].do \notin {"gen", "retire"}
  PROVE  Shape(K)
BY DEF Shape, OnlyWits, Wit

EpochTold(R) == R # <<>> /\ R[1].do = "epoch" /\ Mute(R) /\ Mute(Tail(R))

LEMMA EpochTells ==
  ASSUME NEW R \in Seq(Steps), Epoch(R) PROVE EpochTold(R)
<1> DEFINE T == Tail(R)
<1>1. /\ Len(R) >= 3 /\ R[1].do = "epoch" /\ R[2].do = "erase"
      /\ \E e, f : Ready(Tail(T), e, f)
  BY DEF Epoch
<1>2. R # <<>> /\ T \in Seq(Steps) /\ T # <<>> /\ T[1] = R[2]
  BY <1>1, TailIs
<1>3. Mute(Tail(T))
  BY <1>1, NeedsTold DEF Ready, Mute
<1> HIDE DEF T
<1>4. ~Telling(T[1]) /\ ~Telling(R[1])
  BY <1>1, <1>2 DEF Telling, Wit
<1>5. Mute(T)
  BY <1>1, <1>2, <1>3, <1>4, TellTail DEF Mute
<1>6. Mute(R)
  BY <1>1, <1>2, <1>4, <1>5, TellTail DEF Mute, T
<1> QED BY <1>1, <1>2, <1>5, <1>6 DEF EpochTold, T

\* What may follow a rotation.
LEMMA AheadTold ==
  ASSUME NEW R \in Seq(Steps), Ahead1(R)
  PROVE  R # <<>> /\ R[1].do \notin {"gen", "retire"} /\ \A st \in TellOf(R) : st.do # "head"
<1> DEFINE T == Tail(R)
<1>1. CASE Seal(R)
  BY <1>1, SealTold DEF OnlyWits, Wit
<1>2. CASE Amend(R)
  <2>1. Seal(T) /\ R[1].do = "policy" /\ R # <<>>
    BY <1>2 DEF Amend
  <2>2. T \in Seq(Steps)
    BY <2>1, TailIs
  <2>3. OnlyWits(T)
    BY <2>1, <2>2, SealTold
  <2>4. \A st \in TellOf(R) : st = R[1] \/ st \in TellOf(T)
    BY <2>1, TellTail
  <2> QED BY <2>1, <2>3, <2>4 DEF OnlyWits, Wit
<1>3. CASE Canary(R)
  <2>1. CommitAfter(R[1], T) /\ R[1] \in Programs /\ R # <<>>
    BY <1>3 DEF Canary, CommitAfter
  <2>2. T \in Seq(Steps) /\ R[1].do = "program"
    BY <2>1, TailIs, StepKinds
  <2>3. TellOf(T) = {}
    BY <2>1, <2>2, CommitTold
  <2>4. \A st \in TellOf(R) : st = R[1] \/ st \in TellOf(T)
    BY <2>1, TellTail
  <2> QED BY <2>1, <2>2, <2>3, <2>4
<1>4. CASE Resealing(R)
  BY <1>4, ResealTold DEF OnlyWits, Wit
<1>5. CASE ResealingOne(R)
  <2>1. R[1] \in Programs /\ Resealing(T)
    BY <1>5 DEF ResealingOne
  <2>0. R # <<>>
    BY AheadLong
  <2>2. T \in Seq(Steps) /\ R[1].do = "program"
    BY <2>0, <2>1, TailIs, StepKinds
  <2>3. OnlyWits(T)
    BY <2>1, <2>2, ResealTold
  <2>4. \A st \in TellOf(R) : st = R[1] \/ st \in TellOf(T)
    BY <2>0, TellTail
  <2> QED BY <2>0, <2>1, <2>2, <2>3, <2>4 DEF OnlyWits, Wit
<1>6. CASE Epoch(R)
  <2>1. EpochTold(R)
    BY <1>6, EpochTells
  <2> QED BY <2>1 DEF EpochTold, Mute
<1> QED BY <1>1, <1>2, <1>3, <1>4, <1>5, <1>6 DEF Ahead1

\* What a format has left tells of the first canary at most.
LEMMA FormatShape ==
  ASSUME NEW K \in Seq(Steps), NEW p \in Pin, NEW b,
         \/ K = FormatPlan(p, b) \/ K = Tail(FormatPlan(p, b))
         \/ K = Tail(Tail(FormatPlan(p, b))) \/ K = Tail(Tail(Tail(FormatPlan(p, b))))
  PROVE  /\ Shape(K)
         /\ Tail(FormatPlan(p, b)) \in Seq(Steps)
            => TellOf(Tail(FormatPlan(p, b))) = {FormatWit(p, b)}
<1> DEFINE P0 == FormatPlan(p, b)
           P1 == Tail(P0)
           P2 == Tail(P1)
           P3 == Tail(P2)
           P4 == Tail(P3)
<1>1. /\ P0[1].do = "head" /\ P1[1].do = "refresh" /\ P2[1].do = "program" /\ P2[1].slot = Super
      /\ P3[1].do = "retire" /\ P0 # <<>> /\ P1 # <<>> /\ P2 # <<>> /\ P3 # <<>>
  <2>1. /\ Simple("head").do = "head" /\ Simple("refresh").do = "refresh"
        /\ RetireStep(Super).do = "retire"
        /\ SealStep(Super, Super, 0, b, FALSE).do = "program"
        /\ SealStep(Super, Super, 0, b, FALSE).slot = Super
    BY DEF Simple, SealStep, RetireStep
  <2> QED BY <2>1, FormatPlanIs
<1>2. P4[1].do = "program" /\ P4 # <<>> /\ TellOf(P4) = {FormatWit(p, b)} /\ OnlyWits(P4)
  <2>1. TellOf(P4) = {FormatWit(p, b)} /\ Wit(FormatWit(p, b)) /\ P4[1] = FormatWit(p, b)
    BY FormatTold
  <2> HIDE DEF P4
  <2>2. P4 # <<>>
    BY <2>1, TellNone
  <2> QED BY <2>1, <2>2 DEF OnlyWits, Wit
<1>3. K = P0 \/ K = P1 \/ K = P2 \/ K = P3
  OBVIOUS
<1>4. /\ Tail(P0) = P1 /\ Tail(P1) = P2 /\ Tail(P2) = P3 /\ Tail(P3) = P4
  OBVIOUS
<1>5. (P1 \in Seq(Steps) => TellOf(P1) = {FormatWit(p, b)}) <=>
        (Tail(FormatPlan(p, b)) \in Seq(Steps) => TellOf(Tail(FormatPlan(p, b))) = {FormatWit(p, b)})
  OBVIOUS
<1> HIDE DEF P0, P1, P2, P3, P4
<1>6. Super # First
  BY NamesAssumption, VaultAssumption
<1>7. ~Telling(P3[1]) /\ ~Telling(P2[1]) /\ ~Telling(P1[1])
  BY <1>1, <1>6 DEF Telling, Wit
<1>8. P3 \in Seq(Steps) => TellOf(P3) = TellOf(P4)
  BY <1>1, <1>4, <1>7, TellTail
<1>9. P2 \in Seq(Steps) => P3 \in Seq(Steps) /\ TellOf(P2) = TellOf(P4)
  <2> SUFFICES ASSUME P2 \in Seq(Steps) PROVE P3 \in Seq(Steps) /\ TellOf(P2) = TellOf(P4)
    OBVIOUS
  <2>1. P3 \in Seq(Steps)
    BY <1>1, <1>4, TailIs
  <2>2. TellOf(P2) = TellOf(P3)
    BY <1>1, <1>4, <1>7, TellTail
  <2> QED BY <2>1, <2>2, <1>8
<1>10. P1 \in Seq(Steps) => P2 \in Seq(Steps) /\ TellOf(P1) = TellOf(P4)
  <2> SUFFICES ASSUME P1 \in Seq(Steps) PROVE P2 \in Seq(Steps) /\ TellOf(P1) = TellOf(P4)
    OBVIOUS
  <2>1. P2 \in Seq(Steps)
    BY <1>1, <1>4, TailIs
  <2>2. TellOf(P1) = TellOf(P2)
    BY <1>1, <1>4, <1>7, TellTail
  <2> QED BY <2>1, <2>2, <1>9
<1>11. P0 \in Seq(Steps) => P1 \in Seq(Steps)
  BY <1>1, <1>4, TailIs
<1>12. Shape(K)
  <2>1. CASE K = P3
    BY <1>1, <1>2, <1>4, <2>1, ShapeWits DEF Closed, Wit
  <2>2. CASE K = P2
    <3>1. OnlyWits(Tail(K)) /\ Tail(K) = P3
      BY <1>2, <1>4, <1>8, <1>9, <2>2 DEF OnlyWits
    <3>2. ~Wit(K[1]) /\ K[1].do \notin Closed
      BY <1>1, <1>6, <2>2 DEF Wit, Closed
    <3>3. Tail(P3)[1].do # "gen" /\ P3[1].do # "gen"
      BY <1>1, <1>2, <1>4
    <3> QED BY <3>1, <3>2, <3>3 DEF Shape, OnlyWits, Wit
  <2>3. CASE K = P1
    <3>1. OnlyWits(Tail(K)) /\ Tail(K) = P2
      BY <1>2, <1>4, <1>9, <1>10, <2>3 DEF OnlyWits
    <3> QED BY <1>1, <2>3, <3>1, ShapeWits DEF Closed, Wit
  <2>4. CASE K = P0
    <3>1. OnlyWits(Tail(K)) /\ Tail(K) = P1
      BY <1>2, <1>4, <1>10, <1>11, <2>4 DEF OnlyWits
    <3> QED BY <1>1, <2>4, <3>1, ShapeWits DEF Closed, Wit
  <2> QED BY <1>3, <2>1, <2>2, <2>3, <2>4
<1> QED BY <1>2, <1>5, <1>10, <1>12

LEMMA ShapeIs ==
  ASSUME Types, Phase, plan # <<>>
  PROVE  Shape(plan)
<1> DEFINE T == Tail(plan)
<1>0. plan \in Seq(Steps) /\ T \in Seq(Steps) /\ plan[1] \in Steps
  BY TailIs DEF Types
<1>1. CASE Settle(plan)
  <2>1. Mute(plan) /\ plan[1].do \notin {"policy", "head"}
    BY <1>0, <1>1, SettleTold, TellTail DEF Mute
  <2>2. Mute(T)
    BY <1>0, <2>1, TellTail DEF Mute
  <2> QED BY <1>0, <2>1, <2>2, ShapeMute
<1>2. CASE Seal(plan)
  BY <1>0, <1>2, SealTold, ShapeMute
<1>3. CASE Amend(plan)
  <2>1. Seal(T) /\ plan[1].do = "policy"
    BY <1>3 DEF Amend
  <2>2. OnlyWits(T) /\ T # <<>> /\ T[1].do = "program"
    BY <1>0, <2>1, SealTold
  <2> QED BY <1>0, <2>1, <2>2, ShapeWits DEF Closed, Wit
<1>4. CASE Canary(plan)
  <2>1. CommitAfter(plan[1], T) /\ plan[1] \in Programs
    BY <1>4 DEF Canary, CommitAfter
  <2>2. T # <<>> /\ TellOf(T) = {} /\ T[1].do = "gen"
    BY <1>0, <2>1, CommitTold
  <2>3. plan[1].do = "program"
    BY <2>1, StepKinds
  <2> QED BY <1>4, <2>2, <2>3 DEF Shape, Closed
<1>5. CASE Resealing(plan)
  <2>1. /\ plan[1].do = "reseal" /\ OnlyWits(T) /\ T # <<>> /\ T[1].do = "program"
    BY <1>0, <1>5, ResealTold
  <2> QED BY <1>0, <2>1, ShapeWits DEF Closed, Wit
<1>6. CASE ResealingOne(plan)
  <2>1. plan[1] \in Programs /\ plan[1].slot \in User /\ Resealing(T)
    BY <1>6 DEF ResealingOne
  <2>2. plan[1].do = "program" /\ plan[1].slot # First
    BY <2>1, StepKinds, NamesAssumption, VaultAssumption
  <2>3. OnlyWits(T) /\ T # <<>> /\ T[1].do = "reseal"
    BY <1>0, <2>1, ResealTold
  <2> QED BY <1>0, <2>2, <2>3, ShapeWits DEF Closed, Wit
<1>7. CASE Epoch(plan)
  BY <1>0, <1>7, EpochTells, ShapeMute DEF EpochTold
<1>8. CASE plan[1] = Simple("rotate") /\ Ahead1(T)
  <2>1. plan[1].do = "rotate"
    BY <1>8 DEF Simple
  <2> QED BY <1>0, <1>8, <2>1, AheadTold DEF Shape, Closed, Wit
<1>9. CASE Retire(plan) \/ Erasing(plan)
  <2>1. plan[1].do \in {"retire", "erase"} /\ \E e, f : Ready(T, e, f)
    BY <1>9 DEF Retire, Erasing
  <2>2. Mute(T)
    BY <2>1, NeedsTold DEF Ready, Mute
  <2> QED BY <1>0, <2>1, <2>2, ShapeMute
<1>10. CASE Commit(plan)
  <2>1. Mute(T) /\ plan[1].do = "gen"
    BY <1>0, <1>10, CommitTold
  <2> QED BY <1>0, <2>1, ShapeMute
<1>11. CASE FirstCanary(plan)
  <2>1. /\ Len(plan) >= 3 /\ CommitAfter(plan[1], Tail(T)) /\ plan[1] \in Programs
        /\ plan[2] = [do |-> "retire", slot |-> First]
    BY <1>11 DEF FirstCanary, CommitAfter
  <2>2. T # <<>> /\ T[1] = plan[2] /\ T[1].do = "retire" /\ Tail(T) \in Seq(Steps)
        /\ plan[1].do = "program"
    BY <1>0, <2>1, TailIs, StepKinds
  <2>3. TellOf(Tail(T)) = {}
    BY <2>1, <2>2, CommitTold
  <2>4. TellOf(T) = {}
    BY <1>0, <2>2, <2>3, TellTail DEF Telling, Wit
  <2> QED BY <1>11, <2>2, <2>4 DEF Shape, Closed
<1>12. CASE FirstRetire(plan)
  <2>1. Commit(T) /\ plan[1].do = "retire"
    BY <1>12 DEF FirstRetire
  <2>2. TellOf(T) = {} /\ T[1].do = "gen"
    BY <1>0, <2>1, CommitTold
  <2> QED BY <1>12, <2>1, <2>2 DEF Shape, Closed, Wit
<1>13. CASE Formatting(plan)
  BY <1>0, <1>13, FormatShape DEF Formatting, Formatting0, Formatting1, Formatting2, Formatting3
<1> QED BY <1>1, <1>2, <1>3, <1>4, <1>5, <1>6, <1>7, <1>8, <1>9, <1>10, <1>11, <1>12, <1>13
        DEF Phase, Ahead1

-----------------------------------------------------------------------------
(***************************************************************************)
(* What is to be shown of a step.                                          *)
(***************************************************************************)
LEMMA ToldNext ==
  /\ Told' = TellOf(plan')
  /\ \A w : Now(w)' <=> plan' # <<>> /\ plan'[1].do = w
  /\ \A w : Has(plan, w)' <=> Has(plan', w)
  /\ Witness' = Current'[First].body
<1>1. Told' = TellOf(plan')
  BY DEF Told, TellOf, StepsOf
<1>2. \A w : Now(w)' <=> plan' # <<>> /\ plan'[1].do = w
  BY DEF Now
<1>3. \A w : Has(plan, w)' <=> Has(plan', w)
  BY DEF Has
<1>4. Witness' = Current'[First].body
  BY DEF Witness
<1> QED BY <1>1, <1>2, <1>3, <1>4

\* The next step brings no canary into force.
NoEntry(K) == K # <<>> /\ K[1].do = "retire" => Tail(K) = <<>> \/ Tail(K)[1].do # "gen"
NoGen(K) == K # <<>> => K[1].do # "gen" /\ NoEntry(K)

LEMMA NoGenEnters ==
  ASSUME NoGen(plan'), plan' \in Seq(Steps) PROVE Entered'
<1>1. CASE plan' = <<>>
  <2>1. ~Now("retire")'
    BY <1>1, ToldNext
  <2>2. Entering(plan)'
    BY <1>1 DEF Entering
  <2> QED BY <2>1, <2>2 DEF Entered
<1>2. CASE plan' # <<>> /\ plan'[1].do = "retire"
  <2>1. Now("retire")'
    BY <1>2, ToldNext
  <2>2. Entering(Tail(plan))'
    <3>1. Tail(plan') \in Seq(Steps)
      BY <1>2, TailIs
    <3>2. ~(Len(<<>>) >= 1)
      OBVIOUS
    <3> QED BY <1>2, <3>1, <3>2 DEF Entering, NoGen, NoEntry
  <2> QED BY <2>1, <2>2 DEF Entered
<1>3. CASE plan' # <<>> /\ plan'[1].do # "retire"
  <2>1. ~Now("retire")'
    BY <1>3, ToldNext
  <2>2. Entering(plan)'
    BY <1>3 DEF Entering, NoGen
  <2> QED BY <2>1, <2>2 DEF Entered
<1> QED BY <1>1, <1>2, <1>3

LEMMA MuteNoGen ==
  ASSUME NEW K \in Seq(Steps), ~Has(K, "gen") PROVE NoGen(K)
<1>1. ASSUME K # <<>> PROVE K[1].do # "gen" /\ NoEntry(K)
  <2>1. K[1].do # "gen" /\ ~Has(Tail(K), "gen") /\ Tail(K) \in Seq(Steps)
    BY <1>1, TellTail, TailIs
  <2>2. Tail(K) # <<>> => Tail(K)[1].do # "gen"
    BY <2>1, TellTail
  <2> QED BY <2>1, <2>2 DEF NoEntry
<1> QED BY <1>1 DEF NoGen

\* Where no canary is in force and none is told of.
LEMMA Blown ==
  ASSUME plan' \in Seq(Steps), Mute(plan'), ~Has(plan', "distrust"), ~Held'
  PROVE  JBody'
<1>1. Told' = {} /\ ~Now("distrust")' /\ ~Has(plan, "distrust")'
  <2>1. plan' # <<>> => plan'[1].do # "distrust"
    BY TellTail
  <2> QED BY <2>1, ToldNext DEF Mute
<1>2. Entered'
  BY MuteNoGen, NoGenEnters DEF Mute
<1>3. Witnessing' /\ Changing' /\ Heading' /\ BlankHeld'
  BY <1>1 DEF Witnessing, Changing, Heading, BlankHeld
<1> QED BY <1>1, <1>2, <1>3 DEF JBody, Lonely, Distrusting

\* A side that was to be erased is no longer there, or torn.
ErasedHere == Current' = Current /\ found' = found /\ TypeDisk' /\ Dated' /\ Virgin'

LEMMA ErasedSide ==
  ASSUME Types, Universal, NEW x \in Slot, NEW t \in Side, NEW c \in {Blank, Garbage},
         t # WinAt(x), c = Blank \/ ledger.live,
         flash' = [flash EXCEPT ![x][t] = c], last' = last, ledger' = ledger, Observe
  PROVE  ErasedHere
<1>1. TypeDisk /\ Dated /\ Virgin
  BY DEF Types, Universal
<1>2. TypeDisk' /\ Dated' /\ Virgin' /\ Current' = Current
  BY <1>1, WeededHere
<1>3. found' = found
  <2>1. StoredOK'
    BY <1>2, StoredIsNext
  <2>2. found' = FoundOf(Current', ledger'.gens)
    BY <2>1 DEF StoredOK, Observe
  <2> QED BY <1>2, <2>2 DEF Universal, FoundIs
<1> QED BY <1>2, <1>3 DEF ErasedHere

LEMMA DoomedSide ==
  ASSUME Types, Universal, Phase, plan # <<>>, NEW p \in Doomed
  PROVE  p[1] \in Slot /\ p[2] \in Side /\ p[2] # WinAt(p[1]) /\ ledger.live
<1>1. /\ plan[1].do \in {"cleanup", "erase"}
      /\ p \in IF plan[1].do = "cleanup" THEN Leftovers(ram.table) ELSE Leftovers(Off.table)
  BY DEF Doomed, Now
<1>2. p[1] \in Slot /\ p[2] \in Side /\ flash[p[1]][p[2]] # Blank
  BY <1>1 DEF Leftovers
<1>3. ledger.live
  BY <1>2 DEF Universal, Virgin
<1>4. p[2] # WinAt(p[1])
  <2>1. CASE plan[1].do = "cleanup"
    <3>1. Settle(plan)
      BY <2>1, PhaseHead
    <3>2. ram.table[p[1]] = WinAt(p[1])
      BY <1>2, <2>1, <3>1, CurrentType DEF Settle, Types
    <3> QED BY <1>1, <2>1, <3>2 DEF Leftovers
  <2>2. CASE plan[1].do = "erase"
    <3>1. Erasing(plan)
      BY <2>2, PhaseHead
    <3> QED BY <1>2, <3>1 DEF Erasing, Side
  <2> QED BY <1>1, <2>1, <2>2
<1> QED BY <1>2, <1>3, <1>4

LEMMA ErasedIs ==
  ASSUME Types, Universal, Phase, plan # <<>>, NEW p \in Doomed, NEW c \in {Blank, Garbage},
         flash' = [flash EXCEPT ![p[1]][p[2]] = c], last' = last, ledger' = ledger, Observe
  PROVE  ErasedHere
BY DoomedSide, ErasedSide

LEMMA RetiringSide ==
  ASSUME Types, Universal, Phase, plan # <<>>, plan[1].do = "retire",
         NEW x, x = plan[1].slot, NEW s, s = Other(Target(x))
  PROVE  x \in Slot /\ s \in Side /\ s # WinAt(x) /\ ledger.live
<1> DEFINE t == Target(x)
<1>1. \/ Retire(plan) \/ FirstRetire(plan)
      \/ \E p \in Pin : FormatFacts(p) /\ Formatting3(p, plan)
  BY PhaseHead
<1>2. x \in Slot /\ Live /\ (WinAt(x) = t \/ WinAt(x) = "none")
  <2>1. CASE Retire(plan)
    BY <2>1 DEF Retire
  <2>2. CASE FirstRetire(plan)
    <3>1. x = First /\ Current[First] = Blank /\ Live /\ x \in Slot
      BY <2>2, SlotType DEF FirstRetire, Commit
    <3> QED BY <3>1, CurrentType DEF Types
  <2>3. CASE \E p \in Pin : FormatFacts(p) /\ Formatting3(p, plan)
    <3>1. PICK p \in Pin : Formatting3(p, plan)
      BY <2>3
    <3>2. /\ plan = Tail(Tail(Tail(FormatPlan(p, ledger.policy)))) /\ Live
          /\ WinAt(Super) = Target(Super)
      BY <3>1 DEF Formatting3
    <3>3. plan[1] = RetireStep(Super) /\ Super \in Slot
      BY <3>2, FormatPlanIs, SlotType
    <3>4. x = Super
      BY <3>3 DEF RetireStep
    <3> QED BY <3>2, <3>3, <3>4
  <2> QED BY <1>1, <2>1, <2>2, <2>3
<1>3. t \in Side /\ ledger.live
  BY <1>2, MemoryType DEF Live
<1>4. Other(t) \in Side /\ Other(t) # WinAt(x)
  BY <1>2, <1>3 DEF Other, Side
<1> QED BY <1>2, <1>3, <1>4

LEMMA RetiringIs ==
  ASSUME Types, Universal, Phase, plan # <<>>, plan[1].do = "retire",
         NEW x, x = plan[1].slot, NEW s, s = Other(Target(x)), NEW c \in {Blank, Garbage},
         flash' = [flash EXCEPT ![x][s] = c], last' = last, ledger' = ledger, Observe
  PROVE  ErasedHere
BY RetiringSide, ErasedSide

\* A step that changes nothing of what counts here.
LEMMA Quiet ==
  ASSUME JBody, plan' \in Seq(Steps), UNCHANGED <<found, ledger, hits>>,
         Current'[First] = Current[First],
         ram'.policy = ram.policy, ram'.tamper = ram.tamper, ram'.state = ram.state,
         ram'.ledger = ram.ledger, ~Now("refresh"), ~Has(plan', "distrust"),
         TellOf(plan') = TellOf(plan), Alone => Entered' /\ BlankHeld'
  PROVE  JBody'
<1>1. /\ Told' = Told /\ Witness' = Witness /\ (Held' <=> Held) /\ (Alone' <=> Alone)
      /\ (Firm' <=> Firm)
  BY ToldNext DEF Told, Witness, Held, Alone, Firm
<1>2. Distrusting'
  BY ToldNext DEF Distrusting
<1>3. ASSUME Alone' PROVE Lonely'
  <2>1. Lonely
    BY <1>1, <1>3 DEF JBody
  <2>2. ~Now("distrust")'
    <3>1. plan' # <<>> => plan'[1].do # "distrust"
      BY TellTail
    <3> QED BY <3>1, ToldNext
  <2>3. Pending' <=> Pending
    BY <1>1 DEF Pending
  <2>4. Held' => Near' /\ Informed'
    BY <1>1, <2>1, <2>3 DEF Lonely, Near, Informed
  <2>5. /\ ToDo("head")' <=> ToDo("head")
        /\ ToDo("policy")' <=> ToDo("policy")
    BY <1>1 DEF ToDo
  <2>6. ram' = ram \/ ~ram.tamper \/ ram.tamper
    OBVIOUS
  <2>7. FormatHead' = FormatHead
    BY DEF FormatHead
  <2>8. Witnessing'
    <3>1. \A b : Coming(b)' <=> Coming(b)
      BY <1>1, <2>5, <2>7 DEF Coming
    <3> QED BY <1>1, <2>1, <2>5, <3>1 DEF Lonely, Witnessing
  <2>9. Changing'
    BY <1>1, <2>1, <2>3 DEF Lonely, Changing
  <2>10. Heading'
    BY <1>1, <2>1, <2>3, <2>5 DEF Lonely, Heading
  <2>11. Entered' /\ BlankHeld'
    BY <1>1, <1>3
  <2> QED BY <2>2, <2>4, <2>8, <2>9, <2>10, <2>11 DEF Lonely
<1> QED BY <1>2, <1>3 DEF JBody

\* What is left of a call has no distrust in it.
LEMMA TrustTail ==
  ASSUME Types, JBody, plan # <<>>
  PROVE  /\ Tail(plan) \in Seq(Steps) /\ ~Has(Tail(plan), "distrust")
         /\ plan[1].do # "distrust" => ~Has(plan, "distrust")
<1>1. /\ Tail(plan) \in Seq(Steps)
      /\ \A w : Has(plan, w) <=> plan[1].do = w \/ Has(Tail(plan), w)
  BY TailHas
<1> QED BY <1>1 DEF JBody, Distrusting, Now

LEMMA BlankTail ==
  ASSUME Types, plan # <<>>, plan[1].do # "refresh", BlankHeld, plan' = Tail(plan),
         ram'.state = ram.state, found' = found, hits' = hits
  PROVE  BlankHeld'
<1>1. \A w : Has(plan, w) <=> plan[1].do = w \/ Has(Tail(plan), w)
  BY TailHas
<1>2. \A w : Has(plan, w)' <=> Has(plan', w)
  BY ToldNext
<1> QED BY <1>1, <1>2 DEF BlankHeld, Held

\* A step that leaves the flash, and what RAM knows of the policy, as they are.
LEMMA QuietTail ==
  ASSUME Types, Phase, JBody, plan # <<>>, plan' = Tail(plan),
         UNCHANGED <<found, ledger, hits>>, Current'[First] = Current[First],
         ram'.policy = ram.policy, ram'.tamper = ram.tamper, ram'.state = ram.state,
         ram'.ledger = ram.ledger,
         plan[1].do \notin {"refresh", "policy", "head"}, ~Wit(plan[1]),
         NoGen(plan') \/ (Alone => Entered')
  PROVE  JBody'
<1>1. plan' \in Seq(Steps) /\ ~Has(plan', "distrust")
  BY TrustTail
<1>2. TellOf(plan') = TellOf(plan)
  <2>1. ~Telling(plan[1])
    BY DEF Telling
  <2> QED BY <2>1, TellTail DEF Types
<1>3. Alone => Entered'
  BY <1>1, NoGenEnters
<1>4. Alone => BlankHeld'
  BY BlankTail DEF JBody, Lonely
<1>5. ~Now("refresh")
  BY DEF Now
<1> QED BY <1>1, <1>2, <1>3, <1>4, <1>5, Quiet

\* After a step that is neither a program nor an erasing of the side it replaces.
LEMMA ShapeNoGen ==
  ASSUME Types, Phase, plan # <<>>, plan[1].do \notin {"program", "retire"}
  PROVE  NoGen(Tail(plan))
<1>1. Shape(plan)
  BY ShapeIs
<1>2. ~Canary(plan) /\ ~FirstRetire(plan) /\ ~FirstCanary(plan)
  <2>1. ~Canary(plan) /\ ~FirstCanary(plan)
    BY StepKinds DEF Canary, FirstCanary, CommitAfter
  <2>2. ~FirstRetire(plan)
    BY DEF FirstRetire
  <2> QED BY <2>1, <2>2
<1> QED BY <1>1, <1>2 DEF Shape, NoGen, NoEntry

\* So do these.
LEMMA QuietSteps ==
  ASSUME IBody, JBody,
         NoRotation \/ EraseOne \/ Erased \/ Filled \/ Resealed \/ Prove \/ OpenSession
  PROVE  JBody'
<1>1. plan # <<>>
  BY DEF NoRotation, EraseOne, Erased, Filled, Resealed, Prove, OpenSession, Proven, Now, Doomed
<1>2. Types /\ Universal /\ Phase /\ TypeDisk
  BY <1>1, InPhase DEF Types
<1>3. CASE NoRotation \/ Filled \/ Resealed \/ Prove \/ OpenSession
  <2>1. /\ plan[1].do \in {"rotate", "fill", "reseal", "prove", "session"} /\ plan' = Tail(plan)
        /\ UNCHANGED <<disk, ram, hits>>
    BY <1>3 DEF NoRotation, Filled, Resealed, Prove, OpenSession, Proven, Now, Next1, ghost
  <2>2. Current' = Current
    BY <2>1, DiskSame DEF disk
  <2>3. NoGen(plan')
    BY <1>1, <1>2, <2>1, ShapeNoGen
  <2> QED BY <1>1, <1>2, <2>1, <2>2, <2>3, QuietTail DEF disk, Wit
<1>4. CASE Erased
  <2>1. /\ plan[1].do \in {"cleanup", "erase"} /\ plan' = Tail(plan) /\ UNCHANGED <<disk, hits>>
        /\ ram' = IF Now("erase") THEN [ram EXCEPT !.table = Off.table] ELSE ram
    BY <1>4 DEF Erased, Now, Next1, ghost
  <2>2. ram'.policy = ram.policy /\ ram'.tamper = ram.tamper /\ ram'.state = ram.state
        /\ ram'.ledger = ram.ledger
    BY <1>2, <2>1 DEF Types, Memory
  <2>3. Current' = Current
    BY <2>1, DiskSame DEF disk
  <2>4. NoGen(plan')
    BY <1>1, <1>2, <2>1, ShapeNoGen
  <2> QED BY <1>1, <1>2, <2>1, <2>2, <2>3, <2>4, QuietTail DEF disk, Wit
<1>5. CASE EraseOne
  <2>1. /\ Doomed # {} /\ UNCHANGED <<last, ledger, ram, sessions, plan, ghost, hits>> /\ Observe
        /\ flash' = [flash EXCEPT ![NextDoomed[1]][NextDoomed[2]] = Blank]
    BY <1>5 DEF EraseOne
  <2>2. NextDoomed \in Doomed
    BY <2>1 DEF NextDoomed
  <2>3. ErasedHere
    BY <1>1, <1>2, <2>1, <2>2, ErasedIs
  <2>4. Current' = Current /\ found' = found
    BY <2>3 DEF ErasedHere
  <2>5. plan[1].do \in {"cleanup", "erase"}
    BY <2>1 DEF Doomed, Now
  <2>6. plan' = plan
    BY <2>1
  <2>7. ~Has(plan', "distrust")
    BY <1>1, <1>2, <2>5, <2>6, TrustTail
  <2>8. Alone => Entered' /\ BlankHeld'
    <3>1. BlankHeld => BlankHeld'
      BY <2>1, <2>4, <2>6, ToldNext DEF BlankHeld, Held
    <3>2. NoGen(plan')
      BY <2>5, <2>6 DEF NoGen, NoEntry
    <3> QED BY <1>2, <2>6, <3>1, <3>2, NoGenEnters DEF JBody, Lonely, Types
  <2> QED BY <1>2, <2>1, <2>4, <2>5, <2>6, <2>7, <2>8, Quiet DEF Now, Types
<1> QED BY <1>3, <1>4, <1>5

-----------------------------------------------------------------------------
(***************************************************************************)
(* Steps in front of what is left of a call.                               *)
(***************************************************************************)
\* What a sequence of steps tells, and that it has no others than X.
Tells(A, T, X) == /\ A \in Seq(Steps) /\ A # <<>> /\ TellOf(A) = T
                  /\ \A w : Has(A, w) <=> w \in X

LEMMA TellsOne ==
  ASSUME NEW a \in Steps PROVE Tells(<<a>>, IF Telling(a) THEN {a} ELSE {}, {a.do})
<1>1. StepsOf(<<a>>) = {a} /\ <<a>> \in Seq(Steps) /\ <<a>> # <<>>
  BY StepsOne
<1>2. \A w : Has(<<a>>, w) <=> w \in {a.do}
  BY <1>1, StepsHas
<1> QED BY <1>1, <1>2 DEF Tells, TellOf

LEMMA TellsCat ==
  ASSUME NEW A, NEW B, NEW T, NEW U, NEW X, NEW Y, Tells(A, T, X), Tells(B, U, Y)
  PROVE  Tells(A \o B, T \cup U, X \cup Y) /\ (A \o B)[1] = A[1]
<1>1. A \in Seq(Steps) /\ B \in Seq(Steps) /\ A # <<>> /\ B # <<>>
  BY DEF Tells
<1>2. A \o B # <<>> /\ (A \o B)[1] = A[1]
  BY <1>1
<1> QED BY <1>1, <1>2, TellCat DEF Tells

LEMMA TellsDo ==
  ASSUME NEW w \in {"refresh", "due", "cleanup", "sync", "fill", "rotate", "distrust", "done",
                    "mounted", "epoch", "erase"}
  PROVE  Tells(Do(w), {}, {w}) /\ Do(w)[1].do = w
<1>1. Do(w) = <<Simple(w)>> /\ Simple(w) \in Steps /\ Simple(w).do = w
  BY DoIs
<1>2. ~Telling(Simple(w))
  BY <1>1 DEF Telling, Wit
<1> DEFINE a == Simple(w)
<1>3. a \in Steps /\ a.do = w /\ ~Telling(a) /\ Do(w) = <<a>>
  BY <1>1, <1>2
<1> HIDE DEF a
<1>4. Tells(<<a>>, IF Telling(a) THEN {a} ELSE {}, {a.do}) /\ <<a>>[1] = a
  BY <1>3, TellsOne
<1> QED BY <1>3, <1>4

\* What seals a record, and erases what it takes the place of.
LEMMA TellsSeal ==
  ASSUME NEW x \in Slot, NEW k \in Key, NEW g \in Nat, NEW b \in Body
  PROVE  /\ Tells(SealNow(x, k, g, b),
                  IF x = First /\ k \in Pin THEN {NowStep(x, k, g, b)} ELSE {}, {"program", "retire"})
         /\ Tells(SealLater(x, k, g, b),
                  IF x = First /\ k \in Pin THEN {LaterStep(x, k, g, b)} ELSE {}, {"program"})
         /\ SealNow(x, k, g, b)[1].do = "program" /\ SealLater(x, k, g, b)[1].do = "program"
<1> DEFINE a == NowStep(x, k, g, b)
           c == LaterStep(x, k, g, b)
           r == RetireStep(x)
<1>1. StepIs(a, x, k, g, b) /\ StepIs(c, x, k, g, b) /\ r \in Steps /\ r.do = "retire"
  BY NowStepIs, LaterStepIs, RetireStepIs
<1>2. SealNow(x, k, g, b) = <<a>> \o <<r>> /\ SealLater(x, k, g, b) = <<c>>
  BY DEF SealNow, SealLater, Program, NowStep, LaterStep, SealStep, RetireStep
<1> HIDE DEF a, c, r
<1>3. /\ Telling(a) <=> x = First /\ k \in Pin
      /\ Telling(c) <=> x = First /\ k \in Pin
      /\ ~Telling(r)
  BY <1>1 DEF Telling, Wit, StepIs
<1>4. Tells(<<c>>, IF Telling(c) THEN {c} ELSE {}, {"program"}) /\ <<c>>[1] = c
  <2>1. c.do = "program" /\ c \in Steps
    BY <1>1 DEF StepIs
  <2> QED BY <2>1, TellsOne
<1>5. Tells(<<a>>, IF Telling(a) THEN {a} ELSE {}, {"program"}) /\ <<a>>[1] = a
  <2>1. a.do = "program" /\ a \in Steps
    BY <1>1 DEF StepIs
  <2> QED BY <2>1, TellsOne
<1>6. Tells(<<r>>, {}, {"retire"})
  BY <1>1, <1>3, TellsOne
<1>7. Tells(<<a>> \o <<r>>, (IF Telling(a) THEN {a} ELSE {}) \cup {}, {"program"} \cup {"retire"})
      /\ (<<a>> \o <<r>>)[1] = a
  BY <1>5, <1>6, TellsCat
<1>8. (IF Telling(a) THEN {a} ELSE {}) \cup {} = (IF x = First /\ k \in Pin THEN {a} ELSE {})
      /\ {"program"} \cup {"retire"} = {"program", "retire"}
      /\ (IF Telling(c) THEN {c} ELSE {}) = (IF x = First /\ k \in Pin THEN {c} ELSE {})
  BY <1>3
<1>9. a.do = "program" /\ c.do = "program"
  BY <1>1 DEF StepIs
<1> QED BY <1>2, <1>4, <1>7, <1>8, <1>9 DEF a, c

LEMMA QuietFront ==
  ASSUME Types, JBody, plan # <<>>, UNCHANGED <<disk, ram, hits>>,
         plan[1].do \notin {"refresh", "distrust"},
         NEW A, NEW X, Tells(A, {}, X), "gen" \notin X, "distrust" \notin X,
         A[1].do \notin {"gen", "retire"},
         NEW K, K = plan \/ (K = Tail(plan) /\ ~Telling(plan[1]) /\ "refresh" \notin {plan[1].do}),
         plan' = A \o K
  PROVE  JBody'
<1>1. A \in Seq(Steps) /\ A # <<>> /\ TellOf(A) = {} /\ \A w : Has(A, w) <=> w \in X
  BY DEF Tells
<1>2. /\ K \in Seq(Steps) /\ TellOf(K) = TellOf(plan) /\ ~Has(K, "distrust")
      /\ Has(plan, "refresh") => Has(K, "refresh")
      /\ Has(K, "gen") => Has(plan, "gen")
  <2>1. /\ Tail(plan) \in Seq(Steps) /\ ~Has(Tail(plan), "distrust") /\ ~Has(plan, "distrust")
        /\ \A w : Has(plan, w) <=> plan[1].do = w \/ Has(Tail(plan), w)
    BY TrustTail, TailHas
  <2>2. ~Telling(plan[1]) => TellOf(Tail(plan)) = TellOf(plan)
    BY TellTail DEF Types
  <2> QED BY <2>1, <2>2 DEF Types
<1>3. /\ plan' \in Seq(Steps) /\ TellOf(plan') = TellOf(plan)
      /\ \A w : Has(plan', w) <=> Has(A, w) \/ Has(K, w)
  <2>1. /\ A \o K \in Seq(Steps) /\ TellOf(A \o K) = TellOf(A) \cup TellOf(K)
        /\ \A w : Has(A \o K, w) <=> Has(A, w) \/ Has(K, w)
    BY <1>1, <1>2, TellCat
  <2> QED BY <1>1, <1>2, <2>1
<1>4. plan' # <<>> /\ plan'[1] = A[1]
  BY <1>1, <1>2
<1>5. NoGen(plan')
  BY <1>4 DEF NoGen, NoEntry
<1>6. Alone => BlankHeld'
  <2>1. \A w : Has(plan, w)' <=> Has(plan', w)
    BY ToldNext
  <2>2. found' = found /\ ram' = ram /\ hits' = hits
    BY DEF disk
  <2> QED BY <1>1, <1>2, <1>3, <2>1, <2>2 DEF JBody, Lonely, BlankHeld, Held
<1>7. Current' = Current /\ ~Now("refresh") /\ ~Has(plan', "distrust")
  BY <1>1, <1>2, <1>3, DiskSame DEF disk, Now
<1> QED BY <1>3, <1>5, <1>6, <1>7, NoGenEnters, Quiet DEF disk

LEMMA QuietFronts ==
  ASSUME IBody, JBody, FillOne \/ ResealOne \/ Sync \/ Due
  PROVE  JBody'
<1>1. plan # <<>>
  BY DEF FillOne, ResealOne, Sync, Due, Now
<1>2. Types /\ Universal /\ Phase /\ TypeDisk
  BY <1>1, InPhase DEF Types
<1>3. ASSUME UNCHANGED <<disk, ram, hits>>, plan[1].do \in {"sync", "due"}, plan' = Tail(plan)
      PROVE  JBody'
  <2>1. Current' = Current /\ NoGen(plan')
    BY <1>1, <1>2, <1>3, DiskSame, ShapeNoGen DEF disk
  <2> QED BY <1>1, <1>2, <1>3, <2>1, QuietTail DEF disk, Wit
<1>4. CASE FillOne
  <2> DEFINE x == CHOOSE y \in Unoccupied : TRUE
             g == ram.ledger.gens[First]
  <2>1. /\ plan[1].do = "fill" /\ Unoccupied # {} /\ UNCHANGED <<disk, ram, hits>>
        /\ plan' = WriteFiller(x) \o plan
    BY <1>4 DEF FillOne, Now, ghost
  <2>2. x \in Slot
    BY <2>1 DEF Unoccupied
  <2>3. g \in Nat /\ Filler \in Key /\ Nothing \in Body /\ Filler \notin Pin
    BY <1>2, MemoryType, VaultAssumption, KeysDiffer DEF Ledgers, Key, Body
  <2> HIDE DEF x
  <2>4. WriteFiller(x) = SealNow(x, Filler, g, Nothing)
    BY DEF WriteFiller
  <2> HIDE DEF g
  <2>5. Tells(SealNow(x, Filler, g, Nothing), {}, {"program", "retire"})
        /\ SealNow(x, Filler, g, Nothing)[1].do = "program"
    BY <2>2, <2>3, TellsSeal
  <2> QED BY <1>1, <1>2, <2>1, <2>4, <2>5, QuietFront
<1>5. CASE ResealOne
  <2> DEFINE st == plan[1]
             u == CHOOSE x \in ToReseal(st) : TRUE
             A == IF Opens(ram.table, u, Filler)
                  THEN SealLater(u, Filler, st.gen, Nothing)
                  ELSE SealLater(u, st.key, st.gen, At(ram.table, u).body)
  <2>1. /\ plan[1].do = "reseal" /\ ToReseal(st) # {} /\ UNCHANGED <<disk, ram, hits>>
        /\ plan' = A \o plan
    BY <1>5 DEF ResealOne, Now, ghost
  <2>2. u \in ToReseal(st)
    BY <2>1
  <2>3. ResealFacts(st) /\ st \in ResealSteps
    BY <1>1, <1>2, <2>1, PhaseHead DEF Resealing, ResealFacts
  <2>4. u \in User /\ u \in Slot /\ At(ram.table, u) \in Record
    BY <1>2, <2>2, <2>3, OldIs
  <2>5. st.gen \in Nat /\ st.key \in Key /\ Filler \in Key /\ Nothing \in Body
        /\ At(ram.table, u).body \in Body
    BY <2>3, <2>4 DEF ResealSteps, Key, Body, Record
  <2>6. u # First
    BY <2>4, NamesAssumption, VaultAssumption
  <2> DEFINE b == At(ram.table, u).body
             k == st.key
             g == st.gen
             o == Opens(ram.table, u, Filler)
  <2>7. /\ A = IF o THEN SealLater(u, Filler, g, Nothing) ELSE SealLater(u, k, g, b)
        /\ g \in Nat /\ k \in Key /\ b \in Body
    BY <2>5
  <2>8. plan' = A \o plan
    BY <2>1
  <2> HIDE DEF u, A, b, k, g, o, st
  <2>9. Tells(A, {}, {"program"}) /\ A[1].do = "program"
    BY <2>4, <2>5, <2>6, <2>7, TellsSeal
  <2> QED BY <1>1, <1>2, <2>1, <2>8, <2>9, QuietFront
<1>6. CASE Sync
  <2> DEFINE S == SealNow(Super, Super, 0, ram.policy)
             A == S \o Do("refresh")
  <2>1. /\ plan[1].do = "sync" /\ UNCHANGED <<disk, ram, hits>>
        /\ plan' = IF MirrorStale THEN (S \o Do("refresh")) \o Tail(plan) ELSE Tail(plan)
    BY <1>6 DEF Sync, Now, ghost
  <2>2. CASE ~MirrorStale
    BY <1>3, <2>1, <2>2
  <2>3. CASE MirrorStale
    <3>1. Super # First /\ Super \in Slot /\ ram.policy \in Body /\ Super \in Key /\ 0 \in Nat
      BY <1>2, PolicyBody, NamesAssumption, VaultAssumption, SlotType
    <3>2. Tells(S, {}, {"program", "retire"}) /\ S[1].do = "program"
      BY <3>1, TellsSeal
    <3>3. Tells(Do("refresh"), {}, {"refresh"})
      BY TellsDo
    <3>4. plan' = A \o Tail(plan)
      BY <2>1, <2>3
    <3> HIDE DEF S
    <3>5. Tells(A, {} \cup {}, {"program", "retire"} \cup {"refresh"}) /\ A[1] = S[1]
      BY <3>2, <3>3, TellsCat
    <3>6. ~Telling(plan[1])
      BY <2>1 DEF Telling, Wit
    <3> HIDE DEF A
    <3>7. Tells(A, {}, {"program", "retire", "refresh"})
      <4>1. {} \cup {} = {} /\ {"program", "retire"} \cup {"refresh"} = {"program", "retire", "refresh"}
        OBVIOUS
      <4> QED BY <3>5, <4>1
    <3> QED BY <1>1, <1>2, <2>1, <3>2, <3>4, <3>5, <3>6, <3>7, QuietFront
  <2> QED BY <2>2, <2>3
<1>7. CASE Due
  <2>1. /\ plan[1].do = "due" /\ UNCHANGED <<disk, ram, hits>>
        /\ \/ plan' = Tail(plan)
           \/ plan' = (WipeSteps \o Do("refresh")) \o Tail(plan)
    BY <1>7 DEF Due, Now, Next1
  <2>2. CASE plan' = Tail(plan)
    BY <1>3, <2>1, <2>2
  <2>3. CASE plan' = (WipeSteps \o Do("refresh")) \o Tail(plan)
    <3> DEFINE A == WipeSteps \o Do("refresh")
    <3>1. Tells(A, {}, {"rotate", "epoch", "erase", "refresh"}) /\ A[1].do = "rotate"
      <4>1. /\ Tells(Do("rotate"), {}, {"rotate"}) /\ Tells(Do("epoch"), {}, {"epoch"})
            /\ Tells(Do("erase"), {}, {"erase"}) /\ Tells(Do("refresh"), {}, {"refresh"})
            /\ Do("rotate")[1].do = "rotate"
        BY TellsDo
      <4>2. Tells(Do("rotate") \o Do("epoch"), {} \cup {}, {"rotate"} \cup {"epoch"})
            /\ (Do("rotate") \o Do("epoch"))[1] = Do("rotate")[1]
        BY <4>1, TellsCat
      <4>3. Tells(WipeSteps, ({} \cup {}) \cup {}, ({"rotate"} \cup {"epoch"}) \cup {"erase"})
            /\ WipeSteps[1] = Do("rotate")[1]
        BY <4>1, <4>2, TellsCat DEF WipeSteps
      <4>4. /\ Tells(A, (({} \cup {}) \cup {}) \cup {},
                     (({"rotate"} \cup {"epoch"}) \cup {"erase"}) \cup {"refresh"})
            /\ A[1] = Do("rotate")[1]
        BY <4>1, <4>3, TellsCat
      <4>5. /\ (({} \cup {}) \cup {}) \cup {} = {}
            /\ (({"rotate"} \cup {"epoch"}) \cup {"erase"}) \cup {"refresh"}
               = {"rotate", "epoch", "erase", "refresh"}
        OBVIOUS
      <4> HIDE DEF A
      <4> QED BY <4>1, <4>4, <4>5
    <3>2. plan' = A \o Tail(plan)
      BY <2>3
    <3>3. ~Telling(plan[1])
      BY <2>1 DEF Telling, Wit
    <3> HIDE DEF A
    <3> QED BY <1>1, <1>2, <2>1, <3>1, <3>2, <3>3, QuietFront
  <2> QED BY <2>1, <2>2, <2>3
<1> QED BY <1>4, <1>5, <1>6, <1>7

\* The side that a record has taken the place of is erased.
LEMMA QuietRetire ==
  ASSUME IBody, JBody, DoRetire PROVE JBody'
<1> DEFINE x == plan[1].slot
           t == Target(x)
           T == Tail(plan)
<1>1. /\ plan # <<>> /\ plan[1].do = "retire" /\ plan' = T
      /\ flash' = [flash EXCEPT ![x][Other(t)] = Blank] /\ ram' = [ram EXCEPT !.table[x] = t]
      /\ UNCHANGED <<last, ledger, hits>> /\ Observe
  BY DEF DoRetire, Now, Next1
<1>2. Types /\ Universal /\ Phase /\ TypeDisk
  BY <1>1, InPhase DEF Types
<1>3. ErasedHere
  BY <1>1, <1>2, RetiringIs
<1>4. Current' = Current /\ found' = found
  BY <1>3 DEF ErasedHere
<1>5. ram'.policy = ram.policy /\ ram'.tamper = ram.tamper /\ ram'.state = ram.state
      /\ ram'.ledger = ram.ledger
  BY <1>1, <1>2 DEF Types, Memory
<1>6. NoGen(T) \/ (FirstRetire(plan) /\ T # <<>> /\ T[1].do = "gen")
  <2>1. Shape(plan)
    BY <1>1, <1>2, ShapeIs
  <2>2. ~Canary(plan) /\ ~FirstCanary(plan)
    BY <1>1, StepKinds DEF Canary, FirstCanary, CommitAfter
  <2> QED BY <2>1, <2>2 DEF Shape, NoGen, NoEntry
<1>7. ASSUME FirstRetire(plan), T # <<>>, T[1].do = "gen", Alone PROVE Entered'
  <2>1. Entering(T)
    BY <1>1, <1>7 DEF JBody, Lonely, Entered, Now
  <2>2. flash' = flash
    <3>1. x = First /\ t = "A" /\ flash[First]["B"] = Blank /\ First \in Slot
      BY <1>7, SlotType DEF FirstRetire
    <3>2. flash[First] \in [Side -> Cells] /\ flash = [y \in Slot |-> flash[y]]
      BY <1>2, <3>1 DEF TypeDisk, Flashes, Pairs
    <3>3. Other(t) = "B" /\ "B" \in Side
      BY <3>1 DEF Other, Side
    <3> HIDE DEF x, t
    <3>4. [flash[First] EXCEPT !["B"] = Blank] = flash[First]
      BY <3>1, <3>2, <3>3
    <3>5. flash' = [flash EXCEPT ![First] = [flash[First] EXCEPT !["B"] = Blank]]
      BY <1>1, <3>1, <3>3
    <3> QED BY <3>1, <3>2, <3>4, <3>5
  <2>3. ~Now("retire")'
    BY <1>1, <1>7, ToldNext
  <2>4. Firm' <=> Firm
    BY <1>1, <1>5 DEF Firm
  <2>5. Entering(plan)'
    BY <1>1, <2>1, <2>2, <2>4 DEF Entering, CurrentOf, WithGen
  <2> QED BY <2>3, <2>5 DEF Entered
<1> HIDE DEF T, x, t
<1>8. NoGen(plan') \/ (Alone => Entered')
  BY <1>1, <1>6, <1>7
<1>9. UNCHANGED <<found, ledger, hits>> /\ plan' = Tail(plan)
  BY <1>1, <1>4 DEF T
<1> QED BY <1>1, <1>2, <1>4, <1>5, <1>8, <1>9, QuietTail DEF Wit

\* What RAM learns.
LEMMA Learnt ==
  ASSUME IBody, JBody, DoRefresh PROVE JBody'
<1> DEFINE T == Tail(plan)
<1>1. /\ plan # <<>> /\ plan[1].do = "refresh" /\ plan' = T /\ ram' = View(ledger)
      /\ UNCHANGED <<disk, hits>>
  BY DEF DoRefresh, Now, Next1
<1>2. Types /\ Universal /\ Phase
  BY <1>1, InPhase
<1>3. /\ ram'.ledger = ledger /\ ram'.state = (IF found[First] # NoPin THEN "formatted" ELSE "blank")
      /\ ram'.policy = ledger.policy /\ ram'.tamper = FALSE
  BY <1>1, <1>2, ViewIs
<1>4. T \in Seq(Steps) /\ ~Has(T, "distrust")
  BY <1>1, <1>2, TrustTail
<1>5. TellOf(T) = TellOf(plan)
  <2>1. ~Telling(plan[1])
    BY <1>1 DEF Telling, Wit
  <2> QED BY <1>1, <1>2, <2>1, TellTail DEF Types
<1>6. \A st \in Told : st.do \notin {"head", "policy"}
  <2>1. Shape(plan)
    BY <1>1, <1>2, ShapeIs
  <2> QED BY <1>1, <1>5, <2>1 DEF Shape, Told
<1> HIDE DEF T
<1>7. /\ Told' = Told /\ Current' = Current /\ Witness' = Witness /\ found' = found
      /\ ledger' = ledger /\ hits' = hits /\ (Alone' <=> Alone) /\ (Held' <=> Held)
  BY <1>1, <1>5, ToldNext, DiskSame DEF Told, disk, Alone, Held, Witness
<1>8. Firm' /\ ~ToDo("head") /\ ~ToDo("policy") /\ ~ToDo("head")' /\ ~ToDo("policy")'
  BY <1>3, <1>6, <1>7 DEF Firm, ToDo
<1>9. Distrusting'
  BY <1>1, <1>4, ToldNext DEF Distrusting
<1>10. ASSUME Alone' PROVE Lonely'
  <2>1. Lonely
    BY <1>7, <1>10 DEF JBody
  <2>2. ~Now("distrust")'
    <3>1. T # <<>> => T[1].do # "distrust"
      BY <1>4, TellTail
    <3> QED BY <1>1, <3>1, ToldNext
  <2>3. Held' => Near'
    <3>1. Pending' <=> Pending
      BY <1>7 DEF Pending
    <3> QED BY <1>7, <2>1, <3>1 DEF Lonely, Near
  <2>4. Informed'
    BY <1>3, <1>7 DEF Informed
  <2>5. Witnessing'
    BY <1>7, <1>8, <2>1 DEF Lonely, Witnessing, Coming
  <2>6. Changing' /\ Heading'
    BY <1>6, <1>7, <1>8 DEF Changing, Heading
  <2>7. Entered'
    <3>1. NoGen(plan')
      BY <1>1, <1>2, ShapeNoGen DEF T
    <3> QED BY <1>1, <1>4, <3>1, NoGenEnters
  <2>8. BlankHeld'
    BY <1>3, <1>7 DEF BlankHeld, Held
  <2> QED BY <2>2, <2>3, <2>4, <2>5, <2>6, <2>7, <2>8 DEF Lonely
<1> QED BY <1>9, <1>10 DEF JBody

\* One identity is not distrusted.
LEMMA Distrusted ==
  ASSUME IBody, JBody, Distrust PROVE JBody'
<1>1. /\ plan # <<>> /\ plan[1].do = "distrust" /\ plan' = Tail(plan) /\ found' = found
  BY DEF Distrust, Now, Next1, disk
<1>2. Types
  BY <1>1, InPhase
<1>3. Distrusting'
  BY <1>1, <1>2, TrustTail, ToldNext DEF Distrusting
<1>4. ~Alone
  BY <1>1 DEF JBody, Lonely, Now
<1>5. ~Alone'
  BY <1>1, <1>4 DEF Alone
<1> QED BY <1>3, <1>5 DEF JBody

\* A call comes to its end, and a mount begins.
LEMMA QuietEnd ==
  ASSUME IBody, JBody, Done \/ Fail \/ GenRefused PROVE JBody'
<1>1. /\ plan # <<>> /\ plan[1].do \in {"done", "mounted", "fail", "prove", "gen"} /\ plan' = <<>>
      /\ UNCHANGED <<disk, ram, hits>>
  BY DEF Done, Fail, GenRefused, Now
<1>2. Types /\ Universal /\ Phase
  BY <1>1, InPhase
<1>3. Settle(plan) \/ (Commit(plan) /\ plan[1].do = "gen")
  BY <1>1, <1>2, PhaseHead
<1>4. TellOf(plan) = {} /\ TellOf(plan') = {}
  BY <1>1, <1>2, <1>3, SettleTold, CommitTold, TellNone DEF Types
<1>5. Alone => BlankHeld'
  <2>1. CASE Settle(plan)
    <3>1. StateIs(found)
      BY <1>1, <2>1 DEF Settle, RamFor
    <3> QED BY <1>1, <3>1 DEF BlankHeld, StateIs, Held, disk
  <2>2. CASE plan[1].do = "gen"
    <3>1. Has(plan, "gen")
      BY <1>1, <1>2, <2>2, TailHas
    <3> QED BY <1>1, <3>1 DEF JBody, Lonely, BlankHeld, Held, disk
  <2> QED BY <1>3, <2>1, <2>2
<1>6. plan' \in Seq(Steps) /\ ~Has(plan', "distrust")
  BY <1>1, TellNone
<1>7. Entered'
  BY <1>1, <1>6, NoGenEnters DEF NoGen
<1>8. Current' = Current /\ ~Now("refresh")
  BY <1>1, DiskSame DEF disk, Now
<1> QED BY <1>1, <1>4, <1>5, <1>6, <1>7, <1>8, Quiet DEF disk

\* What the next step needs of a plan to come.
LEMMA NowTail ==
  ASSUME Types, JBody, plan # <<>>, plan' = Tail(plan)
  PROVE  Distrusting' /\ ~Now("distrust")' /\ plan' \in Seq(Steps)
<1>1. Tail(plan) \in Seq(Steps) /\ ~Has(Tail(plan), "distrust")
  BY TrustTail
<1>2. Tail(plan) # <<>> => Tail(plan)[1].do # "distrust"
  BY <1>1, TellTail
<1> QED BY <1>1, <1>2, ToldNext DEF Distrusting

\* A rotation takes the policy in RAM along.
LEMMA Rotating ==
  ASSUME IBody, JBody, Rotate PROVE JBody'
<1> DEFINE T == Tail(plan)
<1>1. /\ plan # <<>> /\ plan[1].do = "rotate" /\ plan' = T
      /\ ledger' = [ram.ledger EXCEPT !.used = 0, !.policy = ram.policy]
      /\ ram' = [ram EXCEPT !.ledger = ledger']
      /\ UNCHANGED <<flash, last, sessions, goal, promised, gap, hits>> /\ Observe
  BY DEF Rotate, Rotated, Now, Next1, ghost
<1>2. Types /\ Universal /\ Phase /\ TypeDisk /\ ram.state # "off"
  BY <1>1, InPhase, Awake DEF Types
<1>3. Settle(plan) \/ Ahead1(T)
  BY <1>1, <1>2, PhaseHead
<1>4. T \in Seq(Steps) /\ \A v : Has(plan, v) <=> "rotate" = v \/ Has(T, v)
  BY <1>1, <1>2, TailHas
<1>5. Live
  <2>1. CASE Settle(plan)
    BY <1>1, <1>4, <2>1 DEF Settle, Live
  <2>2. CASE Ahead1(T)
    BY <2>2, AheadLive
  <2> QED BY <1>3, <2>1, <2>2
<1>6. /\ ledger' \in Ledgers /\ ledger'.epoch = ledger.epoch /\ ledger'.gens = ledger.gens
      /\ ledger'.live /\ ledger'.policy = ram.policy
      /\ ram.ledger = ledger /\ ledger.live
  <2>1. ledger \in Ledgers /\ ram.policy \in Policies
    BY <1>2, MemoryType DEF TypeDisk
  <2> QED BY <1>1, <1>5, <2>1 DEF Live, Ledgers
<1>7. /\ ram'.ledger = ledger' /\ ram'.state = ram.state
      /\ ram'.policy = ram.policy /\ ram'.tamper = ram.tamper
  BY <1>1, <1>2, <1>6 DEF Types, Memory
<1>8. TypeDisk' /\ Current' = Current
  BY <1>1, <1>2, <1>6, LedgerSame DEF Universal
<1>9. found' = found
  BY <1>1, <1>2, <1>6, <1>7, <1>8, Stay
<1>10. TellOf(T) = TellOf(plan) /\ \A st \in Told : st.do # "head"
  <2>1. ~Telling(plan[1])
    BY <1>1 DEF Telling, Wit
  <2>2. Shape(plan)
    BY <1>1, <1>2, ShapeIs
  <2>3. TellOf(T) = TellOf(plan)
    BY <1>1, <1>2, <2>1, TellTail DEF Types
  <2> QED BY <2>2, <2>3 DEF Shape, Told
<1>11. NoGen(T)
  BY <1>1, <1>2, ShapeNoGen
<1> HIDE DEF T
<1>12. Distrusting' /\ ~Now("distrust")' /\ plan' \in Seq(Steps)
  BY <1>1, <1>2, NowTail DEF T
<1>13. /\ Told' = Told /\ Witness' = Witness /\ (Alone' <=> Alone) /\ (Held' <=> Held)
       /\ hits' = hits /\ (Firm' <=> ~ram.tamper) /\ ~ToDo("head") /\ ~ToDo("head")'
       /\ (ToDo("policy")' <=> ToDo("policy"))
  BY <1>1, <1>6, <1>7, <1>8, <1>9, <1>10, ToldNext DEF Told, Witness, Alone, Held, Firm, ToDo
<1>14. ASSUME Alone' PROVE Lonely'
  <2>1. Lonely /\ ~Now("refresh")
    BY <1>1, <1>13, <1>14 DEF JBody, Now
  <2>2. Held => Firm /\ ledger'.policy = ledger.policy
    BY <1>2, <1>6, <2>1 DEF Lonely, Informed, Firm
  <2>3. Pending' <=> Pending
    BY <1>6, <1>13 DEF Pending
  <2>4. Held' => Near' /\ Informed'
    BY <1>6, <1>7, <1>13, <2>1, <2>2, <2>3 DEF Lonely, Near, Informed, Firm
  <2>5. Witnessing'
    <3>1. ASSUME NEW st \in Told, Wit(st) PROVE Coming(st.body)' /\ Firm'
      <4>1. Coming(st.body) /\ Firm
        BY <1>13, <2>1, <3>1 DEF Lonely, Witnessing
      <4> QED BY <1>6, <1>13, <4>1 DEF Coming, Firm
    <3> QED BY <1>13, <3>1 DEF Witnessing
  <2>6. Changing'
    BY <1>6, <1>13, <2>1, <2>2, <2>3 DEF Lonely, Changing, Firm
  <2>7. Heading'
    BY <1>13 DEF Heading
  <2>8. Entered'
    BY <1>1, <1>11, <1>12, NoGenEnters
  <2>9. BlankHeld'
    BY <1>1, <1>2, <1>7, <1>9, <2>1, BlankTail DEF Lonely, T
  <2> QED BY <1>12, <2>4, <2>5, <2>6, <2>7, <2>8, <2>9 DEF Lonely
<1> QED BY <1>12, <1>14 DEF JBody

-----------------------------------------------------------------------------
(***************************************************************************)
(* What a record that is programmed leaves to be told.                     *)
(***************************************************************************)
\* Where nothing more is told of, what is left to show.
LEMMA Silent ==
  ASSUME Types, JBody, plan # <<>>, plan' = Tail(plan), TellOf(plan') = {},
         Alone' => /\ Held' => Near' /\ Informed'
                   /\ Entered' /\ BlankHeld'
  PROVE  JBody'
<1>1. Distrusting' /\ ~Now("distrust")'
  BY NowTail
<1>2. Told' = {}
  BY ToldNext
<1>3. Witnessing' /\ Changing' /\ Heading'
  BY <1>2 DEF Witnessing, Changing, Heading, ToDo
<1> QED BY <1>1, <1>3 DEF JBody, Lonely

\* It is a canary, and its generation is to come.
LEMMA CanaryWitness ==
  ASSUME IBody, JBody, plan # <<>>, plan[1].do = "program", plan' = Tail(plan),
         NEW st, st = plan[1], Wrote(st), NEW R \in Seq(Steps),
         NEW g, NEW T, NEW l, NEW e, CanaryOK(st, R, g, T, l, e), CommitOK(R, g, T, l, e),
         Current' = Current, found' = found,
         TellOf(plan') = {}, Has(plan, "gen"), ~Held \/ st.later,
         plan' # <<>>, R = IF plan'[1].do = "retire" THEN Tail(plan') ELSE plan'
  PROVE  JBody'
<1>1. Types /\ Universal /\ Phase /\ TypeDisk
  BY InPhase DEF Types
<1>2. /\ ledger' = ledger /\ hits' = hits /\ ram'.policy = ram.policy /\ ram'.tamper = ram.tamper
      /\ ram'.state = ram.state /\ ram'.ledger = ram.ledger
  <2>1. Live
    BY DEF CanaryOK
  <2>2. WroteOK(st.slot, Target(st.slot), Sealed(st), st.later)
    BY <1>1, <2>1, WroteIs
  <2> QED BY <2>2 DEF WroteOK
<1>3. Told' = {} /\ (Alone' <=> Alone) /\ (Held' <=> Held) /\ Witness' = Witness /\ (Firm' <=> Firm)
  BY <1>2, ToldNext DEF Alone, Held, Witness, Firm
<1>4. Told \subseteq {st}
  BY <1>1, TellTail DEF Told, Types
<1>5. ~Now("refresh") /\ ~ToDo("head") /\ ~ToDo("policy")
  BY <1>4 DEF Now, ToDo
<1>6. ASSUME Alone', Held' PROVE Near' /\ Informed'
  <2>1. Lonely /\ Held /\ st.later
    BY <1>3, <1>6 DEF JBody
  <2>2. ~Pending
    BY <1>4, <2>1 DEF Pending
  <2> QED BY <1>2, <1>3, <1>5, <2>1, <2>2 DEF Lonely, Near, Informed
<1>7. ASSUME Alone' PROVE Entered'
  <2> DEFINE c == CurOf(flash', last', l)[First]
  <2>1. CurOf(flash', last', l) = e /\ l = WithGen(ledger', g) /\ R[1] = g /\ Len(R) >= 2
    BY DEF CommitOK
  <2>2. ASSUME g.id = First, e[First] # Blank, e[First].key \in Pin
        PROVE  Firm /\ e[First].body = ledger.policy
    <3>1. e = Put(CurOf(flash, last, l), First, Sealed(st)) /\ st \in Programs /\ st.slot = First
      BY <2>2 DEF CanaryOK
    <3>2. e[First] = Sealed(st)
      <4>1. First \in DOMAIN CurOf(flash, last, l)
        BY SlotType DEF CurOf
      <4> HIDE DEF CanaryOK, CommitOK
      <4> QED BY <3>1, <4>1 DEF Put
    <3>3. Sealed(st).key = st.key /\ Sealed(st).body = st.body
      BY <1>1, <3>1, SealedIs
    <3>4. Wit(st) /\ st \in Told
      <4>1. Wit(st)
        BY <2>2, <3>1, <3>2, <3>3 DEF Wit
      <4> QED BY <1>1, <4>1, TellTail DEF Told, Telling, Types
    <3>5. Lonely
      BY <1>3, <1>7 DEF JBody
    <3>6. Firm /\ st.body = ledger.policy
      BY <1>5, <3>4, <3>5 DEF Lonely, Witnessing, Coming
    <3> QED BY <3>2, <3>3, <3>6
  <2>3. Entering(R)'
    <3>1. ASSUME R[1].id = First
          PROVE  LET d == CurrentOf(WithGen(ledger, R[1]))'[First]
                 IN d # Blank /\ d.key \in Pin => Firm' /\ d.body = ledger'.policy
      <4>1. CurrentOf(WithGen(ledger, R[1]))' = e
        BY <2>1 DEF CurrentOf, WithGen
      <4> QED BY <1>2, <1>3, <2>1, <2>2, <3>1, <4>1
    <3> QED BY <3>1 DEF Entering
  <2>4. Now("retire")' <=> plan'[1].do = "retire"
    BY ToldNext
  <2>5. CASE plan'[1].do = "retire"
    <3>1. Entering(Tail(plan))'
      BY <2>3, <2>5
    <3> QED BY <2>4, <2>5, <3>1 DEF Entered
  <2>6. CASE plan'[1].do # "retire"
    <3>1. Entering(plan)'
      BY <2>3, <2>6
    <3> QED BY <2>4, <2>6, <3>1 DEF Entered
  <2> QED BY <2>5, <2>6
<1>8. ASSUME Alone' PROVE BlankHeld'
  BY <1>2, <1>3, <1>8 DEF JBody, Lonely, BlankHeld
<1> QED BY <1>1, <1>6, <1>7, <1>8, Silent

LEMMA CanaryTold ==
  ASSUME IBody, JBody, plan # <<>>, plan[1].do = "program", plan' = Tail(plan),
         NEW st, st = plan[1], Wrote(st), Canary(plan)
  PROVE  JBody'
<1> DEFINE x == st.slot
           t == Target(x)
           r == Sealed(st)
           R == Tail(plan)
           g == R[1]
           T == Tail(R)
           l == WithGen(ledger, g)
           e == Put(CurrentOf(l), g.id, r)
<1>0. Types /\ Universal /\ Phase /\ TypeDisk
  BY InPhase DEF Types
<1>1. R \in Seq(Steps)
  BY <1>0, TailHas
<1>2. CanaryOK(st, R, g, T, l, e)
  BY <1>1, CanaryIs DEF Canary
<1>3. InSlot(x) /\ Has(R, "cleanup") /\ st.later /\ Live /\ x = g.id /\ st \in Programs
  BY <1>2 DEF Canary, CanaryOK
<1>4. WroteOK(x, t, r, st.later)
  BY <1>0, <1>3, WroteIs
<1>5. t # WinAt(x)
  BY <1>0, <1>3, <1>4, TargetIsFree DEF InSlot, WroteOK
<1>6. R # <<>> /\ g.do = "gen" /\ TellOf(R) = {}
  <2>1. CommitAfter(st, R)
    BY DEF Canary
  <2> QED BY <1>1, <2>1, CommitTold
<1>7. Has(T, "cleanup")
  BY <1>1, <1>3, <1>6, HasTail
<1> HIDE DEF x, t, r, R, g, T, l, e
<1>8. CommitOK(R, g, T, l, e) /\ Current' = Current /\ found' = found
  <2>1. r = Sealed(st) /\ WroteOK(g.id, t, r, st.later) /\ t # WinAt(g.id)
    BY <1>3, <1>4, <1>5 DEF r
  <2> QED BY <1>0, <1>2, <1>7, <2>1, CanaryWritten
<1>9. plan' = R
  BY DEF R
<1>10. Has(plan, "gen") /\ plan'[1].do # "retire"
  <2>1. Has(R, "gen")
    BY <1>1, <1>6, TellTail DEF g
  <2> QED BY <1>0, <1>6, <1>9, <2>1, TailHas DEF R, g
<1> QED BY <1>1, <1>2, <1>3, <1>6, <1>8, <1>9, <1>10, CanaryWitness

LEMMA FirstTold ==
  ASSUME IBody, JBody, plan # <<>>, plan[1].do = "program", plan' = Tail(plan),
         NEW st, st = plan[1], Wrote(st), FirstCanary(plan)
  PROVE  JBody'
<1> DEFINE P == Tail(plan)
           R == Tail(P)
           g == R[1]
           T == Tail(R)
           l == WithGen(ledger, g)
           e == Put(CurrentOf(l), g.id, Sealed(st))
<1>0. Types /\ Universal /\ Phase /\ TypeDisk
  BY InPhase DEF Types
<1>1. IBody'
  BY <1>0, ProgramFirst
<1>2. /\ Len(plan) >= 3 /\ CommitAfter(st, R) /\ ~st.later /\ st.slot = First
      /\ plan[2] = RetireStep(First) /\ InSlot(First) /\ Current[First] = Blank
  BY DEF FirstCanary, RetireStep
<1>3. P \in Seq(Steps) /\ P # <<>> /\ P[1] = RetireStep(First)
  BY <1>0, <1>2, TailHas, TailIs DEF Types
<1>4. R \in Seq(Steps)
  BY <1>3, TailIs
<1>5. CanaryOK(st, R, g, T, l, e)
  BY <1>2, <1>4, CanaryIs
<1>6. TellOf(R) = {} /\ R # <<>> /\ R[1].do = "gen"
  BY <1>2, <1>4, CommitTold
<1>7. P[1].do = "retire" /\ TellOf(P) = {}
  <2>1. P[1].do = "retire"
    BY <1>3 DEF RetireStep
  <2> HIDE DEF P
  <2> QED BY <1>3, <1>6, <2>1, TellTail DEF Telling, Wit
<1>8. Live /\ st \in Programs /\ st.slot = g.id /\ g.do = "gen" /\ Gen(g)
  BY <1>5 DEF CanaryOK
<1>9. WroteOK(First, Target(First), Sealed(st), FALSE)
  <2>1. st.later = FALSE
    BY <1>2, <1>8, StepKinds
  <2> QED BY <1>0, <1>2, <1>8, <2>1, WroteIs
<1>10. Has(plan, "gen")
  <2>1. Has(R, "gen") /\ \A v : Has(P, v) <=> P[1].do = v \/ Has(R, v)
    BY <1>3, <1>4, <1>6, TellTail
  <2> QED BY <1>0, <2>1, TailHas
<1>11. ~Held
  BY <1>0, <1>2, Facts DEF Held
<1> HIDE DEF P, R, g, T, l, e
<1>12. /\ First \in Slot /\ ram.table[First] = "none" /\ WinAt(First) = "none"
       /\ Target(First) = "A" /\ flash[First]["B"] = Blank
  <2>1. First \in Slot
    BY SlotType
  <2>2. WinAt(First) = "none" /\ ram.table[First] = WinAt(First)
    BY <1>0, <1>2, <2>1, CurrentType DEF InSlot
  <2>3. Target(First) = "A"
    BY <2>2 DEF Target
  <2>4. \A s \in Side : flash[First][s] = Blank
    BY <1>2, <2>2 DEF InSlot, Clean, CleanOf, CleanPair, WinAt, Side
  <2> QED BY <1>2, <2>1, <2>2, <2>3, <2>4 DEF Side
<1>13. CleanPair(l, First, flash'[First], last'[First])
  <2>1. /\ OneSide(flash, last, flash', last', First, "A") /\ flash'[First]["A"] = Sealed(st)
        /\ last'[First] = "A" /\ flash'[First]["B"] = Blank
    BY <1>9, <1>12 DEF WroteOK, OneSide, Other
  <2>2. Fit(l, First, Sealed(st))
    <3>1. /\ g \in [do : {"gen"}, id : Identity, gen : Nat] /\ Fresh(g.gen) /\ st.gen = g.gen
          /\ g.id = First /\ l = WithGen(ledger, g)
      BY <1>2, <1>5, <1>8 DEF CanaryOK, Gen
    <3>2. l.epoch = ledger.epoch /\ l.gens[g.id] = g.gen
      BY <1>0, <3>1, GenLedger
    <3>3. g.gen # 0 /\ First \in Identity
      <4>1. \A j \in Identity : ledger.gens[j] \in Nat /\ ledger.gens[j] < g.gen
        BY <1>0, <3>1, LedgerType DEF Fresh
      <4> QED BY <3>1, <4>1, SlotType
    <3>4. Sealed(st) \in Record /\ Sealed(st).gen = st.gen /\ Sealed(st).epoch = ledger.epoch
      BY <1>0, <1>8, SealedIs DEF Live
    <3> QED BY <3>1, <3>2, <3>3, <3>4, FitIs
  <2> DEFINE q == flash'[First]
             s == last'[First]
             r == Sealed(st)
  <2>3. Fit(l, First, q["A"]) /\ s = "A" /\ q["B"] = Blank
    BY <2>1, <2>2
  <2> HIDE DEF q, s, r
  <2>4. Win(l, First, q, s) = "A"
    BY <2>3 DEF Win
  <2>5. CleanPair(l, First, q, s)
    BY <2>3, <2>4 DEF CleanPair, Side
  <2> QED BY <2>5 DEF q, s
<1>14. CommitOK(R, g, T, l, e) /\ Current' = Current /\ found' = found
  <2>1. g.id = First /\ "A" # WinAt(g.id)
    BY <1>2, <1>8, <1>12
  <2>2. WroteOK(g.id, "A", Sealed(st), FALSE)
    BY <1>9, <1>12, <2>1
  <2> QED BY <1>0, <1>5, <1>13, <2>1, <2>2, CanaryWritten
<1>15. plan' = P /\ R = Tail(P)
  BY DEF P, R
<1> QED BY <1>3, <1>4, <1>5, <1>7, <1>10, <1>11, <1>14, <1>15, CanaryWitness

-----------------------------------------------------------------------------
(***************************************************************************)
(* What a cell that is committed leaves to be told.                        *)
(***************************************************************************)
\* A canary of a generation that stays in force is elected as it was.
LEMMA SameCanary ==
  ASSUME Types, Universal, NEW l, l.epoch = ledger.epoch, l.gens[First] = ledger.gens[First],
         Owned(CurrentOf(l), l.gens), CurrentOf(l)[First] # Blank
  PROVE  Current[First] = CurrentOf(l)[First]
<1> DEFINE e == CurrentOf(l)
           q == flash[First]
           s == last[First]
           n == ledger.gens[First]
<1>1. First \in Slot /\ First # Super /\ First \in Identity
  BY SlotType, NamesAssumption
<1>2. e[First].gen = n /\ n # 0 /\ e[First] # Blank
  BY FirstIs
<1>3. e[First] = Top(l, First, q, s) /\ Current[First] = Top(ledger, First, q, s)
  BY <1>1 DEF CurrentOf, CurOf, Current
<1>4. Current[First] # Blank => Current[First].gen = n
  BY Facts, FirstIs DEF Types
<1>5. \A c : c.gen = n => (Fit(l, First, c) <=> Fit(ledger, First, c))
  <2>1. n = l.gens[First]
    OBVIOUS
  <2> HIDE DEF n
  <2>2. \A c : c.gen = n => (IsCandidate(l, First, c) <=> c.epoch = l.epoch)
    BY <1>1, <1>2, <2>1 DEF IsCandidate
  <2>3. n = ledger.gens[First]
    BY DEF n
  <2>4. \A c : c.gen = n => (IsCandidate(ledger, First, c) <=> c.epoch = l.epoch)
    BY <1>1, <1>2, <2>3 DEF IsCandidate
  <2> QED BY <2>2, <2>4 DEF Fit
<1> HIDE DEF e, q, s, n
<1>6. ~Fit(ledger, First, Blank) /\ ~Fit(l, First, Blank)
  BY BlankUnfit
<1>7. CASE Fit(l, First, q[s])
  <2>1. e[First] = q[s]
    BY <1>3, <1>7 DEF Top
  <2> QED BY <1>2, <1>3, <1>5, <1>7, <2>1 DEF Top, e
<1>8. CASE ~Fit(l, First, q[s])
  <2>1. e[First] = q[Other(s)] /\ Fit(l, First, q[Other(s)])
    BY <1>2, <1>3, <1>8 DEF Top
  <2>2. Fit(ledger, First, q[Other(s)])
    BY <1>2, <1>5, <2>1
  <2>3. ~Fit(ledger, First, q[s])
    <3>1. ASSUME Fit(ledger, First, q[s]) PROVE FALSE
      <4>1. Current[First] = q[s]
        BY <1>3, <3>1 DEF Top
      <4>2. q[s] # Blank
        BY <1>6, <3>1
      <4> QED BY <1>4, <1>5, <1>8, <3>1, <4>1, <4>2
    <3> QED BY <3>1
  <2> QED BY <1>3, <2>1, <2>2, <2>3 DEF Top, e
<1> QED BY <1>7, <1>8

\* The canary that is elected once a generation is committed.
LEMMA GenWitness ==
  ASSUME Types, Universal, Lonely, plan # <<>>, plan[1].do = "gen", Commit(plan),
         NEW l, l = WithGen(ledger, plan[1]), NEW e, e = CurrentOf(l), e[First] # Blank
  PROVE  (Firm /\ e[First].body = ledger.policy) \/ (Held /\ e[First] = Current[First])
<1> DEFINE g == plan[1]
<1>1. Len(plan) >= 2 /\ g \in [do : {"gen"}, id : Identity, gen : Nat] /\ Ahead(e, l)
  BY DEF Commit, Gen
<1>2. /\ l.epoch = ledger.epoch /\ l.gens[g.id] = g.gen
      /\ \A j \in Identity \ {g.id} : l.gens[j] = ledger.gens[j]
  BY <1>1, GenLedger DEF Types
<1>3. Owned(e, l.gens)
  BY <1>1 DEF Ahead, Sound
<1>4. CASE g.id = First
  <2>1. e[First].key \in Pin
    BY <1>3, FirstIs
  <2>2. Len(plan) >= 1 /\ Entering(plan)
    BY <1>1, TailHas DEF Lonely, Entered, Now
  <2> QED BY <1>4, <2>1, <2>2 DEF Entering
<1>5. CASE g.id # First
  <2>1. l.gens[First] = ledger.gens[First]
    BY <1>2, <1>5, SlotType
  <2>2. e[First] = Current[First]
    BY <1>2, <1>3, <2>1, SameCanary
  <2>3. Held
    BY <2>2, Facts DEF Held, Types
  <2> QED BY <2>2, <2>3
<1> QED BY <1>4, <1>5

LEMMA Amended ==
  ASSUME IBody, JBody, DoPolicy PROVE JBody'
<1> DEFINE p == plan[1].policy
           T == Tail(plan)
<1>1. /\ plan # <<>> /\ plan[1].do = "policy" /\ plan' = T /\ ledger' = WithPolicy(ledger, p)
      /\ ram' = [ram EXCEPT !.ledger = ledger', !.policy = p]
      /\ UNCHANGED <<flash, last, sessions, goal, promised, gap, hits>> /\ Observe
  BY DEF DoPolicy, Now, Next1, ghost
<1>2. Types /\ Universal /\ Phase /\ TypeDisk
  BY <1>1, InPhase DEF Types
<1>3. Amend(plan)
  BY <1>1, <1>2, PhaseHead
<1>4. p \in Policies /\ Seal(T) /\ Live
  BY <1>3 DEF Amend, Seal
<1>5. /\ T \in Seq(Steps) /\ T # <<>> /\ T[1].do = "program" /\ OnlyWits(T) /\ ~Has(T, "gen")
  <2>1. T \in Seq(Steps)
    BY <1>1, <1>2, TailHas
  <2> QED BY <1>4, <2>1, SealTold
<1>6. /\ ledger' \in Ledgers /\ ledger'.epoch = ledger.epoch /\ ledger'.gens = ledger.gens
      /\ ledger'.live /\ ledger.live /\ ledger'.policy = p
  BY <1>1, <1>2, <1>4 DEF TypeDisk, Ledgers, WithPolicy, Live
<1> HIDE DEF p
<1>7. /\ ram'.ledger = ledger' /\ ram'.policy = p /\ ram'.state = ram.state
      /\ ram'.tamper = ram.tamper
  BY <1>1, <1>2, <1>4, <1>6 DEF Types, Memory
<1>8. TypeDisk' /\ Current' = Current
  BY <1>1, <1>2, <1>6, LedgerSame DEF Universal
<1>9. found' = found
  BY <1>1, <1>2, <1>6, <1>7, <1>8, Stay
<1>10. Told = {plan[1]} \cup TellOf(T)
  <2>1. Telling(plan[1])
    BY <1>1 DEF Telling
  <2> QED BY <1>1, <1>2, <2>1, TellTail DEF Types, Told
<1> HIDE DEF T
<1>11. Distrusting' /\ ~Now("distrust")'
  BY <1>1, <1>2, NowTail DEF T
<1>12. /\ Told' = TellOf(T) /\ Witness' = Witness /\ (Alone' <=> Alone) /\ (Held' <=> Held)
       /\ hits' = hits /\ (\A st \in TellOf(T) : Wit(st) /\ st \in Told)
       /\ plan[1] \in Told /\ ~Wit(plan[1])
  BY <1>1, <1>5, <1>8, <1>9, <1>10, ToldNext DEF Witness, Alone, Held, OnlyWits, Wit
<1>13. ASSUME Alone' PROVE Lonely'
  <2>1. Lonely
    BY <1>12, <1>13 DEF JBody
  <2>2. /\ Firm /\ Held /\ Pending /\ p.gen = ledger.policy.gen + 1
        /\ (hits >= 1 \/ Witness = ledger.policy)
    BY <1>1, <1>12, <2>1 DEF Lonely, Changing, p
  <2>3. Pending'
    <3>1. PICK st \in Told : Wit(st) /\ ~st.later /\ st.gen = ledger.gens[First]
      BY <2>2 DEF Pending
    <3>2. st \in TellOf(T)
      BY <1>10, <1>12, <3>1
    <3> QED BY <1>6, <1>12, <3>1, <3>2 DEF Pending
  <2>4. Near'
    BY <1>6, <1>12, <2>2, <2>3 DEF Near
  <2>5. Firm' /\ Informed'
    BY <1>6, <1>7, <2>2 DEF Firm, Informed
  <2>6. ~ToDo("policy")' /\ ~ToDo("head")'
    BY <1>12 DEF ToDo, Wit
  <2>7. Witnessing'
    <3>1. ASSUME NEW st \in TellOf(T) PROVE st.body = p
      <4>1. Coming(st.body)
        BY <1>12, <2>1, <3>1 DEF Lonely, Witnessing
      <4>2. ToDo("policy") /\ ~ToDo("head")
        BY <1>1, <1>10, <1>12 DEF ToDo, Wit
      <4> QED BY <1>1, <1>12, <4>1, <4>2 DEF Coming, p
    <3> QED BY <1>6, <1>12, <2>5, <2>6, <3>1 DEF Witnessing, Coming
  <2>8. Changing' /\ Heading'
    BY <2>6 DEF Changing, Heading, ToDo
  <2>9. Entered'
    <3>1. NoGen(T)
      BY <1>5 DEF NoGen, NoEntry
    <3> QED BY <1>1, <1>5, <3>1, NoGenEnters
  <2>10. BlankHeld'
    BY <1>1, <1>2, <1>7, <1>9, <2>1, BlankTail DEF Lonely, T
  <2> QED BY <1>11, <2>4, <2>5, <2>7, <2>8, <2>9, <2>10 DEF Lonely
<1> QED BY <1>11, <1>13 DEF JBody

LEMMA Wiped ==
  ASSUME IBody, JBody, DoEpoch PROVE JBody'
<1> DEFINE T == Tail(plan)
<1>1. plan # <<>> /\ plan[1].do = "epoch" /\ plan' = T
      /\ ledger' = WithEpoch(ledger) /\ UNCHANGED <<flash, last>>
  BY DEF DoEpoch, Now, Next1
<1>2. Types /\ Universal /\ Phase /\ TypeDisk
  BY <1>1, InPhase DEF Types
<1>3. Epoch(plan)
  BY <1>1, <1>2, PhaseHead
<1>4. T \in Seq(Steps) /\ Mute(T) /\ ~Has(T, "distrust")
  <2>1. EpochTold(plan)
    BY <1>2, <1>3, EpochTells DEF Types
  <2> QED BY <1>1, <1>2, <2>1, TrustTail DEF EpochTold
<1>5. ~Held'
  <2>1. EpochOK(WithEpoch(ledger))
    BY <1>1, <1>2, <1>3, EpochIs
  <2>2. IBody'
    BY StepEpoch
  <2>3. found' = Nobody
    BY <1>1, <2>1, <2>2 DEF IBody, Universal, FoundIs, EpochOK
  <2> QED BY <2>3, SlotType DEF Held, Nobody
<1> QED BY <1>1, <1>4, <1>5, Blown

LEMMA Headed ==
  ASSUME IBody, JBody, DoHead PROVE JBody'
<1> DEFINE T == Tail(plan)
           l == FormatHead
<1>1. /\ plan # <<>> /\ plan[1].do = "head" /\ plan' = T /\ ledger' = l
      /\ ram' = [ram EXCEPT !.ledger = l]
      /\ UNCHANGED <<flash, last, sessions, goal, promised, gap, hits>> /\ Observe
  BY DEF DoHead, Now, Next1, ghost
<1>2. Types /\ Universal /\ Phase /\ TypeDisk
  BY <1>1, InPhase DEF Types
<1>3. PICK p \in Pin : FormatFacts(p) /\ Formatting0(p, plan)
  BY <1>1, <1>2, PhaseHead
<1> DEFINE w == FormatWit(p, l.policy)
<1>4. plan = FormatPlan(p, l.policy) /\ ram.state = "blank" /\ ram.ledger = ledger
  BY <1>3 DEF Formatting0, FormatFacts
<1>5. l \in Ledgers /\ l.live /\ l.epoch = ledger.epoch /\ l.gens = ledger.gens
  BY <1>2, <1>4, FormatHeadIs
<1>6. T \in Seq(Steps) /\ TellOf(T) = {w} /\ T[1].do = "refresh" /\ T # <<>>
  <2>1. T \in Seq(Steps)
    BY <1>1, <1>2, TailHas
  <2>2. T[1] = Simple("refresh") /\ T # <<>>
    BY <1>4, FormatPlanIs
  <2>3. TellOf(T) = {w}
    <3>1. Tail(FormatPlan(p, l.policy)) \in Seq(Steps)
      BY <1>4, <2>1
    <3>2. FormatPlan(p, l.policy) \in Seq(Steps)
      BY <1>2, <1>4 DEF Types
    <3>3. TellOf(Tail(FormatPlan(p, l.policy))) = {w}
      BY <3>1, <3>2, FormatShape
    <3> QED BY <1>4, <3>3
  <2> QED BY <2>1, <2>2, <2>3 DEF Simple
<1>7. w.do = "program" /\ w.body = l.policy
  BY DEF FormatWit, SealStep
<1>8. Told = {plan[1], w}
  <2>1. Telling(plan[1])
    BY <1>1 DEF Telling
  <2> QED BY <1>1, <1>2, <1>6, <2>1, TellTail DEF Types, Told
<1> HIDE DEF l, w
<1>9. /\ ram'.ledger = l /\ ram'.state = ram.state /\ ram'.policy = ram.policy
      /\ ram'.tamper = ram.tamper
  BY <1>1, <1>2, <1>5 DEF Types, Memory
<1>10. TypeDisk'
  <2>1. IBody'
    BY StepHead
  <2> QED BY <2>1 DEF IBody, Types
<1>11. Current' = Current
  BY <1>1, <1>5, SameCur DEF Current
<1>12. found' = found
  BY <1>1, <1>2, <1>5, <1>9, <1>10, <1>11, Stay
<1> HIDE DEF T
<1>13. Distrusting' /\ ~Now("distrust")'
  BY <1>1, <1>2, NowTail DEF T
<1>14. /\ Told' = {w} /\ (Alone' <=> Alone) /\ (Held' <=> Held) /\ hits' = hits /\ Now("refresh")'
  BY <1>1, <1>6, <1>12, ToldNext DEF Alone, Held
<1>15. ~ToDo("policy")' /\ ~ToDo("head")' /\ ToDo("head")
  BY <1>1, <1>7, <1>8, <1>14 DEF ToDo
<1>16. ASSUME Alone' PROVE Lonely'
  <2>1. Lonely
    BY <1>14, <1>16 DEF JBody
  <2>2. ASSUME Held PROVE hits >= 1 /\ Pending'
    <3>1. hits >= 1 /\ Pending
      BY <1>15, <2>1, <2>2 DEF Lonely, Heading
    <3>2. PICK st \in Told : Wit(st) /\ ~st.later /\ st.gen = ledger.gens[First]
      BY <3>1 DEF Pending
    <3>3. st = w
      BY <1>1, <1>8, <3>2 DEF Wit
    <3> QED BY <1>1, <1>5, <1>14, <3>1, <3>2, <3>3 DEF Pending
  <2>3. Held' => Near' /\ Informed'
    <3>1. Held => ~ram.tamper
      BY <2>1 DEF Lonely, Informed
    <3> QED BY <1>9, <1>14, <2>2, <3>1 DEF Near, Informed
  <2>4. Witnessing'
    BY <1>1, <1>7, <1>14, <1>15 DEF Witnessing, Coming
  <2>5. Changing' /\ Heading'
    BY <1>15 DEF Changing, Heading, ToDo
  <2>6. Entered'
    <3>1. NoGen(T)
      BY <1>6 DEF NoGen, NoEntry
    <3> QED BY <1>1, <1>6, <3>1, NoGenEnters
  <2>7. BlankHeld'
    BY <1>14, <2>2 DEF BlankHeld
  <2> QED BY <1>13, <2>3, <2>4, <2>5, <2>6, <2>7 DEF Lonely
<1> QED BY <1>13, <1>16 DEF JBody

=============================================================================
