-------------------------- MODULE VaultRecordsProofs ------------------------
(***************************************************************************)
(* Theorems about VaultRecords, for any slots, identities, PINs and data,  *)
(* every number of calls, cuts and errors, and every size of the           *)
(* generation log.                                                         *)
(*                                                                         *)
(* Module VaultStepsProofs has shown that the steps of a call keep the     *)
(* invariant.  Here it is shown that each call starts with it, and that it *)
(* survives a cut or an error at any step: what such a step leaves is what *)
(* was there, what the step would have made of it, or a torn side, cell or *)
(* head that no mount elects.                                              *)
(***************************************************************************)
EXTENDS VaultStepsProofs

-----------------------------------------------------------------------------
(***************************************************************************)
(* Concatenation, from the right.                                          *)
(***************************************************************************)
Cat(A, B) == A \o B

LEMMA CatIs ==
  /\ \A A \in Seq(Steps), B \in Seq(Steps) : Cat(A, B) \in Seq(Steps)
  /\ \A A \in Seq(Steps), B \in Seq(Steps), C \in Seq(Steps) : Cat(Cat(A, B), C) = Cat(A, Cat(B, C))
<1>1. ASSUME NEW A \in Seq(Steps), NEW B \in Seq(Steps) PROVE Cat(A, B) \in Seq(Steps)
  BY ConcatProperties DEF Cat
<1>2. ASSUME NEW A \in Seq(Steps), NEW B \in Seq(Steps), NEW C \in Seq(Steps)
      PROVE  Cat(Cat(A, B), C) = Cat(A, Cat(B, C))
  <2>1. (A \o B) \o C = A \o (B \o C)
    BY Assoc
  <2> QED BY <2>1 DEF Cat
<1> QED BY <1>1, <1>2

LEMMA Right3 ==
  ASSUME NEW A \in Seq(Steps), NEW B \in Seq(Steps), NEW C \in Seq(Steps)
  PROVE  Cat(Cat(A, B), C) = Cat(A, Cat(B, C)) /\ Cat(B, C) \in Seq(Steps)
BY CatIs

LEMMA Right4 ==
  ASSUME NEW A \in Seq(Steps), NEW B \in Seq(Steps), NEW C \in Seq(Steps), NEW D \in Seq(Steps)
  PROVE  /\ Cat(Cat(Cat(A, B), C), D) = Cat(A, Cat(B, Cat(C, D)))
         /\ Cat(B, Cat(C, D)) \in Seq(Steps)
<1>1. Cat(A, B) \in Seq(Steps)
  BY CatIs
<1>2. /\ Cat(Cat(Cat(A, B), C), D) = Cat(Cat(A, B), Cat(C, D))
      /\ Cat(C, D) \in Seq(Steps)
  BY <1>1, Right3
<1>3. ASSUME NEW X \in Seq(Steps) PROVE Cat(Cat(A, B), X) = Cat(A, Cat(B, X)) /\ Cat(B, X) \in Seq(Steps)
  BY CatIs
<1> QED BY <1>2, <1>3

LEMMA Right5 ==
  ASSUME NEW A \in Seq(Steps), NEW B \in Seq(Steps), NEW C \in Seq(Steps), NEW D \in Seq(Steps),
         NEW E \in Seq(Steps)
  PROVE  /\ Cat(Cat(Cat(Cat(A, B), C), D), E) = Cat(A, Cat(B, Cat(C, Cat(D, E))))
         /\ Cat(B, Cat(C, Cat(D, E))) \in Seq(Steps)
<1>1. Cat(A, B) \in Seq(Steps)
  BY CatIs
<1>2. /\ Cat(Cat(Cat(Cat(A, B), C), D), E) = Cat(Cat(A, B), Cat(C, Cat(D, E)))
      /\ Cat(C, Cat(D, E)) \in Seq(Steps)
  <2>1. ASSUME NEW P \in Seq(Steps)
        PROVE  /\ Cat(Cat(Cat(P, C), D), E) = Cat(P, Cat(C, Cat(D, E)))
               /\ Cat(C, Cat(D, E)) \in Seq(Steps)
    BY Right4
  <2> QED BY <1>1, <2>1
<1>3. ASSUME NEW X \in Seq(Steps) PROVE Cat(Cat(A, B), X) = Cat(A, Cat(B, X)) /\ Cat(B, X) \in Seq(Steps)
  BY CatIs
<1> QED BY <1>2, <1>3

LEMMA Right6 ==
  ASSUME NEW A \in Seq(Steps), NEW B \in Seq(Steps), NEW C \in Seq(Steps), NEW D \in Seq(Steps),
         NEW E \in Seq(Steps), NEW F \in Seq(Steps)
  PROVE  /\ Cat(Cat(Cat(Cat(Cat(A, B), C), D), E), F) = Cat(A, Cat(B, Cat(C, Cat(D, Cat(E, F)))))
         /\ Cat(B, Cat(C, Cat(D, Cat(E, F)))) \in Seq(Steps)
<1>1. Cat(A, B) \in Seq(Steps)
  BY CatIs
<1>2. /\ Cat(Cat(Cat(Cat(Cat(A, B), C), D), E), F) = Cat(Cat(A, B), Cat(C, Cat(D, Cat(E, F))))
      /\ Cat(C, Cat(D, Cat(E, F))) \in Seq(Steps)
  <2>1. ASSUME NEW P \in Seq(Steps)
        PROVE  /\ Cat(Cat(Cat(Cat(P, C), D), E), F) = Cat(P, Cat(C, Cat(D, Cat(E, F))))
               /\ Cat(C, Cat(D, Cat(E, F))) \in Seq(Steps)
    BY Right5
  <2> QED BY <1>1, <2>1
<1>3. ASSUME NEW X \in Seq(Steps) PROVE Cat(Cat(A, B), X) = Cat(A, Cat(B, X)) /\ Cat(B, X) \in Seq(Steps)
  BY CatIs
<1> QED BY <1>2, <1>3

Assoc7(A, B, C, D, E, F, G) ==
  /\ Cat(Cat(Cat(Cat(Cat(Cat(A, B), C), D), E), F), G) = Cat(A, Cat(B, Cat(C, Cat(D, Cat(E, Cat(F, G))))))
  /\ Cat(B, Cat(C, Cat(D, Cat(E, Cat(F, G))))) \in Seq(Steps)

LEMMA Right7 ==
  \A A \in Seq(Steps), B \in Seq(Steps), C \in Seq(Steps), D \in Seq(Steps), E \in Seq(Steps),
     F \in Seq(Steps), G \in Seq(Steps) : Assoc7(A, B, C, D, E, F, G)
<1> TAKE A \in Seq(Steps), B \in Seq(Steps), C \in Seq(Steps), D \in Seq(Steps), E \in Seq(Steps),
         F \in Seq(Steps), G \in Seq(Steps)
<1>1. Cat(A, B) \in Seq(Steps)
  BY CatIs
<1>2. /\ Cat(Cat(Cat(Cat(Cat(Cat(A, B), C), D), E), F), G) = Cat(Cat(A, B), Cat(C, Cat(D, Cat(E, Cat(F, G)))))
      /\ Cat(C, Cat(D, Cat(E, Cat(F, G)))) \in Seq(Steps)
  <2>1. ASSUME NEW P \in Seq(Steps)
        PROVE  /\ Cat(Cat(Cat(Cat(Cat(P, C), D), E), F), G) = Cat(P, Cat(C, Cat(D, Cat(E, Cat(F, G)))))
               /\ Cat(C, Cat(D, Cat(E, Cat(F, G)))) \in Seq(Steps)
    BY Right6
  <2> QED BY <1>1, <2>1
<1>3. ASSUME NEW X \in Seq(Steps) PROVE Cat(Cat(A, B), X) = Cat(A, Cat(B, X)) /\ Cat(B, X) \in Seq(Steps)
  BY CatIs
<1> QED BY <1>2, <1>3 DEF Assoc7

\* A step in front of a sequence, as the sequence of them all.
LEMMA Cons2 ==
  ASSUME NEW a, NEW b, NEW c PROVE <<a>> \o <<b, c>> = <<a, b, c>>
<1>1. /\ <<a, b, c>> \in Seq({a, b, c}) /\ <<a, b, c>> # <<>> /\ <<a, b, c>>[1] = a
      /\ Tail(<<a, b, c>>) = <<b, c>>
  OBVIOUS
<1> QED BY <1>1, Uncons

LEMMA Cons5 ==
  ASSUME NEW a, NEW b, NEW c, NEW d, NEW e, NEW f
  PROVE  <<a>> \o <<b, c, d, e, f>> = <<a, b, c, d, e, f>>
<1> DEFINE P == <<a, b, c, d, e, f>>
<1>1. P \in Seq({a, b, c, d, e, f}) /\ P # <<>> /\ P[1] = a /\ Tail(P) = <<b, c, d, e, f>>
  OBVIOUS
<1> QED BY <1>1, Uncons

\* A step of a call.
LEMMA StepIs1 ==
  ASSUME IBody, Step PROVE IBody' /\ Allowed(found, found')
BY StepProgram, StepRetire, StepGen, StepGenRefused, StepPolicy, StepEpoch, StepHead, StepRotate,
   StepNoRotation, StepRefresh, StepEraseOne, StepErased, StepFillOne, StepFilled, StepResealOne,
   StepResealed, StepSync, StepDue, StepDistrust, StepProve, StepFail, StepOpenSession, StepDone
   DEF Step

-----------------------------------------------------------------------------
(***************************************************************************)
(* The calls.                                                              *)
(***************************************************************************)
\* What a call that is made in step may count on.
InOrder ==
  /\ Types /\ Universal /\ TypeDisk /\ plan = <<>> /\ ram.state # "off" /\ FullNow
  /\ ram.ledger = ledger /\ ram.table = Winners
  /\ \A x \in Slot : Clean(x) /\ InSlot(x) /\ At(ram.table, x) = Current[x]

LEMMA IdleIs ==
  ASSUME IBody, Idle, InStep PROVE InOrder
<1>1. Types /\ Universal /\ plan = <<>> /\ ram.state # "off" /\ TypeDisk
  BY DEF IBody, Idle, Types
<1>2. ram.ledger = ledger /\ ram.table = Winners /\ Leftovers(ram.table) = {}
        /\ \A x \in Slot : At(Winners, x) = Current[x]
  BY <1>1, AtIs DEF InStep, ElectOK
<1>3. \A x \in Slot : Winners[x] = WinAt(x)
  BY <1>1, CurrentType
<1>4. \A x \in Slot : Clean(x)
  BY <1>1, <1>2, <1>3, NoLeftovers
<1>5. FullNow
  BY <1>1, HasNone DEF Universal, Occupied
<1> QED BY <1>1, <1>2, <1>3, <1>4, <1>5 DEF InOrder, InSlot

\* A PIN that opens the store, or a session that is valid.
Formatted ==
  /\ found[First] # NoPin /\ Current[First] # Blank /\ Current[First].key \in Pin
  /\ Current[First].gen = ledger.gens[First] /\ ledger.gens[First] # 0
  /\ Current[Super] # Blank /\ ledger.live /\ Live /\ ram.state = "formatted"
  /\ StateIs(found) /\ PolicyOK

OpenedBy(i, k) ==
  /\ i \in Identity /\ i \in Slot /\ Current[i] # Blank /\ Current[i].key = k /\ k \in Pin
  /\ Current[i].gen = ledger.gens[i] /\ ledger.gens[i] # 0 /\ Current[i].body \in Policies
  /\ found[i] = k

LEMMA FormattedIs ==
  ASSUME InOrder, NEW i \in Identity, found[i] # NoPin, ram.state = "formatted"
  PROVE  Formatted /\ OpenedBy(i, found[i])
<1>1. Owned(Current, ledger.gens) /\ found[i] = PinIn(Current, i) /\ TypeDisk /\ Universal
      /\ found[First] = PinIn(Current, First) /\ (\A x \in Slot : Current[x] # Blank => ledger.live)
  BY Facts, SlotType DEF InOrder
<1>2. /\ Current[i] # Blank /\ Current[i].key = found[i] /\ Current[i].key \in Pin
      /\ Current[i].gen = ledger.gens[i] /\ ledger.gens[i] # 0 /\ Current[i].body \in Policies
  BY <1>1, PinIs
<1>3. i \in Slot /\ First \in Slot /\ i \in Where
  BY SlotType
<1>4. /\ Current[First] # Blank /\ Current[First].key \in Pin
      /\ Current[First].gen = ledger.gens[First] /\ ledger.gens[First] # 0
      /\ Current[Super] # Blank /\ found[First] # NoPin
  BY <1>1, <1>2, <1>3, FirstIs
<1>5. ledger.live /\ Live /\ StateIs(found) /\ PolicyOK
  BY <1>1, <1>3, <1>4 DEF InOrder, Live, StateIs, Universal, Known
<1> QED BY <1>2, <1>3, <1>4, <1>5 DEF Formatted, OpenedBy

LEMMA SessIs ==
  ASSUME InOrder, NEW s \in sessions, Valid(s)
  PROVE  Formatted /\ OpenedBy(s.id, s.key) /\ s.gen = ledger.gens[s.id] /\ s \in Session
<1>1. s \in Session /\ s.id \in Identity /\ s.key \in Pin
  BY DEF InOrder, Types, Session
<1>2. ram.state = "formatted" /\ s.gen = ledger.gens[s.id] /\ IsCurrent(s, ledger)
  BY DEF InOrder, Valid, IsCurrent
<1>3. found[s.id] = s.key
  <2>1. SessOK(sessions, ledger, found)
    BY Facts DEF InOrder
  <2> QED BY <1>2, <2>1 DEF SessOK
<1>4. found[s.id] # NoPin
  BY <1>1, <1>3, KeysDiffer
<1> QED BY <1>1, <1>2, <1>3, <1>4, FormattedIs

\* A call begins.
Begun(P, wish, gaps) ==
  /\ UNCHANGED <<disk, ram, sessions, hits>>
  /\ plan' = P /\ P \in Seq(Steps) /\ P # <<>> /\ ~Has(P, "mounted")
  /\ goal' = wish
  /\ promised' = [x \in DOMAIN promised |-> promised[x] \cup {wish[x]}]
  /\ gaps \in BOOLEAN /\ gap' = (gap \/ gaps)

BegunOK(wish) ==
  /\ TypeDisk' /\ Dated' /\ Virgin' /\ Current' = Current /\ Winners' = Winners
  /\ promised' = [x \in Where |-> promised'[x]]
  /\ \A x \in Where : promised[x] \subseteq promised'[x] /\ wish[x] \in promised'[x]
  /\ gap' \in BOOLEAN /\ FullNow' /\ Right' /\ FoundIs' /\ Allowed(found, found') /\ found' = found
  /\ \A x : WinAt(x)' = WinAt(x) /\ (Clean(x)' <=> Clean(x))

LEMMA BegunIs ==
  ASSUME InOrder, NEW P, NEW wish, NEW gaps, Begun(P, wish, gaps) PROVE BegunOK(wish)
<1>1. TypeDisk /\ Universal /\ Types /\ FullNow
  BY DEF InOrder
<1>2. /\ UNCHANGED <<flash, last, ledger, found, ram, sessions, hits>>
      /\ promised' = [x \in DOMAIN promised |-> promised[x] \cup {wish[x]}]
      /\ gaps \in BOOLEAN /\ gap' = (gap \/ gaps)
  BY DEF Begun, disk
<1>3. /\ TypeDisk' /\ Dated' /\ Virgin' /\ Current' = Current /\ Winners' = Winners
      /\ \A x : WinAt(x)' = WinAt(x) /\ (Clean(x)' <=> Clean(x))
  BY <1>1, <1>2, DiskSame DEF Universal
<1>4. promised = [x \in Where |-> promised[x]] /\ gap \in BOOLEAN
  BY <1>1 DEF Types
<1>5. DOMAIN promised = Where
  BY <1>4
<1>6. /\ promised' = [x \in Where |-> promised'[x]]
      /\ \A x \in Where : promised[x] \subseteq promised'[x] /\ wish[x] \in promised'[x]
  BY <1>2, <1>5
<1>7. gap' \in BOOLEAN /\ FullNow'
  BY <1>1, <1>2, <1>3, <1>4 DEF FullNow, FullIn
<1>8. Right'
  BY <1>1, <1>2, <1>6, RightMore DEF disk
<1>9. FoundIs' /\ Allowed(found, found')
  BY <1>1, <1>2, <1>3 DEF Universal, FoundIs, Allowed
<1> QED BY <1>2, <1>3, <1>6, <1>7, <1>8, <1>9 DEF BegunOK

LEMMA BegunStep ==
  ASSUME InOrder, NEW P, NEW wish, NEW gaps, Begun(P, wish, gaps), Phase'
  PROVE  IBody' /\ Allowed(found, found')
<1>1. BegunOK(wish)
  BY BegunIs
<1>2. /\ plan' \in Seq(Steps) /\ plan' # <<>> /\ ram' = ram /\ sessions' = sessions /\ hits' = hits
      /\ ledger' = ledger /\ ~Has(plan', "mounted")
  BY DEF Begun, disk
<1>3. /\ Types /\ Universal /\ ram.state # "off" /\ ram' \in Memory /\ sessions' \in SUBSET Session
      /\ hits' \in Nat
  BY <1>2 DEF InOrder, Types
<1>4. Unread' /\ Mounting' /\ Known' /\ Occupied'
  <2>1. Known'
    BY <1>2, <1>3 DEF Universal, Known, PolicyOK
  <2>2. Unread' /\ Mounting'
    BY <1>2, <1>3 DEF Unread, Mounting
  <2> QED BY <1>1, <2>1, <2>2 DEF BegunOK, Occupied
<1> QED BY <1>1, <1>2, <1>3, <1>4, AnyStep DEF BegunOK
\* The steps of a mount.
LEMMA NeedsDue ==
  ASSUME NEW K \in Seq(Steps), NEW e, NEW f, NEW w, NEW S, NEW gp, Needs(K, e, f, w, S, gp),
         Has(K, "mounted"), ~Has(K, "fill")
  PROVE  Needs(Do("due") \o K, e, f, w, S, gp)
<1>1. Do("due") = <<Simple("due")>> /\ Simple("due") \in Steps /\ Simple("due").do = "due"
  BY DoIs
<1> DEFINE R == <<Simple("due")>> \o K
<1>2. /\ R \in Seq(Steps) /\ R # <<>> /\ R[1] = Simple("due") /\ Tail(R) = K
  BY <1>1, Cons
<1> HIDE DEF R
<1>3. Needs(R, e, f, w, S, gp)
  BY <1>1, <1>2, NeedsBack DEF SettleKinds
<1> QED BY <1>1, <1>3 DEF R

MountPlan == Do("refresh") \o Do("due") \o Do("cleanup") \o Do("sync") \o Do("mounted")

LEMMA MountPlanIs ==
  ASSUME NEW e, NEW f, NEW w, NEW gp, FullIn(gp, e, f)
  PROVE  /\ Needs(MountPlan, e, f, w, {}, gp) /\ MountPlan[1] = Simple("refresh")
         /\ MountPlan \in Seq(Steps) /\ MountPlan # <<>>
         /\ \A v : Has(MountPlan, v) <=> v \in {"refresh", "due", "cleanup", "sync", "mounted"}
<1> DEFINE K5 == <<Simple("mounted")>>
           K4 == Do("sync") \o K5
           K3 == Do("cleanup") \o K4
           K2 == Do("due") \o K3
           K1 == Do("refresh") \o K2
<1>1. MountPlan = K1
  <2>1. /\ Do("refresh") \in Seq(Steps) /\ Do("due") \in Seq(Steps) /\ Do("cleanup") \in Seq(Steps)
        /\ Do("sync") \in Seq(Steps) /\ Do("mounted") \in Seq(Steps) /\ Do("mounted") = K5
    BY DoIs
  <2>2. MountPlan = Cat(Cat(Cat(Cat(Do("refresh"), Do("due")), Do("cleanup")), Do("sync")), Do("mounted"))
    BY DEF Cat, MountPlan
  <2>3. Cat(Do("refresh"), Cat(Do("due"), Cat(Do("cleanup"), Cat(Do("sync"), Do("mounted"))))) = K1
    BY <2>1 DEF Cat
  <2>4. MountPlan = Cat(Do("refresh"), Cat(Do("due"), Cat(Do("cleanup"), Cat(Do("sync"), Do("mounted")))))
    BY <2>1, <2>2, Right5
  <2> QED BY <2>3, <2>4
<1>2. Simple("mounted") \in Steps /\ Simple("mounted").do = "mounted"
  BY SimpleStep
<1>3. Needs(K5, e, f, w, {}, gp) /\ K5 \in Seq(Steps) /\ \A v : Has(K5, v) <=> v = "mounted"
  <2>1. Needs(K5, e, f, w, {}, gp)
    BY NeedsEnd
  <2>2. K5 \in Seq(Steps) /\ DOMAIN K5 = {1} /\ K5[1].do = "mounted"
    BY <1>2
  <2> QED BY <2>1, <2>2 DEF Has
<1> HIDE DEF K5
<1>4. Needs(K4, e, f, w, {}, gp) /\ K4 \in Seq(Steps) /\ \A v : Has(K4, v) <=> v \in {"sync", "mounted"}
  BY <1>3, NeedsDo, DoFirst
<1> HIDE DEF K4
<1>5. /\ Needs(K3, e, f, w, {}, gp) /\ K3 \in Seq(Steps)
      /\ \A v : Has(K3, v) <=> v \in {"cleanup", "sync", "mounted"}
  BY <1>4, NeedsDo, DoFirst
<1> HIDE DEF K3
<1>6. /\ Needs(K2, e, f, w, {}, gp) /\ K2 \in Seq(Steps)
      /\ \A v : Has(K2, v) <=> v \in {"due", "cleanup", "sync", "mounted"}
  BY <1>5, NeedsDue, DoFirst
<1> HIDE DEF K2
<1>7. /\ Needs(K1, e, f, w, {}, gp) /\ K1 \in Seq(Steps) /\ K1 # <<>> /\ K1[1] = Simple("refresh")
      /\ \A v : Has(K1, v) <=> v \in {"refresh", "due", "cleanup", "sync", "mounted"}
  BY <1>6, NeedsDo, DoFirst
<1> QED BY <1>1, <1>7

LEMMA MountIs ==
  ASSUME IBody, Mount PROVE IBody' /\ Allowed(found, found')
<1>1. /\ plan = <<>> /\ ram.state = "off" /\ plan' = MountPlan
      /\ UNCHANGED <<flash, last, ledger, found, ram, sessions, goal, promised, gap, hits>>
  BY DEF Mount, MountPlan, disk
<1>2. Types /\ Universal /\ TypeDisk /\ sessions = {} /\ FullNow
  BY <1>1, HasNone DEF IBody, Universal, Unread, Types, Occupied
<1>3. /\ Needs(MountPlan, Current, found, goal, {}, gap) /\ MountPlan[1] = Simple("refresh")
      /\ MountPlan \in Seq(Steps) /\ MountPlan # <<>>
      /\ \A v : Has(MountPlan, v) <=> v \in {"refresh", "due", "cleanup", "sync", "mounted"}
  <2>1. FullIn(gap, Current, found)
    BY <1>2 DEF FullNow
  <2> QED BY <2>1, MountPlanIs
<1>4. TypeDisk' /\ Dated' /\ Virgin' /\ Current' = Current
  BY <1>1, <1>2, DiskSame DEF Universal
<1>5. FoundIs' /\ Right' /\ Allowed(found, found')
  BY <1>1, <1>2, <1>4 DEF Universal, FoundIs, Right, Allowed
<1>6. MountPlan[1].do = "refresh"
  BY <1>3 DEF Simple
<1>7. Unread' /\ Mounting' /\ Known' /\ Occupied'
  <2>1. Unread' /\ Mounting'
    BY <1>1, <1>2, <1>6 DEF Unread, Mounting
  <2>2. Known' /\ Occupied'
    BY <1>1, <1>2, <1>4 DEF Universal, Known, PolicyOK, Occupied, FullNow
  <2> QED BY <2>1, <2>2
<1>8. Settle(plan)'
  <2>1. ASSUME NEW K, K = MountPlan PROVE Settle(plan)'
    <3>1. Needs(K, Current', found', goal', sessions', gap')
      BY <1>1, <1>2, <1>3, <1>4, <2>1
    <3>2. Has(K, "cleanup") /\ ~Has(K, "rotate") /\ K[1].do = "refresh"
      BY <1>3, <1>6, <2>1
    <3>3. Settle(K)' /\ plan' = K
      BY <1>1, <2>1, <3>1, <3>2, SettleThere
    <3> QED BY <3>3 DEF Settle, Ready, Swept, RamFor
  <2> QED BY <2>1
<1>9. /\ plan' \in Seq(Steps) /\ ram' \in Memory /\ sessions' \in SUBSET Session /\ plan' # <<>>
      /\ promised' = [x \in Where |-> promised'[x]] /\ gap' \in BOOLEAN /\ hits' \in Nat
  BY <1>1, <1>2, <1>3 DEF Types
<1> QED BY <1>2, <1>4, <1>5, <1>7, <1>8, <1>9, AnyStep DEF Phase
SealGoes(st, K) == SealOK(st, K) => SealedOK(Sealing(st, K), K)

LEMMA SealGoesNext == \A st, K : SealGoes(st, K)'
<1>1. \A st, K : SealGoes(st, K)
  BY SealFirst DEF SealGoes
<1>2. (\A st, K : SealGoes(st, K))'
  BY <1>1, PTL
<1> QED BY <1>2

\* A call that seals a record, and what it comes to.
SealCall(st, K, e, f, wish) ==
  /\ st \in Programs /\ ~st.later /\ K \in Seq(Steps) /\ K # <<>>
  /\ Fit(ledger, st.slot, Sealed(st)) /\ Sealed(st) \in Record
  /\ e = Put(Current, st.slot, Sealed(st)) /\ f = FoundOf(e, ledger.gens)
  /\ Owned(e, ledger.gens) /\ f = wish /\ Allowed(found, f)
  /\ \A i \in Identity : f[i] = found[i]
  /\ ~Has(K, "mounted")

LEMMA CallSeal ==
  ASSUME InOrder, Formatted, NEW P, NEW wish, NEW gaps, Begun(P, wish, gaps),
         NEW st, NEW K, NEW e, NEW f, SealCall(st, K, e, f, wish),
         Needs(K, e, f, wish, sessions, gap')
  PROVE  SealedOK(Sealing(st, K), K)'
<1>1. BegunOK(wish)
  BY BegunIs
<1>2. /\ UNCHANGED <<flash, last, ledger, found, ram, sessions>> /\ goal' = wish
  BY DEF Begun, disk
<1>3. /\ Types /\ Universal /\ TypeDisk /\ ram.ledger = ledger /\ ram.table = Winners
      /\ \A x \in Slot : Clean(x)
  BY DEF InOrder
<1>4. /\ TypeDisk' /\ Current' = Current /\ Winners' = Winners
      /\ \A x \in Where : wish[x] \in promised'[x]
  BY <1>1 DEF BegunOK
<1>5. Sound(e, ledger, promised', sessions, ram.state)
  <2>1. SessOK(sessions, ledger, found) /\ sessions \subseteq Session
    BY <1>3, Facts DEF Types
  <2>2. SessOK(sessions, ledger, f)
    BY <2>1, SessSame DEF SealCall
  <2>3. BlankOK(ram.state, sessions, e, ledger)
    BY DEF BlankOK, Formatted
  <2> QED BY <1>4, <2>2, <2>3 DEF Sound, SealCall
<1>6. Sealed(st)' = Sealed(st)
  BY <1>2 DEF Sealed
<1>7. SealOK(st, K)'
  <2>1. Put(Current, st.slot, Sealed(st))' = e /\ FoundOf(e, ledger'.gens) = f
    BY <1>2, <1>4, <1>6 DEF SealCall
  <2>2. Live' /\ ram'.table = Winners' /\ Fit(ledger', st.slot, Sealed(st)')
    BY <1>2, <1>3, <1>4, <1>6 DEF Live, Formatted, SealCall
  <2>3. Ahead(e, ledger)'
    BY <1>2, <1>5 DEF Ahead, SealCall
  <2>4. Ready(K, e, f)'
    BY <1>2 DEF Ready
  <2>5. RamFor(K, f)'
    <3>1. f[First] = found[First] /\ StateIs(found) /\ PolicyOK
      BY SlotType DEF SealCall, Formatted
    <3> QED BY <1>2, <3>1 DEF RamFor, StateIs, PolicyOK
  <2>6. Swept(K, ledger, Slot \ {st.slot})'
    BY <1>2, <1>3 DEF Swept, CleanOf, Clean
  <2>7. st \in Programs /\ ~st.later /\ K \in Seq(Steps) /\ K # <<>>
    BY DEF SealCall
  <2>8. Ahead(Put(Current, st.slot, Sealed(st)), ledger)'
    <3>1. ASSUME NEW d, d = Put(Current', st.slot, Sealed(st)') PROVE Ahead(d, ledger)'
      BY <2>1, <2>3, <3>1
    <3> QED BY <3>1 DEF Ahead
  <2>9. ASSUME NEW d, d = Put(Current', st.slot, Sealed(st)'), NEW h, h = FoundOf(d, ledger'.gens)
        PROVE  Ready(K, d, h)' /\ RamFor(K, h)'
    BY <2>1, <2>4, <2>5, <2>9
  <2>10. LET d == Put(Current, st.slot, Sealed(st))
             h == FoundOf(d, ledger.gens)
         IN Ready(K, d, h)' /\ RamFor(K, h)'
    BY <2>9 DEF Ready, RamFor, StateIs
  <2> QED BY <2>2, <2>6, <2>7, <2>8, <2>10 DEF SealOK
<1>8. SealGoes(st, K)'
  BY SealGoesNext
<1> QED BY <1>7, <1>8 DEF SealGoes

\* What the flash amounts to is full, filler or not.
LEMMA CallFull ==
  ASSUME InOrder, Formatted, NEW P, NEW wish, NEW gaps, Begun(P, wish, gaps),
         NEW st, NEW K, NEW e, NEW f, SealCall(st, K, e, f, wish)
  PROVE  FullIn(gap', e, f)
<1>1. BegunOK(wish)
  BY BegunIs
<1>2. Current \in [Slot -> Record \cup {Blank}] /\ st.slot \in Slot
  BY CurrentType, StepKinds DEF InOrder, SealCall
<1>3. FullIn(gap', Current, found)
  BY <1>1 DEF BegunOK, FullNow
<1>4. f[First] = found[First]
  BY SlotType DEF SealCall
<1> QED BY <1>2, <1>3, <1>4, FullPut DEF SealCall

\* The ledger is rotated first, or it is not.
LEMMA RotateFirst ==
  ASSUME NEW R \in Seq(Steps), R # <<>>, Ahead1(R)', plan' = Do("rotate") \o R
  PROVE  Phase'
<1>1. ASSUME NEW Q, Q = Do("rotate") \o R
      PROVE  Len(Q) > 1 /\ Q[1] = Simple("rotate") /\ Tail(Q) = R
  <2>1. Len(R) \in Nat \ {0}
    BY TailIs
  <2>2. Len(Q) = Len(R) + 1 /\ Q[1] = Simple("rotate") /\ Tail(Q) = R
    <3>1. /\ (Do("rotate") \o R)[1] = Simple("rotate") /\ Tail(Do("rotate") \o R) = R
          /\ Len(Do("rotate") \o R) = Len(R) + 1
      BY DoFirst
    <3> QED BY <1>1, <3>1
  <2> QED BY <2>1, <2>2
<1>2. ASSUME NEW Q, Q = Do("rotate") \o R PROVE Phase'
  <2>1. Len(Q) > 1 /\ Q[1] = Simple("rotate") /\ Tail(Q) = R /\ plan' = Q
    BY <1>1, <1>2
  <2> QED BY <2>1 DEF Phase
<1> QED BY <1>2

DoneStep == <<Simple("done")>>

LEMMA DoneIs ==
  /\ Do("done") = DoneStep /\ DoneStep \in Seq(Steps) /\ DoneStep # <<>>
  /\ \A v : Has(DoneStep, v) <=> v = "done"
<1>1. Do("done") = <<Simple("done")>> /\ Simple("done") \in Steps /\ Simple("done").do = "done"
  BY DoIs
<1>2. DoneStep \in Seq(Steps) /\ DoneStep # <<>> /\ DOMAIN DoneStep = {1} /\ DoneStep[1].do = "done"
  BY <1>1 DEF DoneStep
<1> QED BY <1>1, <1>2 DEF Has, DoneStep

\* A call that rotates, seals and is done.
SealPlan(st) == Do("rotate") \o Sealing(st, DoneStep)

LEMMA SealPlanIs ==
  ASSUME NEW x \in Slot, NEW k \in Key, NEW g \in Nat, NEW b \in Body
  PROVE  /\ (Do("rotate") \o SealNow(x, k, g, b)) \o Do("done") = SealPlan(NowStep(x, k, g, b))
         /\ SealPlan(NowStep(x, k, g, b)) \in Seq(Steps) /\ SealPlan(NowStep(x, k, g, b)) # <<>>
         /\ ~Has(SealPlan(NowStep(x, k, g, b)), "mounted")
         /\ Sealing(NowStep(x, k, g, b), DoneStep) \in Seq(Steps)
<1> DEFINE st == NowStep(x, k, g, b)
           R == Sealing(st, DoneStep)
<1>1. /\ Do("rotate") \in Seq(Steps) /\ SealNow(x, k, g, b) \in Seq(Steps)
      /\ Do("done") = DoneStep /\ DoneStep \in Seq(Steps)
      /\ SealNow(x, k, g, b) \o DoneStep = R
      /\ \A v : Has(DoneStep, v) <=> v = "done"
  <2>1. Do("rotate") \in Seq(Steps)
    BY DoIs
  <2>2. SealNow(x, k, g, b) \in Seq(Steps)
    BY SealSeq
  <2>3. SealNow(x, k, g, b) \o DoneStep = R
    BY SealIs
  <2> QED BY <2>1, <2>2, <2>3, DoneIs
<1>2. StepIs(st, x, k, g, b) /\ RetireStep(st.slot) \in Steps /\ RetireStep(st.slot).do = "retire"
  BY NowStepIs, RetireStepIs DEF StepIs
<1>3. R \in Seq(Steps) /\ \A v : Has(R, v) <=> v \in {"program", "retire", "done"}
  <2>1. TwoOK(st, RetireStep(st.slot), DoneStep)
    BY <1>1, <1>2, TwoIs DEF StepIs
  <2>2. \A v : Has(R, v) <=> st.do = v \/ RetireStep(st.slot).do = v \/ Has(DoneStep, v)
    BY <1>1, <1>2, HasTwo DEF StepIs, Sealing
  <2> QED BY <1>1, <1>2, <2>1, <2>2 DEF TwoOK, Sealing, StepIs
<1>4. (Do("rotate") \o SealNow(x, k, g, b)) \o Do("done") = Do("rotate") \o R
  <2>1. Cat(Cat(Do("rotate"), SealNow(x, k, g, b)), DoneStep)
          = Cat(Do("rotate"), Cat(SealNow(x, k, g, b), DoneStep))
    BY <1>1, Right3
  <2> QED BY <1>1, <2>1 DEF Cat
<1> HIDE DEF R
<1>5. /\ Do("rotate") \o R \in Seq(Steps) /\ Do("rotate") \o R # <<>>
      /\ \A v : Has(Do("rotate") \o R, v) <=> "rotate" = v \/ Has(R, v)
  BY <1>3, DoFirst
<1> DEFINE P == Do("rotate") \o R
<1>6. P = SealPlan(st)
  BY DEF SealPlan, R
<1>7. P \in Seq(Steps) /\ P # <<>> /\ ~Has(P, "mounted")
  BY <1>3, <1>5
<1>8. (Do("rotate") \o SealNow(x, k, g, b)) \o Do("done") = SealPlan(st)
  BY <1>4 DEF SealPlan, R
<1> HIDE DEF P, st
<1>9. SealPlan(st) \in Seq(Steps) /\ SealPlan(st) # <<>> /\ ~Has(SealPlan(st), "mounted")
  BY <1>6, <1>7
<1>10. Sealing(st, DoneStep) \in Seq(Steps)
  BY <1>3 DEF R
<1> QED BY <1>8, <1>9, <1>10 DEF st

LEMMA CallSealed ==
  ASSUME InOrder, Formatted, NEW wish, NEW gaps, NEW st, Begun(SealPlan(st), wish, gaps),
         NEW e, NEW f, SealCall(st, DoneStep, e, f, wish)
  PROVE  IBody' /\ Allowed(found, found')
<1> DEFINE R == Sealing(st, DoneStep)
<1>1. FullIn(gap', e, f)
  BY CallFull
<1>2. f = wish
  BY DEF SealCall
<1>3. Needs(DoneStep, e, f, wish, sessions, gap')
  BY <1>1, <1>2, NeedsEnd DEF DoneStep
<1>4. SealedOK(R, DoneStep)'
  BY <1>3, CallSeal
<1>5. ASSUME NEW Q, Q = R PROVE Phase'
  <2>1. Seal(Q)' /\ Q \in Seq(Steps) /\ Q # <<>>
    <3>1. R' = R
      BY DEF Sealing, DoneStep, RetireStep
    <3> QED BY <1>4, <1>5, <3>1 DEF SealedOK
  <2>2. plan' = Do("rotate") \o Q
    BY <1>5 DEF Begun, SealPlan
  <2>3. Ahead1(Q)'
    BY <2>1 DEF Ahead1
  <2> QED BY <2>1, <2>2, <2>3, RotateFirst
<1>6. Phase'
  BY <1>5
<1> QED BY <1>6, BegunStep

LEMMA BeginIs ==
  ASSUME NEW steps, NEW wish, NEW gaps \in BOOLEAN, Begin(steps, wish, gaps),
         NEW P \in Seq(Steps), P # <<>>, ~Has(P, "mounted"), steps \o Do("done") = P
  PROVE  Begun(P, wish, gaps)
BY DEF Begin, Begun

\* What a call would seal, in order.
LEMMA CallRecord ==
  ASSUME InOrder, NEW x \in Slot, NEW k \in Key, NEW g \in Nat, NEW b \in Body
  PROVE  LET st == NowStep(x, k, g, b)
         IN /\ st \in Programs /\ ~st.later /\ st.slot = x
            /\ Sealed(st) \in Record /\ Sealed(st).key = k /\ Sealed(st).gen = g
            /\ Sealed(st).body = b /\ Sealed(st).epoch = ledger.epoch
<1> DEFINE st == NowStep(x, k, g, b)
<1>1. StepIs(st, x, k, g, b) /\ ~st.later
  BY NowStepIs
<1> HIDE DEF st
<1>2. /\ Sealed(st) \in Record /\ Sealed(st).key = st.key /\ Sealed(st).gen = st.gen
      /\ Sealed(st).body = st.body /\ Sealed(st).epoch = ram.ledger.epoch
  BY <1>1, SealedIs DEF StepIs, InOrder
<1> QED BY <1>1, <1>2 DEF StepIs, InOrder, st

LEMMA DoneHas == ~Has(DoneStep, "mounted") /\ DoneStep \in Seq(Steps) /\ DoneStep # <<>>
BY DoneIs

LEMMA WriteIs ==
  ASSUME IBody, InStep, NEW s \in sessions, NEW u \in User, NEW d \in Data, Write(s, u, d)
  PROVE  IBody' /\ Allowed(found, found')
<1> DEFINE wish == [found EXCEPT ![u] = <<s.id, d>>]
           st == NowStep(u, s.key, s.gen, d)
           r == Sealed(st)
           e == Put(Current, u, r)
           f == FoundOf(e, ledger.gens)
<1>1. /\ Valid(s) /\ Begin(Do("rotate") \o SealNow(u, s.key, s.gen, d), wish, FALSE) /\ Idle
  BY DEF Write, Call, Begin
<1>2. InOrder
  BY <1>1, IdleIs
<1>3. Formatted /\ OpenedBy(s.id, s.key) /\ s.gen = ledger.gens[s.id] /\ s \in Session
  BY <1>1, <1>2, SessIs
<1>4. u \in Slot /\ s.key \in Key /\ s.key \in Pin /\ s.gen \in Nat /\ d \in Body /\ s.id \in Identity
  BY <1>3, SlotType DEF Session, Key, Body
<1>5. /\ st \in Programs /\ ~st.later /\ st.slot = u /\ r \in Record /\ r.key = s.key
      /\ r.gen = s.gen /\ r.body = d /\ r.epoch = ledger.epoch
  BY <1>2, <1>4, CallRecord
<1>6. /\ (Do("rotate") \o SealNow(u, s.key, s.gen, d)) \o Do("done") = SealPlan(st)
      /\ SealPlan(st) \in Seq(Steps) /\ SealPlan(st) # <<>> /\ ~Has(SealPlan(st), "mounted")
  BY <1>4, SealPlanIs
<1> HIDE DEF st, r
<1>7. Owned(Current, ledger.gens) /\ found = FoundOf(Current, ledger.gens)
  BY <1>2, Facts DEF InOrder
<1>8. Owned(e, ledger.gens) /\ f = Put(found, u, <<s.id, d>>)
  <2>1. /\ Current[s.id] # Blank /\ Current[s.id].key = r.key /\ r.key \in Pin
        /\ r.gen = ledger.gens[s.id] /\ r.body \in Data
    BY <1>3, <1>4, <1>5 DEF OpenedBy
  <2>2. Owned(Put(Current, u, r), ledger.gens)
        /\ FoundOf(Put(Current, u, r), ledger.gens) = Put(FoundOf(Current, ledger.gens), u, <<s.id, r.body>>)
    BY <1>4, <1>5, <1>7, <2>1, PutData
  <2> QED BY <1>5, <1>7, <2>2
<1>9. f = wish
  BY <1>8 DEF Put
<1>10. \A i \in Identity : f[i] = found[i]
  <2>1. \A x \in Where \ {u} : f[x] = found[x]
    BY <1>4, <1>7, <1>8, PutFound, SlotType
  <2> QED BY <2>1, SlotType, NamesAssumption
<1>11. Allowed(found, f)
  <2>1. found[s.id] # NoPin
    BY <1>3, KeysDiffer DEF OpenedBy
  <2> QED BY <1>4, <1>8, <2>1 DEF Allowed
<1>12. Fit(ledger, u, r)
  BY <1>3, <1>4, <1>5, FitIs DEF OpenedBy
<1> HIDE DEF wish, e, f
<1>13. SealCall(st, DoneStep, e, f, wish)
  BY <1>5, <1>8, <1>9, <1>10, <1>11, <1>12, DoneHas DEF SealCall, e, f, r
<1>14. Begun(SealPlan(st), wish, FALSE)
  BY <1>1, <1>6, BeginIs
<1> QED BY <1>2, <1>3, <1>13, <1>14, CallSealed

LEMMA ClearIs ==
  ASSUME IBody, InStep, NEW s \in sessions, NEW u \in User, Clear(s, u)
  PROVE  IBody' /\ Allowed(found, found')
<1> DEFINE wish == [found EXCEPT ![u] = Nothing]
           n == ledger.gens[First]
           st == NowStep(u, Filler, n, Nothing)
           r == Sealed(st)
           e == Put(Current, u, r)
           f == FoundOf(e, ledger.gens)
<1>1. /\ Valid(s) /\ Begin(Do("rotate") \o WriteFiller(u), wish, FALSE) /\ Idle
  BY DEF Clear, Call, Begin
<1>2. InOrder
  BY <1>1, IdleIs
<1>3. Formatted
  BY <1>1, <1>2, SessIs
<1>4. u \in Slot /\ Filler \in Key /\ n \in Nat /\ Nothing \in Body /\ First \in Identity
  BY <1>2, LedgerType, SlotType DEF Key, Body, InOrder
<1>5. /\ st \in Programs /\ ~st.later /\ st.slot = u /\ r \in Record /\ r.key = Filler
      /\ r.gen = n /\ r.body = Nothing /\ r.epoch = ledger.epoch
  BY <1>2, <1>4, CallRecord
<1>6. /\ (Do("rotate") \o SealNow(u, Filler, n, Nothing)) \o Do("done") = SealPlan(st)
      /\ SealPlan(st) \in Seq(Steps) /\ SealPlan(st) # <<>> /\ ~Has(SealPlan(st), "mounted")
  BY <1>4, SealPlanIs
<1>6a. WriteFiller(u) = SealNow(u, Filler, n, Nothing)
  BY <1>2 DEF WriteFiller, InOrder
<1> HIDE DEF st, r
<1>7. Owned(Current, ledger.gens) /\ found = FoundOf(Current, ledger.gens)
  BY <1>2, Facts DEF InOrder
<1>8. Owned(e, ledger.gens) /\ f = Put(found, u, Nothing)
  <2>1. Current[First] # Blank /\ u \in Where
    BY <1>3, SlotType DEF Formatted
  <2> HIDE DEF n
  <2>2. Owned(Put(Current, u, r), ledger.gens)
        /\ FoundOf(Put(Current, u, r), ledger.gens) = Put(FoundOf(Current, ledger.gens), u, Nothing)
    BY <1>5, <1>7, <2>1, PutFiller DEF n
  <2> QED BY <1>7, <2>2
<1>9. f = wish
  BY <1>8 DEF Put
<1>10. \A i \in Identity : f[i] = found[i]
  <2>1. \A x \in Where \ {u} : f[x] = found[x]
    BY <1>4, <1>7, <1>8, PutFound, SlotType
  <2> QED BY <2>1, SlotType, NamesAssumption
<1>11. Allowed(found, f)
  BY <1>8 DEF Allowed
<1>12. Fit(ledger, u, r)
  BY <1>3, <1>4, <1>5, FitIs DEF Formatted
<1> HIDE DEF wish, e, f
<1>13. SealCall(st, DoneStep, e, f, wish)
  BY <1>5, <1>8, <1>9, <1>10, <1>11, <1>12, DoneHas DEF SealCall, e, f, r
<1>14. Begun(SealPlan(st), wish, FALSE)
  BY <1>1, <1>6, <1>6a, BeginIs
<1> QED BY <1>2, <1>3, <1>13, <1>14, CallSealed
PolicyStep(p) == [do |-> "policy", policy |-> p]

TailP == Do("refresh") \o (Do("sync") \o (Do("cleanup") \o DoneStep))

LEMMA TailPIs ==
  /\ TailP \in Seq(Steps) /\ TailP # <<>> /\ TailP[1].do = "refresh" /\ ~Has(TailP, "mounted")
  /\ \A e, f, S, gp : FullIn(gp, e, f) => Needs(TailP, e, f, f, S, gp)
<1> DEFINE K1 == Do("cleanup") \o DoneStep
           K2 == Do("sync") \o K1
<1>1. DoneStep \in Seq(Steps) /\ \A v : Has(DoneStep, v) <=> v = "done"
  BY DoneIs
<1>2. K1 \in Seq(Steps) /\ \A v : Has(K1, v) <=> v \in {"cleanup", "done"}
  BY <1>1, DoFirst
<1> HIDE DEF K1
<1>3. K2 \in Seq(Steps) /\ \A v : Has(K2, v) <=> v \in {"sync", "cleanup", "done"}
  BY <1>2, DoFirst
<1> HIDE DEF K2
<1>4. TailP = Do("refresh") \o K2
  BY DEF TailP, K1, K2
<1>5. /\ TailP \in Seq(Steps) /\ TailP # <<>> /\ TailP[1] = Simple("refresh")
      /\ ~Has(TailP, "mounted")
  <2> DEFINE T == Do("refresh") \o K2
  <2>1. T \in Seq(Steps) /\ T # <<>> /\ T[1] = Simple("refresh")
    BY <1>3, DoFirst
  <2>2. Has(T, "mounted") <=> "refresh" = "mounted" \/ Has(K2, "mounted")
    BY <1>3, DoFirst
  <2>3. T = TailP
    BY <1>4
  <2> HIDE DEF T
  <2> QED BY <1>3, <2>1, <2>2, <2>3
<1>6. ASSUME NEW e, NEW f, NEW S, NEW gp, FullIn(gp, e, f) PROVE Needs(TailP, e, f, f, S, gp)
  <2>1. Needs(DoneStep, e, f, f, S, gp)
    BY <1>6, NeedsEnd DEF DoneStep
  <2>2. Needs(K1, e, f, f, S, gp)
    BY <1>1, <2>1, NeedsDo DEF K1
  <2>3. Needs(K2, e, f, f, S, gp)
    BY <1>2, <2>2, NeedsDo DEF K2
  <2> QED BY <1>3, <1>4, <2>3, NeedsDo
<1> QED BY <1>5, <1>6 DEF Simple

\* The plan of set_policy, from the policy's cell on.
AmendPlan(p, st) == <<PolicyStep(p)>> \o Sealing(st, TailP)

AmendPlanOK(p, st) ==
  LET R == AmendPlan(p, st)
  IN /\ R \in Seq(Steps) /\ R # <<>> /\ Len(R) >= 2 /\ R[1] = PolicyStep(p)
     /\ Tail(R) = Sealing(st, TailP) /\ Tail(Tail(Tail(R))) = TailP
     /\ ~Has(R, "mounted")

LEMMA AmendPlanIs ==
  ASSUME NEW p \in Policies, NEW st \in Programs PROVE AmendPlanOK(p, st)
<1> DEFINE Q == Sealing(st, TailP)
           R == <<PolicyStep(p)>> \o Q
<1>1. st \in Steps /\ st.do = "program" /\ st.slot \in Slot
  BY StepKinds
<1>2. RetireStep(st.slot) \in Steps /\ RetireStep(st.slot).do = "retire"
  BY <1>1, RetireStepIs
<1>3. TwoOK(st, RetireStep(st.slot), TailP)
  BY <1>1, <1>2, TailPIs, TwoIs
<1>4. Q \in Seq(Steps) /\ Tail(Tail(Q)) = TailP /\ ~Has(Q, "mounted") /\ Len(Q) = Len(TailP) + 2
  BY <1>1, <1>2, <1>3, HasTwo, TailPIs DEF TwoOK, Sealing
<1>5. PolicyStep(p) \in Steps /\ PolicyStep(p).do = "policy"
  BY DEF PolicyStep, Steps
<1>6. Len(TailP) \in Nat
  BY TailPIs, LenProperties
<1> HIDE DEF Q
<1>7. R \in Seq(Steps) /\ Len(R) = Len(Q) + 1 /\ R[1] = PolicyStep(p) /\ Tail(R) = Q /\ R # <<>>
  BY <1>4, <1>5, Cons
<1>8. ~Has(R, "mounted")
  BY <1>4, <1>5, HasCons
<1> HIDE DEF R
<1>9. Len(R) >= 2
  BY <1>4, <1>6, <1>7
<1> QED BY <1>4, <1>7, <1>8, <1>9 DEF AmendPlanOK, AmendPlan, R, Q

LEMMA SetPolicyPlan ==
  ASSUME NEW p \in Policies, NEW x \in Slot, NEW k \in Key, NEW g \in Nat, NEW b \in Body
  PROVE  Do("rotate") \o CommitPolicy(p) \o SealNow(x, k, g, b) \o Do("refresh") \o Do("sync")
           \o Do("cleanup") \o Do("done")
         = Do("rotate") \o AmendPlan(p, NowStep(x, k, g, b))
<1> DEFINE A == Do("rotate")
           B == CommitPolicy(p)
           C == SealNow(x, k, g, b)
           D == Do("refresh")
           E == Do("sync")
           F == Do("cleanup")
           G == Do("done")
<1>1. B = <<PolicyStep(p)>> /\ PolicyStep(p) \in Steps
  BY DEF CommitPolicy, PolicyStep, Steps
<1>2. A \in Seq(Steps) /\ D \in Seq(Steps) /\ E \in Seq(Steps) /\ F \in Seq(Steps) /\ G \in Seq(Steps)
      /\ G = DoneStep
  BY DoIs, DoneIs
<1>3. B \in Seq(Steps)
  BY <1>1
<1>4. C \in Seq(Steps)
  BY SealSeq
<1>5. C \o TailP = Sealing(NowStep(x, k, g, b), TailP)
  BY SealIs
<1> HIDE DEF B, C
<1>6. TailP = Cat(D, Cat(E, Cat(F, G)))
  BY <1>2 DEF TailP, Cat
<1> DEFINE L == A \o B \o C \o D \o E \o F \o G
<1>7. L = Cat(Cat(Cat(Cat(Cat(Cat(A, B), C), D), E), F), G)
  BY DEF Cat
<1> HIDE DEF A, D, E, F, G, L
<1>8. L = Cat(A, Cat(B, Cat(C, TailP)))
  <2>1. Cat(Cat(Cat(Cat(Cat(Cat(A, B), C), D), E), F), G)
        = Cat(A, Cat(B, Cat(C, Cat(D, Cat(E, Cat(F, G))))))
    <3>1. A \in Seq(Steps) /\ B \in Seq(Steps) /\ C \in Seq(Steps) /\ D \in Seq(Steps)
          /\ E \in Seq(Steps) /\ F \in Seq(Steps) /\ G \in Seq(Steps)
      BY <1>2, <1>3, <1>4
    <3>2. Assoc7(A, B, C, D, E, F, G)
      BY <3>1, Right7
    <3> QED BY <3>2 DEF Assoc7
  <2> QED BY <1>6, <1>7, <2>1, Zenon
<1>9. Cat(A, Cat(B, Cat(C, TailP))) = A \o AmendPlan(p, NowStep(x, k, g, b))
  BY <1>1, <1>5 DEF Cat, AmendPlan, B, C
<1> QED BY <1>8, <1>9 DEF A, B, C, D, E, F, G, L

LEMMA CallAmend ==
  ASSUME InOrder, Formatted, NEW next \in Policies, NEW wish, NEW gaps, NEW st,
         Begun(Do("rotate") \o AmendPlan(next, st), wish, gaps),
         NEW e, NEW f, SealCall(st, TailP, e, f, wish)
  PROVE  IBody' /\ Allowed(found, found')
<1>1. FullIn(gap', e, f)
  BY CallFull
<1>2. f = wish /\ st \in Programs
  BY DEF SealCall
<1>3. Needs(TailP, e, f, wish, sessions, gap')
  BY <1>1, <1>2, TailPIs
<1>4. SealedOK(Sealing(st, TailP), TailP)'
  BY <1>3, CallSeal
<1>5. AmendPlanOK(next, st)
  BY <1>2, AmendPlanIs
<1>6. ASSUME NEW T, T = Sealing(st, TailP) PROVE Seal(T)'
  <2>1. Sealing(st, TailP)' = Sealing(st, TailP)
    BY DEF Sealing, TailP, DoneStep, RetireStep, Do, Two
  <2> QED BY <1>4, <1>6, <2>1 DEF SealedOK
<1>7. ASSUME NEW Q, Q = AmendPlan(next, st) PROVE Phase'
  <2>1. /\ Len(Q) >= 2 /\ Q[1] = PolicyStep(next) /\ Tail(Q) = Sealing(st, TailP)
        /\ Tail(Tail(Tail(Q))) = TailP /\ Q \in Seq(Steps) /\ Q # <<>>
    BY <1>5, <1>7 DEF AmendPlanOK
  <2>2. Seal(Tail(Q))'
    BY <1>6, <2>1
  <2>3. Amend(Q)'
    <3>1. Q[1].do = "policy" /\ Q[1].policy \in Policies /\ TailP[1].do = "refresh"
      BY <2>1, TailPIs DEF PolicyStep
    <3> QED BY <2>1, <2>2, <3>1 DEF Amend
  <2>4. plan' = Do("rotate") \o Q
    BY <1>7 DEF Begun
  <2> QED BY <2>1, <2>3, <2>4, RotateFirst DEF Ahead1
<1>8. Phase'
  BY <1>7
<1> QED BY <1>8, BegunStep

LEMMA SetPolicyIs ==
  ASSUME IBody, InStep, NEW s \in sessions, NEW v \in Values, SetPolicy(s, v)
  PROVE  IBody' /\ Allowed(found, found')
<1> DEFINE next == [val |-> v, gen |-> ram.policy.gen + 1]
           st == NowStep(s.id, s.key, s.gen, next)
           r == Sealed(st)
           e == Put(Current, s.id, r)
           f == FoundOf(e, ledger.gens)
           R == AmendPlan(next, st)
           P == Do("rotate") \o R
<1>1. /\ Valid(s) /\ Idle
      /\ Begin(Do("rotate") \o CommitPolicy(next)
                 \o (IF Opens(ram.table, s.id, s.key) THEN SealNow(s.id, s.key, s.gen, next)
                     ELSE Do("fail"))
                 \o Do("refresh") \o Do("sync") \o Do("cleanup"), found, FALSE)
  BY DEF SetPolicy, Call, Begin
<1>2. InOrder
  BY <1>1, IdleIs
<1>3. Formatted /\ OpenedBy(s.id, s.key) /\ s.gen = ledger.gens[s.id] /\ s \in Session
  BY <1>1, <1>2, SessIs
<1>4. next \in Policies
  <2>1. ram.policy.gen \in Nat
    BY <1>2, MemoryType DEF InOrder
  <2> QED BY <2>1 DEF Policies
<1> HIDE DEF next
<1>5. /\ s.id \in Slot /\ s.key \in Key /\ s.key \in Pin /\ s.gen \in Nat /\ next \in Body
      /\ s.id \in Identity
  BY <1>3, <1>4, SlotType DEF Session, Key, Body
<1>6. Opens(ram.table, s.id, s.key)
  <2>1. At(ram.table, s.id) = Current[s.id] /\ TypeDisk
    BY <1>2, <1>5 DEF InOrder
  <2>2. Current[s.id] # Blank /\ Current[s.id].key = s.key
    BY <1>3 DEF OpenedBy
  <2>3. Current[s.id] \in Record
    BY <1>5, <2>1, <2>2, CurrentType
  <2> QED BY <2>1, <2>2, <2>3 DEF Opens, Record
<1>7. /\ st \in Programs /\ ~st.later /\ st.slot = s.id /\ r \in Record /\ r.key = s.key
      /\ r.gen = s.gen /\ r.body = next /\ r.epoch = ledger.epoch
  BY <1>2, <1>5, CallRecord
<1>8. Begin(Do("rotate") \o CommitPolicy(next) \o SealNow(s.id, s.key, s.gen, next)
              \o Do("refresh") \o Do("sync") \o Do("cleanup"), found, FALSE)
  BY <1>1, <1>6
<1>9. Do("rotate") \o CommitPolicy(next) \o SealNow(s.id, s.key, s.gen, next) \o Do("refresh")
        \o Do("sync") \o Do("cleanup") \o Do("done") = P
  BY <1>4, <1>5, SetPolicyPlan
<1>10. AmendPlanOK(next, st)
  BY <1>4, <1>7, AmendPlanIs
<1> HIDE DEF st, r
<1>11. P \in Seq(Steps) /\ P # <<>> /\ ~Has(P, "mounted") /\ R \in Seq(Steps) /\ R # <<>>
  <2>1. R \in Seq(Steps) /\ R # <<>> /\ ~Has(R, "mounted")
    BY <1>10 DEF AmendPlanOK
  <2> HIDE DEF R
  <2> QED BY <2>1, DoFirst
<1>12. Owned(Current, ledger.gens) /\ found = FoundOf(Current, ledger.gens)
  BY <1>2, Facts DEF InOrder
<1>13. Owned(e, ledger.gens) /\ f = found
  <2>1. /\ Current[s.id] # Blank /\ Current[s.id].key = r.key /\ r.key \in Pin
        /\ r.gen = ledger.gens[s.id] /\ r.body \in Policies
    BY <1>3, <1>4, <1>5, <1>7 DEF OpenedBy
  <2> QED BY <1>5, <1>7, <1>12, <2>1, PutCanary
<1>14. Fit(ledger, s.id, r)
  BY <1>3, <1>5, <1>7, FitIs DEF OpenedBy
<1> HIDE DEF e, f, R, P
<1>15. SealCall(st, TailP, e, f, found)
  BY <1>7, <1>13, <1>14, TailPIs DEF SealCall, e, f, r, Allowed
<1>16. Begun(P, found, FALSE)
  BY <1>8, <1>9, <1>11, BeginIs
<1>17. P = Do("rotate") \o AmendPlan(next, st)
  BY DEF P, R
<1> QED BY <1>2, <1>3, <1>4, <1>15, <1>16, <1>17, CallAmend

-----------------------------------------------------------------------------
\* A call that has nothing to write but what any call may.
LEMMA CallSettle ==
  ASSUME InOrder, Formatted, NEW K, NEW gaps, Begun(K, found, gaps),
         Needs(K, Current, found, found, sessions, gap')
  PROVE  IBody' /\ Allowed(found, found')
<1>1. BegunOK(found)
  BY BegunIs
<1>2. RamIs'
  BY <1>1 DEF InOrder, Formatted, Begun, BegunOK, RamIs, StateIs, PolicyOK, disk
<1>3. Settle(K)'
  <2>1. UNCHANGED disk /\ Needs(K, Current, found, goal', sessions', gap')
    BY DEF Begun
  <2>2. Swept(K, ledger, Slot) /\ ledger.live
    BY DEF InOrder, Formatted, Swept, Clean
  <2> QED BY <1>2, <2>1, <2>2, SettleNext
<1>4. plan' = K
  BY DEF Begun
<1>5. Phase'
  BY <1>3, <1>4 DEF Phase
<1> QED BY <1>5, BegunStep

\* A call that seals a record first.
LEMMA CallSealing ==
  ASSUME InOrder, Formatted, NEW wish, NEW gaps, NEW st, NEW K, Begun(Sealing(st, K), wish, gaps),
         NEW e, NEW f, SealCall(st, K, e, f, wish), Needs(K, e, f, wish, sessions, gap')
  PROVE  IBody' /\ Allowed(found, found')
<1>1. SealedOK(Sealing(st, K), K)'
  BY CallSeal
<1>2. ASSUME NEW Q, Q = Sealing(st, K) PROVE Phase'
  <2>1. Seal(Q)'
    <3>1. Sealing(st, K)' = Sealing(st, K)
      BY DEF Sealing, RetireStep, Two
    <3> QED BY <1>1, <1>2, <3>1 DEF SealedOK
  <2>2. plan' = Q
    BY <1>2 DEF Begun
  <2> QED BY <2>1, <2>2 DEF Phase, Ahead1
<1>3. Phase'
  BY <1>2
<1> QED BY <1>3, BegunStep

\* The end of an unlock.
UnlockEnd(i, p) == Do("rotate") \o <<SessionStep(i, p), Simple("done")>>

LEMMA UnlockEndIs ==
  ASSUME NEW i \in Identity, NEW p \in Pin, NEW e, NEW f, NEW S, NEW gp, f[i] = p, FullIn(gp, e, f)
  PROVE  /\ UnlockEnd(i, p) \in Seq(Steps) /\ UnlockEnd(i, p) # <<>>
         /\ ~Has(UnlockEnd(i, p), "mounted") /\ Needs(UnlockEnd(i, p), e, f, f, S, gp)
<1> DEFINE K == <<SessionStep(i, p), Simple("done")>>
<1>1. Needs(K, e, f, f, S, gp) /\ ~Has(K, "mounted")
  BY NeedsSession
<1>2. K \in Seq(Steps)
  BY <1>1 DEF Needs
<1>3. UnlockEnd(i, p) = Do("rotate") \o K
  BY DEF UnlockEnd
<1> HIDE DEF K
<1> QED BY <1>1, <1>2, <1>3, NeedsDo, DoFirst

LEMMA UnlockPlan ==
  ASSUME NEW i \in Identity, NEW p \in Pin, NEW Q \in Seq(Steps)
  PROVE  Q \o Do("rotate") \o NewSession(i, p) \o Do("done") = Q \o UnlockEnd(i, p)
<1> DEFINE B == Do("rotate")
           C == NewSession(i, p)
           D == Do("done")
<1>1. C = <<SessionStep(i, p)>> /\ SessionStep(i, p) \in Steps
  <2>1. 0 \in Nat
    OBVIOUS
  <2> QED BY <2>1, SessionStepIs DEF NewSession, SessionStep
<1>2. B \in Seq(Steps) /\ D \in Seq(Steps) /\ D = <<Simple("done")>>
  BY DoIs
<1>3. C \in Seq(Steps)
  BY <1>1
<1>4. Cat(C, D) = <<SessionStep(i, p), Simple("done")>>
  <2>1. Cat(C, D) = <<SessionStep(i, p)>> \o <<Simple("done")>>
    BY <1>1, <1>2 DEF Cat
  <2> QED BY <2>1, Cat1
<1>5. Cat(B, Cat(C, D)) = UnlockEnd(i, p)
  BY <1>4 DEF Cat, UnlockEnd
<1>6. Q \o B \o C \o D = Cat(Cat(Cat(Q, B), C), D)
  BY DEF Cat
<1>7. Q \o UnlockEnd(i, p) = Cat(Q, Cat(B, Cat(C, D)))
  <2>1. Q \o UnlockEnd(i, p) = Cat(Q, UnlockEnd(i, p))
    BY DEF Cat
  <2> HIDE DEF B, C, D
  <2> QED BY <1>5, <2>1
<1> HIDE DEF B, C, D
<1>8. Cat(Cat(Cat(Q, B), C), D) = Cat(Q, Cat(B, Cat(C, D)))
  <2>1. B \in Seq(Steps) /\ C \in Seq(Steps) /\ D \in Seq(Steps)
    BY <1>2, <1>3
  <2> QED BY <2>1, Right4
<1> QED BY <1>6, <1>7, <1>8 DEF B, C, D

\* One that brings the canary up to date first.
AmendEnd(i, p) == Do("refresh") \o (Do("cleanup") \o UnlockEnd(i, p))

LEMMA AmendEndIs ==
  ASSUME NEW i \in Identity, NEW p \in Pin, NEW e, NEW f, NEW S, NEW gp, f[i] = p, FullIn(gp, e, f)
  PROVE  /\ AmendEnd(i, p) \in Seq(Steps) /\ AmendEnd(i, p) # <<>>
         /\ ~Has(AmendEnd(i, p), "mounted") /\ Needs(AmendEnd(i, p), e, f, f, S, gp)
<1> DEFINE K == UnlockEnd(i, p)
           L == Do("cleanup") \o K
<1>1. K \in Seq(Steps) /\ ~Has(K, "mounted") /\ Needs(K, e, f, f, S, gp)
  BY UnlockEndIs
<1>2. AmendEnd(i, p) = Do("refresh") \o L
  BY DEF AmendEnd
<1> HIDE DEF K
<1>3. L \in Seq(Steps) /\ ~Has(L, "mounted") /\ Needs(L, e, f, f, S, gp)
  BY <1>1, NeedsDo, DoFirst
<1> HIDE DEF L
<1> QED BY <1>2, <1>3, NeedsDo, DoFirst

LEMMA AmendEndPlan ==
  ASSUME NEW i \in Identity, NEW p \in Pin, UnlockEnd(i, p) \in Seq(Steps),
         NEW x \in Slot, NEW k \in Key, NEW g \in Nat, NEW b \in Body
  PROVE  /\ SealNow(x, k, g, b) \o Do("refresh") \o Do("cleanup") \in Seq(Steps)
         /\ SealNow(x, k, g, b) \o Do("refresh") \o Do("cleanup") \o UnlockEnd(i, p)
            = Sealing(NowStep(x, k, g, b), AmendEnd(i, p))
<1> DEFINE A == SealNow(x, k, g, b)
           B == Do("refresh")
           C == Do("cleanup")
           D == UnlockEnd(i, p)
<1>1. A \in Seq(Steps) /\ B \in Seq(Steps) /\ C \in Seq(Steps) /\ D \in Seq(Steps)
  BY SealSeq, DoIs
<1>2. A \o B \o C = Cat(Cat(A, B), C) /\ A \o B \o C \o D = Cat(Cat(Cat(A, B), C), D)
  BY DEF Cat
<1>3. Cat(B, Cat(C, D)) = AmendEnd(i, p)
  BY DEF Cat, AmendEnd
<1>4. A \o AmendEnd(i, p) = Sealing(NowStep(x, k, g, b), AmendEnd(i, p))
  BY SealIs
<1>5. Cat(A, Cat(B, Cat(C, D))) = A \o AmendEnd(i, p)
  BY <1>3 DEF Cat
<1> HIDE DEF A, B, C, D
<1>6. Cat(Cat(A, B), C) \in Seq(Steps)
  <2>1. Cat(A, B) \in Seq(Steps)
    BY <1>1, CatIs
  <2> QED BY <1>1, <2>1, CatIs
<1>7. Cat(Cat(Cat(A, B), C), D) = Cat(A, Cat(B, Cat(C, D)))
  BY <1>1, Right4
<1> QED BY <1>2, <1>4, <1>5, <1>6, <1>7 DEF A, B, C, D

LEMMA ReconcileNone ==
  ASSUME NEW i \in Identity, NEW p \in Pin, UnlockEnd(i, p) \in Seq(Steps)
  PROVE  <<>> \o Do("rotate") \o NewSession(i, p) \o Do("done") = UnlockEnd(i, p)
<1> DEFINE D == UnlockEnd(i, p)
<1>1. <<>> \in Seq(Steps)
  OBVIOUS
<1>2. <<>> \o Do("rotate") \o NewSession(i, p) \o Do("done") = <<>> \o D
  BY <1>1, UnlockPlan
<1> HIDE DEF D
<1>3. <<>> \o D = D
  <2>1. D \in Seq(Steps)
    BY DEF D
  <2> QED BY <2>1
<1> QED BY <1>2, <1>3 DEF D

LEMMA UnlockIs ==
  ASSUME IBody, InStep, NEW p \in Pin, Unlock(p) PROVE IBody' /\ Allowed(found, found')
<1>1. PICK i \in Identity :
        /\ Opens(ram.table, i, p)
        /\ Begin(Reconcile(i, p) \o Do("rotate") \o NewSession(i, p), found, FALSE)
  BY DEF Unlock
<1>2. Idle /\ ram.state = "formatted"
  BY <1>1 DEF Unlock, Begin
<1>3. InOrder
  BY <1>2, IdleIs
<1>4. At(ram.table, i) = Current[i] /\ i \in Slot /\ TypeDisk
  BY <1>3, SlotType DEF InOrder
<1>5. found[i] = p
  <2>1. Owned(Current, ledger.gens) /\ found[i] = PinIn(Current, i)
    BY <1>3, Facts DEF InOrder
  <2>2. Current[i] # Blank /\ Current[i].key = p
    BY <1>1, <1>4 DEF Opens, Blank
  <2> QED BY <2>1, <2>2, PinIs
<1>6. Formatted /\ OpenedBy(i, p)
  <2>1. found[i] # NoPin
    BY <1>5, KeysDiffer
  <2> QED BY <1>2, <1>3, <1>5, <2>1, FormattedIs
<1>7. gap' = gap /\ FullIn(gap', Current, found)
  <2>1. gap \in BOOLEAN /\ gap' = (gap \/ FALSE)
    BY <1>1, <1>3 DEF InOrder, Types, Begin
  <2> QED BY <1>3, <2>1 DEF InOrder, FullNow
<1> DEFINE K == UnlockEnd(i, p)
<1>8. /\ K \in Seq(Steps) /\ K # <<>> /\ ~Has(K, "mounted")
      /\ Needs(K, Current, found, found, sessions, gap')
  BY <1>5, <1>7, UnlockEndIs
<1>9. CASE Reconcile(i, p) = <<>>
  <2>1. Reconcile(i, p) \o Do("rotate") \o NewSession(i, p) \o Do("done") = K
    BY <1>8, <1>9, ReconcileNone
  <2> HIDE DEF K
  <2>2. Begun(K, found, FALSE)
    BY <1>1, <1>8, <2>1, BeginIs
  <2> QED BY <1>3, <1>6, <1>8, <2>2, CallSettle
<1>10. CASE Reconcile(i, p) = Do("distrust")
  <2> DEFINE L == Do("distrust") \o K
  <2>1. Do("distrust") \in Seq(Steps)
    BY DoIs
  <2>2. Reconcile(i, p) \o Do("rotate") \o NewSession(i, p) \o Do("done") = L
    BY <1>10, <2>1, UnlockPlan
  <2> HIDE DEF K
  <2>3. /\ L \in Seq(Steps) /\ L # <<>> /\ ~Has(L, "mounted")
        /\ Needs(L, Current, found, found, sessions, gap')
    BY <1>8, NeedsDo, DoFirst
  <2> HIDE DEF L
  <2>4. Begun(L, found, FALSE)
    BY <1>1, <2>2, <2>3, BeginIs
  <2> QED BY <1>3, <1>6, <2>3, <2>4, CallSettle
<1>11. CASE Reconcile(i, p) = SealNow(i, p, ledger.gens[i], ram.policy) \o Do("refresh") \o Do("cleanup")
  <2> DEFINE g == ledger.gens[i]
             b == ram.policy
             st == NowStep(i, p, g, b)
             r == Sealed(st)
             e == Put(Current, i, r)
             f == FoundOf(e, ledger.gens)
             T == AmendEnd(i, p)
             P == Sealing(st, T)
             Q == SealNow(i, p, g, b) \o Do("refresh") \o Do("cleanup")
  <2>1. p \in Key /\ g \in Nat /\ b \in Body /\ b \in Policies
    <3>1. g \in Nat
      BY <1>4, LedgerType
    <3>2. b \in Policies
      BY <1>3, MemoryType DEF InOrder
    <3> QED BY <3>1, <3>2 DEF Key, Body
  <2>2. /\ st \in Programs /\ ~st.later /\ st.slot = i /\ r \in Record /\ r.key = p
        /\ r.gen = g /\ r.body = b /\ r.epoch = ledger.epoch
    BY <1>3, <1>4, <2>1, CallRecord
  <2>3. Q \in Seq(Steps) /\ Q \o K = P
    BY <1>4, <1>8, <2>1, AmendEndPlan
  <2>4. Reconcile(i, p) = Q
    BY <1>11
  <2> HIDE DEF Q, K
  <2>5. Reconcile(i, p) \o Do("rotate") \o NewSession(i, p) \o Do("done") = P
    <3>1. Q \o Do("rotate") \o NewSession(i, p) \o Do("done") = Q \o K
      BY <2>3, UnlockPlan DEF K
    <3> QED BY <2>3, <2>4, <3>1
  <2> HIDE DEF g, b, st, r
  <2>6. Owned(e, ledger.gens) /\ f = found
    <3>1. Owned(Current, ledger.gens) /\ found = FoundOf(Current, ledger.gens)
      BY <1>3, Facts DEF InOrder
    <3>2. Current[i] # Blank /\ Current[i].key = r.key /\ r.key \in Pin
          /\ r.gen = ledger.gens[i] /\ r.body \in Policies
      BY <1>6, <2>1, <2>2 DEF OpenedBy, g
    <3> QED BY <2>2, <3>1, <3>2, PutCanary
  <2>7. Fit(ledger, i, r)
    BY <1>6, <2>2, FitIs DEF OpenedBy, g
  <2> HIDE DEF e, f
  <2>8. Needs(T, e, f, found, sessions, gap') /\ T \in Seq(Steps) /\ T # <<>> /\ ~Has(T, "mounted")
    <3>1. FullIn(gap', e, f)
      <4>1. Current \in [Slot -> Record \cup {Blank}]
        BY <1>4, CurrentType
      <4> QED BY <1>4, <1>7, <2>2, <2>6, <4>1, FullPut DEF e
    <3> QED BY <1>5, <2>6, <3>1, AmendEndIs
  <2> HIDE DEF T
  <2>9. SealCall(st, T, e, f, found)
    BY <2>2, <2>6, <2>7, <2>8 DEF SealCall, e, f, r, Allowed
  <2>10. P \in Seq(Steps) /\ P # <<>> /\ ~Has(P, "mounted")
    <3>1. st \in Steps /\ st.do = "program" /\ RetireStep(i) \in Steps /\ RetireStep(i).do = "retire"
      BY <1>4, <2>2, StepKinds, RetireStepIs
    <3>2. TwoOK(st, RetireStep(i), T)
      BY <2>8, <3>1, TwoIs
    <3>3. P = Two(st, RetireStep(i), T)
      BY <2>2 DEF Sealing
    <3>4. \A v : Has(Two(st, RetireStep(i), T), v) <=> st.do = v \/ RetireStep(i).do = v \/ Has(T, v)
      BY <2>8, <3>1, HasTwo
    <3> QED BY <2>8, <3>1, <3>2, <3>3, <3>4 DEF TwoOK
  <2> HIDE DEF P
  <2>11. Begun(P, found, FALSE)
    BY <1>1, <2>5, <2>10, BeginIs
  <2>12. Begun(Sealing(st, T), found, FALSE)
    BY <2>11 DEF P
  <2> QED BY <1>3, <1>6, <2>8, <2>9, <2>12, CallSealing
<1>12. Reconcile(i, p) = <<>> \/ Reconcile(i, p) = Do("distrust")
       \/ Reconcile(i, p) = SealNow(i, p, ledger.gens[i], ram.policy) \o Do("refresh") \o Do("cleanup")
  <2>1. ram.ledger = ledger
    BY <1>3 DEF InOrder
  <2> QED BY <2>1 DEF Reconcile
<1> QED BY <1>9, <1>10, <1>11, <1>12

-----------------------------------------------------------------------------
\* What follows a wipe.
RemountEnd == Do("refresh") \o (Do("cleanup") \o (Do("sync") \o DoneStep))

LEMMA RemountEndIs ==
  /\ RemountEnd \in Seq(Steps) /\ RemountEnd # <<>> /\ RemountEnd[1].do = "refresh"
  /\ ~Has(RemountEnd, "mounted") /\ ~Has(RemountEnd, "rotate")
  /\ \A e, f, S, gp : FullIn(gp, e, f) => Needs(RemountEnd, e, f, f, S, gp)
<1> DEFINE L == Do("sync") \o DoneStep
           K == Do("cleanup") \o L
<1>1. /\ DoneStep \in Seq(Steps) /\ ~Has(DoneStep, "mounted") /\ ~Has(DoneStep, "rotate")
      /\ \A e, f, S, gp : FullIn(gp, e, f) => Needs(DoneStep, e, f, f, S, gp)
  BY DoneIs, NeedsEnd DEF DoneStep
<1>2. /\ L \in Seq(Steps) /\ ~Has(L, "mounted") /\ ~Has(L, "rotate")
      /\ \A e, f, S, gp : FullIn(gp, e, f) => Needs(L, e, f, f, S, gp)
  BY <1>1, NeedsDo, DoFirst
<1>3. RemountEnd = Do("refresh") \o K
  BY DEF RemountEnd
<1> HIDE DEF L
<1>4. /\ K \in Seq(Steps) /\ ~Has(K, "mounted") /\ ~Has(K, "rotate")
      /\ \A e, f, S, gp : FullIn(gp, e, f) => Needs(K, e, f, f, S, gp)
  BY <1>2, NeedsDo, DoFirst
<1> HIDE DEF K
<1>5. /\ Do("refresh") \o K \in Seq(Steps) /\ Do("refresh") \o K # <<>>
      /\ (Do("refresh") \o K)[1] = Simple("refresh")
      /\ ~Has(Do("refresh") \o K, "mounted") /\ ~Has(Do("refresh") \o K, "rotate")
  BY <1>4, DoFirst
<1>6. \A e, f, S, gp : FullIn(gp, e, f) => Needs(Do("refresh") \o K, e, f, f, S, gp)
  BY <1>4, NeedsDo
<1>7. Simple("refresh").do = "refresh"
  BY DEF Simple
<1> QED BY <1>3, <1>5, <1>6, <1>7

LEMMA WipePlan ==
  ASSUME NEW X \in Seq(Steps) PROVE X \o Remount \o Do("done") = X \o RemountEnd
<1> DEFINE A == Do("refresh")
           B == Do("cleanup")
           C == Do("sync")
           D == Do("done")
<1>1. A \in Seq(Steps) /\ B \in Seq(Steps) /\ C \in Seq(Steps) /\ D \in Seq(Steps)
  BY DoIs
<1>2. Remount = Cat(Cat(A, B), C)
  BY DEF Remount, Cat
<1>3. RemountEnd = Cat(A, Cat(B, Cat(C, D)))
  BY DoneIs DEF RemountEnd, Cat
<1>4. X \o Remount \o D = Cat(Cat(X, Remount), D) /\ X \o RemountEnd = Cat(X, RemountEnd)
  BY DEF Cat
<1> HIDE DEF A, B, C, D
<1>5. Cat(Cat(A, B), C) \in Seq(Steps)
  <2>1. Cat(A, B) \in Seq(Steps)
    BY <1>1, CatIs
  <2> QED BY <1>1, <2>1, CatIs
<1>6. Cat(Cat(Cat(A, B), C), D) = Cat(A, Cat(B, Cat(C, D)))
  BY <1>1, Right4
<1>7. ASSUME NEW M \in Seq(Steps) PROVE Cat(Cat(X, M), D) = Cat(X, Cat(M, D))
  BY <1>1, Right3
<1>8. Cat(Cat(X, Remount), D) = Cat(X, Cat(Remount, D))
  BY <1>2, <1>5, <1>7
<1> QED BY <1>2, <1>3, <1>4, <1>6, <1>8 DEF D

LEMMA WipeLive ==
  ASSUME InOrder, ledger.live, NEW P, Begun(P, Nobody, FALSE), P = WipeSteps \o RemountEnd
  PROVE  IBody' /\ Allowed(found, found')
<1>1. BegunOK(Nobody)
  BY BegunIs
<1>2. WipeOK(RemountEnd)
  BY RemountEndIs, WipeIs
<1>3. Needs(RemountEnd, NoRecord, Nobody, Nobody, sessions, gap')
  <2>1. FullIn(gap', NoRecord, Nobody)
    BY SlotType DEF FullIn, Nobody
  <2> QED BY <2>1, RemountEndIs
<1>4. ASSUME NEW K, K = RemountEnd PROVE Phase'
  <2>1. UNCHANGED <<disk, ram>> /\ Live /\ goal' = Nobody /\ sessions' = sessions /\ plan' = P
    BY DEF Begun, InOrder, Live
  <2>2. K # <<>> /\ K[1].do = "refresh" /\ WipeOK(K) /\ P = WipeSteps \o K
    BY <1>2, <1>4, RemountEndIs
  <2>3. Needs(K, NoRecord, Nobody, goal', sessions', gap')
    BY <1>3, <1>4, <2>1
  <2>4. \A x \in Where : Nobody[x] \in promised'[x]
    BY <1>1 DEF BegunOK
  <2> QED BY <2>1, <2>2, <2>3, <2>4, EpochNext
<1>5. Phase'
  BY <1>4
<1> QED BY <1>5, BegunStep

LEMMA WipeDead ==
  ASSUME InOrder, ~ledger.live, NEW P, Begun(P, Nobody, FALSE), P = Do("erase") \o RemountEnd
  PROVE  IBody' /\ Allowed(found, found')
<1>1. BegunOK(Nobody)
  BY BegunIs
<1>2. ledger = NoLedger /\ \A x \in Slot : \A s \in Side : flash[x][s] = Blank
  BY DEF InOrder, Universal, Virgin
<1>3. \A x \in Slot : WinAt(x) = "none" /\ Current[x] = Blank
  <2>1. TAKE x \in Slot
  <2>2. TypeDisk
    BY DEF InOrder
  <2>3. last[x] \in Side /\ Other(last[x]) \in Side
    BY <2>2, TwoSides, PairType DEF TypeDisk
  <2>4. WinAt(x) = "none"
    BY <1>2, <2>3, BlankUnfit DEF WinAt, Win
  <2> QED BY <2>2, <2>4, CurrentType
<1>4. found = Nobody
  <2>1. TypeDisk /\ Owned(Current, ledger.gens) /\ found = FoundOf(Current, ledger.gens)
    BY Facts DEF InOrder
  <2>2. Current = NoRecord
    <3>1. Current \in [Slot -> Record \cup {Blank}]
      BY <2>1, CurrentType
    <3> QED BY <1>3, <3>1 DEF NoRecord
  <2>3. ledger.gens \in [Identity -> Nat] /\ Uniq(ledger.gens)
    BY <2>1 DEF Owned
  <2> QED BY <2>1, <2>2, <2>3, WipedIs
<1>5. ASSUME NEW K, K = RemountEnd PROVE Phase'
  <2>1. K \in Seq(Steps) /\ K # <<>> /\ K[1].do = "refresh" /\ ~Has(K, "rotate")
    BY <1>5, RemountEndIs
  <2>2. Len(K) \in Nat \ {0}
    BY <2>1, TailIs
  <2>3. /\ P[1].do = "erase" /\ Tail(P) = K /\ Len(P) = Len(K) + 1 /\ P \in Seq(Steps)
    <3>1. P = Do("erase") \o K /\ Simple("erase").do = "erase"
      BY <1>5 DEF Simple
    <3> QED BY <2>1, <3>1, DoFirst, ZenonT(60)
  <2>4. P[2] = K[1]
    <3>1. Len(P) >= 2 /\ P # <<>>
      BY <2>2, <2>3
    <3>2. Tail(P)[1] = P[2]
      <4>1. 1 \in 1 .. (Len(P) - 1) /\ 1 + 1 = 2
        BY <2>2, <2>3
      <4>2. \A n \in 1 .. (Len(P) - 1) : Tail(P)[n] = P[n + 1]
        BY <2>3, <3>1, TailIs
      <4> QED BY <4>1, <4>2
    <3> QED BY <2>3, <3>2
  <2>5. Needs(K, Current', found', goal', sessions', gap')
    <3>1. FullIn(gap', Current', found')
      BY <1>1 DEF BegunOK, FullNow
    <3>2. goal' = found'
      BY <1>1, <1>4 DEF Begun, BegunOK
    <3> QED BY <1>5, <3>1, <3>2, RemountEndIs
  <2>6. ram'.ledger = ledger' /\ \A x \in Slot : WinAt(x)' = "none"
    BY <1>1, <1>3 DEF BegunOK, Begun, InOrder, disk
  <2>7. plan' = P /\ Len(P) >= 2 /\ P[2].do = "refresh"
    BY <2>1, <2>2, <2>3, <2>4 DEF Begun
  <2>8. Erasing(plan)'
    BY <2>1, <2>3, <2>5, <2>6, <2>7 DEF Erasing, Ready
  <2> QED BY <2>8 DEF Phase
<1>6. Phase'
  BY <1>5
<1> QED BY <1>6, BegunStep

LEMMA WipeCallIs ==
  ASSUME IBody, InStep, Wipe PROVE IBody' /\ Allowed(found, found')
<1> DEFINE X == IF ledger.live THEN WipeSteps ELSE Do("erase")
           P == X \o RemountEnd
<1>1. Idle
  BY DEF Wipe, Call, Begin
<1>2. InOrder
  BY <1>1, IdleIs
<1>3. Begin(X \o Remount, Nobody, FALSE)
  <2>1. ram.ledger = ledger
    BY <1>2 DEF InOrder
  <2> QED BY <2>1 DEF Wipe, Call
<1>4. X \in Seq(Steps)
  <2>1. Do("erase") \in Seq(Steps) /\ Do("rotate") \in Seq(Steps) /\ Do("epoch") \in Seq(Steps)
    BY DoIs
  <2>2. WipeSteps \in Seq(Steps)
    <3>1. WipeSteps = Cat(Cat(Do("rotate"), Do("epoch")), Do("erase"))
      BY DEF WipeSteps, Cat
    <3>2. Cat(Do("rotate"), Do("epoch")) \in Seq(Steps)
      BY <2>1, CatIs
    <3> QED BY <2>1, <3>1, <3>2, CatIs
  <2> QED BY <2>1, <2>2
<1>5. X \o Remount \o Do("done") = P
  BY <1>4, WipePlan
<1>6. P \in Seq(Steps) /\ P # <<>> /\ ~Has(P, "mounted")
  <2>1. CASE ledger.live
    <3>1. WipeOK(RemountEnd)
      BY RemountEndIs, WipeIs
    <3>2. P = WipeSteps \o RemountEnd
      BY <2>1
    <3> QED BY <3>1, <3>2, RemountEndIs DEF WipeOK
  <2>2. CASE ~ledger.live
    <3>1. P = Do("erase") \o RemountEnd
      BY <2>2
    <3> QED BY <3>1, RemountEndIs, DoFirst
  <2> QED BY <2>1, <2>2
<1>7. P = IF ledger.live THEN WipeSteps \o RemountEnd ELSE Do("erase") \o RemountEnd
  OBVIOUS
<1> HIDE DEF X, P
<1>8. Begun(P, Nobody, FALSE)
  BY <1>3, <1>5, <1>6, BeginIs
<1>9. CASE ledger.live
  BY <1>2, <1>7, <1>8, <1>9, WipeLive
<1>10. CASE ~ledger.live
  BY <1>2, <1>7, <1>8, <1>10, WipeDead
<1> QED BY <1>9, <1>10

-----------------------------------------------------------------------------
\* A step behind others.
Longer(S, Q, y, P) ==
  /\ Q \in Seq(S) /\ y \in S /\ P \in Seq(S) /\ Len(P) = Len(Q) + 1
  /\ (\A n \in 1 .. Len(Q) : P[n] = Q[n]) /\ P[Len(Q) + 1] = y

LEMMA Snoc ==
  ASSUME NEW S, NEW Q, NEW y, NEW P, Longer(S, Q, y, P) PROVE Q \o <<y>> = P
<1> USE DEF Longer
<1> DEFINE R == Q \o <<y>>
<1>1. Len(Q) \in Nat /\ <<y>> \in Seq(S) /\ Len(<<y>>) = 1
  OBVIOUS
<1>2. /\ R \in Seq(S) /\ Len(R) = Len(Q) + 1 /\ \A n \in 1 .. Len(Q) : R[n] = Q[n]
      /\ R[Len(Q) + 1] = y
  BY <1>1, ConcatProperties
<1> HIDE DEF R
<1>3. \A n \in 1 .. Len(P) : P[n] = R[n]
  BY <1>1, <1>2
<1>4. P = R
  BY <1>2, <1>3, SeqEqual
<1> QED BY <1>4 DEF R

LEMMA Snoc2 ==
  ASSUME NEW a, NEW b, NEW c
  PROVE  <<a, b>> \o <<c>> = <<a, b, c>>
<1> DEFINE Q == <<a, b>>
           P == <<a, b, c>>
           S == {a, b, c}
<1>1. Q \in Seq(S) /\ P \in Seq(S) /\ Len(Q) = 2 /\ Len(P) = 3 /\ P[3] = c /\ c \in S
  OBVIOUS
<1>2. \A n \in 1 .. 2 : P[n] = Q[n]
  OBVIOUS
<1> HIDE DEF P, Q, S
<1>3. Longer(S, Q, c, P)
  BY <1>1, <1>2 DEF Longer
<1>4. Q \o <<c>> = P
  BY <1>3, Snoc
<1> QED BY <1>4 DEF P, Q

LEMMA Snoc3 ==
  ASSUME NEW a, NEW b, NEW c, NEW d
  PROVE  <<a, b, c>> \o <<d>> = <<a, b, c, d>>
<1> DEFINE Q == <<a, b, c>>
           P == <<a, b, c, d>>
           S == {a, b, c, d}
<1>1. Q \in Seq(S) /\ P \in Seq(S) /\ Len(Q) = 3 /\ Len(P) = 4 /\ P[4] = d /\ d \in S
  OBVIOUS
<1>2. \A n \in 1 .. 3 : P[n] = Q[n]
  OBVIOUS
<1> HIDE DEF P, Q, S
<1>3. Longer(S, Q, d, P)
  BY <1>1, <1>2 DEF Longer
<1>4. Q \o <<d>> = P
  BY <1>3, Snoc
<1> QED BY <1>4 DEF P, Q

LEMMA Snoc4 ==
  ASSUME NEW a, NEW b, NEW c, NEW d, NEW e
  PROVE  <<a, b, c, d>> \o <<e>> = <<a, b, c, d, e>>
<1> DEFINE Q == <<a, b, c, d>>
           P == <<a, b, c, d, e>>
           S == {a, b, c, d, e}
<1>1. Q \in Seq(S) /\ P \in Seq(S) /\ Len(Q) = 4 /\ Len(P) = 5 /\ P[5] = e /\ e \in S
  OBVIOUS
<1>2. \A n \in 1 .. 4 : P[n] = Q[n]
  OBVIOUS
<1> HIDE DEF P, Q, S
<1>3. Longer(S, Q, e, P)
  BY <1>1, <1>2 DEF Longer
<1>4. Q \o <<e>> = P
  BY <1>3, Snoc
<1> QED BY <1>4 DEF P, Q

LEMMA Snoc5 ==
  ASSUME NEW a, NEW b, NEW c, NEW d, NEW e, NEW f
  PROVE  <<a, b, c, d, e>> \o <<f>> = <<a, b, c, d, e, f>>
<1> DEFINE Q == <<a, b, c, d, e>>
           P == <<a, b, c, d, e, f>>
           S == {a, b, c, d, e, f}
<1>1. Q \in Seq(S) /\ P \in Seq(S) /\ Len(Q) = 5 /\ Len(P) = 6 /\ P[6] = f /\ f \in S
  OBVIOUS
<1>2. \A n \in 1 .. 5 : P[n] = Q[n]
  OBVIOUS
<1> HIDE DEF P, Q, S
<1>3. Longer(S, Q, f, P)
  BY <1>1, <1>2 DEF Longer
<1>4. Q \o <<f>> = P
  BY <1>3, Snoc
<1> QED BY <1>4 DEF P, Q

LEMMA Snoc6 ==
  ASSUME NEW a, NEW b, NEW c, NEW d, NEW e, NEW f, NEW g
  PROVE  <<a, b, c, d, e, f>> \o <<g>> = <<a, b, c, d, e, f, g>>
<1> DEFINE Q == <<a, b, c, d, e, f>>
           P == <<a, b, c, d, e, f, g>>
           S == {a, b, c, d, e, f, g}
<1>1. Q \in Seq(S) /\ P \in Seq(S) /\ Len(Q) = 6 /\ Len(P) = 7 /\ P[7] = g /\ g \in S
  OBVIOUS
<1>2. \A n \in 1 .. 6 : P[n] = Q[n]
  OBVIOUS
<1> HIDE DEF P, Q, S
<1>3. Longer(S, Q, g, P)
  BY <1>1, <1>2 DEF Longer
<1>4. Q \o <<g>> = P
  BY <1>3, Snoc
<1> QED BY <1>4 DEF P, Q

LEMMA Snoc7 ==
  ASSUME NEW a, NEW b, NEW c, NEW d, NEW e, NEW f, NEW g, NEW h
  PROVE  <<a, b, c, d, e, f, g>> \o <<h>> = <<a, b, c, d, e, f, g, h>>
<1> DEFINE Q == <<a, b, c, d, e, f, g>>
           P == <<a, b, c, d, e, f, g, h>>
           S == {a, b, c, d, e, f, g, h}
<1>1. Q \in Seq(S) /\ P \in Seq(S) /\ Len(Q) = 7 /\ Len(P) = 8 /\ P[8] = h /\ h \in S
  OBVIOUS
<1>2. \A n \in 1 .. 7 : P[n] = Q[n]
  OBVIOUS
<1> HIDE DEF P, Q, S
<1>3. Longer(S, Q, h, P)
  BY <1>1, <1>2 DEF Longer
<1>4. Q \o <<h>> = P
  BY <1>3, Snoc
<1> QED BY <1>4 DEF P, Q

LEMMA Snoc8 ==
  ASSUME NEW a, NEW b, NEW c, NEW d, NEW e, NEW f, NEW g, NEW h, NEW i
  PROVE  <<a, b, c, d, e, f, g, h>> \o <<i>> = <<a, b, c, d, e, f, g, h, i>>
<1> DEFINE Q == <<a, b, c, d, e, f, g, h>>
           P == <<a, b, c, d, e, f, g, h, i>>
           S == {a, b, c, d, e, f, g, h, i}
<1>1. Q \in Seq(S) /\ P \in Seq(S) /\ Len(Q) = 8 /\ Len(P) = 9 /\ P[9] = i /\ i \in S
  OBVIOUS
<1>2. \A n \in 1 .. 8 : P[n] = Q[n]
  OBVIOUS
<1> HIDE DEF P, Q, S
<1>3. Longer(S, Q, i, P)
  BY <1>1, <1>2 DEF Longer
<1>4. Q \o <<i>> = P
  BY <1>3, Snoc
<1> QED BY <1>4 DEF P, Q

LEMMA Snoc9 ==
  ASSUME NEW a, NEW b, NEW c, NEW d, NEW e, NEW f, NEW g, NEW h, NEW i, NEW j
  PROVE  <<a, b, c, d, e, f, g, h, i>> \o <<j>> = <<a, b, c, d, e, f, g, h, i, j>>
<1> DEFINE Q == <<a, b, c, d, e, f, g, h, i>>
           P == <<a, b, c, d, e, f, g, h, i, j>>
           S == {a, b, c, d, e, f, g, h, i, j}
<1>1. Q \in Seq(S) /\ P \in Seq(S) /\ Len(Q) = 9 /\ Len(P) = 10 /\ P[10] = j /\ j \in S
  OBVIOUS
<1>2. \A n \in 1 .. 9 : P[n] = Q[n]
  OBVIOUS
<1> HIDE DEF P, Q, S
<1>3. Longer(S, Q, j, P)
  BY <1>1, <1>2 DEF Longer
<1>4. Q \o <<j>> = P
  BY <1>3, Snoc
<1> QED BY <1>4 DEF P, Q

LEMMA Snoc10 ==
  ASSUME NEW a, NEW b, NEW c, NEW d, NEW e, NEW f, NEW g, NEW h, NEW i, NEW j, NEW k
  PROVE  <<a, b, c, d, e, f, g, h, i, j>> \o <<k>> = <<a, b, c, d, e, f, g, h, i, j, k>>
<1> DEFINE Q == <<a, b, c, d, e, f, g, h, i, j>>
           P == <<a, b, c, d, e, f, g, h, i, j, k>>
           S == {a, b, c, d, e, f, g, h, i, j, k}
<1>1. Q \in Seq(S) /\ P \in Seq(S) /\ Len(Q) = 10 /\ Len(P) = 11 /\ P[11] = k /\ k \in S
  OBVIOUS
<1>2. \A n \in 1 .. 10 : P[n] = Q[n]
  OBVIOUS
<1> HIDE DEF P, Q, S
<1>3. Longer(S, Q, k, P)
  BY <1>1, <1>2 DEF Longer
<1>4. Q \o <<k>> = P
  BY <1>3, Snoc
<1> QED BY <1>4 DEF P, Q

LEMMA Snoc11 ==
  ASSUME NEW a, NEW b, NEW c, NEW d, NEW e, NEW f, NEW g, NEW h, NEW i, NEW j, NEW k, NEW l
  PROVE  <<a, b, c, d, e, f, g, h, i, j, k>> \o <<l>> = <<a, b, c, d, e, f, g, h, i, j, k, l>>
<1> DEFINE Q == <<a, b, c, d, e, f, g, h, i, j, k>>
           P == <<a, b, c, d, e, f, g, h, i, j, k, l>>
           S == {a, b, c, d, e, f, g, h, i, j, k, l}
<1>1. Q \in Seq(S) /\ P \in Seq(S) /\ Len(Q) = 11 /\ Len(P) = 12 /\ P[12] = l /\ l \in S
  OBVIOUS
<1>2. \A n \in 1 .. 11 : P[n] = Q[n]
  OBVIOUS
<1> HIDE DEF P, Q, S
<1>3. Longer(S, Q, l, P)
  BY <1>1, <1>2 DEF Longer
<1>4. Q \o <<l>> = P
  BY <1>3, Snoc
<1> QED BY <1>4 DEF P, Q

LEMMA Snoc12 ==
  ASSUME NEW a, NEW b, NEW c, NEW d, NEW e, NEW f, NEW g, NEW h, NEW i, NEW j, NEW k, NEW l, NEW m
  PROVE  <<a, b, c, d, e, f, g, h, i, j, k, l>> \o <<m>> = <<a, b, c, d, e, f, g, h, i, j, k, l, m>>
<1> DEFINE Q == <<a, b, c, d, e, f, g, h, i, j, k, l>>
           P == <<a, b, c, d, e, f, g, h, i, j, k, l, m>>
           S == {a, b, c, d, e, f, g, h, i, j, k, l, m}
<1>1. Q \in Seq(S) /\ P \in Seq(S) /\ Len(Q) = 12 /\ Len(P) = 13 /\ P[13] = m /\ m \in S
  OBVIOUS
<1>2. \A n \in 1 .. 12 : P[n] = Q[n]
  OBVIOUS
<1> HIDE DEF P, Q, S
<1>3. Longer(S, Q, m, P)
  BY <1>1, <1>2 DEF Longer
<1>4. Q \o <<m>> = P
  BY <1>3, Snoc
<1> QED BY <1>4 DEF P, Q

\* Several of them.
Snocs12OK(a, b, c, d, e, f, g, h, i, j, k, l) ==
  <<a, b, c, d, e, f>> \o <<g>> \o <<h>> \o <<i>> \o <<j>> \o <<k>> \o <<l>>
         = <<a, b, c, d, e, f, g, h, i, j, k, l>>

LEMMA Snocs12 ==
  ASSUME NEW a, NEW b, NEW c, NEW d, NEW e, NEW f, NEW g, NEW h, NEW i, NEW j, NEW k, NEW l
  PROVE  Snocs12OK(a, b, c, d, e, f, g, h, i, j, k, l)
<1> USE DEF Snocs12OK
<1>1. <<a, b, c, d, e, f>> \o <<g>> = <<a, b, c, d, e, f, g>>
  BY Snoc6
<1>2. <<a, b, c, d, e, f>> \o <<g>> \o <<h>> = <<a, b, c, d, e, f, g, h>>
  <2>1. <<a, b, c, d, e, f, g>> \o <<h>> = <<a, b, c, d, e, f, g, h>>
    BY Snoc7
  <2> QED BY <1>1, <2>1, Zenon
<1>3. <<a, b, c, d, e, f>> \o <<g>> \o <<h>> \o <<i>> = <<a, b, c, d, e, f, g, h, i>>
  <2>1. <<a, b, c, d, e, f, g, h>> \o <<i>> = <<a, b, c, d, e, f, g, h, i>>
    BY Snoc8
  <2> QED BY <1>2, <2>1, Zenon
<1>4. <<a, b, c, d, e, f>> \o <<g>> \o <<h>> \o <<i>> \o <<j>> = <<a, b, c, d, e, f, g, h, i, j>>
  <2>1. <<a, b, c, d, e, f, g, h, i>> \o <<j>> = <<a, b, c, d, e, f, g, h, i, j>>
    BY Snoc9
  <2> QED BY <1>3, <2>1, Zenon
<1>5. <<a, b, c, d, e, f>> \o <<g>> \o <<h>> \o <<i>> \o <<j>> \o <<k>> = <<a, b, c, d, e, f, g, h, i, j, k>>
  <2>1. <<a, b, c, d, e, f, g, h, i, j>> \o <<k>> = <<a, b, c, d, e, f, g, h, i, j, k>>
    BY Snoc10
  <2> QED BY <1>4, <2>1, Zenon
<1>6. <<a, b, c, d, e, f, g, h, i, j, k>> \o <<l>> = <<a, b, c, d, e, f, g, h, i, j, k, l>>
  BY Snoc11
<1> QED BY <1>5, <1>6, Zenon

Snocs13OK(a, b, c, d, e, f, g, h, i, j, k, l, m) ==
  <<a, b, c, d, e, f>> \o <<g>> \o <<h>> \o <<i>> \o <<j>> \o <<k>> \o <<l>> \o <<m>>
         = <<a, b, c, d, e, f, g, h, i, j, k, l, m>>

LEMMA Snocs13 ==
  ASSUME NEW a, NEW b, NEW c, NEW d, NEW e, NEW f, NEW g, NEW h, NEW i, NEW j, NEW k, NEW l, NEW m
  PROVE  Snocs13OK(a, b, c, d, e, f, g, h, i, j, k, l, m)
<1> USE DEF Snocs13OK
<1>1. <<a, b, c, d, e, f>> \o <<g>> = <<a, b, c, d, e, f, g>>
  BY Snoc6
<1>2. <<a, b, c, d, e, f>> \o <<g>> \o <<h>> = <<a, b, c, d, e, f, g, h>>
  <2>1. <<a, b, c, d, e, f, g>> \o <<h>> = <<a, b, c, d, e, f, g, h>>
    BY Snoc7
  <2> QED BY <1>1, <2>1, Zenon
<1>3. <<a, b, c, d, e, f>> \o <<g>> \o <<h>> \o <<i>> = <<a, b, c, d, e, f, g, h, i>>
  <2>1. <<a, b, c, d, e, f, g, h>> \o <<i>> = <<a, b, c, d, e, f, g, h, i>>
    BY Snoc8
  <2> QED BY <1>2, <2>1, Zenon
<1>4. <<a, b, c, d, e, f>> \o <<g>> \o <<h>> \o <<i>> \o <<j>> = <<a, b, c, d, e, f, g, h, i, j>>
  <2>1. <<a, b, c, d, e, f, g, h, i>> \o <<j>> = <<a, b, c, d, e, f, g, h, i, j>>
    BY Snoc9
  <2> QED BY <1>3, <2>1, Zenon
<1>5. <<a, b, c, d, e, f>> \o <<g>> \o <<h>> \o <<i>> \o <<j>> \o <<k>> = <<a, b, c, d, e, f, g, h, i, j, k>>
  <2>1. <<a, b, c, d, e, f, g, h, i, j>> \o <<k>> = <<a, b, c, d, e, f, g, h, i, j, k>>
    BY Snoc10
  <2> QED BY <1>4, <2>1, Zenon
<1>6. <<a, b, c, d, e, f>> \o <<g>> \o <<h>> \o <<i>> \o <<j>> \o <<k>> \o <<l>> = <<a, b, c, d, e, f, g, h, i, j, k, l>>
  <2>1. <<a, b, c, d, e, f, g, h, i, j, k>> \o <<l>> = <<a, b, c, d, e, f, g, h, i, j, k, l>>
    BY Snoc11
  <2> QED BY <1>5, <2>1, Zenon
<1>7. <<a, b, c, d, e, f, g, h, i, j, k, l>> \o <<m>> = <<a, b, c, d, e, f, g, h, i, j, k, l, m>>
  BY Snoc12
<1> QED BY <1>6, <1>7, Zenon

-----------------------------------------------------------------------------
\* The steps of format.
SixOK(a, b, c, d, e, f) ==
  <<a>> \o <<b>> \o (<<c>> \o <<d>>) \o (<<e>> \o <<f>>) = <<a, b, c, d, e, f>>

LEMMA Six ==
  ASSUME NEW a \in Steps, NEW b \in Steps, NEW c \in Steps, NEW d \in Steps, NEW e \in Steps,
         NEW f \in Steps
  PROVE  SixOK(a, b, c, d, e, f)
<1>1. <<a>> \o <<b>> = <<a, b>>
  BY Cat1
<1>2. <<a>> \o <<b>> \o (<<c>> \o <<d>>) = <<a, b, c, d>>
  <2>1. <<a, b>> \o (<<c>> \o <<d>>) = (<<a, b>> \o <<c>>) \o <<d>>
    <3>1. <<a, b>> \in Seq(Steps) /\ <<c>> \in Seq(Steps) /\ <<d>> \in Seq(Steps)
      OBVIOUS
    <3> QED BY <3>1, Assoc
  <2>2. <<a, b>> \o <<c>> = <<a, b, c>> /\ <<a, b, c>> \o <<d>> = <<a, b, c, d>>
    BY Snoc2, Snoc3
  <2> QED BY <1>1, <2>1, <2>2, Zenon
<1>3. <<a, b, c, d>> \o (<<e>> \o <<f>>) = <<a, b, c, d, e, f>>
  <2>1. <<a, b, c, d>> \o (<<e>> \o <<f>>) = (<<a, b, c, d>> \o <<e>>) \o <<f>>
    <3>1. <<a, b, c, d>> \in Seq(Steps) /\ <<e>> \in Seq(Steps) /\ <<f>> \in Seq(Steps)
      OBVIOUS
    <3> QED BY <3>1, Assoc
  <2>2. <<a, b, c, d>> \o <<e>> = <<a, b, c, d, e>>
    BY Snoc4
  <2>3. <<a, b, c, d, e>> \o <<f>> = <<a, b, c, d, e, f>>
    BY Snoc5
  <2> QED BY <2>1, <2>2, <2>3, Zenon
<1> QED BY <1>2, <1>3, Zenon DEF SixOK

FormatSix(p, g, b) ==
  <<Simple("head"), Simple("refresh"), NowStep(Super, Super, 0, b), RetireStep(Super),
    NowStep(First, p, g, b), RetireStep(First)>>

FormatFirst(p, g, b) ==
  Do("head") \o Do("refresh") \o SealNow(Super, Super, 0, b) \o SealNow(First, p, g, b)

LEMMA FormatFirstIs ==
  ASSUME NEW p \in Pin, NEW g \in Nat, NEW b \in Body
  PROVE  FormatFirst(p, g, b) = FormatSix(p, g, b)
<1> DEFINE s == NowStep(Super, Super, 0, b)
           c == NowStep(First, p, g, b)
<1>1. Super \in Slot /\ Super \in Key /\ 0 \in Nat /\ First \in Slot /\ p \in Key
  BY SlotType, VaultAssumption DEF Key
<1>2. s \in Steps /\ c \in Steps
  BY <1>1, NowStepIs DEF StepIs
<1>3. RetireStep(Super) \in Steps /\ RetireStep(First) \in Steps
  BY <1>1, RetireStepIs
<1>4. Do("head") = <<Simple("head")>> /\ Do("refresh") = <<Simple("refresh")>>
      /\ Simple("head") \in Steps /\ Simple("refresh") \in Steps
  BY DoIs
<1>5. SealNow(Super, Super, 0, b) = <<s>> \o <<RetireStep(Super)>>
  BY DEF SealNow, Program, NowStep, SealStep, RetireStep
<1>6. SealNow(First, p, g, b) = <<c>> \o <<RetireStep(First)>>
  BY DEF SealNow, Program, NowStep, SealStep, RetireStep
<1> HIDE DEF s, c
<1>7. <<Simple("head")>> \o <<Simple("refresh")>> \o (<<s>> \o <<RetireStep(Super)>>)
        \o (<<c>> \o <<RetireStep(First)>>)
      = <<Simple("head"), Simple("refresh"), s, RetireStep(Super), c, RetireStep(First)>>
  <2>1. SixOK(Simple("head"), Simple("refresh"), s, RetireStep(Super), c, RetireStep(First))
    BY <1>2, <1>3, <1>4, Six
  <2> QED BY <2>1 DEF SixOK
<1>8. FormatFirst(p, g, b)
      = <<Simple("head"), Simple("refresh"), s, RetireStep(Super), c, RetireStep(First)>>
  BY <1>4, <1>5, <1>6, <1>7, Zenon DEF FormatFirst
<1> QED BY <1>8 DEF FormatSix, s, c

LEMMA FormatAll ==
  ASSUME NEW p \in Pin, NEW b \in Body, NEW g \in Nat, g = FormatGen
  PROVE  FormatFirst(p, g, b) \o (IF ledger.gens[First] = 0 THEN CommitGen(First, g) ELSE <<>>)
           \o Do("refresh") \o Do("fill") \o Do("refresh")
           \o <<[do |-> "prove", id |-> First, key |-> p]>> \o NewSession(First, p) \o Do("done")
         = FormatPlan(p, b)
<1> DEFINE r == Simple("refresh")
           l == Simple("fill")
           v == [do |-> "prove", id |-> First, key |-> p]
           s == [do |-> "session", id |-> First, key |-> p]
           z == Simple("done")
           c == [do |-> "gen", id |-> First, gen |-> g]
           h == Simple("head")
           s1 == NowStep(Super, Super, 0, b)
           r1 == RetireStep(Super)
           s2 == NowStep(First, p, g, b)
           r2 == RetireStep(First)
           X == FormatFirst(p, g, b)
<1>1. /\ Do("refresh") = <<r>> /\ Do("fill") = <<l>> /\ Do("done") = <<z>>
      /\ NewSession(First, p) = <<s>> /\ CommitGen(First, g) = <<c>>
  BY DoIs DEF NewSession, CommitGen
<1>2. X = <<h, r, s1, r1, s2, r2>>
  BY FormatFirstIs DEF FormatSix
<1>3. CASE ledger.gens[First] = 0
  <2>1. FormatPlan(p, b) = <<h, r, s1, r1, s2, r2, c, r, l, r, v, s, z>>
    BY <1>3 DEF FormatPlan, NowStep, FormatGen
  <2> HIDE DEF r, l, v, s, z, c, h, s1, r1, s2, r2, X
  <2>2. <<h, r, s1, r1, s2, r2>> \o <<c>> \o <<r>> \o <<l>> \o <<r>> \o <<v>> \o <<s>> \o <<z>>
        = <<h, r, s1, r1, s2, r2, c, r, l, r, v, s, z>>
    <3>1. Snocs13OK(h, r, s1, r1, s2, r2, c, r, l, r, v, s, z)
      BY Snocs13
    <3> QED BY <3>1, Zenon DEF Snocs13OK
  <2>3. X \o CommitGen(First, g) \o Do("refresh") \o Do("fill") \o Do("refresh")
          \o <<v>> \o NewSession(First, p) \o Do("done")
        = <<h, r, s1, r1, s2, r2>> \o <<c>> \o <<r>> \o <<l>> \o <<r>> \o <<v>> \o <<s>> \o <<z>>
    BY <1>1, <1>2, Zenon
  <2> QED BY <1>3, <2>1, <2>2, <2>3, Zenon DEF X, v
<1>4. CASE ledger.gens[First] # 0
  <2>1. FormatPlan(p, b) = <<h, r, s1, r1, s2, r2, r, l, r, v, s, z>>
    BY <1>4 DEF FormatPlan, NowStep, FormatGen
  <2>2. X \o <<>> = X
    <3>1. X \in Seq(Steps)
      <4>1. 0 \in Nat /\ Super \in Slot /\ First \in Slot /\ Super \in Key /\ p \in Key
        BY SlotType, VaultAssumption DEF Key
      <4>2. /\ h \in Steps /\ r \in Steps /\ s1 \in Steps /\ s2 \in Steps /\ r1 \in Steps
            /\ r2 \in Steps
        BY <4>1, SimpleStep, NowStepIs, RetireStepIs DEF StepIs
      <4> HIDE DEF h, r, s1, r1, s2, r2, X
      <4> QED BY <1>2, <4>2
    <3> HIDE DEF X
    <3> QED BY <3>1
  <2> HIDE DEF r, l, v, s, z, c, h, s1, r1, s2, r2, X
  <2>3. <<h, r, s1, r1, s2, r2>> \o <<r>> \o <<l>> \o <<r>> \o <<v>> \o <<s>> \o <<z>>
        = <<h, r, s1, r1, s2, r2, r, l, r, v, s, z>>
    <3>1. Snocs12OK(h, r, s1, r1, s2, r2, r, l, r, v, s, z)
      BY Snocs12
    <3> QED BY <3>1, Zenon DEF Snocs12OK
  <2>4. X \o <<>> \o Do("refresh") \o Do("fill") \o Do("refresh")
          \o <<v>> \o NewSession(First, p) \o Do("done")
        = <<h, r, s1, r1, s2, r2>> \o <<r>> \o <<l>> \o <<r>> \o <<v>> \o <<s>> \o <<z>>
    BY <1>1, <1>2, <2>2, Zenon
  <2> QED BY <1>4, <2>1, <2>3, <2>4, Zenon DEF X, v
<1> QED BY <1>3, <1>4

LEMMA FormatHas ==
  ASSUME NEW p \in Pin, NEW b \in Body, FormatGen \in Nat
  PROVE  FormatPlan(p, b) \in Seq(Steps) /\ FormatPlan(p, b) # <<>> /\ ~Has(FormatPlan(p, b), "mounted")
<1> DEFINE r == Simple("refresh")
           l == Simple("fill")
           v == ProveStep(First, p)
           s == SessionStep(First, p)
           z == Simple("done")
           c == GenStep(First, FormatGen)
           h == Simple("head")
           s1 == NowStep(Super, Super, 0, b)
           r1 == RetireStep(Super)
           s2 == NowStep(First, p, FormatGen, b)
           r2 == RetireStep(First)
<1>1. 0 \in Nat /\ Super \in Slot /\ First \in Slot /\ Super \in Key /\ p \in Key /\ First \in Identity
  BY SlotType, VaultAssumption DEF Key
<1>2. /\ h \in Steps /\ r \in Steps /\ l \in Steps /\ z \in Steps
      /\ h.do # "mounted" /\ r.do # "mounted" /\ l.do # "mounted" /\ z.do # "mounted"
  BY SimpleStep
<1>3. /\ v \in Steps /\ s \in Steps /\ c \in Steps
      /\ v.do # "mounted" /\ s.do # "mounted" /\ c.do # "mounted"
  BY <1>1, SessionStepIs
<1>4. /\ s1 \in Steps /\ s2 \in Steps /\ s1.do # "mounted" /\ s2.do # "mounted"
  BY <1>1, NowStepIs DEF StepIs
<1>5. /\ r1 \in Steps /\ r2 \in Steps /\ r1.do # "mounted" /\ r2.do # "mounted"
  BY <1>1, RetireStepIs
<1>6. FormatPlan(p, b) = IF ledger.gens[First] = 0
                         THEN <<h, r, s1, r1, s2, r2, c, r, l, r, v, s, z>>
                         ELSE <<h, r, s1, r1, s2, r2, r, l, r, v, s, z>>
  BY DEF FormatPlan, NowStep, ProveStep, SessionStep, GenStep
<1> HIDE DEF r, l, v, s, z, c, h, s1, r1, s2, r2
<1>7. ASSUME NEW P, P = <<h, r, s1, r1, s2, r2, c, r, l, r, v, s, z>>
      PROVE  P \in Seq(Steps) /\ P # <<>> /\ ~Has(P, "mounted")
  <2>1. P \in Seq(Steps) /\ Len(P) = 13
    BY <1>2, <1>3, <1>4, <1>5, <1>7
  <2>2. \A n \in 1 .. 13 : P[n].do # "mounted"
    BY <1>2, <1>3, <1>4, <1>5, <1>7
  <2>3. DOMAIN P = 1 .. 13
    BY <2>1
  <2>4. P # <<>>
    <3>1. Len(P) >= 3
      BY <2>1
    <3> QED BY <3>1, LongIs
  <2> QED BY <2>1, <2>2, <2>3, <2>4 DEF Has
<1>8. ASSUME NEW P, P = <<h, r, s1, r1, s2, r2, r, l, r, v, s, z>>
      PROVE  P \in Seq(Steps) /\ P # <<>> /\ ~Has(P, "mounted")
  <2>1. P \in Seq(Steps) /\ Len(P) = 12
    BY <1>2, <1>3, <1>4, <1>5, <1>8
  <2>2. \A n \in 1 .. 12 : P[n].do # "mounted"
    BY <1>2, <1>3, <1>4, <1>5, <1>8
  <2>3. DOMAIN P = 1 .. 12
    BY <2>1
  <2>4. P # <<>>
    <3>1. Len(P) >= 3
      BY <2>1
    <3> QED BY <3>1, LongIs
  <2> QED BY <2>1, <2>2, <2>3, <2>4 DEF Has
<1>9. ASSUME NEW P, P = FormatPlan(p, b)
      PROVE  P \in Seq(Steps) /\ P # <<>> /\ ~Has(P, "mounted")
  BY <1>6, <1>7, <1>8, <1>9
<1> QED BY <1>9

LEMMA FormatIs ==
  ASSUME IBody, InStep, NEW p \in Pin, Format(p) PROVE IBody' /\ Allowed(found, found')
<1> DEFINE old == ram.ledger.gens[First]
           g == IF old = 0 THEN GenNext(ram.ledger) ELSE old
           b == [val |-> Strict,
                 gen |-> IF ram.ledger.live THEN ram.ledger.policy.gen + 1 ELSE 0]
           P == FormatPlan(p, b)
           wish == Put(found, First, p)
<1>1. /\ ram.state = "blank" /\ Idle
      /\ Begin(Do("head") \o Do("refresh")
                 \o SealNow(Super, Super, 0, b)
                 \o SealNow(First, p, g, b)
                 \o (IF old = g THEN <<>> ELSE CommitGen(First, g))
                 \o Do("refresh") \o Do("fill") \o Do("refresh")
                 \o <<[do |-> "prove", id |-> First, key |-> p]>> \o NewSession(First, p), wish, FALSE)
  BY DEF Format, Call, Begin, Put
<1>2. InOrder
  BY <1>1, IdleIs
<1>3. ram.ledger = ledger /\ TypeDisk /\ First \in Identity
  BY <1>2, SlotType DEF InOrder
<1>4. /\ GenNext(ledger) \in Nat /\ GenNext(ledger) # 0 /\ ledger.gens[First] \in Nat
  BY <1>3, LedgerType, GenNextIs
<1>5. g = FormatGen /\ g \in Nat /\ (old = g <=> ledger.gens[First] # 0)
  BY <1>3, <1>4 DEF FormatGen
<1>6. b \in Body /\ b = FormatHead.policy /\ b \in Policies
  <2>1. ledger.policy.gen \in Nat /\ ledger.live \in BOOLEAN
    BY <1>3, LedgerType
  <2>2. b \in Policies
    BY <1>3, <2>1 DEF Policies
  <2>3. b = FormatHead.policy
    <3>1. CASE ledger.live
      <4>1. FormatHead = [ledger EXCEPT !.used = 0, !.policy = [val |-> Strict, gen |-> @.gen + 1]]
        BY <1>3, <3>1 DEF FormatHead
      <4>2. ledger \in Ledgers
        BY <1>3 DEF TypeDisk
      <4> QED BY <1>3, <3>1, <4>1, <4>2 DEF Ledgers
    <3>2. CASE ~ledger.live
      <4>1. FormatHead = [NoLedger EXCEPT !.live = TRUE]
        BY <1>3, <3>2 DEF FormatHead
      <4> QED BY <1>3, <3>2, <4>1 DEF NoLedger
    <3> QED BY <3>1, <3>2
  <2> QED BY <2>2, <2>3 DEF Body
<1>7. Begin(FormatFirst(p, g, b) \o (IF ledger.gens[First] = 0 THEN CommitGen(First, g) ELSE <<>>)
           \o Do("refresh") \o Do("fill") \o Do("refresh")
           \o <<[do |-> "prove", id |-> First, key |-> p]>> \o NewSession(First, p), wish, FALSE)
  <2> DEFINE E == IF old = g THEN <<>> ELSE CommitGen(First, g)
             E2 == IF ledger.gens[First] = 0 THEN CommitGen(First, g) ELSE <<>>
  <2>1. E = E2
    BY <1>5
  <2> HIDE DEF E, E2, g, b
  <2>2. Begin(Do("head") \o Do("refresh") \o SealNow(Super, Super, 0, b) \o SealNow(First, p, g, b)
                \o E2 \o Do("refresh") \o Do("fill") \o Do("refresh")
                \o <<[do |-> "prove", id |-> First, key |-> p]>> \o NewSession(First, p), wish, FALSE)
    BY <1>1, <2>1, Zenon DEF E
  <2> QED BY <2>2, Zenon DEF E2, FormatFirst
<1> HIDE DEF old, g, b, wish
<1>8. P \in Seq(Steps) /\ P # <<>> /\ ~Has(P, "mounted")
  BY <1>5, <1>6, FormatHas
<1>9. FormatFirst(p, g, b) \o (IF ledger.gens[First] = 0 THEN CommitGen(First, g) ELSE <<>>)
           \o Do("refresh") \o Do("fill") \o Do("refresh")
           \o <<[do |-> "prove", id |-> First, key |-> p]>> \o NewSession(First, p) \o Do("done")
      = P
  BY <1>5, <1>6, FormatAll
<1> HIDE DEF P
<1>10. Begun(P, wish, FALSE)
  BY <1>7, <1>8, <1>9, BeginIs
<1>11. BegunOK(wish)
  BY <1>2, <1>10, BegunIs
<1>12. FormatFacts(p)'
  <2>1. BlankOK(ram.state, sessions, Current, ledger)
    BY <1>2, Facts DEF InOrder
  <2>2. /\ \A x \in (Identity \cup User) \ {First} : Current[x] = Blank
        /\ \A s \in sessions : ~IsCurrent(s, ledger)
    BY <1>1, <2>1 DEF BlankOK
  <2>3. ram'.ledger = ledger' /\ \A s \in sessions' : ~IsCurrent(s, ledger')
    BY <1>2, <1>10, <2>2 DEF Begun, InOrder, disk
  <2>4. \A x \in Slot : Clean(x)'
    BY <1>2, <1>11 DEF BegunOK, InOrder
  <2>5. \A x \in Slot \ {Super, First} : Current'[x] = Blank
    BY <1>11, <2>2, SlotType DEF BegunOK, Where
  <2>6. goal' = Put(found', First, p) /\ \A x \in Where : goal'[x] \in promised'[x]
    BY <1>10, <1>11 DEF Begun, BegunOK, wish
  <2> QED BY <2>3, <2>4, <2>5, <2>6 DEF FormatFacts
<1>13. Formatting0(p, plan)'
  <2>1. plan' = FormatPlan(p, FormatHead.policy)
    BY <1>6, <1>10 DEF Begun, P
  <2>2. ledger' = ledger /\ ram' = ram
    BY <1>10 DEF Begun, disk
  <2>3. FormatHead' = FormatHead /\ FormatGen' = FormatGen
    BY <2>2 DEF FormatHead, FormatGen, GenNext
  <2>4. ASSUME NEW c PROVE FormatPlan(p, c)' = FormatPlan(p, c)
    BY <2>2, <2>3 DEF FormatPlan
  <2>5. FormatPlan(p, FormatHead.policy)' = FormatPlan(p, FormatHead.policy)
    BY <2>2, <2>3 DEF FormatPlan
  <2>6. ram'.table = Winners' /\ ram'.state = "blank" /\ Clean(Super)'
    BY <1>1, <1>2, <1>11, <2>2, SlotType DEF InOrder, BegunOK
  <2> QED BY <2>1, <2>5, <2>6 DEF Formatting0
<1>14. Phase'
  BY <1>12, <1>13 DEF Phase, Formatting
<1> QED BY <1>2, <1>10, <1>14, BegunStep

-----------------------------------------------------------------------------
\* A canary is to be sealed next, and a generation committed.
CanaryFacts(P, st, R, g, T, l, e) ==
  /\ P # <<>> /\ Len(P) >= 2 /\ P[1] = st /\ Tail(P) = R /\ st.later /\ InSlot(st.slot)
  /\ Has(R, "cleanup") /\ Len(R) >= 2 /\ R[1] = g /\ Tail(R) = T /\ R[2].do = "refresh"
  /\ Gen(g) /\ Live /\ Room /\ st \in Programs /\ st.slot = g.id /\ st.gen = g.gen
  /\ l = WithGen(ledger, g) /\ e = Put(CurrentOf(l), g.id, Sealed(st))
  /\ Ahead(e, l) /\ Ready(T, e, FoundOf(e, l.gens)) /\ Swept(T, l, Slot \ {g.id})

CanaryGoes(P, st, R, g, T, l, e) == CanaryFacts(P, st, R, g, T, l, e) => Canary(P)

LEMMA CanaryGoesNext == \A P, st, R, g, T, l, e : CanaryGoes(P, st, R, g, T, l, e)'
<1>1. ASSUME NEW P, NEW st, NEW R, NEW g, NEW T, NEW l, NEW e, CanaryFacts(P, st, R, g, T, l, e)
      PROVE  Canary(P)
  <2>1. CommitAfter(st, R)
    BY <1>1, CommitAfterIs DEF CanaryFacts
  <2> QED BY <1>1, <2>1 DEF CanaryFacts, Canary
<1>2. \A P, st, R, g, T, l, e : CanaryGoes(P, st, R, g, T, l, e)
  BY <1>1 DEF CanaryGoes
<1>3. (\A P, st, R, g, T, l, e : CanaryGoes(P, st, R, g, T, l, e))'
  BY <1>2, PTL
<1> QED BY <1>3

\* The steps of an enrolment.
TailA == <<Simple("refresh"), Simple("cleanup"), Simple("done")>>

LEMMA TailAIs ==
  ASSUME NEW e, NEW f, NEW S, NEW gp, FullIn(gp, e, f)
  PROVE  Needs(TailA, e, f, f, S, gp) /\ Has(TailA, "cleanup")
<1> DEFINE d == Simple("done")
           r == Simple("refresh")
           c == Simple("cleanup")
<1>1. /\ d \in Steps /\ r \in Steps /\ c \in Steps /\ Do("refresh") = <<r>> /\ Do("cleanup") = <<c>>
      /\ c.do = "cleanup"
  BY DoIs, SimpleStep
<1>2. Needs(<<d>>, e, f, f, S, gp)
  BY NeedsEnd
<1> HIDE DEF d, r, c
<1>3. <<d>> \in Seq(Steps) /\ <<c>> \o <<d>> = <<c, d>> /\ <<c, d>> \in Seq(Steps)
  BY <1>1, Cat1
<1>4. Needs(<<c, d>>, e, f, f, S, gp)
  <2>1. Needs(Do("cleanup") \o <<d>>, e, f, f, S, gp)
    BY <1>2, <1>3, NeedsDo
  <2> QED BY <1>1, <1>3, <2>1
<1>5. Needs(<<r>> \o <<c, d>>, e, f, f, S, gp)
  <2>1. Needs(Do("refresh") \o <<c, d>>, e, f, f, S, gp)
    BY <1>3, <1>4, NeedsDo
  <2> QED BY <1>1, <2>1
<1>6. <<r>> \o <<c, d>> = <<r, c, d>>
  BY Cons2
<1>7. Has(<<r, c, d>>, "cleanup")
  <2>1. DOMAIN <<r, c, d>> = 1 .. 3 /\ <<r, c, d>>[2] = c
    OBVIOUS
  <2> QED BY <1>1, <2>1 DEF Has
<1> QED BY <1>5, <1>6, <1>7 DEF TailA, d, r, c

AddPlan(i, p, g, b) ==
  <<LaterStep(i, p, g, b), GenStep(i, g), Simple("refresh"), Simple("cleanup"), Simple("done")>>

AddPlanOK(i, p, g, b) ==
  LET P == AddPlan(i, p, g, b)
      R == Tail(P)
  IN /\ P \in Seq(Steps) /\ P # <<>> /\ Len(P) >= 2 /\ P[1] = LaterStep(i, p, g, b)
     /\ ~Has(P, "mounted")
     /\ Len(R) >= 2 /\ R[1] = GenStep(i, g) /\ Tail(R) = TailA
     /\ R[2].do = "refresh" /\ Has(R, "cleanup")

LEMMA AddPlanIs ==
  ASSUME NEW i \in Identity, NEW p \in Pin, NEW g \in Nat, NEW b \in Body
  PROVE  AddPlanOK(i, p, g, b)
<1> DEFINE c == LaterStep(i, p, g, b)
           n == GenStep(i, g)
           r == Simple("refresh")
           cl == Simple("cleanup")
           d == Simple("done")
           P == <<c, n, r, cl, d>>
           R == <<n, r, cl, d>>
<1>1. i \in Slot /\ p \in Key
  BY SlotType DEF Key
<1>2. /\ c \in Steps /\ n \in Steps /\ r \in Steps /\ cl \in Steps /\ d \in Steps
      /\ c.do = "program" /\ n.do = "gen" /\ r.do = "refresh" /\ cl.do = "cleanup" /\ d.do = "done"
  <2>1. c \in Steps /\ c.do = "program"
    BY <1>1, LaterStepIs DEF StepIs
  <2>2. n \in Steps /\ n.do = "gen"
    BY SessionStepIs
  <2> QED BY <2>1, <2>2, SimpleStep
<1>3. AddPlan(i, p, g, b) = P /\ TailA = <<r, cl, d>>
  BY DEF AddPlan, TailA
<1> HIDE DEF c, n, r, cl, d
<1>4. /\ P \in Seq(Steps) /\ Len(P) = 5 /\ P[1] = c /\ Tail(P) = R
      /\ Len(R) = 4 /\ R[1] = n /\ R[2] = r /\ Tail(R) = <<r, cl, d>>
  BY <1>2
<1>5. P # <<>>
  <2>1. Len(P) >= 3
    BY <1>4
  <2> QED BY <2>1, LongIs
<1>6. ~Has(P, "mounted")
  <2>1. DOMAIN P = 1 .. 5 /\ \A m \in 1 .. 5 : P[m].do # "mounted"
    BY <1>2
  <2> QED BY <2>1 DEF Has
<1>7. Has(R, "cleanup")
  <2>1. 3 \in DOMAIN R /\ R[3] = cl
    OBVIOUS
  <2> HIDE DEF R
  <2> QED BY <1>2, <2>1 DEF Has
<1> HIDE DEF P, R
<1>8. /\ P \in Seq(Steps) /\ P # <<>> /\ Len(P) >= 2 /\ P[1] = c /\ ~Has(P, "mounted")
      /\ Len(Tail(P)) >= 2 /\ Tail(P)[1] = n /\ Tail(Tail(P)) = TailA
      /\ Tail(P)[2].do = "refresh" /\ Has(Tail(P), "cleanup")
  <2>1. Len(P) >= 2 /\ Len(R) >= 2
    BY <1>4
  <2> QED BY <2>1, <1>2, <1>3, <1>4, <1>5, <1>6, <1>7, Zenon
<1> QED BY <1>3, <1>8, Zenon DEF AddPlanOK, c, n

Snocs6OK(a, b, c, d, e, f) ==
  <<a>> \o <<b>> \o <<c>> \o <<d>> \o <<e>> \o <<f>> = <<a>> \o <<b, c, d, e, f>>

LEMMA Snocs6 ==
  ASSUME NEW a, NEW b, NEW c, NEW d, NEW e, NEW f PROVE Snocs6OK(a, b, c, d, e, f)
<1>1. <<a>> \o <<b>> = <<a, b>>
  BY Cat1
<1>2. <<a, b>> \o <<c>> = <<a, b, c>>
  BY Snoc2
<1>3. <<a, b, c>> \o <<d>> = <<a, b, c, d>>
  BY Snoc3
<1>4. <<a, b, c, d>> \o <<e>> = <<a, b, c, d, e>>
  BY Snoc4
<1>5. <<a, b, c, d, e>> \o <<f>> = <<a, b, c, d, e, f>>
  BY Snoc5
<1>6. <<a>> \o <<b, c, d, e, f>> = <<a, b, c, d, e, f>>
  BY Cons5
<1> QED BY <1>1, <1>2, <1>3, <1>4, <1>5, <1>6, Zenon DEF Snocs6OK

LEMMA AddIdentityPlan ==
  ASSUME NEW i, NEW p, NEW g, NEW b
  PROVE  Do("rotate") \o SealLater(i, p, g, b) \o CommitGen(i, g) \o Do("refresh")
           \o Do("cleanup") \o Do("done") = Do("rotate") \o AddPlan(i, p, g, b)
<1>1. SealLater(i, p, g, b) = <<LaterStep(i, p, g, b)>> /\ CommitGen(i, g) = <<GenStep(i, g)>>
  BY DEF SealLater, Program, LaterStep, SealStep, CommitGen, GenStep
<1>2. /\ Do("rotate") = <<Simple("rotate")>> /\ Do("refresh") = <<Simple("refresh")>>
      /\ Do("cleanup") = <<Simple("cleanup")>> /\ Do("done") = <<Simple("done")>>
  BY DEF Do, Simple
<1>3. Snocs6OK(Simple("rotate"), LaterStep(i, p, g, b), GenStep(i, g), Simple("refresh"),
               Simple("cleanup"), Simple("done"))
  BY Snocs6
<1> QED BY <1>1, <1>2, <1>3, Zenon DEF Snocs6OK, AddPlan
\* What an enrolment comes to.
Enrolled(h, i, p) ==
  [x \in User \cup Identity |-> IF h[x] \in {i} \X Data THEN Nothing ELSE IF x = i THEN p ELSE h[x]]

EnrolOK(i, p, l, e) ==
  /\ Owned(e, l.gens) /\ FoundOf(e, l.gens) = Enrolled(found, i, p)
  /\ SessOK(sessions, l, Enrolled(found, i, p)) /\ Allowed(found, Enrolled(found, i, p))
  /\ (found[i] = NoPin => FullIn(gap, e, Enrolled(found, i, p)))

\* Where there was no identity, nothing carries its generation.
LEMMA NobodyOwns ==
  ASSUME NEW e, NEW g, Owned(e, g), NEW i \in Identity \ {First}, PinIn(e, i) = NoPin,
         NEW x \in Where, e[x] # Blank
  PROVE  e[x].gen # g[i]
<1>1. /\ Uniq(g) /\ e[x].gen # 0 /\ First \in Identity
      /\ ~(e[i] # Blank /\ e[i].key \in Pin)
  <2>1. PinIn(e, i) # NoPin <=> e[i] # Blank /\ e[i].key \in Pin
    BY PinIs
  <2> QED BY <2>1, SlotType DEF Owned
<1>2. CASE IsFiller(e[x], g)
  BY <1>1, <1>2 DEF IsFiller, Uniq
<1>3. CASE x \in Identity /\ e[x].gen = g[x] /\ e[x].key \in Pin
  BY <1>1, <1>3 DEF Uniq
<1>4. CASE x \in User /\ ~IsFiller(e[x], g)
  <2>1. PICK j \in Identity : e[x].gen = g[j] /\ e[j] # Blank /\ e[j].key = e[x].key /\ e[x].key \in Pin
    BY <1>4 DEF Owned
  <2> QED BY <1>1, <2>1 DEF Uniq
<1> QED BY <1>2, <1>3, <1>4, SlotType DEF Owned

LEMMA EnrolIs ==
  ASSUME InOrder, Formatted, NEW i \in Identity \ {First}, NEW p \in Pin, NEW n \in Nat, Fresh(n),
         NEW b \in Policies, NEW c, c = LaterStep(i, p, n, b),
         NEW l, l = WithGen(ledger, GenStep(i, n)), NEW e, e = Put(CurrentOf(l), i, Sealed(c))
  PROVE  EnrolOK(i, p, l, e)
<1> DEFINE gs == GenStep(i, n)
           h == CurrentOf(l)
           wish == Enrolled(found, i, p)
<1>1. /\ Types /\ Universal /\ TypeDisk /\ (\A x \in Slot : Clean(x))
      /\ ram.ledger = ledger /\ FullNow
  BY DEF InOrder
<1>2. /\ Owned(Current, ledger.gens) /\ found = FoundOf(Current, ledger.gens)
      /\ SessOK(sessions, ledger, found) /\ found[i] = PinIn(Current, i)
      /\ \A j \in Identity : found[j] = PinIn(Current, j)
  BY <1>1, Facts
<1>3. /\ i \in Slot /\ i \in Where /\ p \in Key /\ b \in Body /\ i # Super /\ i \notin User
      /\ i \in Identity /\ i # First
  BY SlotType, NamesAssumption DEF Key, Body
<1>4. StepIs(c, i, p, n, b)
  BY <1>3, LaterStepIs
<1>5. gs \in [do : {"gen"}, id : Identity, gen : Nat] /\ gs.id = i /\ gs.gen = n
  BY <1>3, SessionStepIs
<1> HIDE DEF gs
<1>6. /\ l.epoch = ledger.epoch /\ l.gens = [ledger.gens EXCEPT ![i] = n]
  BY <1>1, <1>5, GenLedger DEF gs
<1>7. /\ Sealed(c) \in Record /\ Sealed(c).key = p /\ Sealed(c).gen = n /\ Sealed(c).body = b
  BY <1>1, <1>4, SealedIs DEF StepIs
<1>8. h \in [Slot -> Record \cup {Blank}]
  BY <1>1, CurType DEF CurrentOf, TypeDisk
<1>9. \A x \in Slot : h[x] = IF x # Super /\ Current[x] # Blank /\ Current[x].gen = ledger.gens[i]
                             THEN Blank ELSE Current[x]
  <2>1. l = WithGen(ledger, gs)
    BY DEF gs
  <2> QED BY <1>1, <1>2, <1>5, <2>1, RecountGen
<1> HIDE DEF h
<1>10. /\ e \in [Slot -> Record \cup {Blank}] /\ e[i] = Sealed(c)
       /\ \A x \in Slot \ {i} : e[x] = h[x]
  BY <1>3, <1>7, <1>8, PutRecord DEF h
<1>11. \A j \in Identity : ledger.gens[j] < n
  BY DEF Fresh
<1>12. /\ e[Super] = Current[Super]
       /\ \A x \in Where \ {i} :
            e[x] = IF Current[x] # Blank /\ Current[x].gen = ledger.gens[i] THEN Blank ELSE Current[x]
  BY <1>3, <1>9, <1>10, SlotType
<1>13. Owned(e, l.gens) /\ FoundOf(e, l.gens) = wish
  <2> DEFINE cu == Current
             g == ledger.gens
             r == Sealed(c)
  <2>1. /\ Owned(cu, g) /\ (\A j \in Identity : g[j] < n) /\ cu[First] # Blank
        /\ r \in Record /\ r.gen = n /\ r.key \in Pin /\ r.body \in Policies
        /\ e \in [Slot -> Record \cup {Blank}] /\ e[i] = r /\ e[Super] = cu[Super]
    BY <1>2, <1>7, <1>10, <1>11, <1>12 DEF Formatted
  <2>2. \A x \in Where \ {i} : e[x] = IF cu[x] # Blank /\ cu[x].gen = g[i] THEN Blank ELSE cu[x]
    BY <1>12
  <2>3. l.gens = [g EXCEPT ![i] = n] /\ r.key = p /\ FoundOf(cu, g) = found
    BY <1>2, <1>6, <1>7
  <2> HIDE DEF cu, g, r
  <2>4. /\ Owned(e, [g EXCEPT ![i] = n])
        /\ FoundOf(e, [g EXCEPT ![i] = n]) =
              [x \in Where |-> IF FoundOf(cu, g)[x] \in {i} \X Data THEN Nothing
                               ELSE IF x = i THEN r.key ELSE FoundOf(cu, g)[x]]
    BY <2>1, <2>2, Enrol
  <2> QED BY <2>3, <2>4 DEF Enrolled, Where
<1>14. \A j \in Identity \ {i} : wish[j] = found[j]
  <2>1. \A j \in Identity : found[j] \in Pin \cup {NoPin}
    BY <1>2, PinIs
  <2>2. \A j \in Identity : found[j] \notin {i} \X Data
    <3>1. {i} \X Data \subseteq Identity \X Data
      BY <1>3
    <3> QED BY <2>1, <3>1, NamesAssumption
  <2> QED BY <2>2 DEF Enrolled
<1>15. SessOK(sessions, l, wish)
  <2>1. ledger \in Ledgers /\ sessions \subseteq Session
    BY <1>1 DEF Types, TypeDisk
  <2> HIDE DEF wish
  <2>2. GenOK(sessions, ledger, found, wish, i, n, l)
    BY <1>2, <1>3, <1>6, <1>11, <1>14, <2>1 DEF GenOK
  <2> QED BY <2>2, SessNew
<1>16. Allowed(found, wish)
  BY <1>3 DEF Allowed, Enrolled, Where, Formatted
<1>17. ASSUME found[i] = NoPin PROVE FullIn(gap, e, wish)
  <2>1. SUFFICES ASSUME ~gap, NEW x \in Slot PROVE e[x] # Blank
    BY DEF FullIn
  <2>2. Current[x] # Blank
    BY <1>1, <2>1 DEF FullNow, FullIn, Formatted
  <2>3. CASE x = i
    BY <1>7, <1>10, <2>3, BlankIs
  <2>4. CASE x = Super
    BY <1>12, <2>2, <2>4
  <2>5. CASE x \in Where \ {i}
    <3>1. Current[x].gen # ledger.gens[i]
      BY <1>2, <1>17, <2>2, <2>5, NobodyOwns
    <3> QED BY <1>12, <2>2, <2>5, <3>1
  <2> QED BY <2>3, <2>4, <2>5, SlotType
<1> QED BY <1>13, <1>15, <1>16, <1>17 DEF EnrolOK

\* A call that seals a canary and commits its generation.
CanaryCall(P, c, R, gs, T, l, e, wish) ==
  /\ P \in Seq(Steps) /\ P # <<>> /\ Len(P) >= 2 /\ P[1] = c /\ Tail(P) = R
  /\ c.later /\ c \in Programs /\ c.slot = gs.id /\ c.gen = gs.gen /\ gs.id \in Slot
  /\ Has(R, "cleanup") /\ Len(R) >= 2 /\ R[1] = gs /\ Tail(R) = T /\ R[2].do = "refresh"
  /\ Gen(gs) /\ l = WithGen(ledger, gs) /\ e = Put(CurrentOf(l), gs.id, Sealed(c))
  /\ Owned(e, l.gens) /\ FoundOf(e, l.gens) = wish /\ SessOK(sessions, l, wish)
  /\ Allowed(found, wish) /\ Has(T, "cleanup")

LEMMA CallCanary ==
  ASSUME InOrder, Formatted, NEW P, NEW wish, NEW gaps, Begun(Do("rotate") \o P, wish, gaps),
         NEW c, NEW R, NEW gs, NEW T, NEW l, NEW e, CanaryCall(P, c, R, gs, T, l, e, wish),
         Needs(T, e, wish, wish, sessions, gap')
  PROVE  IBody' /\ Allowed(found, found')
<1>1. BegunOK(wish)
  BY BegunIs
<1>2. /\ UNCHANGED <<flash, last, ledger, found, ram, sessions>> /\ goal' = wish
      /\ plan' = Do("rotate") \o P
  BY DEF Begun, disk
<1>3. InSlot(gs.id)' /\ Live' /\ Room' /\ Gen(gs)'
  <2>1. InSlot(gs.id) /\ (\A x : WinAt(x)' = WinAt(x) /\ (Clean(x)' <=> Clean(x))) /\ FullNow'
    BY <1>1 DEF InOrder, BegunOK, CanaryCall
  <2>2. InSlot(gs.id)'
    BY <1>2, <2>1 DEF InSlot
  <2>3. Live' /\ Gen(gs)'
    BY <1>2 DEF Live, Gen, Fresh, Formatted, CanaryCall
  <2> QED BY <2>1, <2>2, <2>3 DEF Room
<1>4. l = WithGen(ledger', gs) /\ e = Put(CurOf(flash', last', l), gs.id, Sealed(c)')
  BY <1>2 DEF CanaryCall, CurrentOf, Sealed
<1>5. Ahead(e, l)'
  <2>1. \A x \in Where : wish[x] \in promised'[x]
    BY <1>1 DEF BegunOK
  <2>2. BlankOK(ram'.state, sessions', e, l)
    BY <1>2 DEF BlankOK, Formatted
  <2> QED BY <1>2, <2>1, <2>2 DEF Ahead, Sound, CanaryCall
<1>6. Ready(T, e, FoundOf(e, l.gens))' /\ Swept(T, l, Slot \ {gs.id})'
  BY <1>2 DEF Ready, Swept, CanaryCall
<1>7. CanaryFacts(P, c, R, gs, T, l, e)'
  BY <1>3, <1>4, <1>5, <1>6 DEF CanaryFacts, CanaryCall, CurrentOf
<1>8. CanaryGoes(P, c, R, gs, T, l, e)'
  BY CanaryGoesNext
<1>9. Ahead1(P)'
  BY <1>7, <1>8 DEF CanaryGoes, Ahead1
<1>10. Phase'
  BY <1>2, <1>9, RotateFirst DEF CanaryCall
<1> QED BY <1>10, BegunStep

LEMMA AddIdentityIs ==
  ASSUME IBody, InStep, NEW s \in sessions, NEW i \in Identity, NEW p \in Pin, AddIdentity(s, i, p)
  PROVE  IBody' /\ Allowed(found, found')
<1> DEFINE n == GenNext(ram.ledger)
           b == ram.policy
           wish == Enrolled(found, i, p)
           gaps == (found[i] # NoPin)
           c == LaterStep(i, p, n, b)
           gs == GenStep(i, n)
           P == AddPlan(i, p, n, b)
           R == Tail(P)
           l == WithGen(ledger, gs)
           e == Put(CurrentOf(l), i, Sealed(c))
<1>1. /\ Valid(s) /\ Idle /\ i # First
      /\ Begin(Do("rotate") \o SealLater(i, p, n, b) \o CommitGen(i, n) \o Do("refresh")
                 \o Do("cleanup"), wish, gaps)
  BY DEF AddIdentity, Call, Begin, Enrolled
<1>2. InOrder
  BY <1>1, IdleIs
<1>3. Formatted
  BY <1>1, <1>2, SessIs
<1>4. /\ Types /\ TypeDisk /\ ram.ledger = ledger /\ FullNow /\ b \in Policies /\ b \in Body
      /\ Live
  BY <1>2, <1>3, MemoryType, PolicyBody DEF InOrder, Formatted
<1>5. n \in Nat /\ Fresh(n)
  BY <1>4, LedgerType, GenNextIs DEF Fresh
<1> HIDE DEF n, b
<1>6. EnrolOK(i, p, l, e)
  BY <1>1, <1>2, <1>3, <1>4, <1>5, EnrolIs
<1>7. AddPlanOK(i, p, n, b)
  BY <1>4, <1>5, AddPlanIs
<1>8. /\ Do("rotate") \o SealLater(i, p, n, b) \o CommitGen(i, n) \o Do("refresh")
           \o Do("cleanup") \o Do("done") = Do("rotate") \o P
  BY AddIdentityPlan
<1>9. P \in Seq(Steps) /\ P # <<>> /\ ~Has(P, "mounted")
  BY <1>7 DEF AddPlanOK
<1> HIDE DEF P
<1>10. /\ Do("rotate") \o P \in Seq(Steps) /\ Do("rotate") \o P # <<>>
       /\ ~Has(Do("rotate") \o P, "mounted")
  BY <1>9, DoFirst
<1> HIDE DEF wish
<1>11. gaps \in BOOLEAN
  OBVIOUS
<1> HIDE DEF gaps
<1>12. Begun(Do("rotate") \o P, wish, gaps)
  BY <1>1, <1>8, <1>10, <1>11, BeginIs
<1>13. gap' = (gap \/ gaps)
  BY <1>12 DEF Begun
<1>14. i \in Slot /\ p \in Key /\ i \in Identity
  BY SlotType DEF Key
<1>15. StepIs(c, i, p, n, b) /\ c.later
  BY <1>4, <1>5, <1>14, LaterStepIs
<1>16. gs \in [do : {"gen"}, id : Identity, gen : Nat] /\ gs.id = i /\ gs.gen = n
  BY <1>5, SessionStepIs
<1>17. /\ P # <<>> /\ Len(P) >= 2 /\ P[1] = c /\ Len(R) >= 2 /\ R[1] = gs /\ Tail(R) = TailA
       /\ R[2].do = "refresh" /\ Has(R, "cleanup")
  BY <1>7 DEF AddPlanOK, P
<1> HIDE DEF c, gs, R
<1>18. l = WithGen(ledger, gs) /\ e = Put(CurrentOf(l), gs.id, Sealed(c))
  BY <1>16
<1> HIDE DEF l, e
<1>19. /\ Owned(e, l.gens) /\ FoundOf(e, l.gens) = wish /\ SessOK(sessions, l, wish)
       /\ Allowed(found, wish) /\ (found[i] = NoPin => FullIn(gap, e, wish))
  BY <1>6 DEF EnrolOK, wish
<1>20. FullIn(gap', e, wish)
  <2>1. CASE found[i] = NoPin
    <3>1. ~gaps
      BY <2>1 DEF gaps
    <3> QED BY <1>13, <1>19, <2>1, <3>1 DEF FullIn
  <2>2. CASE found[i] # NoPin
    <3>1. gaps
      BY <2>2 DEF gaps
    <3> QED BY <1>13, <3>1 DEF FullIn
  <2> QED BY <2>1, <2>2
<1>21. Needs(TailA, e, wish, wish, sessions, gap') /\ Has(TailA, "cleanup")
  BY <1>20, TailAIs
<1>22. CanaryCall(P, c, R, gs, TailA, l, e, wish)
  <2>1. Gen(gs)
    BY <1>5, <1>16 DEF Gen
  <2>2. P[1] = c /\ Tail(P) = R /\ c.later /\ c \in Programs /\ c.slot = gs.id /\ c.gen = gs.gen
        /\ gs.id \in Slot
    BY <1>14, <1>15, <1>16, <1>17 DEF StepIs, R
  <2> QED BY <1>9, <1>17, <1>18, <1>19, <1>21, <2>1, <2>2 DEF CanaryCall
<1> QED BY <1>2, <1>3, <1>12, <1>21, <1>22, CallCanary
\* The steps of a PIN change.
AfterIs(a, b, c, d) == <<a>> \o <<b>> \o <<c>> \o <<d>> = <<a, b, c, d>>

LEMMA Four ==
  ASSUME NEW a, NEW b, NEW c, NEW d PROVE AfterIs(a, b, c, d)
<1>1. <<a>> \o <<b>> = <<a, b>>
  BY Cat1
<1>2. <<a, b>> \o <<c>> = <<a, b, c>>
  BY Snoc2
<1>3. <<a, b, c>> \o <<d>> = <<a, b, c, d>>
  BY Snoc3
<1> QED BY <1>1, <1>2, <1>3, Zenon DEF AfterIs

TenOK(a, b, c, d, e, f, g, h, i, j) ==
  <<a>> \o <<b>> \o <<c>> \o <<d>> \o (<<e>> \o <<f>> \o <<g>> \o <<h>>) \o <<i>> \o <<j>>
    = <<a>> \o <<b, c, d, e, f, g, h, i, j>>

LEMMA Ten ==
  ASSUME NEW a \in Steps, NEW b \in Steps, NEW c \in Steps, NEW d \in Steps, NEW e \in Steps,
         NEW f \in Steps, NEW g \in Steps, NEW h \in Steps, NEW i \in Steps, NEW j \in Steps
  PROVE  TenOK(a, b, c, d, e, f, g, h, i, j)
<1> DEFINE Q == <<a, b, c, d>>
           A == <<e>>
           B == <<f>>
           C == <<g>>
           D == <<h>>
<1>1. <<a>> \o <<b>> \o <<c>> \o <<d>> = Q
  BY Four DEF AfterIs
<1>2. Q \in Seq(Steps) /\ A \in Seq(Steps) /\ B \in Seq(Steps) /\ C \in Seq(Steps) /\ D \in Seq(Steps)
  OBVIOUS
<1>3. Q \o A = <<a, b, c, d, e>>
  BY Snoc4
<1>4. <<a, b, c, d, e>> \o B = <<a, b, c, d, e, f>>
  BY Snoc5
<1>5. <<a, b, c, d, e, f>> \o C = <<a, b, c, d, e, f, g>>
  BY Snoc6
<1>6. <<a, b, c, d, e, f, g>> \o D = <<a, b, c, d, e, f, g, h>>
  BY Snoc7
<1>7. <<a, b, c, d, e, f, g, h>> \o <<i>> = <<a, b, c, d, e, f, g, h, i>>
  BY Snoc8
<1>8. <<a, b, c, d, e, f, g, h, i>> \o <<j>> = <<a, b, c, d, e, f, g, h, i, j>>
  BY Snoc9
<1> HIDE DEF Q, A, B, C, D
<1>9. Q \o (A \o B \o C \o D) = Q \o A \o B \o C \o D
  <2>1. Cat(Cat(Cat(Cat(Q, A), B), C), D) = Cat(Q, Cat(A, Cat(B, Cat(C, D))))
    BY <1>2, Right5
  <2>2. Cat(Cat(Cat(A, B), C), D) = Cat(A, Cat(B, Cat(C, D)))
    BY <1>2, Right4
  <2>3. Cat(Q, Cat(Cat(Cat(A, B), C), D)) = Cat(Cat(Cat(Cat(Q, A), B), C), D)
    BY <2>1, <2>2, Zenon
  <2> QED BY <2>3, Zenon DEF Cat
<1>10. Q \o A \o B \o C \o D = <<a, b, c, d, e, f, g, h>>
  BY <1>3, <1>4, <1>5, <1>6, Zenon
<1>11. Q \o (A \o B \o C \o D) \o <<i>> \o <<j>> = <<a, b, c, d, e, f, g, h, i, j>>
  BY <1>7, <1>8, <1>9, <1>10, Zenon
<1>12. <<a>> \o <<b, c, d, e, f, g, h, i, j>> = <<a, b, c, d, e, f, g, h, i, j>>
  <2> DEFINE P == <<a, b, c, d, e, f, g, h, i, j>>
             T == <<b, c, d, e, f, g, h, i, j>>
  <2>1. P \in Seq(Steps) /\ P[1] = a /\ Tail(P) = T /\ Len(P) = 10
    OBVIOUS
  <2> HIDE DEF P, T
  <2>2. P # <<>>
    <3>1. Len(P) >= 3
      BY <2>1
    <3> QED BY <3>1, LongIs
  <2>3. <<a>> \o T = P
    BY <2>1, <2>2, Uncons
  <2> QED BY <2>3 DEF P, T
<1> QED BY <1>1, <1>11, <1>12, Zenon DEF TenOK, A, B, C, D

ChangeStep(i, k, o, p, g) ==
  [do |-> "reseal", id |-> i, from |-> k, old |-> o, key |-> p, gen |-> g]

LEMMA ChangeStepIs ==
  ASSUME NEW i \in Identity, NEW k \in Pin, NEW o \in Nat, NEW p \in Pin, NEW g \in Nat
  PROVE  LET st == ChangeStep(i, k, o, p, g)
         IN /\ st \in ResealSteps /\ st.id = i /\ st.from = k /\ st.old = o /\ st.key = p
            /\ st.gen = g /\ st \in Steps /\ st.do = "reseal"
BY StepKinds DEF ChangeStep, ResealSteps

LEMMA ChangePlan ==
  ASSUME NEW st \in ResealSteps, NEW b \in Policies
  PROVE  Do("rotate") \o <<st>> \o SealLater(st.id, st.key, st.gen, b) \o CommitGen(st.id, st.gen)
           \o AfterCommit \o NewSession(st.id, st.key) \o Do("done")
         = Do("rotate") \o ResealPlan(st, b)
<1> DEFINE c == LaterStep(st.id, st.key, st.gen, b)
           n == GenStep(st.id, st.gen)
           r == Simple("refresh")
           cl == Simple("cleanup")
           fi == Simple("fill")
           s == SessionStep(st.id, st.key)
           d == Simple("done")
           ro == Simple("rotate")
<1>1. /\ st.id \in Identity /\ st.key \in Pin /\ st.gen \in Nat /\ st.id \in Slot /\ st.key \in Key
      /\ b \in Body /\ st \in Steps
  BY SlotType, StepKinds DEF ResealSteps, Key, Body
<1>2. /\ c \in Steps /\ n \in Steps /\ s \in Steps
  BY <1>1, LaterStepIs, SessionStepIs DEF StepIs
<1>3. /\ r \in Steps /\ cl \in Steps /\ fi \in Steps /\ d \in Steps /\ ro \in Steps
  BY SimpleStep
<1>4. /\ SealLater(st.id, st.key, st.gen, b) = <<c>> /\ CommitGen(st.id, st.gen) = <<n>>
      /\ NewSession(st.id, st.key) = <<s>>
  BY DEF SealLater, Program, LaterStep, SealStep, CommitGen, GenStep, NewSession, SessionStep
<1>5. /\ AfterCommit = <<r>> \o <<cl>> \o <<fi>> \o <<r>> /\ Do("rotate") = <<ro>> /\ Do("done") = <<d>>
  BY DEF AfterCommit, Do, Simple
<1>6. ResealPlan(st, b) = <<st, c, n, r, cl, fi, r, s, d>>
  BY DEF ResealPlan, LaterStep, SealStep, GenStep, SessionStep
<1> HIDE DEF c, n, r, cl, fi, s, d, ro
<1>7. TenOK(ro, st, c, n, r, cl, fi, r, s, d)
  BY <1>1, <1>2, <1>3, Ten
<1> QED BY <1>4, <1>5, <1>6, <1>7, Zenon DEF TenOK

LEMMA ResealPlanHas ==
  ASSUME NEW st \in ResealSteps, NEW b \in Policies
  PROVE  /\ ResealPlan(st, b) \in Seq(Steps) /\ ResealPlan(st, b) # <<>>
         /\ ~Has(ResealPlan(st, b), "mounted") /\ Len(ResealPlan(st, b)) = 9
         /\ ResealPlan(st, b)[1] = st /\ ResealPlan(st, b)[2].body = b
<1> DEFINE c == LaterStep(st.id, st.key, st.gen, b)
           n == GenStep(st.id, st.gen)
           r == Simple("refresh")
           cl == Simple("cleanup")
           fi == Simple("fill")
           s == SessionStep(st.id, st.key)
           d == Simple("done")
           P == <<st, c, n, r, cl, fi, r, s, d>>
<1>1. /\ st.id \in Identity /\ st.key \in Pin /\ st.gen \in Nat /\ st.id \in Slot /\ st.key \in Key
      /\ b \in Body /\ st \in Steps /\ st.do = "reseal"
  BY SlotType, StepKinds DEF ResealSteps, Key, Body
<1>2. /\ c \in Steps /\ n \in Steps /\ s \in Steps /\ c.body = b
      /\ c.do = "program" /\ n.do = "gen" /\ s.do = "session"
  BY <1>1, LaterStepIs, SessionStepIs DEF StepIs
<1>3. /\ r \in Steps /\ cl \in Steps /\ fi \in Steps /\ d \in Steps
      /\ r.do = "refresh" /\ cl.do = "cleanup" /\ fi.do = "fill" /\ d.do = "done"
  BY SimpleStep
<1>4. ResealPlan(st, b) = P
  BY DEF ResealPlan, LaterStep, SealStep, GenStep, SessionStep
<1> HIDE DEF c, n, r, cl, fi, s, d
<1>5. P \in Seq(Steps) /\ Len(P) = 9 /\ P[1] = st /\ P[2].body = b
  BY <1>1, <1>2, <1>3
<1>6. ~Has(P, "mounted")
  <2>1. DOMAIN P = 1 .. 9 /\ \A m \in 1 .. 9 : P[m].do # "mounted"
    BY <1>1, <1>2, <1>3
  <2> QED BY <2>1 DEF Has
<1>7. P # <<>>
  <2>1. Len(P) >= 3
    BY <1>5
  <2> QED BY <2>1, LongIs
<1> HIDE DEF P
<1> QED BY <1>4, <1>5, <1>6, <1>7

LEMMA ChangePinIs ==
  ASSUME IBody, InStep, NEW s \in sessions, NEW p \in Pin, ChangePin(s, p)
  PROVE  IBody' /\ Allowed(found, found')
<1> DEFINE n == GenNext(ram.ledger)
           b == ram.policy
           wish == [found EXCEPT ![s.id] = p]
           st == ChangeStep(s.id, s.key, s.gen, p, n)
           P == ResealPlan(st, b)
<1>1. /\ Valid(s) /\ Idle
      /\ Begin(Do("rotate") \o Reseal(s, p, n) \o ResealCanary(s, p, n) \o CommitGen(s.id, n)
                 \o AfterCommit \o NewSession(s.id, p), wish, FALSE)
  BY DEF ChangePin, Call, Begin
<1>2. InOrder
  BY <1>1, IdleIs
<1>3. Formatted /\ OpenedBy(s.id, s.key) /\ s.gen = ledger.gens[s.id] /\ s \in Session
  BY <1>1, <1>2, SessIs
<1>4. /\ Types /\ TypeDisk /\ ram.ledger = ledger /\ FullNow /\ b \in Policies /\ Live
  BY <1>2, <1>3, MemoryType DEF InOrder, Formatted
<1>5. n \in Nat /\ Fresh(n)
  BY <1>4, LedgerType, GenNextIs DEF Fresh
<1>6. s.id \in Identity /\ s.key \in Pin /\ s.gen \in Nat /\ s.id \in Slot
  BY <1>3, SlotType DEF Session
<1> HIDE DEF n, b
<1>7. /\ st \in ResealSteps /\ st.id = s.id /\ st.from = s.key /\ st.old = s.gen /\ st.key = p
      /\ st.gen = n
  BY <1>5, <1>6, ChangeStepIs
<1>8. Reseal(s, p, n) = <<st>>
  BY DEF Reseal, ChangeStep
<1>9. ResealCanary(s, p, n) = SealLater(s.id, p, n, b)
  <2>1. At(ram.table, s.id) = Current[s.id]
    BY <1>2, <1>6 DEF InOrder
  <2>2. Current[s.id] # Blank /\ Current[s.id].key = s.key
    BY <1>3 DEF OpenedBy
  <2>3. Current[s.id] \in Record
    BY <1>4, <1>6, <2>2, CurrentType
  <2>4. Opens(ram.table, s.id, s.key)
    BY <2>1, <2>2, <2>3 DEF Opens, Record
  <2> QED BY <2>4 DEF ResealCanary, b
<1> HIDE DEF st
<1>10. Do("rotate") \o <<st>> \o SealLater(s.id, p, n, b) \o CommitGen(s.id, n)
         \o AfterCommit \o NewSession(s.id, p) \o Do("done") = Do("rotate") \o P
  <2>1. Do("rotate") \o <<st>> \o SealLater(st.id, st.key, st.gen, b) \o CommitGen(st.id, st.gen)
         \o AfterCommit \o NewSession(st.id, st.key) \o Do("done") = Do("rotate") \o P
    BY <1>4, <1>7, ChangePlan
  <2> QED BY <1>7, <2>1, Zenon
<1>11. P \in Seq(Steps) /\ P # <<>> /\ ~Has(P, "mounted") /\ Len(P) = 9 /\ P[1] = st /\ P[2].body = b
  BY <1>4, <1>7, ResealPlanHas
<1> HIDE DEF P, wish
<1>12. /\ Do("rotate") \o P \in Seq(Steps) /\ Do("rotate") \o P # <<>>
       /\ ~Has(Do("rotate") \o P, "mounted")
  BY <1>11, DoFirst
<1>13. Begin(Do("rotate") \o <<st>> \o SealLater(s.id, p, n, b) \o CommitGen(s.id, n)
                 \o AfterCommit \o NewSession(s.id, p), wish, FALSE)
  BY <1>1, <1>8, <1>9, Zenon
<1>14. Begun(Do("rotate") \o P, wish, FALSE)
  BY <1>10, <1>12, <1>13, BeginIs
<1>15. BegunOK(wish)
  BY <1>2, <1>14, BegunIs
<1>16. /\ UNCHANGED <<flash, last, ledger, found, ram, sessions>> /\ goal' = wish
       /\ plan' = Do("rotate") \o P
  BY <1>14 DEF Begun, disk
<1>17. ASSUME NEW t, t = st, NEW Q, Q = P, NEW c, c = b PROVE Resealing(Q)'
  <2>1. /\ t \in ResealSteps /\ t.id = s.id /\ t.from = s.key /\ t.old = s.gen /\ t.key = p /\ t.gen = n
        /\ c \in Policies
    BY <1>4, <1>7, <1>17
  <2>2. /\ Len(Q) = 9 /\ Q[1] = t /\ Q[2].body = c /\ Q = ResealPlan(t, c) /\ Q[1].do = "reseal"
    <3>1. Q = ResealPlan(t, c)
      BY <1>17 DEF P
    <3>2. Len(Q) = 9 /\ Q[1] = t /\ Q[2].body = c
      BY <1>11, <1>17
    <3> QED BY <2>1, <3>1, <3>2 DEF ResealSteps
  <2>3. ResealFacts(t)'
    <3>1. Live' /\ Fresh(t.gen)'
      <4>1. ledger' = ledger /\ ram' = ram /\ Fresh(t.gen)
        BY <1>5, <1>16, <2>1
      <4> QED BY <1>4, <4>1 DEF Live, Fresh
    <3>2. t.old = ledger'.gens[t.id] /\ found'[t.id] = t.from
      BY <1>3, <1>16, <2>1 DEF OpenedBy
    <3>3. goal' = Put(found', t.id, t.key)
      BY <1>16, <2>1 DEF Put, wish
    <3>4. (\A x \in Where : goal'[x] \in promised'[x]) /\ FullNow'
      BY <1>15, <1>16 DEF BegunOK
    <3>5. ram'.state = "formatted"
      BY <1>3, <1>16 DEF Formatted
    <3>6. \A x \in Slot : InSlot(x)'
      <4>1. \A x \in Slot : InSlot(x) /\ WinAt(x)' = WinAt(x) /\ (Clean(x)' <=> Clean(x))
        BY <1>2, <1>15 DEF InOrder, BegunOK
      <4> QED BY <1>16, <4>1 DEF InSlot
    <3> QED BY <2>1, <3>1, <3>2, <3>3, <3>4, <3>5, <3>6 DEF ResealFacts
  <2> QED BY <2>1, <2>2, <2>3 DEF Resealing
<1>18. ASSUME NEW Q, Q = P PROVE Phase'
  <2>1. Resealing(Q)' /\ Q \in Seq(Steps) /\ Q # <<>>
    BY <1>11, <1>17, <1>18
  <2>2. Ahead1(Q)'
    BY <2>1 DEF Ahead1
  <2>3. plan' = Do("rotate") \o Q
    BY <1>16, <1>18
  <2> QED BY <2>1, <2>2, <2>3, RotateFirst
<1>19. Phase'
  BY <1>18
<1> QED BY <1>2, <1>14, <1>19, BegunStep

-----------------------------------------------------------------------------
(***************************************************************************)
(* A cut, or an error: the step at the head of plan leaves the flash as it *)
(* was, as it was to become, or torn in between, and nothing follows it.   *)
(***************************************************************************)
Calm ==
  /\ promised' = promised /\ sessions' \in {sessions, {}} /\ ram'.state \in {ram.state, "off"}
  /\ Observe

TornOK ==
  /\ TypeDisk' /\ Dated' /\ Virgin' /\ FoundIs' /\ Right' /\ Allowed(found, found')
  /\ Has(plan, "fill") \/ FullIn(gap, Current', found')
  /\ ledger' = ledger \/ ram.ledger = ledger

\* What the flash amounts to is as it was.
LEMMA TornSame ==
  ASSUME Types, Universal, Calm, TypeDisk', Dated', Virgin', Current' = Current,
         ledger'.epoch = ledger.epoch, ledger'.gens = ledger.gens,
         ledger' = ledger \/ ram.ledger = ledger
  PROVE  TornOK
<1>1. FoundIs' /\ Right' /\ found' = found /\ Allowed(found, found')
  BY Stay DEF Calm
<1>2. Has(plan, "fill") \/ FullIn(gap, Current', found')
  BY <1>1 DEF Universal, Occupied, FullNow
<1> QED BY <1>1, <1>2 DEF TornOK

\* It is what it was to become.
LEMMA TornThere ==
  ASSUME Types, Universal, Calm, TypeDisk', Dated', Virgin',
         NEW e, NEW l, Ahead(e, l), Current' = e, ledger'.epoch = l.epoch, ledger'.gens = l.gens,
         Has(plan, "fill") \/ FullIn(gap, e, FoundOf(e, l.gens)),
         ledger' = ledger \/ ram.ledger = ledger
  PROVE  TornOK
<1>1. FoundIs' /\ Right' /\ found' = FoundOf(e, l.gens) /\ Allowed(found, found')
  BY Arrive DEF Calm
<1> QED BY <1>1 DEF TornOK

\* The side a step would have erased.
LEMMA TornAway ==
  ASSUME Types, Universal, Calm, NEW x \in Slot, NEW t \in Side, NEW c \in {Blank, Garbage},
         t # WinAt(x), c = Blank \/ ledger.live,
         flash' = [flash EXCEPT ![x][t] = c], last' = last, ledger' = ledger
  PROVE  TornOK
<1>1. TypeDisk' /\ Dated' /\ Virgin' /\ Current' = Current
  BY WeededHere DEF Types, Universal
<1> QED BY <1>1, TornSame

\* Steps in front of which a record is programmed.
LEMMA ProgramIs ==
  ASSUME Types, Universal, Phase, plan # <<>>, plan[1].do = "program",
         NEW st, st = plan[1]
  PROVE  /\ st \in Programs /\ st.slot \in Slot /\ Live
         /\ Target(st.slot) \in Side /\ Target(st.slot) # WinAt(st.slot)
<1>1. \/ Seal(plan) \/ Canary(plan) \/ ResealingOne(plan) \/ FirstCanary(plan)
      \/ \E p \in Pin : FormatFacts(p) /\ Formatting2(p, plan)
  BY PhaseHead
<1>2. st \in Programs
  <2>1. st \in Steps
    BY TailHas
  <2> QED BY <2>1 DEF Steps, ResealSteps
<1>3. st.slot \in Slot
  BY <1>2, StepKinds
<1>4. Live
  BY <1>1 DEF Seal, Canary, CommitAfter, ResealingOne, Resealing, ResealFacts, FirstCanary,
              Formatting2
<1>5. ram.table[st.slot] = WinAt(st.slot)
  <2>1. ram.table = Winners => ram.table[st.slot] = WinAt(st.slot)
    BY <1>3, CurrentType DEF Types
  <2>2. InSlot(st.slot) => ram.table[st.slot] = WinAt(st.slot)
    BY DEF InSlot
  <2> QED BY <1>1, <2>1, <2>2 DEF Seal, Canary, ResealingOne, FirstCanary, Formatting2
<1> QED BY <1>2, <1>3, <1>4, <1>5, TargetIsFree

\* It counts, once it is there.
LEMMA TornCrown ==
  ASSUME Types, Universal, Calm, NEW x \in Slot, NEW t \in Side, NEW r \in Record,
         r.epoch = ledger.epoch, ledger.live, Fit(ledger, x, r), Ahead(Put(Current, x, r), ledger),
         Has(plan, "fill") \/ FullIn(gap, Put(Current, x, r), FoundOf(Put(Current, x, r), ledger.gens)),
         flash' = [flash EXCEPT ![x][t] = r], last' = [last EXCEPT ![x] = t], ledger' = ledger
  PROVE  TornOK
<1> DEFINE e == Put(Current, x, r)
<1>1. TypeDisk' /\ Dated' /\ Virgin' /\ Current' = e
  BY Crowned DEF Types, Universal
<1> HIDE DEF e
<1>2. Ahead(e, ledger) /\ (Has(plan, "fill") \/ FullIn(gap, e, FoundOf(e, ledger.gens)))
  BY DEF e
<1> QED BY <1>1, <1>2, TornThere

\* It does not count yet.
LEMMA TornUnfit ==
  ASSUME Types, Universal, Calm, NEW x \in Slot, NEW t \in Side, NEW r \in Record,
         r.epoch = ledger.epoch, ledger.live, ~Fit(ledger, x, r), t # WinAt(x),
         flash' = [flash EXCEPT ![x][t] = r], last' = [last EXCEPT ![x] = t], ledger' = ledger
  PROVE  TornOK
<1>1. TypeDisk /\ Dated /\ Virgin /\ last' \in {last, [last EXCEPT ![x] = t]}
  BY DEF Types, Universal
<1>2. r \in Cells /\ r.epoch <= ledger.epoch
  BY <1>1, LedgerType DEF Cells
<1>3. TypeDisk' /\ Dated' /\ Virgin'
  BY <1>1, <1>2, WriteSide
<1>4. t # Win(ledger, x, flash[x], last[x])
  BY DEF WinAt
<1>5. CurOf(flash', last', ledger) = CurOf(flash, last, ledger)
  BY <1>1, <1>4, Weeded
<1>6. Current' = Current
  BY <1>5 DEF Current
<1> QED BY <1>3, <1>6, TornSame

LEMMA TornSeal ==
  ASSUME Types, Universal, Phase, plan # <<>>, plan[1].do = "program", Calm, NEW st, st = plan[1],
         flash' = [flash EXCEPT ![st.slot][Target(st.slot)] = Sealed(st)],
         last' = [last EXCEPT ![st.slot] = Target(st.slot)], ledger' = ledger, Seal(plan)
  PROVE  TornOK
<1> DEFINE x == st.slot
           r == Sealed(st)
           e == Put(Current, x, r)
           K == Tail(Tail(plan))
<1>1. /\ st \in Programs /\ x \in Slot /\ Live /\ Target(x) \in Side
  BY ProgramIs
<1>2. r \in Record /\ r.epoch = ledger.epoch
  BY <1>1, SealedIs DEF Live
<1>3. /\ Len(plan) >= 3 /\ Fit(ledger, x, r) /\ Ahead(e, ledger)
      /\ Needs(K, e, FoundOf(e, ledger.gens), goal, sessions, gap)
  BY DEF Seal, Ready
<1>4. Has(K, "fill") => Has(plan, "fill")
  <2>1. Tail(plan) \in Seq(Steps) /\ Tail(plan) # <<>>
        /\ \A v : Has(plan, v) <=> plan[1].do = v \/ Has(Tail(plan), v)
    BY <1>3, TailHas
  <2>2. Has(K, "fill") => Has(Tail(plan), "fill")
    BY <2>1, HasTail
  <2> QED BY <2>1, <2>2
<1> HIDE DEF x, r, e, K
<1>5. Has(plan, "fill") \/ FullIn(gap, e, FoundOf(e, ledger.gens))
  BY <1>3, <1>4 DEF Needs
<1>6. Ahead(Put(Current, x, r), ledger)
      /\ (Has(plan, "fill") \/ FullIn(gap, Put(Current, x, r), FoundOf(Put(Current, x, r), ledger.gens)))
  BY <1>3, <1>5 DEF e
<1>7. /\ flash' = [flash EXCEPT ![x][Target(x)] = r]
      /\ last' = [last EXCEPT ![x] = Target(x)] /\ ledger.live
  BY <1>1 DEF x, r, Live
<1> QED BY <1>1, <1>2, <1>3, <1>6, <1>7, TornCrown
\* A record of a generation to come: a canary, or what C3 seals again.
LEMMA TornYoung ==
  ASSUME Types, Universal, Phase, plan # <<>>, plan[1].do = "program", Calm, NEW st, st = plan[1],
         flash' = [flash EXCEPT ![st.slot][Target(st.slot)] = Sealed(st)],
         last' = [last EXCEPT ![st.slot] = Target(st.slot)], ledger' = ledger,
         NEW n \in Nat, Fresh(n), Sealed(st).gen = n, st.slot # Super
  PROVE  TornOK
<1> DEFINE x == st.slot
           t == Target(x)
           r == Sealed(st)
<1>1. /\ st \in Programs /\ x \in Slot /\ Live /\ t \in Side /\ t # WinAt(x)
  BY ProgramIs
<1>2. r \in Record /\ r.epoch = ledger.epoch
  BY <1>1, SealedIs DEF Live
<1>3. ~Fit(ledger, x, r)
  BY <1>1, <1>2, UnfitIs DEF Types
<1> HIDE DEF x, t, r
<1>4. /\ flash' = [flash EXCEPT ![x][t] = r] /\ last' = [last EXCEPT ![x] = t] /\ ledger.live
  BY <1>1 DEF x, t, r, Live
<1> QED BY <1>1, <1>2, <1>3, <1>4, TornUnfit

LEMMA CanaryYoung ==
  ASSUME Types, NEW st \in Programs, NEW R, CommitAfter(st, R)
  PROVE  R[1].gen \in Nat /\ Fresh(R[1].gen) /\ Sealed(st).gen = R[1].gen /\ st.slot # Super
<1>1. Gen(R[1]) /\ st.slot = R[1].id /\ st.gen = R[1].gen
  BY DEF CommitAfter
<1>2. R[1].gen \in Nat /\ R[1].id \in Identity /\ Fresh(R[1].gen)
  BY <1>1 DEF Gen
<1>3. Sealed(st).gen = st.gen
  BY SealedIs
<1> QED BY <1>1, <1>2, <1>3, NamesAssumption

LEMMA ResealYoung ==
  ASSUME Types, plan # <<>>, ResealingOne(plan), NEW st, st = plan[1]
  PROVE  \E n \in Nat : Fresh(n) /\ Sealed(st).gen = n /\ st.slot # Super
<1> DEFINE P == Tail(plan)
           c == Current[st.slot]
<1>1. /\ Len(plan) = 10 /\ Resealing(P) /\ st.slot \in User /\ Sealed(st) = Resealed1(c, plan[2])
  BY DEF ResealingOne
<1>2. plan[2] = P[1]
  <2>1. /\ Len(plan) \in Nat /\ \A n \in 1 .. (Len(plan) - 1) : P[n] = plan[n + 1]
    BY TailHas
  <2>2. Len(plan) = 10
    BY <1>1
  <2> HIDE DEF P
  <2> QED BY <2>1, <2>2
<1>3. Fresh(P[1].gen) /\ P[1] \in ResealSteps
  BY <1>1 DEF Resealing, ResealFacts
<1>4. P[1].gen \in Nat
  BY <1>3 DEF ResealSteps
<1> HIDE DEF P, c
<1>5. Sealed(st).gen = P[1].gen
  BY <1>1, <1>2 DEF Resealed1, Rec
<1> QED BY <1>1, <1>3, <1>4, <1>5, NamesAssumption

LEMMA TornFormat ==
  ASSUME Types, Universal, Phase, plan # <<>>, plan[1].do = "program", Calm, NEW st, st = plan[1],
         flash' = [flash EXCEPT ![st.slot][Target(st.slot)] = Sealed(st)],
         last' = [last EXCEPT ![st.slot] = Target(st.slot)], ledger' = ledger,
         NEW p \in Pin, FormatFacts(p), Formatting2(p, plan)
  PROVE  TornOK
<1> DEFINE t == Target(Super)
           r == Sealed(st)
           b == ledger.policy
           e == Put(Current, Super, r)
<1>1. plan = Tail(Tail(FormatPlan(p, b))) /\ Live
  BY DEF Formatting2
<1>2. st = NowStep(Super, Super, 0, b)
  BY <1>1, FormatPlanIs DEF NowStep
<1>3. Super \in Slot /\ TypeDisk /\ b \in Policies
  BY SlotType, LedgerType DEF Types
<1>4. StepIs(st, Super, Super, 0, b)
  BY <1>2, <1>3, NowStepIs DEF Key, Body
<1>5. st.slot = Super /\ st \in Programs /\ t \in Side
  BY <1>4, ProgramIs DEF StepIs
<1>6. r \in Record /\ r.body = b /\ r.epoch = ledger.epoch
  BY <1>1, <1>4, <1>5, SealedIs DEF StepIs, Live
<1>7. /\ flash' = [flash EXCEPT ![Super][t] = r] /\ last' = [last EXCEPT ![Super] = t]
  BY <1>5
<1> HIDE DEF t, r, b
<1>8. Fit(ledger, Super, r)
  BY <1>6, FitIs
<1>9. Current \in [Slot -> Record \cup {Blank}]
  BY <1>3, CurrentType
<1>10. /\ Owned(e, ledger.gens) /\ FoundOf(e, ledger.gens) = found
       /\ e[Super] = r /\ r # Blank /\ \A x \in Slot \ {Super} : e[x] = Current[x]
  <2>1. Owned(Current, ledger.gens) /\ found = FoundOf(Current, ledger.gens)
    BY <1>3, Facts
  <2>2. Owned(e, ledger.gens) /\ FoundOf(e, ledger.gens) = FoundOf(Current, ledger.gens)
    BY <1>3, <1>6, <2>1, PutSuper
  <2>3. e[Super] = r /\ r # Blank /\ \A x \in Slot \ {Super} : e[x] = Current[x]
    BY <1>3, <1>6, <1>9, PutRecord
  <2> HIDE DEF e
  <2> QED BY <2>1, <2>2, <2>3
<1>11. \A x \in (Identity \cup User) \ {First} : e[x] = Current[x]
  BY <1>10, SlotType, NamesAssumption
<1> HIDE DEF e
<1>12. Ahead(e, ledger)
  BY <1>10, <1>11, AheadSame
<1>13. Has(plan, "fill") \/ FullIn(gap, e, FoundOf(e, ledger.gens))
  BY <1>10 DEF Universal, Occupied, FullNow, FullIn
<1>14. ledger.live
  BY <1>1 DEF Live
<1>15. /\ Ahead(Put(Current, Super, r), ledger)
       /\ Has(plan, "fill") \/ FullIn(gap, Put(Current, Super, r), FoundOf(Put(Current, Super, r), ledger.gens))
  BY <1>12, <1>13 DEF e
<1> QED BY <1>3, <1>5, <1>6, <1>7, <1>8, <1>14, <1>15, TornCrown

LEMMA TornProgramIs ==
  ASSUME Types, Universal, Phase, plan # <<>>, Calm, TornProgram PROVE TornOK
<1> DEFINE st == plan[1]
           x == st.slot
           t == Target(x)
<1>1. /\ plan[1].do = "program" /\ ledger' = ledger
      /\ \/ (\E c \in {Blank, Garbage} : flash' = [flash EXCEPT ![x][t] = c]) /\ last' = last
         \/ flash' = [flash EXCEPT ![x][t] = Sealed(st)] /\ last' = [last EXCEPT ![x] = t]
  BY DEF TornProgram, Now, Sides
<1>2. st \in Programs /\ x \in Slot /\ Live /\ t \in Side /\ t # WinAt(x)
  BY <1>1, ProgramIs
<1>3. CASE (\E c \in {Blank, Garbage} : flash' = [flash EXCEPT ![x][t] = c]) /\ last' = last
  <2>1. ledger.live
    BY <1>2 DEF Live
  <2> HIDE DEF st, x, t
  <2> QED BY <1>1, <1>2, <1>3, <2>1, TornAway
<1>4. ASSUME NEW s, s = plan[1],
             flash' = [flash EXCEPT ![s.slot][Target(s.slot)] = Sealed(s)],
             last' = [last EXCEPT ![s.slot] = Target(s.slot)]
      PROVE  TornOK
  <2>1. \/ Seal(plan) \/ Canary(plan) \/ ResealingOne(plan) \/ FirstCanary(plan)
        \/ \E p \in Pin : FormatFacts(p) /\ Formatting2(p, plan)
    BY <1>1, PhaseHead
  <2>2. CASE Seal(plan)
    BY <1>1, <1>4, <2>2, TornSeal
  <2>3. CASE Canary(plan)
    <3>1. CommitAfter(s, Tail(plan)) /\ s \in Programs
      BY <1>2, <1>4, <2>3 DEF Canary
    <3>2. \E n \in Nat : Fresh(n) /\ Sealed(s).gen = n /\ s.slot # Super
      BY <3>1, CanaryYoung
    <3> QED BY <1>1, <1>4, <3>2, TornYoung
  <2>4. CASE ResealingOne(plan)
    <3>1. \E n \in Nat : Fresh(n) /\ Sealed(s).gen = n /\ s.slot # Super
      BY <1>4, <2>4, ResealYoung
    <3> QED BY <1>1, <1>4, <3>1, TornYoung
  <2>5. CASE FirstCanary(plan)
    <3>1. CommitAfter(s, Tail(Tail(plan))) /\ s \in Programs
      BY <1>2, <1>4, <2>5 DEF FirstCanary
    <3>2. \E n \in Nat : Fresh(n) /\ Sealed(s).gen = n /\ s.slot # Super
      BY <3>1, CanaryYoung
    <3> QED BY <1>1, <1>4, <3>2, TornYoung
  <2>6. CASE \E p \in Pin : FormatFacts(p) /\ Formatting2(p, plan)
    BY <1>1, <1>4, <2>6, TornFormat
  <2> QED BY <2>1, <2>2, <2>3, <2>4, <2>5, <2>6
<1> QED BY <1>1, <1>3, <1>4

LEMMA TornRetireIs ==
  ASSUME Types, Universal, Phase, plan # <<>>, plan[1].do = "retire", Calm,
         NEW x, x = plan[1].slot, NEW c \in {Blank, Garbage}, NEW s, s = Other(Target(x)),
         flash' = [flash EXCEPT ![x][s] = c], last' = last, ledger' = ledger
  PROVE  TornOK
<1> DEFINE t == Target(x)
<1>1. \/ Retire(plan) \/ FirstRetire(plan)
      \/ \E p \in Pin : FormatFacts(p) /\ Formatting3(p, plan)
  BY PhaseHead
<1>2. x \in Slot /\ Live /\ (WinAt(x) = t \/ WinAt(x) = "none")
  <2>1. CASE Retire(plan)
    BY <2>1 DEF Retire
  <2>2. CASE FirstRetire(plan)
    <3>1. x = First /\ Current[First] = Blank /\ Live /\ x \in Slot
      BY <2>2, SlotType DEF FirstRetire, Commit
    <3> QED BY <3>1, CurrentType DEF Types
  <2>3. CASE \E p \in Pin : FormatFacts(p) /\ Formatting3(p, plan)
    <3>1. PICK p \in Pin : Formatting3(p, plan)
      BY <2>3
    <3>2. /\ plan = Tail(Tail(Tail(FormatPlan(p, ledger.policy)))) /\ Live
          /\ WinAt(Super) = Target(Super)
      BY <3>1 DEF Formatting3
    <3>3. plan[1] = RetireStep(Super) /\ Super \in Slot
      BY <3>2, FormatPlanIs, SlotType
    <3>4. x = Super
      BY <3>3 DEF RetireStep
    <3> QED BY <3>2, <3>3, <3>4
  <2> QED BY <1>1, <2>1, <2>2, <2>3
<1>3. t \in Side /\ ledger.live
  BY <1>2, MemoryType DEF Live
<1>4. Other(t) \in Side /\ Other(t) # WinAt(x)
  BY <1>2, <1>3 DEF Other, Side
<1> HIDE DEF t
<1>5. s \in Side /\ s # WinAt(x) /\ (c = Blank \/ ledger.live)
  BY <1>3, <1>4 DEF t
<1> QED BY <1>2, <1>5, TornAway

LEMMA TornDoomedIs ==
  ASSUME Types, Universal, Phase, plan # <<>>, Calm, NEW p \in Doomed,
         NEW c \in {Blank, Garbage},
         flash' = [flash EXCEPT ![p[1]][p[2]] = c], last' = last, ledger' = ledger
  PROVE  TornOK
<1>1. /\ plan[1].do \in {"cleanup", "erase"}
      /\ p \in IF plan[1].do = "cleanup" THEN Leftovers(ram.table) ELSE Leftovers(Off.table)
  BY DEF Doomed, Now
<1>2. p[1] \in Slot /\ p[2] \in Side /\ flash[p[1]][p[2]] # Blank
  BY <1>1 DEF Leftovers
<1>3. ledger.live
  BY <1>2 DEF Universal, Virgin
<1>4. p[2] # WinAt(p[1])
  <2>1. CASE plan[1].do = "cleanup"
    <3>1. Settle(plan)
      BY <2>1, PhaseHead
    <3>2. ram.table[p[1]] = WinAt(p[1])
      BY <1>2, <2>1, <3>1, CurrentType DEF Settle, Types
    <3> QED BY <1>1, <2>1, <3>2 DEF Leftovers
  <2>2. CASE plan[1].do = "erase"
    <3>1. Erasing(plan)
      BY <2>2, PhaseHead
    <3> QED BY <1>2, <3>1 DEF Erasing, Side
  <2> QED BY <1>1, <2>1, <2>2
<1> QED BY <1>2, <1>3, <1>4, TornAway

LEMMA TornEraseIs ==
  ASSUME Types, Universal, Phase, plan # <<>>, Calm, TornErase PROVE TornOK
<1>1. last' = last /\ ledger' = ledger
  BY DEF TornErase
<1>2. CASE Now("retire") /\ flash' \in Sides(plan[1].slot, Other(Target(plan[1].slot)), {Garbage, Blank})
  <2>1. ASSUME NEW x, x = plan[1].slot, NEW s, s = Other(Target(x)) PROVE TornOK
    <3>1. plan[1].do = "retire"
          /\ \E c \in {Blank, Garbage} : flash' = [flash EXCEPT ![x][s] = c]
      BY <1>2, <2>1 DEF Now, Sides
    <3>2. PICK c \in {Blank, Garbage} : flash' = [flash EXCEPT ![x][s] = c]
      BY <3>1
    <3> QED BY <1>1, <2>1, <3>1, <3>2, TornRetireIs
  <2> QED BY <2>1
<1>3. CASE Doomed # {} /\ flash' \in Sides(NextDoomed[1], NextDoomed[2], {Garbage, Blank})
  <2>1. ASSUME NEW p, p = NextDoomed PROVE TornOK
    <3>1. p \in Doomed
      BY <1>3, <2>1 DEF NextDoomed
    <3>2. \E c \in {Blank, Garbage} : flash' = [flash EXCEPT ![p[1]][p[2]] = c]
      BY <1>3, <2>1 DEF Sides
    <3> QED BY <1>1, <3>1, <3>2, TornDoomedIs
  <2> QED BY <2>1
<1> QED BY <1>2, <1>3 DEF TornErase

LEMMA TornGen ==
  ASSUME Types, Universal, Phase, plan # <<>>, plan[1].do = "gen", Calm,
         flash' = flash, last' = last, NEW g, g = plan[1],
         ledger' \in {WithGen(ledger, g), [ledger EXCEPT !.used = @ + 1]}
  PROVE  TornOK
<1> DEFINE T == Tail(plan)
           l == WithGen(ledger, g)
           e == CurrentOf(l)
<1>1. TypeDisk /\ Dated /\ Virgin
  BY DEF Types, Universal
<1>2. Commit(plan)
  BY PhaseHead
<1>3. /\ Len(plan) >= 2 /\ g \in [do : {"gen"}, id : Identity, gen : Nat] /\ Live
      /\ Ahead(e, l) /\ Needs(T, e, FoundOf(e, l.gens), goal, sessions, gap)
  BY <1>2 DEF Commit, Gen, Ready
<1>4. ram.ledger = ledger /\ ledger.live
  BY <1>3 DEF Live
<1>5. CASE ledger' = l
  <2>1. l \in Ledgers /\ l.epoch = ledger.epoch /\ l.live = ledger.live
    BY <1>1, <1>3, GenLedger
  <2>2. Has(T, "fill") => Has(plan, "fill")
    BY TailHas
  <2>3. Current' = e
    BY <1>5 DEF Current, CurrentOf
  <2> HIDE DEF l, e, T
  <2>4. TypeDisk' /\ Dated' /\ Virgin'
    BY <1>1, <1>4, <1>5, <2>1 DEF TypeDisk, Dated, Virgin
  <2>5. Has(plan, "fill") \/ FullIn(gap, e, FoundOf(e, l.gens))
    BY <1>3, <2>2 DEF Needs
  <2> QED BY <1>3, <1>4, <1>5, <2>3, <2>4, <2>5, TornThere
<1>6. CASE ledger' = [ledger EXCEPT !.used = @ + 1]
  <2>1. /\ ledger' \in Ledgers /\ ledger'.epoch = ledger.epoch /\ ledger'.gens = ledger.gens
        /\ ledger'.live
    BY <1>1, <1>4, <1>6 DEF TypeDisk, Ledgers
  <2>2. TypeDisk' /\ Dated' /\ Virgin' /\ Current' = Current
    BY <1>1, <1>4, <2>1, LedgerSame
  <2> QED BY <1>4, <2>1, <2>2, TornSame
<1> QED BY <1>5, <1>6

LEMMA TornPolicy ==
  ASSUME Types, Universal, Phase, plan # <<>>, plan[1].do = "policy", Calm,
         flash' = flash, last' = last, NEW v \in {plan[1].policy.val, Strict},
         ledger' = WithPolicy(ledger, [plan[1].policy EXCEPT !.val = v])
  PROVE  TornOK
<1>1. TypeDisk /\ Dated /\ Virgin
  BY DEF Types, Universal
<1>2. Amend(plan)
  BY PhaseHead
<1>3. plan[1].policy \in Policies /\ ram.ledger = ledger /\ ledger.live
  BY <1>2 DEF Amend, Seal, Live
<1>4. [plan[1].policy EXCEPT !.val = v] \in Policies
  BY <1>3 DEF Policies
<1>5. ASSUME NEW p \in Policies, ledger' = WithPolicy(ledger, p) PROVE TornOK
  <2>1. /\ ledger' \in Ledgers /\ ledger'.epoch = ledger.epoch /\ ledger'.gens = ledger.gens
        /\ ledger'.live
    BY <1>1, <1>3, <1>5 DEF TypeDisk, Ledgers, WithPolicy
  <2>2. TypeDisk' /\ Dated' /\ Virgin' /\ Current' = Current
    BY <1>1, <1>3, <2>1, LedgerSame
  <2> QED BY <1>3, <2>1, <2>2, TornSame
<1> QED BY <1>4, <1>5

LEMMA TornEpoch ==
  ASSUME Types, Universal, Phase, plan # <<>>, plan[1].do = "epoch", Calm,
         flash' = flash, last' = last, ledger' = WithEpoch(ledger)
  PROVE  TornOK
<1>1. Epoch(plan)
  BY PhaseHead
<1>2. EpochOK(WithEpoch(ledger)) /\ ram.ledger = ledger
  BY <1>1, EpochIs DEF Epoch, Live
<1>3. ASSUME NEW l, l = WithEpoch(ledger) PROVE TornOK
  <2>1. Ahead(NoRecord, l) /\ FoundOf(NoRecord, l.gens) = Nobody
        /\ TypeDisk' /\ Dated' /\ Virgin' /\ Current' = NoRecord
    BY <1>2, <1>3 DEF EpochOK
  <2>2. FullIn(gap, NoRecord, Nobody)
    BY SlotType DEF FullIn, Nobody
  <2> QED BY <1>2, <1>3, <2>1, <2>2, TornThere
<1> QED BY <1>3

LEMMA TornCellIs ==
  ASSUME Types, Universal, Phase, plan # <<>>, Calm, TornCell PROVE TornOK
<1>1. flash' = flash /\ last' = last
  BY DEF TornCell
<1>2. \/ plan[1].do = "gen" /\ ledger' \in {WithGen(ledger, plan[1]), [ledger EXCEPT !.used = @ + 1]}
      \/ /\ plan[1].do = "policy"
         /\ \E v \in {plan[1].policy.val, Strict} :
              ledger' = WithPolicy(ledger, [plan[1].policy EXCEPT !.val = v])
      \/ plan[1].do = "epoch" /\ ledger' = WithEpoch(ledger)
  BY DEF TornCell, Now
<1> QED BY <1>1, <1>2, TornGen, TornPolicy, TornEpoch

LEMMA TornHeadIs ==
  ASSUME Types, Universal, Phase, plan # <<>>, Calm, TornHead PROVE TornOK
<1>1. plan[1].do = "head" /\ ledger' = FormatHead /\ flash' = flash /\ last' = last
  BY DEF TornHead, Now
<1>2. \E p \in Pin : FormatFacts(p)
  BY <1>1, PhaseHead
<1>3. ram.ledger = ledger
  BY <1>2 DEF FormatFacts
<1>4. /\ ledger' \in Ledgers /\ ledger'.live /\ ledger'.epoch = ledger.epoch
      /\ ledger'.gens = ledger.gens
  BY <1>1, <1>3, FormatHeadIs
<1>5. TypeDisk' /\ Dated' /\ Virgin'
  BY <1>1, <1>4 DEF Types, Universal, TypeDisk, Dated, Virgin
<1>6. Current' = Current
  BY <1>1, <1>4, SameCur DEF Current
<1> QED BY <1>3, <1>4, <1>5, <1>6, TornSame

\* What a step leaves that does not complete.
LEMMA TornIs ==
  ASSUME Types, Universal, Phase, plan # <<>>, Calm, Torn \/ TornHead PROVE TornOK
<1>1. CASE UNCHANGED <<flash, last, ledger>>
  <2>1. TypeDisk' /\ Dated' /\ Virgin' /\ Current' = Current /\ ledger' = ledger
    BY <1>1, DiskSame DEF Types, Universal
  <2> QED BY <2>1, TornSame
<1> QED BY <1>1, TornProgramIs, TornEraseIs, TornCellIs, TornHeadIs DEF Torn

LEMMA OffIs == Off \in Memory /\ Off.state = "off"
<1>1. NoLedger \in Ledgers /\ NoLedger.policy \in Policies
  BY DEF NoLedger, Ledgers, Policies
<1> HIDE DEF NoLedger
<1> QED BY <1>1 DEF Off, Memory, Tables

\* Nothing is left of the call.
LEMMA Ended ==
  ASSUME Types, Universal, TornOK, plan' = <<>>, gap' = (gap \/ Filling), ram' \in Memory,
         sessions' \in {sessions, {}}, promised' = promised, hits' \in Nat, Unread', Known', Atrest'
  PROVE  IBody' /\ Allowed(found, found')
<1>1. Filling <=> Has(plan, "fill")
  BY DEF Filling, Has
<1>2. Mounting'
  BY HasNone DEF Mounting
<1>3. Occupied'
  BY <1>1 DEF Occupied, FullNow, FullIn, TornOK
<1>4. plan' \in Seq(Steps) /\ gap' \in BOOLEAN /\ sessions' \in SUBSET Session
      /\ promised' = [x \in Where |-> promised'[x]]
  BY DEF Types, Filling
<1>5. TypeDisk' /\ Dated' /\ Virgin' /\ FoundIs' /\ Right' /\ Allowed(found, found')
  BY DEF TornOK
<1> QED BY <1>2, <1>3, <1>4, <1>5, AnyStep

LEMMA CutIs ==
  ASSUME IBody, Cut PROVE IBody' /\ Allowed(found, found')
<1>1. /\ Torn \/ TornHead
      /\ ram' = Off /\ sessions' = {} /\ plan' = <<>> /\ gap' = (gap \/ Filling)
      /\ promised' = promised /\ Observe
      /\ hits' = hits \/ hits' = hits + 1
  BY DEF Cut
<1>2. Types /\ Universal /\ (plan # <<>> => Phase)
  BY DEF IBody
<1>3. Calm /\ ram' \in Memory /\ ram'.state = "off"
  BY <1>1, OffIs DEF Calm
<1>4. TornOK
  <2>1. CASE plan # <<>>
    BY <1>1, <1>2, <1>3, <2>1, TornIs
  <2>2. CASE plan = <<>>
    <3>1. \A w : ~Now(w)
      BY <2>2 DEF Now
    <3>2. UNCHANGED <<flash, last, ledger>>
      BY <1>1, <3>1 DEF Torn, TornHead, TornProgram, TornErase, TornCell, Doomed
    <3>3. TypeDisk' /\ Dated' /\ Virgin' /\ Current' = Current /\ ledger' = ledger
      BY <1>2, <3>2, DiskSame DEF Types, Universal
    <3> QED BY <1>2, <1>3, <3>3, TornSame
  <2> QED BY <2>1, <2>2
<1>5. Unread' /\ Known' /\ Atrest'
  BY <1>1, <1>3 DEF Unread, Known, Atrest
<1>6. hits' \in Nat
  BY <1>1, <1>2 DEF Types
<1> QED BY <1>1, <1>2, <1>3, <1>4, <1>5, <1>6, Ended

LEMMA ErrorIs ==
  ASSUME IBody, Error PROVE IBody' /\ Allowed(found, found')
<1>1. /\ Torn /\ plan' = <<>> /\ gap' = (gap \/ Filling) /\ result' = "error"
      /\ ram' = IF plan[Len(plan)].do = "mounted" THEN Off ELSE ram
      /\ sessions' = sessions /\ promised' = promised /\ Observe /\ hits' = hits + 1
  BY DEF Error, Abandon
<1>2. plan # <<>>
  BY DEF Error, OnFlashStep, Doomed, Now
<1>3. Types /\ Universal /\ Phase
  BY <1>2, InPhase
<1>4. ram' \in Memory /\ ram'.state \in {ram.state, "off"}
  BY <1>1, <1>3, OffIs DEF Types
<1>5. TornOK
  BY <1>1, <1>2, <1>3, <1>4, TornIs DEF Calm
<1>6. Unread'
  <2>1. plan[Len(plan)].do = "mounted" => Has(plan, "mounted")
    <3>1. Len(plan) \in DOMAIN plan
      BY <1>2, <1>3, TailIs DEF Types
    <3> QED BY <3>1 DEF Has
  <2> QED BY <1>1, <1>3, <2>1 DEF Unread, Universal, Mounting
<1>7. Known'
  BY <1>1, <1>3, <1>5, OffIs DEF Known, PolicyOK, Universal, TornOK
<1>8. Atrest' /\ hits' \in Nat
  BY <1>1, <1>3 DEF Atrest, Types
<1> QED BY <1>1, <1>3, <1>4, <1>5, <1>6, <1>7, <1>8, Ended

-----------------------------------------------------------------------------
(***************************************************************************)
(* The invariant holds.                                                    *)
(***************************************************************************)
\* A device as it is delivered, and one with two identities.
InitRest ==
  /\ ram = Off /\ found = Stored /\ sessions = {} /\ plan = <<>>
  /\ promised = [x \in DOMAIN found |-> {found[x]}]
  /\ kept = TRUE /\ gap = FALSE /\ hits = 0

\* No user data.
Bare == \A u \in User : Current[u] = Blank \/ Current[u].key = Filler

LEMMA FromBoot ==
  ASSUME InitRest, TypeDisk, Dated, Virgin, Owned(Current, ledger.gens),
         Current[First] # Blank => \A x \in Slot : Current[x] # Blank
  PROVE  IBody
<1>1. found = FoundOf(Current, ledger.gens) /\ DOMAIN found = Where
  BY StoredIs, FoundAt DEF InitRest, StoredOK
<1>2. promised = [x \in Where |-> {found[x]}]
  BY <1>1 DEF InitRest
<1>3. Types
  <2>1. plan \in Seq(Steps)
    BY DEF InitRest
  <2> QED BY <1>2, <2>1, OffIs DEF InitRest, Types
<1>4. Right
  BY <1>1, <1>2, OffIs DEF InitRest, Right, Sound, SessOK, BlankOK
<1>5. Unread /\ Mounting /\ Known
  BY OffIs, HasNone DEF InitRest, Unread, Mounting, Known
<1>6. Occupied
  <2>1. found[First] # NoPin => Current[First] # Blank
    BY <1>1, FirstIs, FoundAt, SlotType
  <2> QED BY <2>1 DEF Occupied, FullNow, FullIn
<1>7. Atrest
  BY OffIs DEF InitRest, Atrest
<1> QED BY <1>1, <1>3, <1>4, <1>5, <1>6, <1>7 DEF IBody, Universal, FoundIs, InitRest

LEMMA FirstBoot ==
  ASSUME InitRest, NeverUsed PROVE IBody /\ Bare
<1>1. /\ flash = [x \in Slot |-> [s \in Side |-> Blank]] /\ last = [x \in Slot |-> "A"]
      /\ ledger = NoLedger
  BY DEF NeverUsed
<1>2. NoLedger \in Ledgers /\ NoLedger.gens = [i \in Identity |-> 0]
  BY DEF NoLedger, Ledgers, Policies
<1>3. TypeDisk
  BY <1>1, <1>2 DEF TypeDisk, Flashes, Pairs, Cells, Lasts, Side
<1>4. Dated /\ Virgin
  BY <1>1 DEF Dated, Virgin, Blank
<1>5. Current = NoRecord
  <2>1. ASSUME NEW x \in Slot PROVE Top(ledger, x, flash[x], last[x]) = Blank
    <3>1. flash[x][last[x]] = Blank /\ flash[x][Other(last[x])] = Blank
      BY <1>1 DEF Other, Side
    <3> QED BY <3>1 DEF Top
  <2> QED BY <2>1 DEF Current, CurOf, NoRecord
<1>6. Owned(Current, ledger.gens)
  <2>1. ledger.gens \in [Identity -> Nat] /\ Uniq(ledger.gens)
    BY <1>1, <1>2 DEF Uniq
  <2> QED BY <1>5, <2>1, WipedIs
<1>7. Current[First] = Blank /\ Bare
  BY <1>5, SlotType DEF NoRecord, Bare
<1> QED BY <1>3, <1>4, <1>6, <1>7, FromBoot

TwoAre(i, p, q) ==
  /\ ledger \in Ledgers /\ ledger.live /\ ledger.epoch = 0
  /\ ledger.gens = [j \in Identity |-> IF j = First THEN 1 ELSE IF j = i THEN 2 ELSE 0]
  /\ last = [x \in Slot |-> "A"]
  /\ flash = [x \in Slot |->
                IF x = Super THEN Written(0, Super)
                ELSE IF x = First THEN Written(1, p)
                ELSE IF x = i THEN Written(2, q)
                ELSE [A |-> Rec(0, 1, Filler, Nothing), B |-> Blank]]

TwoCur(i, p, q) ==
  [x \in Slot |-> IF x = Super THEN Rec(0, 0, Super, NoLedger.policy)
                  ELSE IF x = First THEN Rec(0, 1, p, NoLedger.policy)
                  ELSE IF x = i THEN Rec(0, 2, q, NoLedger.policy)
                  ELSE Rec(0, 1, Filler, Nothing)]

RecOK(e, g, k, b) ==
  LET r == Rec(e, g, k, b)
  IN /\ r \in Record /\ r.kind = "record" /\ r.epoch = e /\ r.gen = g /\ r.key = k
     /\ r.body = b /\ r # Blank

LEMMA RecIs ==
  ASSUME NEW e \in Nat, NEW g \in Nat, NEW k \in Key, NEW b \in Body PROVE RecOK(e, g, k, b)
BY DEF RecOK, Rec, Record, Blank

\* What is where.
LEMMA TwoAt ==
  ASSUME NEW i \in Identity \ {First}, NEW p \in Pin, NEW q \in Pin,
         NEW e, e = TwoCur(i, p, q)
  PROVE  /\ e = [x \in Slot |-> e[x]]
         /\ e[Super] = Rec(0, 0, Super, NoLedger.policy)
         /\ e[First] = Rec(0, 1, p, NoLedger.policy)
         /\ e[i] = Rec(0, 2, q, NoLedger.policy)
         /\ \A x \in Slot \ {Super, First, i} : e[x] = Rec(0, 1, Filler, Nothing)
<1>1. Super \in Slot /\ First \in Slot /\ i \in Slot /\ First # Super /\ i # Super
  BY SlotType, NamesAssumption
<1> HIDE DEF Rec, NoLedger
<1> QED BY <1>1 DEF TwoCur

LEMMA TwoRecs ==
  /\ \A p \in Pin : RecOK(0, 1, p, NoLedger.policy) /\ RecOK(0, 2, p, NoLedger.policy)
  /\ RecOK(0, 0, Super, NoLedger.policy) /\ RecOK(0, 1, Filler, Nothing)
  /\ NoLedger.policy \in Policies
<1>1. /\ NoLedger.policy \in Body /\ NoLedger.policy \in Policies /\ Pin \subseteq Key
      /\ Filler \in Key /\ Super \in Key /\ Nothing \in Body
  BY DEF NoLedger, Body, Key, Policies
<1> HIDE DEF NoLedger
<1> QED BY <1>1, RecIs

LEMMA TwoGens ==
  ASSUME NEW i \in Identity \ {First}, NEW p, NEW q, TwoAre(i, p, q)
  PROVE  /\ ledger.gens \in [Identity -> Nat] /\ ledger.gens[First] = 1 /\ ledger.gens[i] = 2
         /\ \A j \in Identity \ {First, i} : ledger.gens[j] = 0
<1>1. ledger.gens = [j \in Identity |-> IF j = First THEN 1 ELSE IF j = i THEN 2 ELSE 0]
  BY DEF TwoAre
<1> QED BY <1>1, SlotType

LEMMA TwoFlash ==
  ASSUME NEW i \in Identity \ {First}, NEW p \in Pin, NEW q \in Pin, TwoAre(i, p, q)
  PROVE  /\ TypeDisk /\ Dated /\ Virgin /\ Current = TwoCur(i, p, q)
         /\ TwoCur(i, p, q) \in [Slot -> Record]
<1> DEFINE e == TwoCur(i, p, q)
<1>1. /\ e = [x \in Slot |-> e[x]]
      /\ e[Super] = Rec(0, 0, Super, NoLedger.policy) /\ e[First] = Rec(0, 1, p, NoLedger.policy)
      /\ e[i] = Rec(0, 2, q, NoLedger.policy)
      /\ \A x \in Slot \ {Super, First, i} : e[x] = Rec(0, 1, Filler, Nothing)
  BY TwoAt
<1>2. ASSUME NEW x \in Slot
      PROVE  flash[x] = [A |-> e[x], B |-> Blank] /\ last[x] = "A"
  <2>1. last[x] = "A"
    BY DEF TwoAre
  <2>2. flash[x] = IF x = Super THEN Written(0, Super)
                   ELSE IF x = First THEN Written(1, p)
                   ELSE IF x = i THEN Written(2, q)
                   ELSE [A |-> Rec(0, 1, Filler, Nothing), B |-> Blank]
    BY DEF TwoAre
  <2> HIDE DEF e
  <2> QED BY <1>1, <2>1, <2>2 DEF Written
<1> HIDE DEF e
<1>3. ASSUME NEW x \in Slot
      PROVE  /\ e[x] \in Record /\ e[x].kind = "record" /\ e[x].epoch = 0 /\ e[x] # Blank
             /\ x # Super => e[x].gen # 0 /\ \E j \in Identity : ledger.gens[j] = e[x].gen
  <2>1. ledger.gens[First] = 1 /\ ledger.gens[i] = 2 /\ First \in Identity
    BY TwoGens, SlotType
  <2>2. /\ RecOK(0, 0, Super, NoLedger.policy) /\ RecOK(0, 1, p, NoLedger.policy)
        /\ RecOK(0, 2, q, NoLedger.policy) /\ RecOK(0, 1, Filler, Nothing)
    BY TwoRecs
  <2>3. CASE x = Super
    BY <1>1, <2>2, <2>3 DEF RecOK
  <2>4. CASE x # Super /\ x = First
    BY <1>1, <2>1, <2>2, <2>4 DEF RecOK
  <2>5. CASE x # Super /\ x = i
    BY <1>1, <2>1, <2>2, <2>5 DEF RecOK
  <2>6. CASE x \in Slot \ {Super, First, i}
    BY <1>1, <2>1, <2>2, <2>6 DEF RecOK
  <2> QED BY <2>3, <2>4, <2>5, <2>6
<1>4. ASSUME NEW x \in Slot
      PROVE  /\ flash[x] \in Pairs /\ flash[x]["A"] = e[x] /\ flash[x]["B"] = Blank
  <2>1. flash[x] = [s \in Side |-> IF s = "A" THEN e[x] ELSE Blank]
    BY <1>2 DEF Side
  <2> QED BY <1>3, <2>1 DEF Pairs, Cells, Side
<1>5. TypeDisk
  BY <1>4 DEF TwoAre, TypeDisk, Flashes, Lasts, Side
<1>6. Dated /\ Virgin
  <2>1. ledger.live /\ ledger.epoch = 0
    BY DEF TwoAre
  <2> QED BY <1>3, <1>4, <2>1 DEF Dated, Virgin, Side, Blank
<1>7. ASSUME NEW x \in Slot PROVE Top(ledger, x, flash[x], last[x]) = e[x]
  <2>1. ledger.epoch = 0
    BY DEF TwoAre
  <2>2. Fit(ledger, x, e[x])
    BY <1>3, <2>1, FitIs
  <2> QED BY <1>2, <1>4, <2>2 DEF Top
<1>8. Current = [x \in Slot |-> e[x]]
  BY <1>7 DEF Current, CurOf
<1> QED BY <1>1, <1>3, <1>5, <1>6, <1>8 DEF e

LEMMA TwoOwned ==
  ASSUME NEW i \in Identity \ {First}, NEW p \in Pin, NEW q \in Pin, TwoAre(i, p, q)
  PROVE  Owned(TwoCur(i, p, q), ledger.gens)
<1> DEFINE e == TwoCur(i, p, q)
           g == ledger.gens
           b == NoLedger.policy
<1>1. /\ e[Super] = Rec(0, 0, Super, b) /\ e[First] = Rec(0, 1, p, b)
      /\ e[i] = Rec(0, 2, q, b)
      /\ \A x \in Slot \ {Super, First, i} : e[x] = Rec(0, 1, Filler, Nothing)
  BY TwoAt
<1>2. /\ RecOK(0, 0, Super, b) /\ RecOK(0, 1, p, b) /\ RecOK(0, 2, q, b)
      /\ RecOK(0, 1, Filler, Nothing) /\ b \in Policies
  BY TwoRecs
<1>3. g \in [Identity -> Nat] /\ g[First] = 1 /\ g[i] = 2
      /\ \A j \in Identity \ {First, i} : g[j] = 0
  BY TwoGens
<1>4. e \in [Slot -> Record \cup {Blank}]
  BY TwoFlash
<1> HIDE DEF e, g, b
<1>5. Uniq(g)
  BY <1>3 DEF Uniq
<1>6. /\ e[Super] # Blank /\ e[Super].body \in Policies
      /\ e[First] # Blank /\ e[First].key \in Pin /\ e[First].gen = g[First]
      /\ e[First].body \in Policies /\ e[First].gen # 0
  BY <1>1, <1>2, <1>3 DEF RecOK
<1>7. e[i].key \in Pin /\ e[i].gen = g[i] /\ e[i].body \in Policies /\ e[i].gen # 0
  BY <1>1, <1>2, <1>3 DEF RecOK
<1>8. \A x \in Slot \ {Super, First, i} : IsFiller(e[x], g) /\ e[x].gen # 0
  BY <1>1, <1>2, <1>3 DEF RecOK, IsFiller
<1>9. \A x \in Identity \cup User : x \in Slot /\ x # Super
  BY SlotType, NamesAssumption
<1>10. \A u \in User : u \in Slot \ {Super, First, i}
  BY <1>9, SlotType, NamesAssumption
<1>11. /\ \A x \in Identity \cup User :
             e[x] # Blank => e[x].gen # 0 /\ e[Super] # Blank /\ e[First] # Blank /\ e[First].key \in Pin
       /\ \A j \in Identity : \/ IsFiller(e[j], g)
                               \/ (e[j].key \in Pin /\ e[j].gen = g[j] /\ e[j].body \in Policies)
       /\ \A u \in User : IsFiller(e[u], g)
  BY <1>6, <1>7, <1>8, <1>9, <1>10
<1>12. Owned(e, g)
  BY <1>3, <1>4, <1>5, <1>6, <1>11 DEF Owned
<1> QED BY <1>12 DEF e, g

LEMMA TwoLedger ==
  ASSUME NEW i \in Identity \ {First}, NEW l,
         l = [NoLedger EXCEPT !.live = TRUE, !.gens[First] = 1, !.gens[i] = 2]
  PROVE  /\ l \in Ledgers /\ l.live /\ l.epoch = 0
         /\ l.gens = [j \in Identity |-> IF j = First THEN 1 ELSE IF j = i THEN 2 ELSE 0]
<1> DEFINE a == [NoLedger EXCEPT !.live = TRUE]
           b == [a EXCEPT !.gens = [a.gens EXCEPT ![First] = 1]]
           c == [b EXCEPT !.gens = [b.gens EXCEPT ![i] = 2]]
<1>1. a \in Ledgers /\ a.live /\ a.epoch = 0 /\ a.gens = [j \in Identity |-> 0]
  BY DEF NoLedger, Ledgers, Policies
<1>2. l = c
  OBVIOUS
<1> HIDE DEF a
<1>3. b \in Ledgers /\ b.live /\ b.epoch = 0
      /\ b.gens = [j \in Identity |-> IF j = First THEN 1 ELSE 0]
  <2>1. [a.gens EXCEPT ![First] = 1] = [j \in Identity |-> IF j = First THEN 1 ELSE 0]
    BY <1>1, SlotType
  <2> QED BY <1>1, <2>1 DEF Ledgers
<1> HIDE DEF b
<1>4. c \in Ledgers /\ c.live /\ c.epoch = 0
      /\ c.gens = [j \in Identity |-> IF j = First THEN 1 ELSE IF j = i THEN 2 ELSE 0]
  <2>1. [b.gens EXCEPT ![i] = 2]
          = [j \in Identity |-> IF j = First THEN 1 ELSE IF j = i THEN 2 ELSE 0]
    BY <1>3
  <2> QED BY <1>3, <2>1 DEF Ledgers
<1> HIDE DEF c
<1> QED BY <1>2, <1>4

LEMMA SecondBoot ==
  ASSUME InitRest, TwoIdentities PROVE IBody /\ Bare
<1>1. PICK i \in Identity \ {First}, p \in Pin, q \in Pin :
        /\ p # q /\ calls = 1
        /\ ledger = [NoLedger EXCEPT !.live = TRUE, !.gens[First] = 1, !.gens[i] = 2]
        /\ last = [x \in Slot |-> "A"]
        /\ flash = [x \in Slot |->
                      IF x = Super THEN Written(0, Super)
                      ELSE IF x = First THEN Written(1, p)
                      ELSE IF x = i THEN Written(2, q)
                      ELSE [A |-> Rec(0, 1, Filler, Nothing), B |-> Blank]]
  BY Zenon DEF TwoIdentities
<1>2. TwoAre(i, p, q)
  BY <1>1, TwoLedger DEF TwoAre
<1>3. TypeDisk /\ Dated /\ Virgin /\ Current = TwoCur(i, p, q) /\ Current \in [Slot -> Record]
  BY <1>2, TwoFlash
<1>4. Owned(Current, ledger.gens)
  BY <1>2, <1>3, TwoOwned
<1>5. Bare
  <2> SUFFICES ASSUME NEW u \in User PROVE Current[u].key = Filler
    BY DEF Bare
  <2>1. u \in Slot \ {Super, First, i}
    BY SlotType, NamesAssumption
  <2>2. Current[u] = Rec(0, 1, Filler, Nothing) /\ RecOK(0, 1, Filler, Nothing)
    BY <1>3, <2>1, TwoAt, TwoRecs
  <2> QED BY <2>2 DEF RecOK
<1> QED BY <1>3, <1>4, <1>5, BlankIs, FromBoot

LEMMA InitIs == Init => IBody /\ Bare
<1> SUFFICES ASSUME Init PROVE IBody /\ Bare
  OBVIOUS
<1>1. InitRest /\ (NeverUsed \/ TwoIdentities)
  BY DEF Init, InitRest
<1> QED BY <1>1, FirstBoot, SecondBoot

-----------------------------------------------------------------------------
(***************************************************************************)
(* Every step keeps it, and leads where module WalletStore allows.         *)
(***************************************************************************)
LEMMA KeptOnce ==
  ASSUME Next, kept', kept \in BOOLEAN PROVE kept
<1>1. ASSUME NEW P, NEW w, NEW b, Begin(P, w, b) PROVE kept
  BY <1>1 DEF Begin
<1>2. Mount => kept
  BY DEF Mount
<1>3. Step => kept
  BY Zenon DEF Step, DoProgram, DoRetire, DoGen, GenRefused, DoPolicy, DoEpoch, DoHead, Rotate,
         NoRotation, DoRefresh, EraseOne, Erased, FillOne, Filled, ResealOne, Resealed, Sync, Due,
         Distrust, Prove, Fail, OpenSession, Done, ghost
<1>4. Cut \/ Error \/ BadSuper => kept
  BY DEF Cut, Error, BadSuper
<1>5. Wipe => kept
  BY <1>1 DEF Wipe, Call
<1>6. \A p \in Pin : Format(p) \/ Unlock(p) => kept
  BY <1>1 DEF Format, Unlock, Call
<1>7. \A s \in sessions, u \in User, d \in Data : Write(s, u, d) \/ Clear(s, u) => kept
  BY <1>1 DEF Write, Clear, Call
<1>8. \A s \in sessions, u \in User : Clear(s, u) => kept
  BY <1>1 DEF Clear, Call
<1>9. \A s \in sessions, p \in Pin : ChangePin(s, p) => kept
  BY <1>1 DEF ChangePin, Call
<1>10. \A s \in sessions, i \in Identity, p \in Pin : AddIdentity(s, i, p) => kept
  BY <1>1 DEF AddIdentity, Call
<1>11. \A s \in sessions, v \in Values : SetPolicy(s, v) => kept
  BY <1>1 DEF SetPolicy, Call
<1> QED BY <1>2, <1>3, <1>4, <1>5, <1>6, <1>7, <1>8, <1>9, <1>10, <1>11 DEF Next

\* A call that the caller may still count on was made in step.
LEMMA CallInStep ==
  ASSUME kept', NEW P, NEW w, NEW b, Begin(P, w, b) PROVE InStep
BY DEF Begin

LEMMA NextIs ==
  ASSUME IBody, Next, kept' PROVE IBody' /\ Allowed(found, found')
<1>1. CASE Mount
  BY <1>1, MountIs
<1>2. CASE Step
  BY <1>2, StepIs1
<1>3. CASE Cut
  BY <1>3, CutIs
<1>4. CASE Error
  BY <1>4, ErrorIs
<1>5. CASE BadSuper
  BY <1>5 DEF BadSuper
<1>6. CASE Wipe
  <2>1. InStep
    BY <1>6, CallInStep DEF Wipe, Call
  <2> QED BY <1>6, <2>1, WipeCallIs
<1>7. ASSUME NEW p \in Pin, Format(p) PROVE IBody' /\ Allowed(found, found')
  <2>1. InStep
    BY <1>7, CallInStep DEF Format, Call
  <2> QED BY <1>7, <2>1, FormatIs
<1>8. ASSUME NEW p \in Pin, Unlock(p) PROVE IBody' /\ Allowed(found, found')
  <2>1. InStep
    BY <1>8, CallInStep DEF Unlock
  <2> QED BY <1>8, <2>1, UnlockIs
<1>9. ASSUME NEW s \in sessions, NEW u \in User, Clear(s, u)
      PROVE  IBody' /\ Allowed(found, found')
  <2>1. InStep
    BY <1>9, CallInStep DEF Clear, Call
  <2> QED BY <1>9, <2>1, ClearIs
<1>10. ASSUME NEW s \in sessions, NEW u \in User, NEW d \in Data, Write(s, u, d)
       PROVE  IBody' /\ Allowed(found, found')
  <2>1. InStep
    BY <1>10, CallInStep DEF Write, Call
  <2> QED BY <1>10, <2>1, WriteIs
<1>11. ASSUME NEW s \in sessions, NEW p \in Pin, ChangePin(s, p)
       PROVE  IBody' /\ Allowed(found, found')
  <2>1. InStep
    BY <1>11, CallInStep DEF ChangePin, Call
  <2> QED BY <1>11, <2>1, ChangePinIs
<1>12. ASSUME NEW s \in sessions, NEW p \in Pin, NEW i \in Identity, AddIdentity(s, i, p)
       PROVE  IBody' /\ Allowed(found, found')
  <2>1. InStep
    BY <1>12, CallInStep DEF AddIdentity, Call
  <2> QED BY <1>12, <2>1, AddIdentityIs
<1>13. ASSUME NEW s \in sessions, NEW v \in Values, SetPolicy(s, v)
       PROVE  IBody' /\ Allowed(found, found')
  <2>1. InStep
    BY <1>13, CallInStep DEF SetPolicy, Call
  <2> QED BY <1>13, <2>1, SetPolicyIs
<1> QED BY <1>1, <1>2, <1>3, <1>4, <1>5, <1>6, <1>7, <1>8, <1>9, <1>10, <1>11, <1>12, <1>13
        DEF Next

\* A stutter changes nothing of it.
LEMMA RestFrame ==
  ASSUME Frame, NEW R
  PROVE  /\ Retire(R) => Retire(R)'
         /\ Commit(R) => Commit(R)'
         /\ Erasing(R) => Erasing(R)'
         /\ FirstCanary(R) => FirstCanary(R)'
         /\ FirstRetire(R) => FirstRetire(R)'
<1>1. Retire(R) => Retire(R)'
  BY DEF Frame, Retire, Live, WinAt, Target, Current, Ready, RamFor, StateIs, PolicyOK, Swept,
         CleanOf
<1>2. ASSUME NEW Q, Commit(Q) PROVE Commit(Q)'
  BY <1>2 DEF Frame, Commit, Gen, Fresh, Live, Room, FullNow, Current, CurrentOf, Ahead, Ready,
              Swept, CleanOf
<1>3. Erasing(R) => Erasing(R)'
  BY DEF Frame, Erasing, WinAt, Current, Ready
<1>4. FirstCanary(R) => FirstCanary(R)'
  BY CommitAfterFrame, InSlotFrame DEF Frame, FirstCanary, Current
<1>5. FirstRetire(R) => FirstRetire(R)'
  BY <1>2 DEF Frame, FirstRetire, Target, Current
<1> QED BY <1>1, <1>2, <1>3, <1>4, <1>5

LEMMA FormatFrame ==
  ASSUME Frame, NEW R, Formatting(R) PROVE Formatting(R)'
<1>1. PICK p \in Pin :
        FormatFacts(p) /\ (Formatting0(p, R) \/ Formatting1(p, R) \/ Formatting2(p, R) \/ Formatting3(p, R))
  BY DEF Formatting
<1>2. FormatFacts(p)'
  BY <1>1 DEF Frame, FormatFacts, Clean, CleanOf, Current
<1>3. \A b : FormatPlan(p, b)' = FormatPlan(p, b) /\ FormatHead' = FormatHead
  BY DEF Frame, FormatPlan, FormatGen, FormatHead
<1>4. /\ Formatting0(p, R) => Formatting0(p, R)'
      /\ Formatting1(p, R) => Formatting1(p, R)'
      /\ Formatting2(p, R) => Formatting2(p, R)'
      /\ Formatting3(p, R) => Formatting3(p, R)'
  <2>1. /\ ledger' = ledger /\ ram' = ram /\ Winners' = Winners /\ (Live' <=> Live)
        /\ \A x : Clean(x)' <=> Clean(x)
        /\ \A x : WinAt(x)' = WinAt(x) /\ Target(x)' = Target(x)
    BY DEF Frame, Live, Clean, CleanOf, WinAt, Target, Winners
  <2>2. FormatPlan(p, FormatHead.policy)' = FormatPlan(p, FormatHead.policy)
        /\ FormatPlan(p, ledger.policy)' = FormatPlan(p, ledger.policy)
    BY <2>1 DEF FormatPlan, FormatGen, FormatHead
  <2> QED BY <2>1, <2>2 DEF Formatting0, Formatting1, Formatting2, Formatting3
<1> QED BY <1>1, <1>2, <1>4 DEF Formatting

LEMMA PhaseFrame ==
  ASSUME Frame, plan' = plan, Phase PROVE Phase'
<1>1. CASE Settle(plan)
  BY <1>1, SettleFrame DEF Phase
<1>2. CASE Ahead1(plan)
  BY <1>2, AheadFrame DEF Phase
<1>3. CASE Len(plan) > 1 /\ plan[1] = Simple("rotate") /\ Ahead1(Tail(plan))
  <2>1. Ahead1(Tail(plan))'
    <3>1. ASSUME NEW R, R = Tail(plan) PROVE Ahead1(R)'
      BY <1>3, <3>1, AheadFrame
    <3> QED BY <3>1
  <2> QED BY <1>3, <2>1 DEF Phase
<1>4. ASSUME NEW R, R = plan, Retire(R) \/ Commit(R) \/ Erasing(R) \/ FirstCanary(R) \/ FirstRetire(R)
      PROVE  Phase'
  <2>1. Retire(R)' \/ Commit(R)' \/ Erasing(R)' \/ FirstCanary(R)' \/ FirstRetire(R)'
    BY <1>4, RestFrame
  <2> QED BY <1>4, <2>1 DEF Phase
<1>5. CASE Formatting(plan)
  BY <1>5, FormatFrame DEF Phase
<1> QED BY <1>1, <1>2, <1>3, <1>4, <1>5 DEF Phase

LEMMA StutterIs ==
  ASSUME UNCHANGED vars, IBody PROVE IBody' /\ found' = found
<1>1. /\ UNCHANGED <<flash, last, ledger, found, ram, sessions, goal, promised, gap>>
      /\ plan' = plan /\ hits' = hits /\ result' = result
  BY DEF vars, disk, ghost
<1>2. Frame
  BY <1>1 DEF Frame
<1>3. TypeDisk' /\ Dated' /\ Virgin' /\ Current' = Current /\ Winners' = Winners
      /\ \A x : WinAt(x)' = WinAt(x) /\ (Clean(x)' <=> Clean(x))
  BY <1>1, DiskSame DEF IBody, Types, Universal
<1>4. FoundIs' /\ Right' /\ Unread' /\ Mounting' /\ Known' /\ Occupied'
  BY <1>1, <1>3 DEF IBody, Universal, FoundIs, Right, Unread, Mounting, Known, PolicyOK, Occupied,
                    FullNow
<1>5. CASE plan = <<>>
  <2>1. Atrest'
    BY <1>1, <1>3, <1>5 DEF IBody, Atrest, StateIs, PolicyOK
  <2> QED BY <1>1, <1>3, <1>4, <1>5, <2>1, AnyStep DEF IBody, Types
<1>6. CASE plan # <<>>
  <2>1. Phase'
    BY <1>1, <1>2, <1>6, PhaseFrame DEF IBody
  <2> QED BY <1>1, <1>3, <1>4, <1>6, <2>1, AnyStep DEF IBody, Types
<1> QED BY <1>5, <1>6

LEMMA InvStep == IInv /\ [Next]_vars => IInv'
<1> SUFFICES ASSUME IInv, [Next]_vars PROVE IInv'
  OBVIOUS
<1>1. CASE Next
  <2>1. kept' \in BOOLEAN
    <3>1. ASSUME NEW P, NEW w, NEW b, Begin(P, w, b) PROVE kept' \in BOOLEAN
      BY <3>1 DEF Begin
    <3>2. Step => kept' = kept
      BY Zenon DEF Step, DoProgram, DoRetire, DoGen, GenRefused, DoPolicy, DoEpoch, DoHead, Rotate,
             NoRotation, DoRefresh, EraseOne, Erased, FillOne, Filled, ResealOne, Resealed, Sync,
             Due, Distrust, Prove, Fail, OpenSession, Done, ghost
    <3>3. Mount \/ Cut \/ Error => kept' = kept
      BY DEF Mount, Cut, Error
    <3>4. BadSuper => kept' = FALSE
      BY DEF BadSuper
    <3>5. Wipe => kept' \in BOOLEAN
      BY <3>1 DEF Wipe, Call
    <3>6. \A p \in Pin : Format(p) \/ Unlock(p) => kept' \in BOOLEAN
      BY <3>1 DEF Format, Unlock, Call
    <3>7. \A s \in sessions, u \in User, d \in Data : Write(s, u, d) => kept' \in BOOLEAN
      BY <3>1 DEF Write, Call
    <3>8. \A s \in sessions, u \in User : Clear(s, u) => kept' \in BOOLEAN
      BY <3>1 DEF Clear, Call
    <3>9. \A s \in sessions, p \in Pin : ChangePin(s, p) => kept' \in BOOLEAN
      BY <3>1 DEF ChangePin, Call
    <3>10. \A s \in sessions, i \in Identity, p \in Pin : AddIdentity(s, i, p) => kept' \in BOOLEAN
      BY <3>1 DEF AddIdentity, Call
    <3>11. \A s \in sessions, v \in Values : SetPolicy(s, v) => kept' \in BOOLEAN
      BY <3>1 DEF SetPolicy, Call
    <3> QED BY <1>1, <3>2, <3>3, <3>4, <3>5, <3>6, <3>7, <3>8, <3>9, <3>10, <3>11 DEF Next, IInv
  <2>2. kept' => IBody'
    BY <1>1, KeptOnce, NextIs DEF IInv
  <2> QED BY <2>1, <2>2 DEF IInv
<1>2. CASE UNCHANGED vars
  <2>1. kept' = kept
    BY <1>2 DEF vars, ghost
  <2> QED BY <1>2, <2>1, StutterIs DEF IInv
<1> QED BY <1>1, <1>2

LEMMA InvIs == Spec => []IInv
<1>1. Init => IInv
  BY InitIs DEF Init, IInv
<1> QED BY <1>1, InvStep, PTL DEF Spec

-----------------------------------------------------------------------------
(***************************************************************************)
(* What follows.                                                           *)
(***************************************************************************)
\* Whatever is cut or fails, and at whatever step, the flash amounts to what the caller was
\* told, or may expect of the call under way (vault.rs, every operation that seals, re-seals,
\* commits or erases).
THEOREM NothingIsLost == Spec => []NothingLost
<1>1. IInv => NothingLost
  <2> SUFFICES ASSUME IInv, kept, NEW x \in DOMAIN found PROVE found[x] \in promised[x]
    BY DEF NothingLost
  <2>1. TypeDisk /\ Universal
    BY DEF IInv, IBody, Types
  <2> QED BY <2>1, Facts
<1> QED BY <1>1, InvIs, PTL

\* What RAM holds after a call that succeeded is what a mount would make of the flash
\* (vault.rs remount, refresh).
THEOREM ViewIsBoots == Spec => []ViewIsWhatBootSees
<1>1. IInv => ViewIsWhatBootSees
  <2> SUFFICES ASSUME IInv, Idle, result = "ok", kept
               PROVE  /\ InStep /\ ram.state = Classify(OnFlash)
                      /\ ram.tamper \/ ram.policy = ledger.policy
    BY DEF ViewIsWhatBootSees
  <2>1. TypeDisk /\ Universal /\ Atrest
    BY DEF IInv, IBody, Types, Idle
  <2>2. /\ ram.ledger = ledger /\ ram.table = Winners /\ StateIs(found) /\ PolicyOK
        /\ \A x \in Slot : Clean(x)
    BY <2>1 DEF Atrest, Idle
  <2>3. OnFlash = Winners /\ \A x \in Slot : Winners[x] = WinAt(x)
    BY <2>1, AtIs, CurrentType DEF ElectOK
  <2>4. Leftovers(ram.table) = {}
    BY <2>2, <2>3 DEF Leftovers, Clean, CleanOf, CleanPair, WinAt
  <2>5. ram.state = Classify(OnFlash)
    <3>1. Owned(Current, ledger.gens) /\ found[First] = PinIn(Current, First)
      BY <2>1, Facts, SlotType
    <3> QED BY <2>1, <2>2, <2>3, <3>1, ClassifyIs DEF StateIs
  <2> QED BY <2>2, <2>3, <2>4, <2>5 DEF InStep, PolicyOK
<1> QED BY <1>1, InvIs, PTL

\* What the flash holds after a call that succeeded are the elected records and nothing else,
\* and, short of a gap, one for every slot (vault.rs cleanup, reseal, fill_unoccupied).
THEOREM FlashIsSilent == Spec => []FlashTellsNothing
<1>1. IInv => FlashTellsNothing
  <2> SUFFICES ASSUME IInv, Idle, result = "ok", kept
               PROVE  /\ \A x \in Slot : \A s \in Side : flash[x][s] # Blank => OnFlash[x] = s
                      /\ ~gap /\ ram.state = "formatted" => \A x \in Slot : OnFlash[x] # "none"
    BY DEF FlashTellsNothing
  <2>1. TypeDisk /\ Universal /\ Atrest /\ plan = <<>>
    BY DEF IInv, IBody, Types, Idle
  <2>2. StateIs(found) /\ \A x \in Slot : Clean(x)
    BY <2>1 DEF Atrest, Idle
  <2>3. OnFlash = Winners
    BY <2>1, AtIs DEF ElectOK
  <2>4. \A x \in Slot : Winners[x] = WinAt(x) /\ (WinAt(x) = "none" <=> Current[x] = Blank)
    BY <2>1, CurrentType
  <2>5. \A x \in Slot : \A s \in Side : flash[x][s] # Blank => OnFlash[x] = s
    BY <2>2, <2>3, <2>4 DEF Clean, CleanOf, CleanPair, WinAt
  <2>6. FullNow
    BY <2>1, HasNone DEF Universal, Occupied
  <2> QED BY <2>2, <2>3, <2>4, <2>5, <2>6 DEF FullNow, FullIn, StateIs
<1> QED BY <1>1, InvIs, PTL

\* A session that check_session lets through seals records that a mount can open.
THEOREM SessionsSeal == Spec => []ValidSessionsSeal
<1>1. IInv => ValidSessionsSeal
  <2> SUFFICES ASSUME IInv, kept, InStep, NEW s \in sessions, Valid(s)
               PROVE  s.gen # 0 /\ found[s.id] = s.key
    BY DEF ValidSessionsSeal
  <2>1. SessOK(sessions, ledger, found)
    BY Facts DEF IInv, IBody, Types
  <2> QED BY <2>1 DEF SessOK, IsCurrent, Valid, InStep
<1> QED BY <1>1, InvIs, PTL

-----------------------------------------------------------------------------
(***************************************************************************)
(* The refinement.                                                         *)
(***************************************************************************)
\* What a mount may find.
Finds(h) ==
  /\ h = [x \in Where |-> h[x]]
  /\ \A i \in Identity : h[i] \in Pin \cup {NoPin}

LEMMA FindsIs == TypeDisk /\ Universal => Finds(found)
<1> SUFFICES ASSUME TypeDisk, Universal PROVE Finds(found)
  OBVIOUS
<1>1. /\ Owned(Current, ledger.gens) /\ found = [x \in Where |-> found[x]]
      /\ \A i \in Identity : found[i] = PinIn(Current, i)
  BY Facts
<1> QED BY <1>1, PinIs DEF Finds

Contents(h) == [u \in User |-> h[u]]
Pins(h) == [i \in Identity |-> h[i]]

LEMMA PutShows ==
  ASSUME NEW h, Finds(h), NEW x \in Where, NEW v
  PROVE  /\ x \in User => /\ Contents(Put(h, x, v)) = [Contents(h) EXCEPT ![x] = v]
                          /\ Pins(Put(h, x, v)) = Pins(h)
         /\ x \in Identity => /\ Pins(Put(h, x, v)) = [Pins(h) EXCEPT ![x] = v]
                              /\ Contents(Put(h, x, v)) = Contents(h)
<1>1. Put(h, x, v)[x] = v /\ \A y \in Where \ {x} : Put(h, x, v)[y] = h[y]
  BY PutIs DEF Finds
<1>2. User \subseteq Where /\ Identity \subseteq Where /\ User \cap Identity = {}
  BY SlotType, NamesAssumption
<1> HIDE DEF Put
<1> QED BY <1>1, <1>2 DEF Contents, Pins

\* What is allowed is a step of the store: of the contents c and the pins q.
StoreStep(c, q, c1, q1) ==
  \/ c1 = c /\ q1 = q
  \/ \E p \in Pin : /\ \A i \in Identity : q[i] = NoPin
                    /\ q1 = [q EXCEPT ![First] = p] /\ c1 = c
  \/ \E u \in User, i \in Identity, d \in Data :
       q[i] # NoPin /\ c1 = [c EXCEPT ![u] = <<i, d>>] /\ q1 = q
  \/ \E u \in User : c1 = [c EXCEPT ![u] = Nothing] /\ q1 = q
  \/ \E i \in Identity, p \in Pin : q[i] # NoPin /\ q1 = [q EXCEPT ![i] = p] /\ c1 = c
  \/ \E i \in Identity, p \in Pin :
       /\ i # First /\ ~(\A j \in Identity : q[j] = NoPin)
       /\ q1 = [q EXCEPT ![i] = p]
       /\ c1 = [u \in User |-> IF c[u] \in {i} \X Data THEN Nothing ELSE c[u]]
  \/ c1 = [u \in User |-> Nothing] /\ q1 = [i \in Identity |-> NoPin]

LEMMA AllowedIs ==
  ASSUME NEW h, Finds(h), NEW f, Allowed(h, f)
  PROVE  StoreStep(Contents(h), Pins(h), Contents(f), Pins(f))
<1> DEFINE c == Contents(h)
           q == Pins(h)
<1>1. /\ User \subseteq Where /\ Identity \subseteq Where /\ User \cap Identity = {}
      /\ First \in Identity
  BY SlotType, NamesAssumption, VaultAssumption
<1>2. \A i \in Identity : q[i] = h[i]
  BY DEF Pins
<1>3. \A u \in User : c[u] = h[u]
  BY DEF Contents
<1>4. ASSUME f = h PROVE StoreStep(c, q, Contents(f), Pins(f))
  BY <1>4 DEF StoreStep
<1>5. ASSUME NEW u \in User, NEW i \in Identity, NEW d \in Data,
             h[i] # NoPin, f = Put(h, u, <<i, d>>)
      PROVE  StoreStep(c, q, Contents(f), Pins(f))
  <2>1. Contents(f) = [c EXCEPT ![u] = <<i, d>>] /\ Pins(f) = q
    BY <1>1, <1>5, PutShows
  <2> HIDE DEF c, q
  <2> QED BY <1>2, <1>5, <2>1 DEF StoreStep
<1>6. ASSUME NEW u \in User, f = Put(h, u, Nothing)
      PROVE  StoreStep(c, q, Contents(f), Pins(f))
  <2>1. Contents(f) = [c EXCEPT ![u] = Nothing] /\ Pins(f) = q
    BY <1>1, <1>6, PutShows
  <2> HIDE DEF c, q
  <2> QED BY <2>1 DEF StoreStep
<1>7. ASSUME NEW i \in Identity, NEW p \in Pin, h[i] # NoPin, f = Put(h, i, p)
      PROVE  StoreStep(c, q, Contents(f), Pins(f))
  <2>1. Pins(f) = [q EXCEPT ![i] = p] /\ Contents(f) = c
    BY <1>1, <1>7, PutShows
  <2> HIDE DEF c, q
  <2> QED BY <1>2, <1>7, <2>1 DEF StoreStep
<1>8. ASSUME NEW p \in Pin, \A i \in Identity : h[i] = NoPin, f = Put(h, First, p)
      PROVE  StoreStep(c, q, Contents(f), Pins(f))
  <2>1. Pins(f) = [q EXCEPT ![First] = p] /\ Contents(f) = c
    BY <1>1, <1>8, PutShows
  <2>2. \A i \in Identity : q[i] = NoPin
    BY <1>2, <1>8
  <2> HIDE DEF c, q
  <2> QED BY <2>1, <2>2 DEF StoreStep
<1>9. ASSUME NEW i \in Identity, NEW p \in Pin, i # First, h[First] # NoPin,
             f = [x \in Where |-> IF h[x] \in {i} \X Data THEN Nothing
                                  ELSE IF x = i THEN p ELSE h[x]]
      PROVE  StoreStep(c, q, Contents(f), Pins(f))
  <2>1. \A j \in Identity : h[j] \notin {i} \X Data
    <3>1. \A j \in Identity : h[j] \notin Identity \X Data
      BY NamesAssumption DEF Finds
    <3> QED BY <1>9, <3>1
  <2>2. \A j \in Identity : f[j] = IF j = i THEN p ELSE h[j]
    BY <1>1, <1>9, <2>1
  <2>3. Pins(f) = [q EXCEPT ![i] = p]
    BY <2>2 DEF Pins
  <2>4. \A u \in User : f[u] = IF h[u] \in {i} \X Data THEN Nothing ELSE h[u]
    BY <1>1, <1>9
  <2>5. Contents(f) = [u \in User |-> IF c[u] \in {i} \X Data THEN Nothing ELSE c[u]]
    BY <1>3, <2>4 DEF Contents
  <2>6. ~(\A j \in Identity : q[j] = NoPin)
    BY <1>1, <1>2, <1>9
  <2> HIDE DEF c, q
  <2> QED BY <1>9, <2>3, <2>5, <2>6 DEF StoreStep
<1>10. ASSUME f = Nobody PROVE StoreStep(c, q, Contents(f), Pins(f))
  <2>1. Contents(f) = [u \in User |-> Nothing] /\ Pins(f) = [i \in Identity |-> NoPin]
    BY <1>1, <1>10 DEF Contents, Pins, Nobody
  <2> HIDE DEF c, q
  <2> QED BY <2>1 DEF StoreStep
<1> HIDE DEF c, q
<1>11. StoreStep(c, q, Contents(f), Pins(f))
  BY <1>4, <1>5, <1>6, <1>7, <1>8, <1>9, <1>10, Zenon DEF Allowed
<1> QED BY <1>11 DEF c, q

LEMMA StoreStepIs ==
  ASSUME NEW c, c = Contents(found), NEW q, q = Pins(found),
         NEW c1, c1 = Contents(found'), NEW q1, q1 = Pins(found'),
         StoreStep(c, q, c1, q1), kept, kept' = kept
  PROVE  Store!Next
<1>1. /\ [u \in User |-> found[u]]' = c1 /\ [i \in Identity |-> found[i]]' = q1
      /\ [u \in User |-> found[u]] = c /\ [i \in Identity |-> found[i]] = q
  BY DEF Contents, Pins
<1>2. ASSUME c1 = c, q1 = q PROVE Store!Next
  BY <1>1, <1>2 DEF Store!Next, Store!Quiet, Store!store
<1>3. ASSUME NEW p \in Pin, \A i \in Identity : q[i] = NoPin, q1 = [q EXCEPT ![First] = p], c1 = c
      PROVE  Store!Next
  <2>1. Store!Format(p)
    BY <1>1, <1>3 DEF Store!Format, Store!Closed
  <2> QED BY <2>1 DEF Store!Next
<1>4. ASSUME NEW u \in User, NEW i \in Identity, NEW d \in Data,
             q[i] # NoPin, c1 = [c EXCEPT ![u] = <<i, d>>], q1 = q
      PROVE  Store!Next
  <2>1. Store!Put(u, i, d)
    BY <1>1, <1>4 DEF Store!Put
  <2> QED BY <2>1 DEF Store!Next
<1>5. ASSUME NEW u \in User, c1 = [c EXCEPT ![u] = Nothing], q1 = q PROVE Store!Next
  <2>1. Store!Drop(u)
    BY <1>1, <1>5 DEF Store!Drop
  <2> QED BY <2>1 DEF Store!Next
<1>6. ASSUME NEW i \in Identity, NEW p \in Pin, q[i] # NoPin, q1 = [q EXCEPT ![i] = p], c1 = c
      PROVE  Store!Next
  <2>1. Store!ChangePin(i, p)
    BY <1>1, <1>6 DEF Store!ChangePin
  <2> QED BY <2>1 DEF Store!Next
<1>7. ASSUME NEW i \in Identity, NEW p \in Pin,
             i # First, ~(\A j \in Identity : q[j] = NoPin), q1 = [q EXCEPT ![i] = p],
             c1 = [u \in User |-> IF c[u] \in {i} \X Data THEN Nothing ELSE c[u]]
      PROVE  Store!Next
  <2>1. Store!Enrol(i, p)
    BY <1>1, <1>7 DEF Store!Enrol, Store!Closed
  <2> QED BY <2>1 DEF Store!Next
<1>8. ASSUME c1 = [u \in User |-> Nothing], q1 = [i \in Identity |-> NoPin] PROVE Store!Next
  <2>1. Store!Wipe
    BY <1>1, <1>8 DEF Store!Wipe
  <2> QED BY <2>1 DEF Store!Next
<1> QED BY <1>2, <1>3, <1>4, <1>5, <1>6, <1>7, <1>8 DEF StoreStep

LEMMA InitIsStore == Init => Store!Init
<1> SUFFICES ASSUME Init PROVE Store!Init
  OBVIOUS
<1>1. IBody /\ Bare
  BY InitIs
<1>2. Finds(found) /\ found = FoundOf(Current, ledger.gens) /\ Owned(Current, ledger.gens)
  BY <1>1, FindsIs, Facts DEF IBody, Types
<1>3. \A u \in User : found[u] = Nothing
  BY <1>1, <1>2, FoundAt, HoldsIs DEF Bare
<1>4. kept = TRUE
  BY DEF Init
<1> QED BY <1>2, <1>3, <1>4 DEF Store!Init, Finds

LEMMA StepIsStore == IInv /\ IInv' /\ [Next]_vars => [Store!Next]_(Store!store)
<1> SUFFICES ASSUME IInv, IInv', [Next]_vars PROVE Store!Next
  OBVIOUS
<1>1. CASE kept /\ ~kept'
  BY <1>1 DEF IInv, Store!Next, Store!GiveUp
<1>2. CASE ~kept
  <2>1. ~kept'
    <3>1. CASE Next
      BY <1>2, <3>1, KeptOnce DEF IInv
    <3>2. CASE UNCHANGED vars
      BY <1>2, <3>2 DEF vars, ghost
    <3> QED BY <3>1, <3>2
  <2> QED BY <1>2, <2>1 DEF IInv, Store!Next
<1>3. CASE kept /\ kept'
  <2>1. IBody /\ kept' = kept
    BY <1>3 DEF IInv
  <2>2. Finds(found)
    BY <2>1, FindsIs DEF IBody, Types
  <2>3. Allowed(found, found')
    <3>1. CASE Next
      BY <1>3, <2>1, <3>1, NextIs
    <3>2. CASE UNCHANGED vars
      BY <2>1, <3>2, StutterIs DEF Allowed
    <3> QED BY <3>1, <3>2
  <2>4. ASSUME NEW h, h = found, NEW f, f = found'
        PROVE  StoreStep(Contents(h), Pins(h), Contents(f), Pins(f))
    BY <2>2, <2>3, <2>4, AllowedIs
  <2> QED BY <1>3, <2>1, <2>4, StoreStepIs
<1> QED BY <1>1, <1>2, <1>3

\* The operations of the vault, each of them many writes any of which a cut or an error may
\* end, appear to a caller who keeps his side as indivisible operations on a store of slots
\* and PINs (vault.rs).
THEOREM VaultIsStore == Spec => ImplementsWalletStore
<1>1. IInv /\ [Next]_vars => IInv'
  BY InvStep
<1>2. Init => IInv
  BY InitIs DEF Init, IInv
<1> QED BY <1>1, <1>2, InitIsStore, StepIsStore, PTL DEF Spec, ImplementsWalletStore, Store!Spec

-----------------------------------------------------------------------------
(***************************************************************************)
(* What the store promises of a single identity: a mount, a record sealed  *)
(* and a generation committed.                                             *)
(***************************************************************************)
\* Of the identities that a step leaves alone.
LEMMA AloneBack ==
  ASSUME Finds(found), Allowed(found, found'), Alone'
  PROVE  Alone \/ ~Held'
<1>1. /\ DOMAIN found = Where /\ First \in Identity /\ Identity \subseteq Where
      /\ \A u \in User : u \notin Identity
      /\ NoPin \notin Pin
      /\ found = [x \in Where |-> found[x]]
      /\ First \in Where
  BY SlotType, NamesAssumption, KeysDiffer DEF Finds
<1>2. CASE found' = found
  BY <1>2 DEF Alone
<1>3. CASE \E u \in User, i \in Identity, d \in Data : found' = Put(found, u, <<i, d>>)
  <2>1. PICK u \in User, i \in Identity, d \in Data : found' = Put(found, u, <<i, d>>)
    BY <1>3
  <2>2. \A j \in Identity : found'[j] = found[j]
    BY <1>1, <2>1 DEF Put
  <2> QED BY <1>1, <2>2 DEF Alone
<1>4. CASE \E u \in User : found' = Put(found, u, Nothing)
  <2>1. PICK u \in User : found' = Put(found, u, Nothing)
    BY <1>4
  <2>2. \A i \in Identity : found'[i] = found[i]
    BY <1>1, <2>1 DEF Put
  <2> QED BY <1>1, <2>2 DEF Alone
<1>5. CASE \E i \in Identity, p \in Pin : found[i] # NoPin /\ found' = Put(found, i, p)
  <2>1. PICK i \in Identity, p \in Pin : found' = Put(found, i, p)
    BY <1>5
  <2>2. \A j \in Identity : found'[j] = IF j = i THEN p ELSE found[j]
    BY <1>1, <2>1 DEF Put
  <2> QED BY <1>1, <2>2 DEF Alone
<1>6. CASE \E p \in Pin : (\A i \in Identity : found[i] = NoPin) /\ found' = Put(found, First, p)
  BY <1>6 DEF Alone
<1>7. CASE \E i \in Identity, p \in Pin :
             /\ i # First /\ found[First] # NoPin
             /\ found' = [x \in Where |-> IF found[x] \in {i} \X Data THEN Nothing
                                          ELSE IF x = i THEN p ELSE found[x]]
  <2>1. PICK i \in Identity, p \in Pin :
          /\ i # First
          /\ found' = [x \in Where |-> IF found[x] \in {i} \X Data THEN Nothing
                                       ELSE IF x = i THEN p ELSE found[x]]
    BY <1>7
  <2>2. found[i] \notin {i} \X Data
    BY <2>1, NamesAssumption DEF Finds
  <2>3. found'[i] = p
    BY <1>1, <2>1, <2>2
  <2> QED BY <1>1, <2>1, <2>3 DEF Alone
<1>8. CASE found' = Nobody
  <2>1. Nobody[First] = NoPin
    BY <1>1, NamesAssumption DEF Nobody, Where
  <2> QED BY <1>8, <2>1 DEF Held
<1> QED BY <1>2, <1>3, <1>4, <1>5, <1>6, <1>7, <1>8 DEF Allowed

LEMMA QuietMount ==
  ASSUME IBody, JBody, Mount PROVE JBody'
<1>1. plan = <<>> /\ ram.state = "off" /\ plan' = MountPlan /\ UNCHANGED <<disk, ram, hits>>
  BY DEF Mount, MountPlan
<1>2. /\ \E e, f : Needs(MountPlan, e, f, f, {}, TRUE)
      /\ MountPlan[1] = Simple("refresh") /\ MountPlan \in Seq(Steps) /\ MountPlan # <<>>
      /\ ~Has(MountPlan, "distrust") /\ ~Has(MountPlan, "gen")
  <2>1. FullIn(TRUE, Current, found)
    BY DEF FullIn
  <2>2. Needs(MountPlan, Current, found, found, {}, TRUE)
    BY <2>1, MountPlanIs
  <2>3. \A v : Has(MountPlan, v) <=> v \in {"refresh", "due", "cleanup", "sync", "mounted"}
    BY <2>1, MountPlanIs
  <2>4. MountPlan[1] = Simple("refresh") /\ MountPlan \in Seq(Steps) /\ MountPlan # <<>>
    BY <2>1, MountPlanIs
  <2>5. ~Has(MountPlan, "distrust") /\ ~Has(MountPlan, "gen")
    BY <2>3
  <2>6. \E e, f : Needs(MountPlan, e, f, f, {}, TRUE)
    BY <2>2
  <2> QED BY <2>4, <2>5, <2>6
<1>3. TellOf(plan') = {} /\ TellOf(plan) = {}
  BY <1>1, <1>2, NeedsTold, TellNone
<1>4. NoGen(plan')
  BY <1>1, <1>2, MuteNoGen
<1>5. Entered' /\ BlankHeld'
  BY <1>1, <1>2, <1>4, NoGenEnters DEF BlankHeld
<1>6. Current' = Current /\ ~Now("refresh")
  BY <1>1, DiskSame DEF disk, Now
<1> QED BY <1>1, <1>2, <1>3, <1>5, <1>6, Quiet DEF disk

\* It is a record that counts.
LEMMA SealWitness ==
  ASSUME IBody, JBody, plan # <<>>, plan[1].do = "program", plan' = Tail(plan), Seal(plan),
         NEW st, st = plan[1], Wrote(st)
  PROVE  JBody'
<1> DEFINE x == st.slot
           t == Target(x)
           r == Sealed(st)
           T == Tail(plan)
           K == Tail(T)
           e == Put(Current, x, r)
           f == FoundOf(e, ledger.gens)
<1>1. Types /\ Universal /\ Phase /\ TypeDisk
  BY InPhase DEF Types
<1>2. /\ Len(plan) >= 3 /\ st \in Programs /\ ~st.later
      /\ Live /\ ram.table = Winners /\ Fit(ledger, x, r) /\ Ahead(e, ledger)
      /\ Ready(K, e, f) /\ RamFor(K, f)
  BY DEF Seal
<1>3. WroteOK(x, t, r, FALSE)
  <2>1. st.later = FALSE
    BY <1>2, StepKinds
  <2> QED BY <1>1, <1>2, <2>1, WroteIs
<1>4. Mute(T) /\ T \in Seq(Steps) /\ ~Has(T, "distrust") /\ OnlyWits(plan)
  BY <1>1, SealTold, TrustTail DEF Types
<1>5. Current \in [Slot -> Record \cup {Blank}] /\ x \in Slot /\ r \in Record
      /\ r.key = st.key /\ r.body = st.body
  BY <1>1, <1>2, <1>3, CurrentType, SealedIs DEF WroteOK
<1>6. st.do = "program"
  OBVIOUS
<1>7. K[1].do = "refresh" => Has(T, "refresh")
  <2>1. K # <<>> /\ K \in Seq(Steps)
    BY <1>2 DEF Ready, Needs
  <2>2. K[1].do = "refresh" => Has(K, "refresh")
    BY <2>1, TellTail
  <2>3. T # <<>>
    BY <2>1, <1>1, <1>2, TailIs DEF Types
  <2> QED BY <1>4, <2>2, <2>3, TellTail
<1> HIDE DEF x, t, r, T, K, e, f
<1>8. /\ Current' = e /\ found' = f /\ ledger' = ledger /\ ram' = ram /\ hits' = hits
      /\ Allowed(found, found')
  BY <1>1, <1>2, <1>3, WroteHere DEF WroteOK, e, f
<1>9. /\ e[x] = r /\ \A y \in Slot \ {x} : e[y] = Current[y]
      /\ Owned(e, ledger.gens) /\ f[First] = PinIn(e, First) /\ First \in Slot
  <2>1. Owned(e, ledger.gens)
    BY <1>2 DEF Ahead, Sound
  <2>2. f[First] = PinIn(e, First) /\ First \in Slot
    BY FoundAt, SlotType DEF f
  <2> QED BY <1>5, <2>1, <2>2, PutRecord DEF e
<1>10. Held' <=> e[First] # Blank
  BY <1>8, <1>9, FirstIs DEF Held
<1>11. CASE ~Held'
  BY <1>4, <1>11, Blown DEF T
<1>12. CASE Held'
  <2>1. ASSUME Alone' PROVE Alone
    BY <1>1, <1>8, <1>12, <2>1, FindsIs, AloneBack
  <2>2. ~ToDo("head") /\ ~ToDo("policy")
    BY <1>4 DEF OnlyWits, Wit, ToDo, Told
  <2>3. ~Now("refresh")
    BY DEF Now
  <2>4. ASSUME Alone' PROVE Near' /\ Informed'
    <3>0. Lonely
      BY <2>1, <2>4 DEF JBody
    <3>1. CASE x = First
      <4>1. r.key \in Pin
        BY <1>9, <1>10, <1>12, <3>1, FirstIs
      <4>2. Wit(st) /\ st \in Told
        <5>1. Wit(st)
          BY <1>5, <3>1, <4>1 DEF Wit, x
        <5> QED BY <1>1, <5>1, TellTail DEF Told, Telling, Types
      <4>3. r.body = ledger.policy /\ Firm
        BY <1>5, <2>2, <2>3, <3>0, <4>2 DEF Lonely, Witnessing, Coming
      <4>4. Witness' = ledger.policy
        BY <1>8, <1>9, <3>1, <4>3, ToldNext
      <4> QED BY <1>8, <4>3, <4>4 DEF Near, Informed, Firm
    <3>2. CASE x # First
      <4>1. e[First] = Current[First]
        BY <1>9, <3>2
      <4>2. Held
        BY <1>1, <1>10, <1>12, <4>1, Facts DEF Held
      <4>3. Witness' = Witness
        BY <1>8, <4>1, ToldNext DEF Witness
      <4>4. ~Pending
        <5>1. ~Telling(st)
          BY <3>2 DEF Telling, Wit, x
        <5>2. Told = {}
          BY <1>1, <1>4, <5>1, TellTail DEF Told, Mute, T, Types
        <5> QED BY <5>2 DEF Pending
      <4> QED BY <1>8, <2>3, <3>0, <4>2, <4>3, <4>4 DEF Lonely, Near, Informed
    <3> QED BY <3>1, <3>2
  <2>5. Entered'
    BY <1>4, MuteNoGen, NoGenEnters DEF Mute, T
  <2>6. BlankHeld'
    <3>1. ASSUME ram'.state = "blank" PROVE Has(T, "refresh")
      <4>1. ~StateIs(f)
        BY <1>8, <1>12, <3>1 DEF StateIs, Held
      <4> QED BY <1>2, <1>7, <4>1 DEF RamFor
    <3> QED BY <1>4, <3>1, ToldNext DEF BlankHeld, Mute, T
  <2> QED BY <1>1, <1>4, <2>4, <2>5, <2>6, Silent DEF Mute, T
<1> QED BY <1>11, <1>12

LEMMA Programmed ==
  ASSUME IBody, JBody, DoProgram PROVE JBody'
<1>1. plan # <<>> /\ plan[1].do = "program" /\ plan' = Tail(plan)
  BY DEF DoProgram, Now, Next1
<1>2. Types /\ Universal /\ Phase /\ TypeDisk
  BY <1>1, InPhase DEF Types
<1>3. \/ Seal(plan) \/ Canary(plan) \/ ResealingOne(plan) \/ FirstCanary(plan)
      \/ \E p \in Pin : FormatFacts(p) /\ Formatting2(p, plan)
  BY <1>1, <1>2, PhaseHead
<1>4. plan[1] \in Programs
  <2>1. plan[1] \in Steps
    BY <1>1, <1>2, TailHas
  <2> QED BY <1>1, <2>1 DEF Steps, ResealSteps
<1>5. Wrote(plan[1])
  BY <1>4 DEF DoProgram, Wrote, ghost
<1>6. ASSUME NEW st, st = plan[1], Live,
             WroteOK(st.slot, Target(st.slot), Sealed(st), st.later),
             found' = found, Current'[First] = Current[First], st.slot # First, NoGen(plan')
      PROVE  JBody'
  BY <1>1, <1>2, <1>6, QuietTail DEF WroteOK, Wit
<1>7. ASSUME NEW st, st = plan[1] PROVE JBody'
  <2>1. Wrote(st)
    BY <1>5, <1>7
  <2>2. CASE Seal(plan)
    BY <1>1, <1>7, <2>1, <2>2, SealWitness
  <2>3. CASE Canary(plan)
    BY <1>1, <1>7, <2>1, <2>3, CanaryTold
  <2>4. CASE FirstCanary(plan)
    BY <1>1, <1>7, <2>1, <2>4, FirstTold
  <2>5. CASE ResealingOne(plan)
    <3> DEFINE x == st.slot
               t == Target(x)
               r == Sealed(st)
               P == Tail(plan)
    <3>1. /\ Len(plan) = 10 /\ Resealing(P) /\ st \in Programs /\ x \in User /\ InSlot(x)
          /\ IsOld(Current[x], plan[2]) /\ r = Resealed1(Current[x], plan[2])
      BY <1>7, <2>5 DEF ResealingOne
    <3>2. plan[2] = P[1] /\ P \in Seq(Steps)
      <4>1. /\ Len(plan) \in Nat /\ P \in Seq(Steps)
            /\ \A n \in 1 .. (Len(plan) - 1) : P[n] = plan[n + 1]
        BY <1>1, <1>2, TailHas
      <4> HIDE DEF P
      <4>2. 1 \in 1 .. (Len(plan) - 1)
        BY <3>1
      <4>3. P[1] = plan[1 + 1]
        BY <4>1, <4>2
      <4> QED BY <4>1, <4>3
    <3>3. Live /\ Fresh(P[1].gen) /\ P[1].gen \in Nat
      BY <3>1 DEF Resealing, ResealFacts, ResealSteps
    <3>4. WroteOK(x, t, r, st.later)
      BY <1>2, <2>1, <3>3, WroteIs
    <3>5. x \in Slot \ {Super} /\ x # First /\ ram.table[x] = WinAt(x)
      BY <3>1, SlotType, NamesAssumption DEF InSlot
    <3>6. r.gen = P[1].gen /\ r \in Record
      <4> HIDE DEF x, t, r, P
      <4> DEFINE c == Current[x]
                 y == plan[2]
      <4>1. r = Resealed1(c, y) /\ y = P[1]
        BY <3>1, <3>2
      <4>2. r \in Record
        BY <3>4 DEF WroteOK
      <4> HIDE DEF c, y
      <4>3. Resealed1(c, y).gen = y.gen
        BY DEF Resealed1, Rec
      <4> QED BY <4>1, <4>2, <4>3
    <3>7. t # WinAt(x)
      BY <1>2, <3>5, TargetIsFree
    <3>8. P[1].do = "reseal" /\ P # <<>>
      BY <3>1, <3>2, ResealTold
    <3> HIDE DEF x, t, r, P
    <3>9. ~Fit(ledger, x, r)
      BY <1>2, <3>3, <3>5, <3>6, UnfitIs
    <3>10. Current' = Current /\ found' = found
      BY <1>2, <3>3, <3>4, <3>7, <3>9, WroteAhead
    <3>11. NoGen(plan')
      BY <1>1, <3>8 DEF NoGen, NoEntry, P
    <3> QED BY <1>6, <1>7, <3>3, <3>4, <3>5, <3>10, <3>11 DEF x, t, r
  <2>6. CASE \E p \in Pin : FormatFacts(p) /\ Formatting2(p, plan)
    <3> DEFINE b == ledger.policy
               r == Sealed(st)
               e == Put(Current, Super, r)
    <3>1. PICK p \in Pin : FormatFacts(p) /\ Formatting2(p, plan)
      BY <2>6
    <3>2. /\ plan = Tail(Tail(FormatPlan(p, b))) /\ Live
      BY <3>1 DEF Formatting2
    <3>3. st = NowStep(Super, Super, 0, b) /\ plan'[1] = RetireStep(Super)
          /\ Tail(plan')[1] = FormatWit(p, b)
      <4>1. /\ plan[1] = SealStep(Super, Super, 0, b, FALSE) /\ plan'[1] = RetireStep(Super)
            /\ Tail(plan') = Tail(Tail(Tail(Tail(FormatPlan(p, b)))))
        BY <1>1, <3>2, FormatPlanIs
      <4> QED BY <1>7, <4>1, FormatTold DEF NowStep
    <3>4. Super \in Slot /\ Super # First /\ b \in Policies
      BY <1>2, SlotType, LedgerType, NamesAssumption, VaultAssumption DEF Types
    <3>5. StepIs(st, Super, Super, 0, b) /\ ~st.later
      BY <3>3, <3>4, NowStepIs DEF Key, Body
    <3>6. WroteOK(st.slot, Target(st.slot), r, st.later)
      BY <1>2, <2>1, <3>2, WroteIs
    <3>7. r \in Record /\ r.body = b /\ r.epoch = ledger.epoch /\ st.slot = Super
      BY <1>2, <3>2, <3>5, SealedIs DEF StepIs, Live
    <3> HIDE DEF r, b
    <3>8. Fit(ledger, Super, r)
      BY <3>7, FitIs
    <3>9. Owned(e, ledger.gens) /\ FoundOf(e, ledger.gens) = found /\ Ahead(e, ledger)
          /\ e[First] = Current[First]
      <4>1. Owned(Current, ledger.gens) /\ found = FoundOf(Current, ledger.gens)
        BY <1>2, Facts
      <4>2. Owned(e, ledger.gens) /\ FoundOf(e, ledger.gens) = FoundOf(Current, ledger.gens)
        BY <3>4, <3>7, <4>1, PutSuper
      <4>3. \A x \in Slot \ {Super} : e[x] = Current[x]
        <5>1. Current \in [Slot -> Record \cup {Blank}]
          BY <1>2, CurrentType
        <5> QED BY <3>4, <3>7, <5>1, PutRecord
      <4>4. \A x \in (Identity \cup User) \ {First} : e[x] = Current[x]
        BY <4>3, SlotType, NamesAssumption
      <4>5. e[First] = Current[First]
        BY <3>4, <4>3, SlotType
      <4> HIDE DEF e
      <4> QED BY <1>2, <4>1, <4>2, <4>4, <4>5, AheadSame
    <3>10. Current' = e /\ found' = found
      BY <1>2, <3>2, <3>6, <3>7, <3>8, <3>9, WroteHere
    <3> HIDE DEF e
    <3>11. NoGen(plan')
      <4>1. RetireStep(Super).do = "retire" /\ FormatWit(p, b).do = "program"
        BY DEF RetireStep, FormatWit, SealStep
      <4> QED BY <3>3, <4>1 DEF NoGen, NoEntry
    <3> QED BY <1>6, <1>7, <3>2, <3>4, <3>6, <3>7, <3>9, <3>10, <3>11 DEF r
  <2> QED BY <1>3, <2>2, <2>3, <2>4, <2>5, <2>6
<1> QED BY <1>7

LEMMA Committed ==
  ASSUME IBody, JBody, DoGen PROVE JBody'
<1> DEFINE g == plan[1]
           T == Tail(plan)
           l == WithGen(ledger, g)
           e == CurrentOf(l)
<1>1. /\ plan # <<>> /\ g.do = "gen" /\ plan' = T /\ ledger' = l
      /\ ram' = [ram EXCEPT !.ledger.gens[g.id] = g.gen, !.ledger.used = ledger'.used]
      /\ UNCHANGED <<flash, last, sessions, goal, promised, gap, hits>>
  BY DEF DoGen, Now, Next1, ghost
<1>2. Types /\ Universal /\ Phase /\ TypeDisk /\ ram.state # "off"
  BY <1>1, InPhase, Awake DEF Types
<1>3. Commit(plan)
  BY <1>1, <1>2, PhaseHead
<1>4. /\ Len(plan) >= 2 /\ g \in [do : {"gen"}, id : Identity, gen : Nat] /\ Live
      /\ plan[2].do = "refresh" /\ Ahead(e, l)
  BY <1>3 DEF Commit, Gen
<1>5. l.policy = ledger.policy
  BY <1>2, <1>4, GenLedger
<1>6. T \in Seq(Steps) /\ T # <<>> /\ T[1].do = "refresh"
  <2>1. 1 \in 1 .. (Len(plan) - 1)
    BY <1>1, <1>2, <1>4, TailHas
  <2>2. T \in Seq(Steps) /\ T # <<>> /\ T[1] = plan[1 + 1]
    BY <1>1, <1>2, <1>4, <2>1, TailHas
  <2> QED BY <1>4, <2>2
<1>7. TellOf(plan) = {} /\ Mute(T)
  BY <1>2, <1>3, CommitTold DEF Types
<1>8. IBody' /\ Allowed(found, found')
  BY StepGen
<1> HIDE DEF l
<1>9. ram'.state = ram.state /\ ram'.policy = ram.policy /\ ram'.tamper = ram.tamper
  BY <1>1, <1>2 DEF Types, Memory
<1>10. Current' = e
  BY <1>1 DEF Current, CurrentOf
<1> HIDE DEF e, T
<1>11. Owned(e, l.gens) /\ (Held' <=> e[First] # Blank)
  <2>1. Owned(e, l.gens)
    BY <1>4 DEF Ahead, Sound
  <2>2. found' = FoundOf(e, l.gens)
    BY <1>1, <1>8, <1>10 DEF IBody, Universal, FoundIs
  <2>3. First \in Identity
    BY SlotType
  <2> QED BY <2>1, <2>2, <2>3, FoundAt, FirstIs DEF Held
<1>12. ASSUME Alone', Held' PROVE Near' /\ Informed'
  <2>1. Lonely /\ ~Now("refresh") /\ ~Now("retire")
    <3>1. Finds(found)
      BY <1>2, FindsIs
    <3>2. Alone
      BY <1>8, <1>12, <3>1, AloneBack
    <3> QED BY <1>1, <3>2 DEF JBody, Now
  <2>2. ~Pending
    BY <1>7 DEF Pending, Told
  <2>3. (Firm /\ e[First].body = ledger.policy) \/ (Held /\ e[First] = Current[First])
    <3>1. e = CurrentOf(l) /\ l = WithGen(ledger, plan[1]) /\ e[First] # Blank
      BY <1>11, <1>12 DEF e, l
    <3> QED BY <1>1, <1>2, <1>3, <2>1, <3>1, GenWitness
  <2>4. Witness' = e[First].body /\ ledger'.policy = ledger.policy /\ hits' = hits
    BY <1>1, <1>5, <1>10, ToldNext
  <2>5. CASE Firm /\ e[First].body = ledger.policy
    <3>1. Near'
      BY <2>4, <2>5 DEF Near
    <3>2. Informed'
      BY <1>9, <2>4, <2>5 DEF Informed, Firm
    <3> QED BY <3>1, <3>2
  <2>6. CASE Held /\ e[First] = Current[First]
    <3>1. Near /\ Informed /\ Witness' = Witness
      BY <2>1, <2>4, <2>6 DEF Lonely, Witness
    <3>2. Near'
      BY <2>2, <2>4, <3>1 DEF Near
    <3>3. Informed'
      BY <1>2, <1>4, <1>9, <2>1, <2>4, <3>1 DEF Informed, Live
    <3> QED BY <3>2, <3>3
  <2> QED BY <2>3, <2>5, <2>6
<1>13. Entered'
  <2>1. NoGen(T)
    BY <1>6 DEF NoGen, NoEntry
  <2> QED BY <1>1, <1>6, <2>1, NoGenEnters
<1>14. BlankHeld'
  <2>1. Has(T, "refresh") /\ ~Has(T, "gen")
    BY <1>6, <1>7, TellTail DEF Mute
  <2> QED BY <1>1, <2>1, ToldNext DEF BlankHeld
<1>15. TellOf(plan') = {} /\ plan' = Tail(plan)
  BY <1>1, <1>7 DEF Mute, T
<1> QED BY <1>1, <1>2, <1>12, <1>13, <1>14, <1>15, Silent

-----------------------------------------------------------------------------
(***************************************************************************)
(* A cut, or an error: the first.                                          *)
(***************************************************************************)
\* What is to be shown of it, and of the canary that is then elected.
Behind ==
  Held' => /\ Witness' = ledger'.policy \/ Witness'.gen + 1 = ledger'.policy.gen
           /\ ~ram.tamper
           /\ ram.state # "off" /\ ram.ledger = ledger' => ram.policy = ledger'.policy

LEMMA TornHolds ==
  ASSUME TornOK PROVE Held' <=> Current'[First] # Blank
<1>1. found' = FoundOf(Current', ledger'.gens) /\ Owned(Current', ledger'.gens) /\ First \in Identity
  BY SlotType DEF TornOK, FoundIs, Right, Sound
<1> QED BY <1>1, FoundAt, FirstIs DEF Held

\* It is the one that was.
LEMMA BehindSame ==
  ASSUME Types, Universal, TornOK, Lonely, hits = 0,
         Current'[First] = Current[First], ledger'.policy = ledger.policy
  PROVE  Behind
<1>1. ASSUME Held' PROVE Held
  BY <1>1, TornHolds, Facts DEF Held, Types
<1>2. Witness' = Witness
  BY ToldNext DEF Witness
<1>3. ASSUME Held PROVE Near /\ Informed
  BY <1>3 DEF Lonely
<1>4. Near => Witness = ledger.policy \/ Witness.gen + 1 = ledger.policy.gen
  BY DEF Near
<1>5. Informed => ~ram.tamper /\ (ram.state # "off" /\ ram.ledger = ledger => ram.policy = ledger.policy)
  BY DEF Informed
<1>6. ledger' = ledger \/ ram.ledger = ledger
  BY DEF TornOK
<1> QED BY <1>1, <1>2, <1>3, <1>4, <1>5, <1>6 DEF Behind

\* A record that is there though the call does not go on: one that does not count,
\* and one that does.
LEMMA BehindUnfit ==
  ASSUME Types, Universal, TornOK, Lonely, hits = 0,
         NEW x \in Slot, NEW t \in Side, NEW r, ~Fit(ledger, x, r), t # WinAt(x),
         flash' = [flash EXCEPT ![x][t] = r], last' = [last EXCEPT ![x] = t], ledger' = ledger
  PROVE  Behind
<1>1. TypeDisk /\ last' \in {last, [last EXCEPT ![x] = t]}
  BY DEF Types
<1>2. t # Win(ledger, x, flash[x], last[x])
  BY DEF WinAt
<1>3. CurOf(flash', last', ledger) = CurOf(flash, last, ledger)
  BY <1>1, <1>2, Weeded
<1> QED BY <1>3, BehindSame DEF Current

LEMMA SealedCounts ==
  ASSUME Types, Universal, NEW x \in Slot, NEW t \in Side, NEW r \in Record,
         r.epoch = ledger.epoch, ledger.live, Fit(ledger, x, r),
         flash' = [flash EXCEPT ![x][t] = r], last' = [last EXCEPT ![x] = t], ledger' = ledger
  PROVE  Current'[x] = r
<1>1. TypeDisk /\ Dated /\ Virgin
  BY DEF Types, Universal
<1>2. Current' = Put(Current, x, r)
  BY <1>1, Crowned
<1>3. Current \in [Slot -> Record \cup {Blank}]
  BY <1>1, CurrentType
<1> QED BY <1>2, <1>3, PutRecord

LEMMA BehindSealed ==
  ASSUME Types, Universal, Phase, plan # <<>>, plan[1].do = "program", TornOK, Lonely, hits = 0,
         NEW st, st = plan[1],
         flash' = [flash EXCEPT ![st.slot][Target(st.slot)] = Sealed(st)],
         last' = [last EXCEPT ![st.slot] = Target(st.slot)], ledger' = ledger
  PROVE  Behind
<1> DEFINE x == st.slot
           t == Target(x)
           r == Sealed(st)
<1>1. st \in Programs /\ x \in Slot /\ Live /\ t \in Side /\ t # WinAt(x)
  BY ProgramIs
<1>2. /\ r \in Record /\ r.epoch = ledger.epoch /\ r.key = st.key /\ r.body = st.body
      /\ ledger.live
  BY <1>1, SealedIs DEF Live
<1>3. TypeDisk /\ Dated /\ Virgin
  BY DEF Types, Universal
<1>4. /\ flash' = [flash EXCEPT ![x][t] = r] /\ last' = [last EXCEPT ![x] = t]
  OBVIOUS
<1>5. ASSUME x = First, NEW n \in Nat, Fresh(n), r.gen = n PROVE Behind
  <2> HIDE DEF r, t, x
  <2>1. x \in Slot \ {Super}
    BY <1>1, <1>5, NamesAssumption, SlotType
  <2>2. ~Fit(ledger, x, r)
    BY <1>2, <1>3, <1>5, <2>1, UnfitIs
  <2> QED BY <1>1, <1>4, <2>2, BehindUnfit
<1>6. CASE x # First
  <2>1. flash'[First] = flash[First] /\ last'[First] = last[First]
    BY <1>3, <1>4, <1>6, SlotType DEF TypeDisk, Flashes, Lasts
  <2>2. Current'[First] = Current[First]
    BY <2>1, SlotType DEF Current, CurOf
  <2> QED BY <2>2, BehindSame
<1>7. CASE x = First /\ Seal(plan)
  <2>1. OnlyWits(plan)
    BY <1>7, SealTold DEF Types
  <2>2. Fit(ledger, x, r)
    BY <1>7 DEF Seal
  <2> HIDE DEF r, t, x
  <2>5. Current'[First] = r
    BY <1>1, <1>2, <1>4, <1>7, <2>2, SealedCounts
  <2>6. ASSUME Held' PROVE Firm /\ r.body = ledger.policy
    <3>1. r.key \in Pin
      <4>1. Owned(Current', ledger'.gens) /\ Current'[First] # Blank
        BY <2>6, TornHolds DEF TornOK, Right, Sound
      <4> QED BY <2>5, <4>1, FirstIs
    <3>2. Wit(st) /\ st \in Told
      <4>1. Wit(st)
        BY <1>2, <1>7, <3>1 DEF Wit, x
      <4> QED BY <4>1, TellTail DEF Types, Told, Telling
    <3>3. ~ToDo("head") /\ ~ToDo("policy") /\ ~Now("refresh")
      BY <2>1 DEF ToDo, Told, OnlyWits, Wit, Now
    <3> QED BY <1>2, <3>2, <3>3 DEF Lonely, Witnessing, Coming
  <2>7. Witness' = r.body
    BY <2>5, ToldNext
  <2> QED BY <2>6, <2>7 DEF Behind, Firm
<1>8. CASE x = First /\ (Canary(plan) \/ FirstCanary(plan))
  <2>1. PICK R : CommitAfter(st, R)
    BY <1>8 DEF Canary, FirstCanary
  <2>2. \E n \in Nat : Fresh(n) /\ r.gen = n
    BY <1>1, <2>1, CanaryYoung
  <2> QED BY <1>5, <1>8, <2>2
<1>9. CASE x = First /\ ResealingOne(plan)
  <2>1. x \in User
    BY <1>9 DEF ResealingOne
  <2> QED BY <1>9, <2>1, NamesAssumption, SlotType
<1>10. CASE \E p \in Pin : FormatFacts(p) /\ Formatting2(p, plan)
  <2>1. PICK p \in Pin : Formatting2(p, plan)
    BY <1>10
  <2>2. plan = Tail(Tail(FormatPlan(p, ledger.policy)))
    BY <2>1 DEF Formatting2
  <2>3. st = SealStep(Super, Super, 0, ledger.policy, FALSE)
    BY <2>2, FormatPlanIs
  <2>4. x = Super
    BY <2>3 DEF SealStep
  <2> QED BY <1>6, <2>4, NamesAssumption, SlotType
<1>11. \/ Seal(plan) \/ Canary(plan) \/ ResealingOne(plan) \/ FirstCanary(plan)
       \/ \E p \in Pin : FormatFacts(p) /\ Formatting2(p, plan)
  BY PhaseHead
<1> QED BY <1>6, <1>7, <1>8, <1>9, <1>10, <1>11

LEMMA BehindProgram ==
  ASSUME Types, Universal, Phase, plan # <<>>, TornOK, Observe, Lonely, hits = 0, TornProgram
  PROVE  Behind
<1> DEFINE st == plan[1]
           x == st.slot
           t == Target(x)
<1>1. /\ plan[1].do = "program" /\ ledger' = ledger
      /\ \/ (\E c \in {Blank, Garbage} : flash' = [flash EXCEPT ![x][t] = c]) /\ last' = last
         \/ flash' = [flash EXCEPT ![x][t] = Sealed(st)] /\ last' = [last EXCEPT ![x] = t]
  BY DEF TornProgram, Now, Sides
<1>2. x \in Slot /\ Live /\ t \in Side /\ t # WinAt(x)
  BY <1>1, ProgramIs
<1>3. CASE (\E c \in {Blank, Garbage} : flash' = [flash EXCEPT ![x][t] = c]) /\ last' = last
  <2>1. ledger.live
    BY <1>2 DEF Live
  <2> HIDE DEF st, x, t
  <2>2. ErasedHere
    BY <1>1, <1>2, <1>3, <2>1, ErasedSide
  <2> QED BY <1>1, <2>2, BehindSame DEF ErasedHere
<1>4. CASE flash' = [flash EXCEPT ![x][t] = Sealed(st)] /\ last' = [last EXCEPT ![x] = t]
  BY <1>1, <1>4, BehindSealed
<1> QED BY <1>1, <1>3, <1>4

LEMMA BehindErase ==
  ASSUME Types, Universal, Phase, plan # <<>>, TornOK, Observe, Lonely, hits = 0, TornErase
  PROVE  Behind
<1>1. last' = last /\ ledger' = ledger
  BY DEF TornErase
<1>2. ErasedHere
  <2>1. CASE Now("retire")
             /\ flash' \in Sides(plan[1].slot, Other(Target(plan[1].slot)), {Garbage, Blank})
    <3>1. ASSUME NEW x, x = plan[1].slot, NEW s, s = Other(Target(x)) PROVE ErasedHere
      <4>1. plan[1].do = "retire"
            /\ \E c \in {Blank, Garbage} : flash' = [flash EXCEPT ![x][s] = c]
        BY <2>1, <3>1 DEF Now, Sides
      <4>2. PICK c \in {Blank, Garbage} : flash' = [flash EXCEPT ![x][s] = c]
        BY <4>1
      <4> QED BY <1>1, <3>1, <4>1, <4>2, RetiringIs
    <3> QED BY <3>1
  <2>2. CASE Doomed # {} /\ flash' \in Sides(NextDoomed[1], NextDoomed[2], {Garbage, Blank})
    <3>1. ASSUME NEW p, p = NextDoomed PROVE ErasedHere
      <4>1. p \in Doomed
        BY <2>2, <3>1 DEF NextDoomed
      <4>2. \E c \in {Blank, Garbage} : flash' = [flash EXCEPT ![p[1]][p[2]] = c]
        BY <2>2, <3>1 DEF Sides
      <4> QED BY <1>1, <4>1, <4>2, ErasedIs
    <3> QED BY <3>1
  <2> QED BY <2>1, <2>2 DEF TornErase
<1> QED BY <1>1, <1>2, BehindSame DEF ErasedHere

\* A cell of the ledger.
LEMMA BehindGen ==
  ASSUME Types, Universal, Phase, plan # <<>>, plan[1].do = "gen", TornOK, Lonely, hits = 0,
         flash' = flash, last' = last,
         ledger' \in {WithGen(ledger, plan[1]), [ledger EXCEPT !.used = @ + 1]}
  PROVE  Behind
<1>1. Commit(plan)
  BY PhaseHead
<1>2. plan[1] \in [do : {"gen"}, id : Identity, gen : Nat] /\ TypeDisk
  BY <1>1 DEF Commit, Gen, Types
<1>3. ASSUME NEW l, l = WithGen(ledger, plan[1]), NEW e, e = CurrentOf(l), ledger' = l PROVE Behind
  <2>1. l.policy = ledger.policy
    BY <1>2, <1>3, GenLedger
  <2>2. Current' = e
    BY <1>3 DEF Current, CurrentOf
  <2>3. ASSUME Held'
        PROVE  (Firm /\ e[First].body = ledger.policy) \/ (Held /\ e[First] = Current[First])
    <3>1. e[First] # Blank
      BY <2>2, <2>3, TornHolds
    <3> QED BY <1>1, <1>3, <3>1, GenWitness
  <2>4. CASE Firm /\ e[First].body = ledger.policy
    <3>1. Witness' = ledger'.policy
      BY <1>3, <2>1, <2>2, <2>4, ToldNext
    <3> QED BY <1>3, <2>1, <2>4, <3>1 DEF Behind, Firm
  <2>5. CASE e[First] = Current[First]
    BY <1>3, <2>1, <2>2, <2>5, BehindSame
  <2>6. CASE ~Held'
    BY <2>6 DEF Behind
  <2> QED BY <2>3, <2>4, <2>5, <2>6
<1>4. CASE ledger' = [ledger EXCEPT !.used = @ + 1]
  <2>1. ledger'.epoch = ledger.epoch /\ ledger'.gens = ledger.gens /\ ledger'.policy = ledger.policy
    BY <1>2, <1>4 DEF TypeDisk, Ledgers
  <2>2. Current' = Current
    BY <2>1, SameCur DEF Current
  <2> QED BY <2>1, <2>2, BehindSame
<1> QED BY <1>3, <1>4

LEMMA BehindPolicy ==
  ASSUME Types, Universal, Phase, plan # <<>>, plan[1].do = "policy", TornOK, Lonely, hits = 0,
         flash' = flash, last' = last, NEW v,
         ledger' = WithPolicy(ledger, [plan[1].policy EXCEPT !.val = v])
  PROVE  Behind
<1> DEFINE p == plan[1].policy
<1>1. Amend(plan)
  BY PhaseHead
<1>2. p \in Policies /\ ram.ledger = ledger /\ ledger \in Ledgers
  BY <1>1 DEF Amend, Seal, Live, Types, TypeDisk
<1>3. ledger'.policy.gen = p.gen /\ ledger'.epoch = ledger.epoch /\ ledger'.gens = ledger.gens
  BY <1>2 DEF WithPolicy, Policies, Ledgers
<1>4. Current' = Current
  BY <1>3, SameCur DEF Current
<1>5. plan[1] \in Told
  BY TellTail DEF Types, Told, Telling
<1>6. Firm /\ p.gen = ledger.policy.gen + 1 /\ Witness = ledger.policy
  BY <1>5 DEF Lonely, Changing
<1>7. Witness'.gen + 1 = ledger'.policy.gen
  BY <1>3, <1>4, <1>6, ToldNext DEF Witness
<1>8. ram.ledger # ledger'
  BY <1>2, <1>3, <1>6, LedgerType DEF Types
<1> QED BY <1>6, <1>7, <1>8 DEF Behind, Firm

LEMMA BehindCell ==
  ASSUME Types, Universal, Phase, plan # <<>>, TornOK, Lonely, hits = 0, TornCell PROVE Behind
<1>1. flash' = flash /\ last' = last
  BY DEF TornCell
<1>2. CASE Now("gen") /\ ledger' \in {WithGen(ledger, plan[1]), [ledger EXCEPT !.used = @ + 1]}
  BY <1>1, <1>2, BehindGen DEF Now
<1>3. CASE /\ Now("policy")
           /\ ledger' \in {WithPolicy(ledger, [plan[1].policy EXCEPT !.val = val]) :
                             val \in {plan[1].policy.val, Strict}}
  <2>1. PICK v : ledger' = WithPolicy(ledger, [plan[1].policy EXCEPT !.val = v])
    BY <1>3
  <2> QED BY <1>1, <1>3, <2>1, BehindPolicy DEF Now
<1>4. CASE Now("epoch") /\ ledger' = WithEpoch(ledger)
  <2>1. Epoch(plan)
    BY <1>4, PhaseHead DEF Now
  <2>2. EpochOK(WithEpoch(ledger))
    BY <1>1, <1>4, <2>1, EpochIs
  <2>3. Current'[First] = Blank
    BY <2>2, SlotType DEF EpochOK, NoRecord
  <2> QED BY <2>3, TornHolds DEF Behind
<1> QED BY <1>2, <1>3, <1>4 DEF TornCell

LEMMA BehindHead ==
  ASSUME Types, Universal, Phase, plan # <<>>, TornOK, Lonely, hits = 0, TornHead PROVE Behind
<1>1. plan[1].do = "head" /\ ledger' = FormatHead /\ flash' = flash /\ last' = last
  BY DEF TornHead, Now
<1>2. \E p \in Pin : FormatFacts(p)
  BY <1>1, PhaseHead
<1>3. ledger'.epoch = ledger.epoch /\ ledger'.gens = ledger.gens
  BY <1>1, <1>2, FormatHeadIs DEF FormatFacts
<1>4. Current' = Current
  BY <1>1, <1>3, SameCur DEF Current
<1>5. ToDo("head")
  <2>1. plan[1] \in Told
    BY <1>1, TellTail DEF Types, Told, Telling
  <2> QED BY <1>1, <2>1 DEF ToDo
<1>6. ~Held
  BY <1>5 DEF Lonely, Heading
<1> QED BY <1>4, <1>6, TornHolds, Facts DEF Behind, Held, Types

\* A step that does not complete.
LEMMA BehindIs ==
  ASSUME Types, Universal, Phase, plan # <<>>, TornOK, Observe, Lonely, hits = 0, Torn \/ TornHead
  PROVE  Behind
<1>1. CASE TornProgram
  BY <1>1, BehindProgram
<1>2. CASE TornErase
  BY <1>2, BehindErase
<1>3. CASE TornCell
  BY <1>3, BehindCell
<1>4. CASE TornHead
  BY <1>4, BehindHead
<1>5. CASE UNCHANGED <<flash, last, ledger>>
  <2>1. Current' = Current
    BY <1>5, DiskSame
  <2> QED BY <1>5, <2>1, BehindSame
<1> QED BY <1>1, <1>2, <1>3, <1>4, <1>5 DEF Torn

\* Nothing is left of the call.
LEMMA EndedSo ==
  ASSUME Alone' => Behind, plan' = <<>>, hits' >= 1, ram' \in {Off, ram}
  PROVE  JBody'
<1>1. Told' = {} /\ ~Now("distrust")' /\ ~Has(plan, "distrust")'
  BY TellNone, ToldNext
<1>2. Entered'
  <2>1. plan' \in Seq(Steps)
    OBVIOUS
  <2> QED BY <2>1, NoGenEnters DEF NoGen
<1>3. Witnessing' /\ Changing' /\ Heading' /\ BlankHeld'
  BY <1>1 DEF Witnessing, Changing, Heading, BlankHeld, ToDo
<1>4. ASSUME Alone', Held' PROVE Near' /\ Informed'
  <2>1. /\ Witness' = ledger'.policy \/ Witness'.gen + 1 = ledger'.policy.gen
        /\ ~ram.tamper
        /\ ram.state # "off" /\ ram.ledger = ledger' => ram.policy = ledger'.policy
    BY <1>4 DEF Behind
  <2>2. Near'
    BY <2>1 DEF Near
  <2>3. Informed'
    BY <2>1 DEF Informed, Off
  <2> QED BY <2>2, <2>3
<1> QED BY <1>1, <1>2, <1>3, <1>4 DEF JBody, Lonely, Distrusting

LEMMA CutOff ==
  ASSUME IBody, JBody, Cut, hits' <= 1 PROVE JBody'
<1>1. /\ Torn \/ TornHead
      /\ ram' = Off /\ sessions' = {} /\ plan' = <<>>
      /\ promised' = promised /\ Observe
      /\ IF plan = <<>> THEN hits' = hits ELSE hits' = hits + 1
  BY DEF Cut
<1>2. Types /\ Universal /\ (plan # <<>> => Phase) /\ hits \in Nat
  BY DEF IBody, Types
<1>3. IBody' /\ Allowed(found, found')
  BY CutIs
<1>4. CASE plan # <<>>
  <2>1. hits = 0 /\ hits' = 1
    BY <1>1, <1>2, <1>4
  <2>2. TornOK
    BY <1>1, <1>2, <1>4, OffIs, TornIs DEF Calm
  <2>3. ASSUME Alone' PROVE Behind
    <3>1. Alone \/ ~Held'
      BY <1>2, <1>3, <2>3, FindsIs, AloneBack DEF Types
    <3>2. CASE Alone
      BY <1>1, <1>2, <1>4, <2>1, <2>2, <3>2, BehindIs DEF JBody
    <3> QED BY <3>1, <3>2 DEF Behind
  <2> QED BY <1>1, <2>1, <2>3, EndedSo
<1>5. CASE plan = <<>>
  <2>1. UNCHANGED <<flash, last, ledger>>
    <3>1. \A w : ~Now(w)
      BY <1>5 DEF Now
    <3> QED BY <1>1, <3>1 DEF Torn, TornHead, TornProgram, TornErase, TornCell, Doomed
  <2>2. Current' = Current /\ ledger' = ledger /\ plan' = plan /\ hits' = hits
    BY <1>1, <1>5, <2>1, DiskSame
  <2>3. found' = found
    BY <1>2, <1>3, <2>2 DEF IBody, Universal, FoundIs
  <2>4. /\ Told' = Told /\ Witness' = Witness /\ (Held' <=> Held) /\ (Alone' <=> Alone)
        /\ \A w : Now(w)' <=> Now(w)
        /\ \A w : Has(plan, w)' <=> Has(plan, w)
    BY <2>2, <2>3, ToldNext DEF Told, Witness, Held, Alone, Now
  <2>5. Told = {} /\ ~Now("refresh")
    BY <1>5, TellNone DEF Told, Now
  <2>6. ram'.state = "off" /\ ~ram'.tamper
    BY <1>1 DEF Off
  <2>7. ASSUME Alone' PROVE Lonely'
    <3>1. Lonely
      BY <2>4, <2>7 DEF JBody
    <3>2. Held' => Near' /\ Informed'
      BY <2>2, <2>4, <2>5, <2>6, <3>1 DEF Lonely, Near, Informed, Pending
    <3>3. Witnessing' /\ Changing' /\ Heading' /\ BlankHeld'
      BY <2>4, <2>5, <2>6 DEF Witnessing, Changing, Heading, BlankHeld, ToDo
    <3>4. Entered'
      BY <1>1, NoGenEnters DEF NoGen
    <3> QED BY <1>5, <2>2, <3>2, <3>3, <3>4 DEF Lonely, Now
  <2>8. Distrusting'
    BY <2>4, <2>5, <1>5, TellNone DEF Distrusting
  <2> QED BY <2>7, <2>8 DEF JBody
<1> QED BY <1>4, <1>5

LEMMA Failed ==
  ASSUME IBody, JBody, Error, hits' <= 1 PROVE JBody'
<1>1. /\ Torn /\ plan' = <<>> /\ ram' \in {Off, ram}
      /\ sessions' = sessions /\ promised' = promised /\ Observe /\ hits' = hits + 1
  BY DEF Error, Abandon
<1>2. plan # <<>>
  BY DEF Error, OnFlashStep, Doomed, Now
<1>3. Types /\ Universal /\ Phase /\ hits \in Nat
  BY <1>2, InPhase DEF Types
<1>4. IBody' /\ Allowed(found, found')
  BY ErrorIs
<1>5. hits = 0 /\ hits' = 1
  BY <1>1, <1>3
<1>6. TornOK
  BY <1>1, <1>2, <1>3, OffIs, TornIs DEF Calm
<1>7. ASSUME Alone' PROVE Behind
  <2>1. Alone \/ ~Held'
    BY <1>3, <1>4, <1>7, FindsIs, AloneBack DEF Types
  <2>2. CASE Alone
    BY <1>1, <1>2, <1>3, <1>5, <1>6, <2>2, BehindIs DEF JBody
  <2> QED BY <2>1, <2>2 DEF Behind
<1> QED BY <1>1, <1>5, <1>7, EndedSo

-----------------------------------------------------------------------------
(***************************************************************************)
(* The calls.                                                              *)
(***************************************************************************)
\* What the steps of a call tell; none of them distrusts the store.
Says(A, T) == A \in Seq(Steps) /\ A # <<>> /\ TellOf(A) = T /\ ~Has(A, "distrust")

LEMMA SaysCat ==
  ASSUME NEW A, NEW B, NEW T, NEW U, Says(A, T), Says(B, U)
  PROVE  Says(A \o B, T \cup U) /\ (A \o B)[1] = A[1]
BY TellCat DEF Says

LEMMA SaysMore ==
  ASSUME NEW A, NEW B, NEW T, Says(A, T), Says(B, {})
  PROVE  Says(A \o B, T) /\ (A \o B)[1] = A[1]
<1>1. T \cup {} = T
  OBVIOUS
<1>2. A \o B \in Seq(Steps) /\ TellOf(A \o B) = T \cup {} /\ ~Has(A \o B, "distrust")
  BY TellCat DEF Says
<1>3. A \o B # <<>> /\ (A \o B)[1] = A[1]
  BY DEF Says
<1> QED BY <1>1, <1>2, <1>3 DEF Says

LEMMA SaysOne ==
  ASSUME NEW a \in Steps, a.do # "distrust"
  PROVE  Says(<<a>>, IF Telling(a) THEN {a} ELSE {}) /\ <<a>>[1] = a
BY TellsOne DEF Says, Tells

LEMMA SaysDo ==
  ASSUME NEW w \in {"refresh", "due", "cleanup", "sync", "fill", "rotate", "done", "mounted",
                    "epoch", "erase"}
  PROVE  Says(Do(w), {}) /\ Do(w)[1].do = w
<1>1. Do(w) = <<Simple(w)>> /\ Simple(w) \in Steps /\ Simple(w).do = w
  BY DoIs
<1> HIDE DEF Simple
<1>2. ~Telling(Simple(w)) /\ w # "distrust"
  BY <1>1 DEF Telling, Wit
<1> QED BY <1>1, <1>2, SaysOne

LEMMA SaysSeal ==
  ASSUME NEW x \in Slot, NEW k \in Key, NEW g \in Nat, NEW b \in Body
  PROVE  /\ Says(SealNow(x, k, g, b),
                 IF x = First /\ k \in Pin THEN {NowStep(x, k, g, b)} ELSE {})
         /\ Says(SealLater(x, k, g, b),
                 IF x = First /\ k \in Pin THEN {LaterStep(x, k, g, b)} ELSE {})
         /\ SealNow(x, k, g, b)[1].do = "program" /\ SealLater(x, k, g, b)[1].do = "program"
<1>1. ASSUME NEW A, NEW T, NEW X, Tells(A, T, X), "distrust" \notin X PROVE Says(A, T)
  BY <1>1 DEF Says, Tells
<1>2. /\ Tells(SealNow(x, k, g, b),
               IF x = First /\ k \in Pin THEN {NowStep(x, k, g, b)} ELSE {}, {"program", "retire"})
      /\ Tells(SealLater(x, k, g, b),
               IF x = First /\ k \in Pin THEN {LaterStep(x, k, g, b)} ELSE {}, {"program"})
      /\ SealNow(x, k, g, b)[1].do = "program" /\ SealLater(x, k, g, b)[1].do = "program"
  BY TellsSeal
<1>3. "distrust" \notin {"program", "retire"} /\ "distrust" \notin {"program"}
  OBVIOUS
<1> QED BY <1>1, <1>2, <1>3

LEMMA SaysGen ==
  ASSUME NEW i \in Identity, NEW g \in Nat PROVE Says(CommitGen(i, g), {})
<1>1. GenStep(i, g) \in Steps /\ GenStep(i, g).do = "gen" /\ CommitGen(i, g) = <<GenStep(i, g)>>
  BY DEF CommitGen, GenStep, Steps
<1>2. ~Telling(GenStep(i, g))
  BY <1>1 DEF Telling, Wit
<1> QED BY <1>1, <1>2, SaysOne

LEMMA SaysSession ==
  ASSUME NEW i \in Identity, NEW k \in Pin
  PROVE  Says(NewSession(i, k), {}) /\ Says(<<ProveStep(i, k)>>, {})
<1> DEFINE a == SessionStep(i, k)
           b == ProveStep(i, k)
<1>1. /\ a \in Steps /\ a.do = "session" /\ NewSession(i, k) = <<a>>
      /\ b \in Steps /\ b.do = "prove"
  <2>1. 0 \in Nat
    OBVIOUS
  <2> QED BY <2>1, SessionStepIs DEF NewSession, SessionStep
<1> HIDE DEF a, b
<1>2. ~Telling(a) /\ ~Telling(b)
  BY <1>1 DEF Telling, Wit
<1> QED BY <1>1, <1>2, SaysOne DEF b

\* Between calls RAM has the policy in force, and the canary is behind it after a cut
\* or an error only.
LEMMA CallFirm ==
  ASSUME InOrder, Lonely, Held
  PROVE  /\ Firm /\ (Witness = ledger.policy \/ hits >= 1)
         /\ Witness = ledger.policy \/ Witness.gen + 1 = ledger.policy.gen
         /\ ram.state = "blank" => hits >= 1
<1>1. plan = <<>> /\ ram.ledger = ledger /\ ram.state # "off"
  BY DEF InOrder
<1>2. ~Now("refresh") /\ ~Pending /\ ~Has(plan, "refresh")
  BY <1>1, TellNone DEF Now, Pending, Told
<1>3. Near /\ Informed
  BY DEF Lonely
<1> QED BY <1>1, <1>2, <1>3 DEF Near, Informed, Firm, Lonely, BlankHeld

LEMMA CallTells ==
  ASSUME InOrder, JBody, UNCHANGED <<disk, ram, hits>>, NEW T, Says(plan', T),
         plan'[1].do \notin {"gen", "retire", "distrust"},
         Alone /\ Lonely => Witnessing' /\ Changing' /\ Heading'
  PROVE  JBody'
<1>1. plan' \in Seq(Steps) /\ plan' # <<>> /\ Told' = T /\ ~Has(plan, "distrust")'
      /\ ~Now("distrust")'
  BY ToldNext DEF Says
<1>2. Distrusting'
  BY <1>1 DEF Distrusting
<1>3. /\ (Alone' <=> Alone) /\ (Held' <=> Held) /\ Witness' = Witness
      /\ ledger' = ledger /\ ram' = ram /\ hits' = hits
  BY DiskSame, ToldNext DEF disk, Alone, Held, Witness
<1>4. ASSUME Alone' PROVE Lonely'
  <2>1. Alone /\ Lonely
    BY <1>3, <1>4 DEF JBody
  <2>2. Held' => Near'
    <3>1. ASSUME Held PROVE Witness = ledger.policy \/ (Witness.gen + 1 = ledger.policy.gen /\ hits >= 1)
      BY <2>1, <3>1, CallFirm
    <3> QED BY <1>3, <3>1 DEF Near
  <2>3. Held' => Informed'
    <3>1. ASSUME Held PROVE Firm
      BY <2>1, <3>1, CallFirm
    <3> QED BY <1>3, <3>1 DEF Informed, Firm
  <2>4. BlankHeld'
    <3>1. ASSUME Held, ram.state = "blank" PROVE hits >= 1
      BY <2>1, <3>1, CallFirm
    <3> QED BY <1>3, <3>1 DEF BlankHeld
  <2>5. Entered'
    BY <1>1, NoGenEnters DEF NoGen, NoEntry
  <2> QED BY <1>1, <2>1, <2>2, <2>3, <2>4, <2>5 DEF Lonely
<1> QED BY <1>2, <1>4 DEF JBody

\* A call that seals the canary anew, or does not.
LEMMA CallWits ==
  ASSUME InOrder, JBody, UNCHANGED <<disk, ram, hits>>, NEW T, Says(plan', T),
         plan'[1].do \notin {"gen", "retire", "distrust"},
         Alone /\ T # {} => Held,
         \A st \in T : st.do = "program" /\ st.body = ram.policy
  PROVE  JBody'
<1>1. Told' = T /\ ~ToDo("head")' /\ ~ToDo("policy")'
  BY ToldNext DEF Says, ToDo
<1>2. ledger' = ledger /\ ram' = ram
  BY DEF disk
<1>3. ASSUME Alone /\ Lonely PROVE Witnessing' /\ Changing' /\ Heading'
  <2>1. Changing' /\ Heading'
    BY <1>1 DEF Changing, Heading, ToDo
  <2>2. Witnessing'
    <3>1. ASSUME T # {} PROVE Firm
      BY <1>3, <3>1, CallFirm
    <3>2. ASSUME T # {} PROVE Firm' /\ ram.policy = ledger.policy
      BY <1>2, <3>1, <3>2 DEF Firm
    <3>3. \A st \in T : st.body = ledger'.policy
      BY <1>2, <3>2
    <3> QED BY <1>1, <3>2, <3>3 DEF Witnessing, Coming
  <2> QED BY <2>1, <2>2
<1> QED BY <1>3, CallTells

LEMMA CallQuiet ==
  ASSUME InOrder, JBody, UNCHANGED <<disk, ram, hits>>, Says(plan', {}),
         plan'[1].do \notin {"gen", "retire", "distrust"}
  PROVE  JBody'
BY CallWits

\* A session that is valid, where there is one identity, is the first's.
LEMMA SessAlone ==
  ASSUME InOrder, NEW s \in sessions, Valid(s)
  PROVE  /\ s.id \in Identity /\ s.id \in Slot /\ s.key \in Pin /\ s.key \in Key /\ s.gen \in Nat
         /\ s.gen = ledger.gens[s.id] /\ Opens(ram.table, s.id, s.key)
         /\ Alone => s.id = First /\ Held
<1>1. Formatted /\ OpenedBy(s.id, s.key) /\ s.gen = ledger.gens[s.id] /\ s \in Session
  BY SessIs
<1>2. s.id \in Identity /\ s.id \in Slot /\ s.key \in Pin /\ s.key \in Key /\ s.gen \in Nat
  BY <1>1, SlotType DEF Session, Key
<1>3. Opens(ram.table, s.id, s.key)
  <2>1. At(ram.table, s.id) = Current[s.id] /\ TypeDisk
    BY <1>2 DEF InOrder
  <2>2. Current[s.id] # Blank /\ Current[s.id].key = s.key
    BY <1>1 DEF OpenedBy
  <2>3. Current[s.id] \in Record
    BY <1>2, <2>1, <2>2, CurrentType
  <2> QED BY <2>1, <2>2, <2>3 DEF Opens, Record
<1>4. found[s.id] # NoPin
  BY <1>1, KeysDiffer DEF OpenedBy
<1>5. Alone => s.id = First /\ Held
  BY <1>2, <1>4 DEF Alone, Held
<1> QED BY <1>1, <1>2, <1>3, <1>5

\* What every call begins with.
LEMMA CallBegins ==
  ASSUME IBody, InStep, NEW P, NEW w, NEW b, Begin(P, w, b)
  PROVE  InOrder /\ UNCHANGED <<disk, ram, hits>> /\ plan' = P \o Do("done")
BY IdleIs DEF Begin

LEMMA WriteTells ==
  ASSUME IBody, JBody, InStep, NEW s \in sessions, NEW u \in User, NEW d \in Data, Write(s, u, d)
  PROVE  JBody'
<1> DEFINE S == SealNow(u, s.key, s.gen, d)
           A == Do("rotate") \o S
<1>1. Valid(s) /\ \E w : Begin(A, w, FALSE)
  BY DEF Write, Call
<1>2. InOrder /\ UNCHANGED <<disk, ram, hits>> /\ plan' = A \o Do("done")
  <2> HIDE DEF A
  <2> QED BY <1>1, CallBegins
<1>3. u \in Slot /\ u # First /\ s.key \in Key /\ s.gen \in Nat /\ d \in Body
  BY <1>1, <1>2, SessAlone, SlotType, NamesAssumption DEF Body
<1>4. Says(S, {})
  BY <1>3, SaysSeal
<1>5. Says(Do("rotate"), {}) /\ Says(Do("done"), {}) /\ Do("rotate")[1].do = "rotate"
  BY SaysDo
<1> HIDE DEF S
<1>6. Says(A, {}) /\ A[1] = Do("rotate")[1]
  BY <1>4, <1>5, SaysMore
<1> HIDE DEF A
<1>7. Says(A \o Do("done"), {}) /\ (A \o Do("done"))[1] = A[1]
  BY <1>5, <1>6, SaysMore
<1> QED BY <1>2, <1>5, <1>6, <1>7, CallQuiet

LEMMA ClearTells ==
  ASSUME IBody, JBody, InStep, NEW s \in sessions, NEW u \in User, Clear(s, u)
  PROVE  JBody'
<1> DEFINE S == WriteFiller(u)
           A == Do("rotate") \o S
           g == ram.ledger.gens[First]
<1>1. \E w : Begin(A, w, FALSE)
  BY DEF Clear, Call
<1>2. InOrder /\ UNCHANGED <<disk, ram, hits>> /\ plan' = A \o Do("done")
  <2> HIDE DEF A
  <2> QED BY <1>1, CallBegins
<1>3. u \in Slot /\ g \in Nat /\ Filler \in Key /\ Filler \notin Pin /\ Nothing \in Body
  <2>1. Types
    BY <1>2 DEF InOrder
  <2> QED BY <2>1, MemoryType, VaultAssumption, KeysDiffer, SlotType DEF Ledgers, Key, Body
<1>4. Says(S, {})
  <2>1. S = SealNow(u, Filler, g, Nothing)
    BY DEF WriteFiller
  <2> HIDE DEF g, S
  <2>2. Says(SealNow(u, Filler, g, Nothing), {})
    BY <1>3, SaysSeal
  <2> QED BY <2>1, <2>2
<1>5. Says(Do("rotate"), {}) /\ Says(Do("done"), {}) /\ Do("rotate")[1].do = "rotate"
  BY SaysDo
<1> HIDE DEF S
<1>6. Says(A, {}) /\ A[1] = Do("rotate")[1]
  BY <1>4, <1>5, SaysMore
<1> HIDE DEF A
<1>7. Says(A \o Do("done"), {}) /\ (A \o Do("done"))[1] = A[1]
  BY <1>5, <1>6, SaysMore
<1> QED BY <1>2, <1>5, <1>6, <1>7, CallQuiet

LEMMA WipeTells ==
  ASSUME IBody, JBody, InStep, Wipe PROVE JBody'
<1> DEFINE W == IF ram.ledger.live THEN WipeSteps ELSE Do("erase")
           R1 == Do("refresh") \o Do("cleanup")
           R == Remount
           A == W \o R
<1>1. \E w : Begin(A, w, FALSE)
  BY DEF Wipe, Call
<1>2. InOrder /\ UNCHANGED <<disk, ram, hits>> /\ plan' = A \o Do("done")
  <2> HIDE DEF A
  <2> QED BY <1>1, CallBegins
<1>3. /\ Says(Do("rotate"), {}) /\ Says(Do("epoch"), {}) /\ Says(Do("erase"), {})
      /\ Says(Do("refresh"), {}) /\ Says(Do("cleanup"), {}) /\ Says(Do("sync"), {})
      /\ Says(Do("done"), {})
      /\ Do("rotate")[1].do = "rotate" /\ Do("erase")[1].do = "erase"
  BY SaysDo
<1>4. Says(R1, {})
  BY <1>3, SaysMore
<1>5. Says(R, {})
  <2>1. R = R1 \o Do("sync")
    BY DEF Remount
  <2> HIDE DEF R, R1
  <2> QED BY <1>3, <1>4, <2>1, SaysMore
<1>6. Says(W, {}) /\ W[1].do \in {"rotate", "erase"}
  <2> DEFINE V == Do("rotate") \o Do("epoch")
  <2>1. Says(V, {}) /\ V[1] = Do("rotate")[1]
    BY <1>3, SaysMore
  <2> HIDE DEF V
  <2>2. Says(V \o Do("erase"), {}) /\ (V \o Do("erase"))[1] = V[1]
    BY <1>3, <2>1, SaysMore
  <2>3. WipeSteps = V \o Do("erase")
    BY DEF WipeSteps, V
  <2> QED BY <1>3, <2>1, <2>2, <2>3
<1> HIDE DEF W, R
<1>7. Says(A, {}) /\ A[1] = W[1]
  BY <1>5, <1>6, SaysMore
<1> HIDE DEF A
<1>8. Says(A \o Do("done"), {}) /\ (A \o Do("done"))[1] = A[1]
  BY <1>3, <1>7, SaysMore
<1> QED BY <1>2, <1>6, <1>7, <1>8, CallQuiet

LEMMA AddIdentityTells ==
  ASSUME IBody, JBody, InStep, NEW s \in sessions, NEW i \in Identity, NEW p \in Pin,
         AddIdentity(s, i, p)
  PROVE  JBody'
<1> DEFINE n == GenNext(ram.ledger)
           b == ram.policy
           S == SealLater(i, p, n, b)
           G == CommitGen(i, n)
           A1 == Do("rotate") \o S
           A2 == A1 \o G
           A3 == A2 \o Do("refresh")
           A4 == A3 \o Do("cleanup")
<1>1. Valid(s) /\ i # First /\ \E w, gp : Begin(A4, w, gp)
  BY DEF AddIdentity, Call
<1>2. InOrder /\ UNCHANGED <<disk, ram, hits>> /\ plan' = A4 \o Do("done")
  <2> HIDE DEF A4
  <2> QED BY <1>1, CallBegins
<1>3. i \in Slot /\ p \in Key /\ n \in Nat /\ b \in Body
  <2>1. Types /\ TypeDisk /\ ram.ledger = ledger
    BY <1>2 DEF InOrder
  <2>2. n \in Nat
    BY <2>1, LedgerType, GenNextIs
  <2>3. b \in Body
    BY <2>1, PolicyBody
  <2> QED BY <2>2, <2>3, SlotType DEF Key
<1> HIDE DEF n, b
<1>4. Says(S, {}) /\ Says(G, {})
  BY <1>1, <1>3, SaysSeal, SaysGen
<1>5. /\ Says(Do("rotate"), {}) /\ Says(Do("done"), {}) /\ Do("rotate")[1].do = "rotate"
      /\ Says(Do("refresh"), {}) /\ Says(Do("cleanup"), {})
  BY SaysDo
<1> HIDE DEF S, G
<1>6. Says(A1, {}) /\ A1[1] = Do("rotate")[1]
  BY <1>4, <1>5, SaysMore
<1> HIDE DEF A1
<1>7. Says(A2, {}) /\ A2[1] = A1[1]
  BY <1>4, <1>6, SaysMore
<1> HIDE DEF A2
<1>8. Says(A3, {}) /\ A3[1] = A2[1]
  BY <1>5, <1>7, SaysMore
<1> HIDE DEF A3
<1>9. Says(A4, {}) /\ A4[1] = A3[1]
  BY <1>5, <1>8, SaysMore
<1> HIDE DEF A4
<1>10. Says(A4 \o Do("done"), {}) /\ (A4 \o Do("done"))[1] = A4[1]
  BY <1>5, <1>9, SaysMore
<1> QED BY <1>2, <1>5, <1>6, <1>7, <1>8, <1>9, <1>10, CallQuiet

LEMMA ChangePinTells ==
  ASSUME IBody, JBody, InStep, NEW s \in sessions, NEW p \in Pin, ChangePin(s, p)
  PROVE  JBody'
<1> DEFINE n == GenNext(ram.ledger)
           b == ram.policy
           T == IF s.id = First /\ p \in Pin THEN {LaterStep(s.id, p, n, b)} ELSE {}
           R == Reseal(s, p, n)
           S == SealLater(s.id, p, n, b)
           C == ResealCanary(s, p, n)
           G == CommitGen(s.id, n)
           B1 == Do("refresh") \o Do("cleanup")
           B2 == B1 \o Do("fill")
           B == AfterCommit
           N == NewSession(s.id, p)
           A1 == Do("rotate") \o R
           A2 == A1 \o C
           A3 == A2 \o G
           A4 == A3 \o B
           A5 == A4 \o N
<1>1. Valid(s) /\ \E w : Begin(A5, w, FALSE)
  BY DEF ChangePin, Call
<1>2. InOrder /\ UNCHANGED <<disk, ram, hits>> /\ plan' = A5 \o Do("done")
  <2> HIDE DEF A5
  <2> QED BY <1>1, CallBegins
<1>3. /\ s.id \in Identity /\ s.id \in Slot /\ s.key \in Pin /\ s.gen \in Nat
      /\ Opens(ram.table, s.id, s.key)
      /\ Alone => s.id = First /\ Held
  BY <1>1, <1>2, SessAlone
<1>4. p \in Key /\ n \in Nat /\ b \in Body
  <2>1. Types /\ TypeDisk /\ ram.ledger = ledger
    BY <1>2 DEF InOrder
  <2>2. n \in Nat
    BY <2>1, LedgerType, GenNextIs
  <2>3. b \in Body
    BY <2>1, PolicyBody
  <2> QED BY <2>2, <2>3 DEF Key
<1>5. C = S
  BY <1>3 DEF ResealCanary
<1> HIDE DEF n, C
<1>6. Says(R, {})
  <2> DEFINE st == ChangeStep(s.id, s.key, s.gen, p, n)
  <2>1. st \in Steps /\ st.do = "reseal" /\ R = <<st>>
    BY <1>3, <1>4, ChangeStepIs DEF Reseal, ChangeStep
  <2> HIDE DEF st
  <2>2. ~Telling(st)
    BY <2>1 DEF Telling, Wit
  <2> QED BY <2>1, <2>2, SaysOne
<1>7. Says(S, T)
  <2> HIDE DEF b
  <2> QED BY <1>3, <1>4, SaysSeal
<1>8. Says(G, {}) /\ Says(N, {})
  BY <1>3, <1>4, SaysGen, SaysSession
<1>9. /\ Says(Do("rotate"), {}) /\ Says(Do("done"), {}) /\ Do("rotate")[1].do = "rotate"
      /\ Says(Do("refresh"), {}) /\ Says(Do("cleanup"), {}) /\ Says(Do("fill"), {})
  BY SaysDo
<1>10. \A st \in T : st.do = "program" /\ st.body = ram.policy
  BY DEF LaterStep, SealStep
<1> HIDE DEF b, S, G, N, R, T
<1>11. Says(B, {})
  <2>1. Says(B1, {})
    BY <1>9, SaysMore
  <2> HIDE DEF B1
  <2>2. Says(B2, {})
    BY <1>9, <2>1, SaysMore
  <2>3. B = B2 \o Do("refresh")
    BY DEF AfterCommit, B1
  <2> HIDE DEF B2, B
  <2> QED BY <1>9, <2>2, <2>3, SaysMore
<1> HIDE DEF B
<1>12. Says(A1, {}) /\ A1[1] = Do("rotate")[1]
  BY <1>6, <1>9, SaysMore
<1> HIDE DEF A1
<1>13. Says(A2, T) /\ A2[1] = A1[1]
  <2>1. Says(A1 \o S, {} \cup T) /\ (A1 \o S)[1] = A1[1]
    BY <1>7, <1>12, SaysCat
  <2>2. {} \cup T = T
    OBVIOUS
  <2> QED BY <1>5, <2>1, <2>2
<1> HIDE DEF A2
<1>14. Says(A3, T) /\ A3[1] = A2[1]
  BY <1>8, <1>13, SaysMore
<1> HIDE DEF A3
<1>15. Says(A4, T) /\ A4[1] = A3[1]
  BY <1>11, <1>14, SaysMore
<1> HIDE DEF A4
<1>16. Says(A5, T) /\ A5[1] = A4[1]
  BY <1>8, <1>15, SaysMore
<1> HIDE DEF A5
<1>17. Says(A5 \o Do("done"), T) /\ (A5 \o Do("done"))[1] = A5[1]
  BY <1>9, <1>16, SaysMore
<1>18. plan'[1].do = "rotate"
  BY <1>2, <1>9, <1>12, <1>13, <1>14, <1>15, <1>16, <1>17
<1> QED BY <1>2, <1>3, <1>10, <1>17, <1>18, CallWits

LEMMA SetPolicyTells ==
  ASSUME IBody, JBody, InStep, NEW s \in sessions, NEW v \in Values, SetPolicy(s, v)
  PROVE  JBody'
<1> DEFINE next == [val |-> v, gen |-> ram.policy.gen + 1]
           st == NowStep(s.id, s.key, s.gen, next)
           t == PolicyStep(next)
           T == IF s.id = First /\ s.key \in Pin THEN {st} ELSE {}
           S == SealNow(s.id, s.key, s.gen, next)
           C == IF Opens(ram.table, s.id, s.key) THEN S ELSE Do("fail")
           G == CommitPolicy(next)
           A1 == Do("rotate") \o G
           A2 == A1 \o C
           A3 == A2 \o Do("refresh")
           A4 == A3 \o Do("sync")
           A5 == A4 \o Do("cleanup")
           U == {t} \cup T
<1>1. Valid(s) /\ \E w : Begin(A5, w, FALSE)
  BY DEF SetPolicy, Call
<1>2. InOrder /\ UNCHANGED <<disk, ram, hits>> /\ plan' = A5 \o Do("done")
  <2> HIDE DEF A5
  <2> QED BY <1>1, CallBegins
<1>3. /\ s.id \in Identity /\ s.id \in Slot /\ s.key \in Pin /\ s.key \in Key /\ s.gen \in Nat
      /\ Opens(ram.table, s.id, s.key) /\ s.gen = ledger.gens[s.id]
      /\ Alone => s.id = First /\ Held
  BY <1>1, <1>2, SessAlone
<1>4. next \in Policies /\ next \in Body /\ next.gen = ram.policy.gen + 1
  <2>1. Types
    BY <1>2 DEF InOrder
  <2>2. ram.policy.gen \in Nat
    BY <2>1, MemoryType
  <2> QED BY <2>2 DEF Policies, Body
<1>5. C = S
  BY <1>3
<1> HIDE DEF next, C
<1>6. StepIs(st, s.id, s.key, s.gen, next) /\ ~st.later
  BY <1>3, <1>4, NowStepIs
<1>7. t \in Steps /\ t.do = "policy" /\ t.policy = next /\ G = <<t>>
  BY <1>4 DEF PolicyStep, CommitPolicy, Steps
<1>8. Says(S, T)
  <2>1. Says(SealNow(s.id, s.key, s.gen, next),
             IF s.id = First /\ s.key \in Pin THEN {NowStep(s.id, s.key, s.gen, next)} ELSE {})
    BY <1>3, <1>4, SaysSeal
  <2> QED BY <2>1
<1> HIDE DEF t, st, S
<1>9. Says(G, {t})
  BY <1>7, SaysOne DEF Telling
<1>10. /\ Says(Do("rotate"), {}) /\ Says(Do("done"), {}) /\ Do("rotate")[1].do = "rotate"
       /\ Says(Do("refresh"), {}) /\ Says(Do("cleanup"), {}) /\ Says(Do("sync"), {})
  BY SaysDo
<1> HIDE DEF G
<1>11. Says(A1, {t}) /\ A1[1] = Do("rotate")[1]
  <2>1. Says(Do("rotate") \o G, {} \cup {t}) /\ (Do("rotate") \o G)[1] = Do("rotate")[1]
    BY <1>9, <1>10, SaysCat
  <2>2. {} \cup {t} = {t}
    OBVIOUS
  <2> QED BY <2>1, <2>2
<1> HIDE DEF A1, T
<1>12. Says(A2, U) /\ A2[1] = A1[1]
  <2>1. Says(A1 \o S, {t} \cup T) /\ (A1 \o S)[1] = A1[1]
    BY <1>8, <1>11, SaysCat
  <2> QED BY <1>5, <2>1
<1> HIDE DEF A2, U
<1>13. Says(A3, U) /\ A3[1] = A2[1]
  BY <1>10, <1>12, SaysMore
<1> HIDE DEF A3
<1>14. Says(A4, U) /\ A4[1] = A3[1]
  BY <1>10, <1>13, SaysMore
<1> HIDE DEF A4
<1>15. Says(A5, U) /\ A5[1] = A4[1]
  BY <1>10, <1>14, SaysMore
<1> HIDE DEF A5
<1>16. Says(A5 \o Do("done"), U) /\ (A5 \o Do("done"))[1] = A5[1]
  BY <1>10, <1>15, SaysMore
<1>17. plan'[1].do = "rotate" /\ Says(plan', U)
  BY <1>2, <1>10, <1>11, <1>12, <1>13, <1>14, <1>15, <1>16
<1>18. ASSUME Alone /\ Lonely PROVE Witnessing' /\ Changing' /\ Heading'
  <2>1. s.id = First /\ Held /\ Firm /\ (Witness = ledger.policy \/ hits >= 1)
    BY <1>2, <1>3, <1>18, CallFirm
  <2>2. Told' = {t, st}
    <3>1. T = {st}
      BY <1>3, <2>1 DEF T
    <3>2. Told' = TellOf(plan')
      BY ToldNext
    <3> QED BY <1>17, <3>1, <3>2 DEF Says, U
  <2>3. /\ ledger' = ledger /\ ram' = ram /\ hits' = hits /\ (Held' <=> Held)
        /\ Witness' = Witness
    BY <1>2, DiskSame, ToldNext DEF disk, Held, Witness
  <2>4. st.do = "program" /\ st.slot = First /\ st.key \in Pin /\ st.gen = ledger.gens[First]
        /\ st.body = next
    BY <1>3, <1>6, <2>1 DEF StepIs
  <2>5. Firm' /\ Pending'
    BY <1>6, <2>1, <2>2, <2>3, <2>4 DEF Firm, Pending, Wit
  <2>6. ToDo("policy")' /\ ~ToDo("head")'
    BY <1>7, <2>2, <2>4 DEF ToDo
  <2>7. ASSUME NEW b, b = next PROVE Coming(b)'
    <3>1. \A c \in Told' : c.do = "policy" => b = c.policy
      BY <1>7, <2>2, <2>4, <2>7
    <3> QED BY <2>6, <3>1 DEF Coming
  <2>8. Witnessing'
    <3>1. ASSUME NEW c \in Told', Wit(c) PROVE Coming(c.body)'
      <4>1. c.body = next
        BY <1>7, <2>2, <2>4, <3>1 DEF Wit
      <4> QED BY <2>7, <4>1
    <3> QED BY <2>5, <3>1 DEF Witnessing, Wit
  <2>9. Changing'
    <3>1. next.gen = ledger'.policy.gen + 1
      BY <1>4, <2>1, <2>3 DEF Firm
    <3> QED BY <1>7, <2>1, <2>2, <2>3, <2>4, <2>5, <3>1 DEF Changing
  <2>10. Heading'
    BY <2>6 DEF Heading
  <2> QED BY <2>8, <2>9, <2>10
<1> QED BY <1>2, <1>17, <1>18, CallTells

LEMMA UnlockTells ==
  ASSUME IBody, JBody, InStep, NEW p \in Pin, Unlock(p) PROVE JBody'
<1>1. PICK i \in Identity :
        /\ Opens(ram.table, i, p)
        /\ Begin(Reconcile(i, p) \o Do("rotate") \o NewSession(i, p), found, FALSE)
  BY DEF Unlock
<1> DEFINE K == UnlockEnd(i, p)
           Q == Reconcile(i, p)
           A == Q \o Do("rotate") \o NewSession(i, p)
           w == Current[i].body
           n == ledger.gens[i]
           b == ram.policy
           S == SealNow(i, p, n, b)
           T == IF i = First /\ p \in Pin THEN {NowStep(i, p, n, b)} ELSE {}
<1>2. InOrder /\ UNCHANGED <<disk, ram, hits>> /\ plan' = A \o Do("done")
  <2> HIDE DEF A
  <2>1. Begin(A, found, FALSE)
    BY <1>1 DEF A
  <2> QED BY <2>1, CallBegins
<1>3. At(ram.table, i) = Current[i] /\ i \in Slot /\ ram.ledger = ledger /\ Types /\ TypeDisk
  BY <1>2, SlotType DEF InOrder
<1>4. found[i] = p
  <2>1. Owned(Current, ledger.gens) /\ found[i] = PinIn(Current, i)
    BY <1>2, Facts DEF InOrder
  <2>2. Current[i] # Blank /\ Current[i].key = p
    BY <1>1, <1>3 DEF Opens, Blank
  <2> QED BY <2>1, <2>2, PinIs
<1>5. Alone => i = First /\ Held
  BY <1>4, KeysDiffer DEF Alone, Held
<1>6. p \in Key /\ n \in Nat /\ b \in Body
  BY <1>3, LedgerType, PolicyBody DEF Key
<1>7. Q = IF w = b THEN <<>>
          ELSE IF w.gen + 1 = b.gen THEN S \o Do("refresh") \o Do("cleanup")
          ELSE Do("distrust")
  BY <1>3 DEF Reconcile
<1>8. /\ Says(Do("rotate"), {}) /\ Says(Do("done"), {}) /\ Do("rotate")[1].do = "rotate"
      /\ Says(Do("refresh"), {}) /\ Says(Do("cleanup"), {})
  BY SaysDo
<1>9. Says(K, {}) /\ K[1].do = "rotate"
  <2> DEFINE N == NewSession(i, p)
             K1 == Do("rotate") \o N
             K2 == K1 \o Do("done")
  <2>1. Says(N, {})
    BY SaysSession
  <2> HIDE DEF N
  <2>2. Says(K1, {}) /\ K1[1] = Do("rotate")[1]
    BY <1>8, <2>1, SaysMore
  <2> HIDE DEF K1
  <2>3. Says(K2, {}) /\ K2[1] = K1[1]
    BY <1>8, <2>2, SaysMore
  <2>4. K \in Seq(Steps)
    <3>1. FullIn(TRUE, Current, found)
      BY DEF FullIn
    <3> QED BY <1>4, <3>1, UnlockEndIs
  <2>5. <<>> \o Do("rotate") \o N \o Do("done") = K
    BY <2>4, ReconcileNone DEF N
  <2>6. <<>> \o Do("rotate") = Do("rotate")
    BY <1>8 DEF Says
  <2> HIDE DEF K
  <2>7. K2 = K
    BY <2>5, <2>6 DEF K1
  <2> QED BY <1>8, <2>2, <2>3, <2>7
<1>10. ASSUME Q \in Seq(Steps) PROVE plan' = Q \o K
  <2> HIDE DEF Q
  <2>1. Q \o Do("rotate") \o NewSession(i, p) \o Do("done") = Q \o K
    BY <1>10, UnlockPlan
  <2> QED BY <1>2, <2>1
<1>11. \A st \in T : st.do = "program" /\ st.body = ram.policy
  BY DEF NowStep, SealStep
<1>12. Says(S, T) /\ S[1].do = "program"
  <2> HIDE DEF n, b
  <2> QED BY <1>3, <1>6, SaysSeal
<1> HIDE DEF Q, K, S, A, T
<1>13. CASE w = b
  <2>1. Q = <<>> /\ <<>> \in Seq(Steps)
    BY <1>7, <1>13
  <2>2. <<>> \o K = K
    BY <1>9 DEF Says
  <2>3. plan' = K
    BY <1>10, <2>1, <2>2
  <2> QED BY <1>2, <1>9, <2>3, CallQuiet
<1>14. CASE w # b /\ w.gen + 1 = b.gen
  <2> DEFINE S1 == S \o Do("refresh")
             S2 == S1 \o Do("cleanup")
  <2>1. Q = S2
    BY <1>7, <1>14
  <2>2. Says(S1, T) /\ S1[1] = S[1]
    BY <1>8, <1>12, SaysMore
  <2> HIDE DEF S1
  <2>3. Says(S2, T) /\ S2[1] = S1[1]
    BY <1>8, <2>2, SaysMore
  <2> HIDE DEF S2
  <2>4. Says(S2 \o K, T) /\ (S2 \o K)[1] = S2[1]
    BY <1>9, <2>3, SaysMore
  <2>5. plan' = S2 \o K
    BY <1>10, <2>1, <2>3 DEF Says
  <2>6. Says(plan', T) /\ plan'[1].do = "program"
    BY <1>12, <2>2, <2>3, <2>4, <2>5
  <2>7. Alone /\ T # {} => Held
    BY <1>5
  <2> QED BY <1>2, <1>11, <2>6, <2>7, CallWits
<1>15. CASE w # b /\ w.gen + 1 # b.gen
  <2>1. Q = Do("distrust") /\ Q \in Seq(Steps)
    BY <1>7, <1>15, DoIs
  <2>2. plan' = Do("distrust") \o K
    BY <1>10, <2>1
  <2>3. Tail(plan') = K /\ plan' # <<>> /\ plan'[1] = Simple("distrust")
    BY <1>9, <2>2, DoFirst DEF Says
  <2>4. Distrusting'
    <3>1. Now("distrust")'
      BY <2>3, ToldNext DEF Simple
    <3>2. ~Has(Tail(plan), "distrust")'
      <4>1. ~Has(Tail(plan'), "distrust")
        BY <1>9, <2>3 DEF Says
      <4> QED BY <4>1 DEF Has
    <3> QED BY <3>1, <3>2 DEF Distrusting
  <2>5. ~Alone
    <3>1. SUFFICES ASSUME Alone PROVE FALSE
      OBVIOUS
    <3>2. Lonely /\ i = First /\ Held
      BY <1>5, <3>1 DEF JBody
    <3>3. Firm /\ (w = ledger.policy \/ w.gen + 1 = ledger.policy.gen)
      BY <1>2, <3>2, CallFirm DEF Witness
    <3> QED BY <1>15, <3>3 DEF Firm
  <2>6. ~Alone'
    <3>1. found' = found
      BY <1>2 DEF disk
    <3> QED BY <2>5, <3>1 DEF Alone
  <2> QED BY <2>4, <2>6 DEF JBody
<1> QED BY <1>13, <1>14, <1>15

LEMMA FormatTells ==
  ASSUME IBody, JBody, InStep, NEW p \in Pin, Format(p) PROVE JBody'
<1> DEFINE old == ram.ledger.gens[First]
           g == IF old = 0 THEN GenNext(ram.ledger) ELSE old
           b == [val |-> Strict,
                 gen |-> IF ram.ledger.live THEN ram.ledger.policy.gen + 1 ELSE 0]
           h == Simple("head")
           c == NowStep(First, p, g, b)
           S0 == SealNow(Super, Super, 0, b)
           S1 == SealNow(First, p, g, b)
           E == IF old = g THEN <<>> ELSE CommitGen(First, g)
           V == <<ProveStep(First, p)>>
           N == NewSession(First, p)
           A1 == Do("head") \o Do("refresh")
           A2 == A1 \o S0
           A3 == A2 \o S1
           A4 == A3 \o E
           A5 == A4 \o Do("refresh")
           A6 == A5 \o Do("fill")
           A7 == A6 \o Do("refresh")
           A8 == A7 \o V
           A9 == A8 \o N
           T == {h, c}
<1>1. ram.state = "blank" /\ \E w : Begin(A9, w, FALSE)
  BY DEF Format, Call, ProveStep
<1>2. InOrder /\ UNCHANGED <<disk, ram, hits>> /\ plan' = A9 \o Do("done")
  <2> HIDE DEF A9
  <2> QED BY <1>1, CallBegins
<1>3. ram.ledger = ledger /\ TypeDisk /\ Types /\ First \in Identity /\ First \in Slot
      /\ Super \in Slot /\ Super # First
  BY <1>2, SlotType, NamesAssumption, VaultAssumption DEF InOrder
<1>4. old \in Nat /\ g \in Nat /\ (old # 0 => g = ledger.gens[First])
  BY <1>3, LedgerType, GenNextIs
<1>5. b \in Body /\ b = FormatHead.policy /\ p \in Key /\ Super \in Key /\ Super \notin Pin
  <2>1. ledger.policy.gen \in Nat /\ ledger.live \in BOOLEAN
    BY <1>3, LedgerType
  <2>2. b \in Policies
    BY <1>3, <2>1 DEF Policies
  <2>3. b = FormatHead.policy
    <3>1. CASE ledger.live
      <4>1. FormatHead = [ledger EXCEPT !.used = 0, !.policy = [val |-> Strict, gen |-> @.gen + 1]]
        BY <1>3, <3>1 DEF FormatHead
      <4>2. ledger \in Ledgers
        BY <1>3 DEF TypeDisk
      <4> QED BY <1>3, <3>1, <4>1, <4>2 DEF Ledgers
    <3>2. CASE ~ledger.live
      <4>1. FormatHead = [NoLedger EXCEPT !.live = TRUE]
        BY <1>3, <3>2 DEF FormatHead
      <4> QED BY <1>3, <3>2, <4>1 DEF NoLedger
    <3> QED BY <3>1, <3>2
  <2> QED BY <1>3, <2>2, <2>3, PolicyBody, KeysDiffer DEF Body, Key
<1> HIDE DEF old, g, b
<1>6. StepIs(c, First, p, g, b) /\ ~c.later
  BY <1>3, <1>4, <1>5, NowStepIs
<1>7. h \in Steps /\ h.do = "head" /\ Do("head") = <<h>>
  BY DoIs
<1> DEFINE W == {c}
<1>8. Says(S0, {}) /\ Says(S1, W)
  <2>1. Says(S0, {})
    BY <1>3, <1>5, SaysSeal
  <2>2. Says(S1, IF First = First /\ p \in Pin THEN {c} ELSE {})
    BY <1>3, <1>4, <1>5, SaysSeal
  <2> QED BY <2>1, <2>2
<1>9. E = <<>> \/ Says(E, {})
  BY <1>3, <1>4, SaysGen
<1>10. Says(V, {}) /\ Says(N, {})
  BY <1>3, SaysSession
<1>11. Says(Do("refresh"), {}) /\ Says(Do("fill"), {}) /\ Says(Do("done"), {})
  BY SaysDo
<1> HIDE DEF h, c, W, S0, S1, E, V, N
<1> DEFINE U == {h}
<1>12. Says(Do("head"), U)
  BY <1>7, SaysOne DEF Telling
<1> HIDE DEF U
<1>13. Says(A1, U) /\ A1[1] = Do("head")[1]
  <2> DEFINE H == Do("head")
             D == Do("refresh")
  <2>1. Says(H, U) /\ Says(D, {})
    BY <1>11, <1>12
  <2> HIDE DEF H, D
  <2>2. Says(H \o D, U)
    BY <2>1, SaysMore
  <2>3. (H \o D)[1] = H[1]
    BY <2>1 DEF Says
  <2> QED BY <2>2, <2>3 DEF H, D
<1> HIDE DEF A1
<1>14. Says(A2, U) /\ A2[1] = A1[1]
  BY <1>8, <1>13, SaysMore
<1> HIDE DEF A2
<1> HIDE DEF T
<1>15. Says(A3, T) /\ A3[1] = A2[1]
  <2>1. Says(A2 \o S1, U \cup W) /\ (A2 \o S1)[1] = A2[1]
    BY <1>8, <1>14, SaysCat
  <2>2. U \cup W = T
    BY DEF U, W, T
  <2> QED BY <1>14, <2>1, <2>2
<1> HIDE DEF A3
<1>16. Says(A4, T) /\ A4[1] = A3[1]
  <2>1. CASE E = <<>>
    <3>1. A3 \o <<>> = A3
      BY <1>15 DEF Says
    <3> QED BY <1>15, <2>1, <3>1
  <2>2. CASE Says(E, {})
    <3>1. Says(A3 \o E, T) /\ (A3 \o E)[1] = A3[1]
      BY <1>15, <2>2, SaysMore
    <3> QED BY <1>15, <3>1
  <2> QED BY <1>9, <2>1, <2>2
<1> HIDE DEF A4
<1>17. Says(A5, T) /\ A5[1] = A4[1]
  BY <1>11, <1>16, SaysMore
<1> HIDE DEF A5
<1>18. Says(A6, T) /\ A6[1] = A5[1]
  BY <1>11, <1>17, SaysMore
<1> HIDE DEF A6
<1>19. Says(A7, T) /\ A7[1] = A6[1]
  BY <1>11, <1>18, SaysMore
<1> HIDE DEF A7
<1>20. Says(A8, T) /\ A8[1] = A7[1]
  BY <1>10, <1>19, SaysMore
<1> HIDE DEF A8
<1>21. Says(A9, T) /\ A9[1] = A8[1]
  BY <1>10, <1>20, SaysMore
<1> HIDE DEF A9
<1>22. Says(A9 \o Do("done"), T) /\ (A9 \o Do("done"))[1] = A9[1]
  BY <1>11, <1>21, SaysMore
<1>23. Says(plan', T) /\ plan'[1].do = "head"
  <2>1. Do("head")[1] = h
    BY <1>7
  <2> QED BY <1>2, <1>7, <1>13, <1>14, <1>15, <1>16, <1>17, <1>18, <1>19, <1>20, <1>21, <1>22, <2>1
<1>24. ASSUME Alone /\ Lonely PROVE Witnessing' /\ Changing' /\ Heading'
  <2>1. Told' = {h, c}
    BY <1>23, ToldNext DEF Says, T
  <2>2. c.do = "program" /\ c.slot = First /\ c.key \in Pin /\ c.gen = g /\ c.body = b
    BY <1>6 DEF StepIs
  <2>3. ledger' = ledger /\ ram' = ram /\ hits' = hits /\ found' = found
    BY <1>2 DEF disk
  <2>4. ToDo("head")' /\ ~ToDo("policy")'
    BY <1>7, <2>1, <2>2 DEF ToDo
  <2>5. Changing'
    BY <2>4 DEF Changing, ToDo
  <2>6. Witnessing'
    <3>1. FormatHead' = FormatHead
      BY <2>3 DEF FormatHead
    <3>2. ASSUME NEW st \in Told', Wit(st) PROVE Coming(st.body)'
      <4>1. st.body = FormatHead'.policy
        BY <1>5, <1>7, <2>1, <2>2, <3>1, <3>2 DEF Wit
      <4> QED BY <2>4, <4>1 DEF Coming
    <3> QED BY <2>4, <3>2 DEF Witnessing, Wit
  <2>7. Heading'
    <3>1. ASSUME Held PROVE hits >= 1 /\ Pending'
      <4>1. hits >= 1
        BY <1>1, <1>2, <1>24, <3>1, CallFirm
      <4>2. old # 0
        <5>1. Owned(Current, ledger.gens) /\ Current[First] # Blank
          BY <1>2, <3>1, Facts DEF InOrder, Held
        <5> QED BY <1>3, <5>1, FirstIs DEF old
      <4>3. Wit(c) /\ ~c.later /\ c.gen = ledger'.gens[First]
        BY <1>4, <1>6, <2>2, <2>3, <4>2 DEF Wit
      <4> QED BY <2>1, <4>1, <4>3 DEF Pending
    <3> QED BY <2>3, <3>1 DEF Heading, Held
  <2> QED BY <2>5, <2>6, <2>7
<1> QED BY <1>2, <1>23, <1>24, CallTells

-----------------------------------------------------------------------------
(***************************************************************************)
(* Nobody who is alone is distrusted.                                      *)
(***************************************************************************)
LEMMA HitsGrow ==
  ASSUME Next, hits \in Nat PROVE hits' \in Nat /\ hits <= hits'
<1>1. ASSUME NEW P, NEW w, NEW b, Begin(P, w, b) PROVE hits' = hits
  BY <1>1 DEF Begin
<1>2. Mount => hits' = hits
  BY DEF Mount
<1>3. Step => hits' = hits
  <2>1. /\ DoProgram => hits' = hits
        /\ DoRetire \/ DoGen \/ GenRefused \/ DoPolicy \/ DoEpoch \/ DoHead => hits' = hits
    BY DEF DoProgram, DoRetire, DoGen, GenRefused, DoPolicy, DoEpoch, DoHead
  <2>2. Rotate \/ NoRotation \/ DoRefresh \/ EraseOne \/ Erased \/ FillOne \/ Filled => hits' = hits
    BY DEF Rotate, NoRotation, DoRefresh, EraseOne, Erased, FillOne, Filled
  <2>3. ResealOne \/ Resealed \/ Sync \/ Due \/ Distrust => hits' = hits
    BY DEF ResealOne, Resealed, Sync, Due, Distrust
  <2>4. Prove \/ Fail \/ OpenSession \/ Done => hits' = hits
    BY DEF Prove, Fail, OpenSession, Done
  <2> QED BY <2>1, <2>2, <2>3, <2>4 DEF Step
<1>4. Cut => hits' = hits \/ hits' = hits + 1
  BY DEF Cut
<1>5. Error \/ BadSuper => hits' = hits + 1
  BY DEF Error, BadSuper, Abandon
<1>6. Wipe => hits' = hits
  BY <1>1 DEF Wipe, Call
<1>7. \A p \in Pin : Format(p) \/ Unlock(p) => hits' = hits
  BY <1>1 DEF Format, Unlock, Call
<1>8. \A s \in sessions, u \in User, d \in Data : Write(s, u, d) => hits' = hits
  BY <1>1 DEF Write, Call
<1>9. \A s \in sessions, u \in User : Clear(s, u) => hits' = hits
  BY <1>1 DEF Clear, Call
<1>10. \A s \in sessions, p \in Pin : ChangePin(s, p) => hits' = hits
  BY <1>1 DEF ChangePin, Call
<1>11. \A s \in sessions, i \in Identity, p \in Pin : AddIdentity(s, i, p) => hits' = hits
  BY <1>1 DEF AddIdentity, Call
<1>12. \A s \in sessions, v \in Values : SetPolicy(s, v) => hits' = hits
  BY <1>1 DEF SetPolicy, Call
<1>13. hits' = hits \/ hits' = hits + 1
  BY <1>2, <1>3, <1>4, <1>5, <1>6, <1>7, <1>8, <1>9, <1>10, <1>11, <1>12 DEF Next
<1> QED BY <1>13

LEMMA StepTells ==
  ASSUME IBody, JBody, Step PROVE JBody'
BY QuietSteps, QuietFronts, QuietRetire, Learnt, Distrusted, QuietEnd, Rotating, Programmed,
   Committed, Amended, Wiped, Headed DEF Step

LEMMA NextTells ==
  ASSUME IBody, JBody, Next, kept', hits' <= 1 PROVE JBody'
<1>1. CASE Mount
  BY <1>1, QuietMount
<1>2. CASE Step
  BY <1>2, StepTells
<1>3. CASE Cut
  BY <1>3, CutOff
<1>4. CASE Error
  BY <1>4, Failed
<1>5. CASE BadSuper
  BY <1>5 DEF BadSuper
<1>6. CASE Wipe
  <2>1. InStep
    BY <1>6, CallInStep DEF Wipe, Call
  <2> QED BY <1>6, <2>1, WipeTells
<1>7. ASSUME NEW p \in Pin, Format(p) PROVE JBody'
  <2>1. InStep
    BY <1>7, CallInStep DEF Format, Call
  <2> QED BY <1>7, <2>1, FormatTells
<1>8. ASSUME NEW p \in Pin, Unlock(p) PROVE JBody'
  <2>1. InStep
    BY <1>8, CallInStep DEF Unlock
  <2> QED BY <1>8, <2>1, UnlockTells
<1>9. ASSUME NEW s \in sessions, NEW u \in User, Clear(s, u) PROVE JBody'
  <2>1. InStep
    BY <1>9, CallInStep DEF Clear, Call
  <2> QED BY <1>9, <2>1, ClearTells
<1>10. ASSUME NEW s \in sessions, NEW u \in User, NEW d \in Data, Write(s, u, d) PROVE JBody'
  <2>1. InStep
    BY <1>10, CallInStep DEF Write, Call
  <2> QED BY <1>10, <2>1, WriteTells
<1>11. ASSUME NEW s \in sessions, NEW p \in Pin, ChangePin(s, p) PROVE JBody'
  <2>1. InStep
    BY <1>11, CallInStep DEF ChangePin, Call
  <2> QED BY <1>11, <2>1, ChangePinTells
<1>12. ASSUME NEW s \in sessions, NEW p \in Pin, NEW i \in Identity, AddIdentity(s, i, p)
       PROVE  JBody'
  <2>1. InStep
    BY <1>12, CallInStep DEF AddIdentity, Call
  <2> QED BY <1>12, <2>1, AddIdentityTells
<1>13. ASSUME NEW s \in sessions, NEW v \in Values, SetPolicy(s, v) PROVE JBody'
  <2>1. InStep
    BY <1>13, CallInStep DEF SetPolicy, Call
  <2> QED BY <1>13, <2>1, SetPolicyTells
<1> QED BY <1>1, <1>2, <1>3, <1>4, <1>5, <1>6, <1>7, <1>8, <1>9, <1>10, <1>11, <1>12, <1>13
        DEF Next

LEMMA InitTells == Init => JInv
<1> SUFFICES ASSUME Init PROVE JBody
  BY DEF JInv
<1>1. IBody /\ plan = <<>>
  BY InitIs DEF Init
<1>2. /\ Owned(Current, ledger.gens) /\ found = FoundOf(Current, ledger.gens)
      /\ found[First] # NoPin <=> Current[First] # Blank
      /\ Current[First] # Blank => ledger.live
  BY <1>1, Facts, SlotType DEF IBody, Types
<1>3. Alone => ~Held
  <2>1. CASE NeverUsed
    BY <1>2, <2>1 DEF NeverUsed, NoLedger, Held
  <2>2. CASE TwoIdentities
    <3>1. PICK i \in Identity \ {First}, p \in Pin, q \in Pin :
            /\ p # q /\ calls = 1
            /\ ledger = [NoLedger EXCEPT !.live = TRUE, !.gens[First] = 1, !.gens[i] = 2]
            /\ last = [x \in Slot |-> "A"]
            /\ flash = [x \in Slot |->
                          IF x = Super THEN Written(0, Super)
                          ELSE IF x = First THEN Written(1, p)
                          ELSE IF x = i THEN Written(2, q)
                          ELSE [A |-> Rec(0, 1, Filler, Nothing), B |-> Blank]]
      BY <2>2, Zenon DEF TwoIdentities
    <3>2. TwoAre(i, p, q)
      BY <3>1, TwoLedger DEF TwoAre
    <3>3. Current = TwoCur(i, p, q)
      BY <3>2, TwoFlash
    <3>4. Current[i] = Rec(0, 2, q, NoLedger.policy)
      BY <3>3, TwoAt
    <3>5. Current[i] # Blank /\ Current[i].key = q
      BY <3>4, TwoRecs DEF RecOK
    <3>6. PinIn(Current, i) = q
      BY <1>2, <3>5, PinIs
    <3>7. found[i] = q
      BY <1>1, <1>2, <3>6, Facts DEF IBody, Types
    <3> QED BY <3>7, KeysDiffer DEF Alone
  <2> QED BY <2>1, <2>2 DEF Init
<1>4. Told = {} /\ ~Has(plan, "distrust") /\ ~Now("distrust") /\ ~Now("retire")
  BY <1>1, TellNone DEF Told, Now
<1>5. Entered
  <2>1. ~(Len(<<>>) >= 1)
    OBVIOUS
  <2> QED BY <1>1, <1>4, <2>1 DEF Entered, Entering
<1>6. ASSUME Alone PROVE Lonely
  <2>1. Witnessing /\ Changing /\ Heading /\ BlankHeld
    BY <1>3, <1>4, <1>6 DEF Witnessing, Changing, Heading, BlankHeld
  <2> QED BY <1>3, <1>4, <1>5, <1>6, <2>1 DEF Lonely
<1> QED BY <1>4, <1>6 DEF JBody, Distrusting

LEMMA StutterTells ==
  ASSUME UNCHANGED vars, JInv PROVE JInv'
<1>1. /\ UNCHANGED <<flash, last, ledger, found, ram, hits>> /\ plan' = plan /\ kept' = kept
  BY DEF vars, disk, ghost
<1>2. Current' = Current
  BY <1>1, DiskSame
<1>3. /\ Told' = Told /\ Witness' = Witness /\ (Held' <=> Held) /\ (Alone' <=> Alone)
      /\ (Firm' <=> Firm) /\ FormatHead' = FormatHead
      /\ \A w : (Now(w)' <=> Now(w)) /\ (Has(plan, w)' <=> Has(plan, w))
      /\ \A w : ToDo(w)' <=> ToDo(w)
  BY <1>1, <1>2, ToldNext DEF Told, Witness, Held, Alone, Firm, FormatHead, Now, ToDo
<1>4. Pending' <=> Pending
  BY <1>1, <1>3 DEF Pending
<1>5. \A b : Coming(b)' <=> Coming(b)
  BY <1>1, <1>3 DEF Coming
<1>6. Entered' <=> Entered
  <2>1. \A R : Entering(R)' <=> Entering(R)
    BY <1>1, <1>3 DEF Entering, CurrentOf, Firm
  <2> QED BY <1>1, <1>3, <2>1 DEF Entered
<1>7. /\ (Near' <=> Near) /\ (Informed' <=> Informed) /\ (Witnessing' <=> Witnessing)
      /\ (Changing' <=> Changing) /\ (Heading' <=> Heading) /\ (BlankHeld' <=> BlankHeld)
  BY <1>1, <1>3, <1>4, <1>5 DEF Near, Informed, Witnessing, Changing, Heading, BlankHeld
<1>8. Distrusting' <=> Distrusting
  BY <1>1, <1>3 DEF Distrusting, Has
<1>9. JBody' <=> JBody
  BY <1>3, <1>6, <1>7, <1>8 DEF JBody, Lonely
<1> QED BY <1>1, <1>9 DEF JInv

LEMMA TellsStep == IInv /\ JInv /\ [Next]_vars => JInv'
<1> SUFFICES ASSUME IInv, JInv, [Next]_vars, kept', hits' <= 1 PROVE JBody'
  BY DEF JInv
<1>1. CASE Next
  <2>1. kept /\ IBody
    BY <1>1, KeptOnce DEF IInv
  <2>2. hits \in Nat
    BY <2>1 DEF IBody, Types
  <2>3. hits <= 1
    <3>1. hits' \in Nat /\ hits <= hits'
      BY <1>1, <2>2, HitsGrow
    <3> QED BY <2>2, <3>1
  <2>4. JBody
    BY <2>1, <2>3 DEF JInv
  <2> QED BY <1>1, <2>1, <2>4, NextTells
<1>2. CASE UNCHANGED vars
  BY <1>2, StutterTells DEF JInv
<1> QED BY <1>1, <1>2

\* As long as there is one identity, and no more than one call was cut or failed, its
\* canary is at most one policy behind, and an unlock never takes the store for tampered
\* with (vault.rs reconcile_policy: "any other gap is unreachable").
THEOREM NoOneDistrusted == Spec => []NoFalseTamper
<1>1. Init => IInv
  BY InitIs DEF Init, IInv
<1>2. JInv => NoFalseTamper
  <2> SUFFICES ASSUME JInv, kept, hits <= 1, Now("distrust")
               PROVE  \E i \in Identity \ {First} : found[i] # NoPin
    BY DEF NoFalseTamper
  <2> QED BY DEF JInv, JBody, Lonely, Alone
<1> QED BY <1>1, <1>2, InvStep, InitTells, TellsStep, PTL DEF Spec

=============================================================================
