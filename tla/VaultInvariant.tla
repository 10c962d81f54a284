--------------------------- MODULE VaultInvariant ---------------------------
(***************************************************************************)
(* The inductive invariant of VaultRecords, from which its theorems follow.*)
(*                                                                         *)
(* Types, and three parts.  Universal holds at every step: the flash       *)
(* amounts to what is promised, every record elected opens, a session that *)
(* is current has the key of its identity.  Atrest is what holds after a   *)
(* call that succeeded: RAM is what a mount would read, and nothing is     *)
(* left over.  Phase is what holds within a call.  It reads the steps that *)
(* are still to come: a call settles (Settle: nothing that it was made for *)
(* is left to do), or its next step is one of those that change what the   *)
(* flash amounts to, and then it is said beforehand what the flash will    *)
(* amount to after that step, that this is as promised and allowed by      *)
(* module WalletStore, and that the steps after it are right for it        *)
(* (Ahead, Ready).                                                         *)
(*                                                                         *)
(* All of it is claimed as long as the caller mounts after a call that     *)
(* failed (kept).                                                          *)
(***************************************************************************)
EXTENDS VaultRecords

(***************************************************************************)
(* Types.                                                                  *)
(***************************************************************************)
Key == Pin \cup {Filler, Super}
Body == Policies \cup Data \cup {Nothing}
Record == [kind : {"record"}, epoch : Nat, gen : Nat, key : Key, body : Body]
Ledgers == [live : BOOLEAN, epoch : Nat, gens : [Identity -> Nat], used : Nat, policy : Policies]
Tables == [Slot -> Side \cup {"none"}]
Memory == [ledger : Ledgers, table : Tables, state : {"off", "blank", "formatted"},
           policy : Policies, tamper : BOOLEAN]
Session == [id : Identity, key : Pin, gen : Nat, epoch : Nat]
Where == User \cup Identity

\* What a call may have left once its own commit is behind it.
SettleKinds == {"refresh", "due", "cleanup", "sync", "fill", "rotate", "distrust", "prove",
                "session", "done", "mounted"}

ResealSteps == [do : {"reseal"}, id : Identity, from : Pin, old : Nat, key : Pin, gen : Nat]

Programs == [do : {"program"}, slot : Slot, key : Key, gen : Nat, body : Body, later : BOOLEAN]

Steps ==
  [do : {"refresh", "due", "cleanup", "sync", "fill", "rotate", "distrust", "done", "mounted",
         "head", "epoch", "erase"}]
  \cup Programs
  \cup [do : {"retire"}, slot : Slot]
  \cup [do : {"gen"}, id : Identity, gen : Nat]
  \cup [do : {"policy"}, policy : Policies]
  \cup [do : {"session", "prove"}, id : Identity, key : Pin]
  \cup ResealSteps

Cells == Record \cup {Blank, Garbage}
Pairs == [Side -> Cells]
Flashes == [Slot -> Pairs]
Lasts == [Slot -> Side]

TypeDisk ==
  /\ flash \in Flashes
  /\ last \in Lasts
  /\ ledger \in Ledgers

Types ==
  /\ TypeDisk
  /\ ram \in Memory
  /\ sessions \in SUBSET Session
  /\ plan \in Seq(Steps)
  /\ promised = [x \in Where |-> promised[x]]
  /\ gap \in BOOLEAN
  /\ hits \in Nat

-----------------------------------------------------------------------------
(***************************************************************************)
(* What the flash amounts to, as an operator of the flash: of a pair of    *)
(* sides the record that is elected, or Blank.                             *)
(***************************************************************************)
Fit(l, x, c) == c.kind = "record" /\ IsCandidate(l, x, c)

Win(l, x, pair, s) ==
  IF Fit(l, x, pair[s]) THEN s ELSE IF Fit(l, x, pair[Other(s)]) THEN Other(s) ELSE "none"

Top(l, x, pair, s) ==
  IF Fit(l, x, pair[s]) THEN pair[s]
  ELSE IF Fit(l, x, pair[Other(s)]) THEN pair[Other(s)] ELSE Blank

\* No side but the elected one holds anything.
CleanPair(l, x, pair, s) == \A t \in Side : pair[t] # Blank => t = Win(l, x, pair, s)

WinOf(fl, la, l) == [x \in Slot |-> Win(l, x, fl[x], la[x])]
Winners == WinOf(flash, last, ledger)
WinAt(x) == Win(ledger, x, flash[x], last[x])

CurOf(fl, la, l) == [x \in Slot |-> Top(l, x, fl[x], la[x])]
CurrentOf(l) == CurOf(flash, last, l)
Current == CurOf(flash, last, ledger)

CleanOf(l, x) == CleanPair(l, x, flash[x], last[x])
Clean(x) == CleanOf(ledger, x)

PinIn(e, i) ==
  IF e[Super] # Blank /\ e[Super].body # Corrupt /\ e[i] # Blank /\ e[i].key \in Pin
  THEN e[i].key ELSE NoPin

OwnersIn(e, g, r) == {i \in Identity : g[i] = r.gen /\ PinIn(e, i) = r.key}

HoldsIn(e, g, u) ==
  IF e[u] = Blank \/ e[u].key = Filler THEN Nothing
  ELSE IF OwnersIn(e, g, e[u]) = {} THEN Corrupt
  ELSE <<CHOOSE i \in OwnersIn(e, g, e[u]) : TRUE, e[u].body>>

FoundOf(e, g) == [x \in Where |-> IF x \in User THEN HoldsIn(e, g, x) ELSE PinIn(e, x)]

\* The model says the same.
StoredOK == Stored = FoundOf(Current, ledger.gens)

ElectOK ==
  /\ OnFlash = Winners
  /\ \A l : Elect(l) = WinOf(flash, last, l)
  /\ \A x \in Slot : At(Winners, x) = Current[x]

-----------------------------------------------------------------------------
(***************************************************************************)
(* What is right about it: e the elected records, g the generations, f     *)
(* what a mount finds, S the sessions.                                     *)
(***************************************************************************)
Uniq(g) == \A i, j \in Identity : g[i] = g[j] /\ g[i] # 0 => i = j

IsFiller(r, g) == r.key = Filler /\ r.gen = g[First]

\* Everything elected opens: a canary under a PIN, user data under the canary of
\* the identity whose generation it carries, all else under the filler key.
Owned(e, g) ==
  /\ e \in [Slot -> Record \cup {Blank}]
  /\ g \in [Identity -> Nat] /\ Uniq(g)
  /\ \A x \in Identity \cup User :
       e[x] # Blank => e[x].gen # 0 /\ e[Super] # Blank /\ e[First] # Blank /\ e[First].key \in Pin
  /\ e[Super] # Blank => e[Super].body \in Policies
  /\ \A i \in Identity :
       e[i] # Blank => \/ IsFiller(e[i], g)
                       \/ e[i].key \in Pin /\ e[i].gen = g[i] /\ e[i].body \in Policies
  /\ \A u \in User :
       e[u] # Blank => \/ IsFiller(e[u], g)
                       \/ /\ e[u].key \in Pin /\ e[u].body \in Data
                          /\ \E i \in Identity : /\ e[u].gen = g[i]
                                                 /\ e[i] # Blank /\ e[i].key = e[u].key

IsCurrent(s, l) == s.epoch = l.epoch /\ s.gen = l.gens[s.id]

SessOK(S, l, f) ==
  \A s \in S :
    /\ s.epoch <= l.epoch
    /\ s.gen = 0 \/ \E j \in Identity : s.gen <= l.gens[j]
    /\ IsCurrent(s, l) => s.gen # 0 /\ f[s.id] = s.key

\* RAM takes a store for blank only where there is nothing to lose.
BlankOK(st, S, e, l) ==
  st = "blank" => /\ \A x \in (Identity \cup User) \ {First} : e[x] = Blank
                  /\ \A s \in S : ~IsCurrent(s, l)

Sound(e, l, pr, S, st) ==
  /\ Owned(e, l.gens)
  /\ \A x \in Where : FoundOf(e, l.gens)[x] \in pr[x]
  /\ SessOK(S, l, FoundOf(e, l.gens))
  /\ BlankOK(st, S, e, l)

Put(f, x, v) == [f EXCEPT ![x] = v]

\* A step of WalletStore leads from h to f.
Allowed(h, f) ==
  \/ f = h
  \/ \E u \in User, i \in Identity, d \in Data : h[i] # NoPin /\ f = Put(h, u, <<i, d>>)
  \/ \E u \in User : f = Put(h, u, Nothing)
  \/ \E i \in Identity, p \in Pin : h[i] # NoPin /\ f = Put(h, i, p)
  \/ \E p \in Pin : (\A i \in Identity : h[i] = NoPin) /\ f = Put(h, First, p)
  \/ \E i \in Identity, p \in Pin :
       /\ i # First /\ h[First] # NoPin
       /\ f = [x \in Where |-> IF h[x] \in {i} \X Data THEN Nothing ELSE IF x = i THEN p ELSE h[x]]
  \/ f = Nobody

\* The flash may amount to e under ledger l after the next step.
Ahead(e, l) ==
  Sound(e, l, promised, sessions, ram.state) /\ Allowed(found, FoundOf(e, l.gens))

FullIn(gp, e, f) == ~gp /\ f[First] # NoPin => \A x \in Slot : e[x] # Blank

FullNow == FullIn(gap, Current, found)

-----------------------------------------------------------------------------
(***************************************************************************)
(* Where a call is.                                                        *)
(***************************************************************************)
Simple(w) == [do |-> w]

Has(K, w) == \E n \in DOMAIN K : K[n].do = w

\* The steps K are right for a flash that amounts to e and f: w is what the caller
\* wants, S the sessions, gp whether filler may be missing.
Needs(K, e, f, w, S, gp) ==
  /\ K \in Seq(Steps) /\ K # <<>>
  /\ \A n \in DOMAIN K : /\ K[n].do \in SettleKinds
                         /\ K[n].do \in {"done", "mounted"} <=> n = Len(K)
                         /\ K[n].do = "session" => f[K[n].id] = K[n].key
                         /\ K[n].do = "prove" => \A m \in DOMAIN K : K[m].do = "fill" => m < n
  /\ Has(K, "done") => w = f
  /\ IF Has(K, "fill") THEN f[First] # NoPin ELSE FullIn(gp, e, f)
  /\ Has(K, "mounted") => S = {} /\ ~Has(K, "session")
  /\ Has(K, "due") => Has(K, "mounted") /\ ~Has(K, "fill")

Ready(K, e, f) == Needs(K, e, f, goal, sessions, gap)

Swept(K, l, X) == Has(K, "cleanup") \/ \A x \in X : CleanOf(l, x)

StateIs(f) == ram.state = IF f[First] # NoPin THEN "formatted" ELSE "blank"
PolicyOK == ram.tamper \/ ram.policy = ledger.policy

\* RAM will do for the steps K, or they read it anew.
RamFor(K, f) == K[1].do = "refresh" \/ (StateIs(f) /\ PolicyOK)

Settle(K) ==
  /\ Ready(K, Current, found)
  /\ Swept(K, ledger, Slot)
  /\ Has(K, "rotate") => ledger.live
  /\ K[1].do = "refresh" \/ (ram.ledger = ledger /\ ram.table = Winners)
  /\ RamFor(K, found)

Live == ram.ledger = ledger /\ ledger.live

\* A record is about to be sealed, by itself.
Seal(R) ==
  /\ Len(R) >= 3 /\ R[1] \in Programs /\ ~R[1].later
  /\ R[2] = [do |-> "retire", slot |-> R[1].slot]
  /\ Live /\ ram.table = Winners
  /\ Fit(ledger, R[1].slot, Sealed(R[1]))
  /\ LET e == Put(Current, R[1].slot, Sealed(R[1]))
         f == FoundOf(e, ledger.gens)
         K == Tail(Tail(R))
     IN Ahead(e, ledger) /\ Ready(K, e, f) /\ RamFor(K, f)
          /\ Swept(K, ledger, Slot \ {R[1].slot})

\* It is, and the side it takes the place of is to go.
Retire(R) ==
  /\ Len(R) >= 2 /\ R[1].do = "retire" /\ R[1].slot \in Slot
  /\ Live
  /\ WinAt(R[1].slot) = Target(R[1].slot)
  /\ \A y \in Slot \ {R[1].slot} : ram.table[y] = WinAt(y)
  /\ Ready(Tail(R), Current, found) /\ RamFor(Tail(R), found)
  /\ Swept(Tail(R), ledger, Slot \ {R[1].slot})

Amend(R) ==
  /\ Len(R) >= 2 /\ R[1].do = "policy" /\ R[1].policy \in Policies
  /\ Seal(Tail(R)) /\ Tail(Tail(Tail(R)))[1].do = "refresh"

\* A generation is about to be committed: what was sealed under it counts from
\* then on, and what was sealed under the one before it counts no longer.
Fresh(g) == \A j \in Identity : ledger.gens[j] < g

Gen(st) == st \in [do : {"gen"}, id : Identity, gen : Nat] /\ Fresh(st.gen)

Room == FullNow \/ ledger.used < GenCells

Commit(R) ==
  /\ Len(R) >= 2 /\ Gen(R[1]) /\ Live /\ Room
  /\ R[2].do = "refresh"
  /\ LET l == WithGen(ledger, R[1])
         e == CurrentOf(l)
     IN Ahead(e, l) /\ Ready(Tail(R), e, FoundOf(e, l.gens)) /\ Swept(Tail(R), l, Slot)

\* The canary has to be sealed before it, by the step st.
CommitAfter(st, R) ==
  /\ Len(R) >= 2 /\ Gen(R[1]) /\ Live /\ Room
  /\ R[2].do = "refresh"
  /\ st \in Programs /\ st.slot = R[1].id /\ st.gen = R[1].gen
  /\ LET l == WithGen(ledger, R[1])
         e == Put(CurrentOf(l), R[1].id, Sealed(st))
     IN Ahead(e, l) /\ Ready(Tail(R), e, FoundOf(e, l.gens))
          /\ Swept(Tail(R), l, Slot \ {R[1].id})

InSlot(x) == ram.table[x] = WinAt(x) /\ Clean(x)

Canary(R) ==
  /\ Len(R) >= 2 /\ CommitAfter(R[1], Tail(R)) /\ R[1].later
  /\ InSlot(R[1].slot) /\ Has(Tail(R), "cleanup")

\* C3 of a PIN change, from the identity's old generation to the new one.
Resealed1(c, st) ==
  IF c.key = Filler THEN Rec(ledger.epoch, st.gen, Filler, Nothing)
  ELSE Rec(ledger.epoch, st.gen, st.key, c.body)

IsOld(c, st) ==
  c # Blank /\ c.gen = st.old /\ ((c.key = Filler /\ st.id = First) \/ c.key = st.from)

Moved(x, st) ==
  /\ x \in User /\ IsOld(Current[x], st)
  /\ ram.table[x] = Other(WinAt(x)) /\ last[x] = ram.table[x]
  /\ flash[x][ram.table[x]] = Resealed1(Current[x], st)

ResealPlan(st, b) ==
  <<st, [do |-> "program", slot |-> st.id, key |-> st.key, gen |-> st.gen, body |-> b,
         later |-> TRUE],
    [do |-> "gen", id |-> st.id, gen |-> st.gen], Simple("refresh"), Simple("cleanup"),
    Simple("fill"), Simple("refresh"),
    [do |-> "session", id |-> st.id, key |-> st.key], Simple("done")>>

ResealFacts(st) ==
  /\ st \in ResealSteps /\ Live
  /\ Fresh(st.gen) /\ st.old = ledger.gens[st.id] /\ found[st.id] = st.from
  /\ goal = Put(found, st.id, st.key)
  /\ \A x \in Where : goal[x] \in promised[x]
  /\ FullNow /\ ram.state = "formatted"
  /\ \A x \in Slot : InSlot(x) \/ Moved(x, st)

Resealing(R) ==
  /\ Len(R) = 9 /\ R[1].do = "reseal" /\ R[2].body \in Policies
  /\ R = ResealPlan(R[1], R[2].body) /\ ResealFacts(R[1])

ResealingOne(R) ==
  /\ Len(R) = 10 /\ Resealing(Tail(R))
  /\ R[1] \in Programs /\ R[1].later
  /\ R[1].slot \in User /\ InSlot(R[1].slot)
  /\ IsOld(Current[R[1].slot], R[2])
  /\ Sealed(R[1]) = Resealed1(Current[R[1].slot], R[2])

\* A wipe.
NoRecord == [x \in Slot |-> Blank]

Epoch(R) ==
  /\ Len(R) >= 3 /\ R[1].do = "epoch" /\ R[2].do = "erase" /\ R[3].do = "refresh"
  /\ Live
  /\ Ready(Tail(Tail(R)), NoRecord, Nobody)
  /\ \A x \in Where : Nobody[x] \in promised[x]

Erasing(R) ==
  /\ Len(R) >= 2 /\ R[1].do = "erase" /\ R[2].do = "refresh"
  /\ ram.ledger = ledger
  /\ \A x \in Slot : WinAt(x) = "none"
  /\ Ready(Tail(R), Current, found)
  /\ Has(Tail(R), "rotate") => ledger.live

\* Format, up to the superblock; then as any seal and commit.
FormatGen == IF ledger.gens[First] = 0 THEN GenNext(ledger) ELSE ledger.gens[First]

SealStep(x, k, g, b, later) ==
  [do |-> "program", slot |-> x, key |-> k, gen |-> g, body |-> b, later |-> later]

RetireStep(x) == [do |-> "retire", slot |-> x]

FormatPlan(p, b) ==
  IF ledger.gens[First] = 0
  THEN <<Simple("head"), Simple("refresh"),
         SealStep(Super, Super, 0, b, FALSE), RetireStep(Super),
         SealStep(First, p, FormatGen, b, FALSE), RetireStep(First),
         [do |-> "gen", id |-> First, gen |-> FormatGen],
         Simple("refresh"), Simple("fill"), Simple("refresh"),
         [do |-> "prove", id |-> First, key |-> p],
         [do |-> "session", id |-> First, key |-> p], Simple("done")>>
  ELSE <<Simple("head"), Simple("refresh"),
         SealStep(Super, Super, 0, b, FALSE), RetireStep(Super),
         SealStep(First, p, FormatGen, b, FALSE), RetireStep(First),
         Simple("refresh"), Simple("fill"), Simple("refresh"),
         [do |-> "prove", id |-> First, key |-> p],
         [do |-> "session", id |-> First, key |-> p], Simple("done")>>

FormatFacts(p) ==
  /\ p \in Pin /\ ram.ledger = ledger
  /\ \A x \in Slot \ {Super} : Clean(x)
  /\ \A x \in Slot \ {Super, First} : Current[x] = Blank
  /\ \A s \in sessions : ~IsCurrent(s, ledger)
  /\ goal = Put(found, First, p)
  /\ \A x \in Where : goal[x] \in promised[x]

Formatting0(p, R) ==
  /\ R = FormatPlan(p, FormatHead.policy)
  /\ ram.table = Winners /\ ram.state = "blank" /\ Clean(Super)

Formatting1(p, R) ==
  /\ R = Tail(FormatPlan(p, ledger.policy))
  /\ Live /\ ledger.used < GenCells /\ Clean(Super)

Formatting2(p, R) ==
  /\ R = Tail(Tail(FormatPlan(p, ledger.policy)))
  /\ Live /\ ledger.used < GenCells /\ Clean(Super) /\ ram.table = Winners

Formatting3(p, R) ==
  /\ R = Tail(Tail(Tail(FormatPlan(p, ledger.policy))))
  /\ Live /\ ledger.used < GenCells
  /\ WinAt(Super) = Target(Super) /\ \A x \in Slot \ {Super} : ram.table[x] = WinAt(x)

Formatting(R) ==
  \E p \in Pin :
    /\ FormatFacts(p)
    /\ Formatting0(p, R) \/ Formatting1(p, R) \/ Formatting2(p, R) \/ Formatting3(p, R)

FirstCanary(R) ==
  /\ Len(R) >= 3 /\ CommitAfter(R[1], Tail(Tail(R))) /\ ~R[1].later /\ R[1].slot = First
  /\ R[2] = [do |-> "retire", slot |-> First]
  /\ InSlot(First) /\ Current[First] = Blank

FirstRetire(R) ==
  /\ Len(R) >= 2 /\ R[1] = [do |-> "retire", slot |-> First]
  /\ Target(First) = "A" /\ flash[First]["B"] = Blank /\ Current[First] = Blank
  /\ Commit(Tail(R))

Ahead1(R) ==
  Seal(R) \/ Amend(R) \/ Canary(R) \/ Resealing(R) \/ ResealingOne(R) \/ Epoch(R)

Phase ==
  \/ Settle(plan)
  \/ Ahead1(plan)
  \/ Len(plan) > 1 /\ plan[1] = Simple("rotate") /\ Ahead1(Tail(plan))
  \/ Retire(plan) \/ Commit(plan) \/ Erasing(plan) \/ Formatting(plan)
  \/ FirstCanary(plan) \/ FirstRetire(plan)

\* Between calls, where the last one succeeded.
Atrest ==
  result = "ok" /\ ram.state # "off" =>
    /\ ram.ledger = ledger /\ ram.table = Winners /\ StateIs(found) /\ PolicyOK
    /\ \A x \in Slot : Clean(x)

FoundIs == found = FoundOf(Current, ledger.gens)
Right == Sound(Current, ledger, promised, sessions, ram.state)

\* No record is of an epoch to come, and before the first format there is none.
Dated ==
  \A x \in Slot : \A s \in Side : flash[x][s].kind = "record" => flash[x][s].epoch <= ledger.epoch
Virgin ==
  ~ledger.live => ledger = NoLedger /\ \A x \in Slot : \A s \in Side : flash[x][s] = Blank

\* Before RAM has been read, and while a mount is under way, nobody has a session.
Unread == ram.state = "off" => sessions = {} /\ (plan # <<>> => plan[1].do = "refresh")
Mounting == Has(plan, "mounted") => sessions = {}

Known == ram.state = "formatted" /\ ram.ledger = ledger => PolicyOK

Occupied == Has(plan, "fill") \/ FullNow

Universal ==
  FoundIs /\ Right /\ Dated /\ Virgin /\ Unread /\ Mounting /\ Known /\ Occupied

IBody == Types /\ Universal /\ IF plan = <<>> THEN Atrest ELSE Phase

IInv == kept \in BOOLEAN /\ (kept => IBody)

-----------------------------------------------------------------------------
(***************************************************************************)
(* What NoFalseTamper follows from, beside IInv: as long as there is one   *)
(* identity, and not more than one cut or error, how far its canary may be *)
(* behind the policy.  A step of the plan counts here if it is Telling.    *)
(***************************************************************************)
StepsOf(K) == {K[n] : n \in DOMAIN K}

\* The first identity's canary is sealed under a PIN.
Wit(st) == st.do = "program" /\ st.slot = First /\ st.key \in Pin
Telling(st) == Wit(st) \/ st.do \in {"policy", "head"}
TellOf(K) == {st \in StepsOf(K) : Telling(st)}
Told == TellOf(plan)
ToDo(w) == \E st \in Told : st.do = w

Alone == \A i \in Identity \ {First} : found[i] = NoPin
Held == found[First] # NoPin
Firm == ~ram.tamper /\ ram.policy = ledger.policy

\* It is, by the plan, and counts at once.
Pending == \E st \in Told : Wit(st) /\ ~st.later /\ st.gen = ledger.gens[First]

Witness == Current[First].body

\* One policy behind only between the two writes of a change, or after a cut or an
\* error there; and then it is brought up to date first.
Near ==
  \/ Witness = ledger.policy
  \/ hits >= 1 /\ Pending
  \/ Witness.gen + 1 = ledger.policy.gen /\ (hits >= 1 \/ Pending)

\* RAM has the policy that is in force, but for the moment after format's new head.
Informed ==
  /\ ~ram.tamper
  /\ ram.state # "off" /\ ram.ledger = ledger =>
       ram.policy = ledger.policy \/ (hits >= 1 /\ Now("refresh"))

\* What is sealed is the policy that will then be in force.
Coming(b) ==
  IF ToDo("head") THEN b = FormatHead.policy
  ELSE IF ToDo("policy") THEN \A st \in Told : st.do = "policy" => b = st.policy
  ELSE b = ledger.policy

Witnessing ==
  \A st \in Told : Wit(st) => Coming(st.body) /\ (Firm \/ ToDo("head") \/ Now("refresh"))

Changing ==
  \A st \in Told : st.do = "policy" =>
    Firm /\ Held /\ Pending /\ st.policy.gen = ledger.policy.gen + 1
         /\ (hits >= 1 \/ Witness = ledger.policy)

Heading == ToDo("head") /\ Held => hits >= 1 /\ Pending

\* The canary that a generation is to bring into force.
Entering(R) ==
  Len(R) >= 1 /\ R[1].do = "gen" /\ R[1].id = First =>
    LET c == CurrentOf(WithGen(ledger, R[1]))[First]
    IN c # Blank /\ c.key \in Pin => Firm /\ c.body = ledger.policy

Entered == Entering(IF Now("retire") THEN Tail(plan) ELSE plan)

BlankHeld ==
  ram.state = "blank" /\ Held => hits >= 1 \/ (Has(plan, "refresh") /\ ~Has(plan, "gen"))

Lonely ==
  /\ Held => Near /\ Informed
  /\ ~Now("distrust")
  /\ Witnessing /\ Changing /\ Heading /\ Entered /\ BlankHeld

\* The store is distrusted at once or not at all.
Distrusting == Has(plan, "distrust") => Now("distrust") /\ ~Has(Tail(plan), "distrust")

JBody == Distrusting /\ (Alone => Lonely)

JInv == kept /\ hits <= 1 => JBody

=============================================================================
