---------------------------- MODULE VaultRecords ----------------------------
(***************************************************************************)
(* The record slots of notyas-wallet (records.rs, slot.rs) and the vault   *)
(* operations that seal, re-seal and erase them (vault.rs).  Every slot is *)
(* an A/B pair of sides; a side is a candidate of its slot only under the  *)
(* wipe epoch and the PIN generations of the ledger, and of two candidates *)
(* the one sealed last is elected.                                         *)
(*                                                                         *)
(* The ledger is here what module CounterStore promises of it: its cells   *)
(* commit one at a time.  An operation is the sequence of flash steps it   *)
(* has left, plan; power may be cut under any of them, or the step return  *)
(* an error while the power stays on.                                      *)
(***************************************************************************)
EXTENDS RotationPair, Sequences, FiniteSets

CONSTANTS
  User,              \* payload and registry slots
  Identity, First,   \* identities, in the order unlock tries them; First < all
  Pin, Data,
  Super, Filler, NoPin, Nothing, Corrupt,  \* model values
  GenCells,          \* cells of the generation log
  Values,            \* values of the wipe policy besides Strict
  Strict,
  MaxEpoch, MaxCalls, MaxHits,  \* bounds: wipes, calls, cuts and errors
  Errors             \* kinds of error a flash step may return

ASSUME VaultAssumption ==
  /\ First \in Identity /\ Identity \subseteq Nat /\ IsFiniteSet(Identity)
  /\ \A i \in Identity : First <= i
  /\ GenCells \in Nat \ {0}
  /\ MaxEpoch \in Nat /\ MaxCalls \in Nat /\ MaxHits \in Nat
  /\ Errors \subseteq {"error", "program"}

Policies == [val : Values \cup {Strict}, gen : Nat]

\* Slots, keys and plaintexts are told apart.
ASSUME NamesAssumption ==
  /\ Super \notin Identity \cup User /\ User \cap Identity = {}
  /\ {Super, Filler, NoPin} \cap Pin = {} /\ Super # Filler
  /\ Corrupt \notin Policies \cup {Nothing}
  /\ (Pin \cup {NoPin, Nothing, Corrupt}) \cap (Identity \X Data) = {}

VARIABLES
  flash,     \* slot -> its two sides
  last,      \* slot -> the side that was sealed last (its seal_seq is the greater)
  ledger,    \* what the ledger on flash says
  ram,       \* Vault: ledger, table, state, policy, tamper
  sessions,  \* the sessions somebody may hold
  plan,      \* the steps the call under way has left
  found,     \* ghost: what the next mount would find
  goal,      \* ghost: what the caller will have if the call succeeds
  promised,  \* ghost: what each slot and PIN may be, as far as the caller knows
  result,    \* ghost: how the last call ended
  kept,      \* ghost: no call was made on a view that a failed call had left behind
  gap,       \* ghost: filler may be missing
  calls, hits

disk == <<flash, last, ledger, found>>

ghost == <<goal, promised, result, kept, gap, calls>>
vars == <<flash, last, ledger, ram, sessions, plan, found, ghost, hits>>

Slot == {Super} \cup Identity \cup User

-----------------------------------------------------------------------------
(***************************************************************************)
(* Data.                                                                   *)
(***************************************************************************)
\* A record: what its header says, the key it is sealed under, its plaintext.
\* The superblock is sealed under no key and holds the mirror of the policy; a
\* canary is sealed under its PIN and holds the policy as a witness.
Rec(e, g, k, b) == [kind |-> "record", epoch |-> e, gen |-> g, key |-> k, body |-> b]

NoLedger ==
  [live |-> FALSE, epoch |-> 0, gens |-> [i \in Identity |-> 0], used |-> 0,
   policy |-> [val |-> Strict, gen |-> 0]]

\* scan_pin_gen_log, pin_gen_next: one past the greatest generation committed.
GenNext(l) ==
  1 + CHOOSE g \in {l.gens[i] : i \in Identity} : \A j \in Identity : l.gens[j] <= g

(***************************************************************************)
(* Election (refresh, M5 and M6).                                          *)
(***************************************************************************)
\* Mutant: the records of a generation that was never committed, or is no longer
\* current, are candidates too.
AnyGeneration(l, x, r) == r.epoch = l.epoch

IsCandidate(l, x, r) ==
  /\ r.epoch = l.epoch
  /\ x = Super \/ (r.gen # 0 /\ \E i \in Identity : l.gens[i] = r.gen)

Candidates(l, x) ==
  {s \in Side : flash[x][s].kind = "record" /\ IsCandidate(l, x, flash[x][s])}

Elect(l) ==
  [x \in Slot |->
     LET sides == Candidates(l, x)
     IN IF sides = {} THEN "none"
        ELSE IF last[x] \in sides THEN last[x] ELSE CHOOSE s \in sides : TRUE]

\* What a table entry leads to.
At(table, x) == IF table[x] = "none" THEN Blank ELSE flash[x][table[x]]

Opens(table, x, k) == At(table, x).kind = "record" /\ At(table, x).key = k

HasSuper(table) == At(table, Super).kind = "record" /\ At(table, Super).body # Corrupt

\* An identity is a canary slot that holds something the filler key does not open.
Present(table) == {i \in Identity : table[i] # "none" /\ ~Opens(table, i, Filler)}

Classify(table) == IF HasSuper(table) /\ Present(table) # {} THEN "formatted" ELSE "blank"

\* resolve_policy; a policy cell that was torn is the strict default already.
View(l) ==
  LET table == Elect(l)
  IN [ledger |-> l, table |-> table, state |-> Classify(table),
      policy |-> l.policy, tamper |-> FALSE]

Off == [ledger |-> NoLedger, table |-> [x \in Slot |-> "none"], state |-> "off",
        policy |-> NoLedger.policy, tamper |-> FALSE]

-----------------------------------------------------------------------------
(***************************************************************************)
(* What the flash amounts to: which PIN opens an identity and what a slot  *)
(* holds, as the next mount would find it.                                 *)
(***************************************************************************)
OnFlash == Elect(ledger)

PinOf(table, i) ==
  IF HasSuper(table) /\ At(table, i).kind = "record" /\ At(table, i).key \in Pin
  THEN At(table, i).key ELSE NoPin

Owners(table, r) == {i \in Identity : ledger.gens[i] = r.gen /\ PinOf(table, i) = r.key}

Holds(table, u) ==
  LET r == At(table, u)
      owners == Owners(table, r)
  IN IF r = Blank \/ r.key = Filler THEN Nothing
     ELSE IF owners = {} THEN Corrupt
     ELSE <<CHOOSE i \in owners : TRUE, r.body>>

Stored ==
  LET table == OnFlash
  IN [x \in User \cup Identity |-> IF x \in User THEN Holds(table, x) ELSE PinOf(table, x)]

Observe == found' = Stored'

Idle == plan = <<>> /\ ram.state # "off"

\* RAM is what a mount would make of the flash, and nothing is left to clean up.
Leftovers(table) == {p \in Slot \X Side : flash[p[1]][p[2]] # Blank /\ table[p[1]] # p[2]}

InStep == ram.ledger = ledger /\ ram.table = OnFlash /\ Leftovers(ram.table) = {}

\* Mutant: a PIN change does not end the sessions.
ValidByEpoch(s) == ram.state = "formatted" /\ s.epoch = ram.ledger.epoch

Valid(s) ==
  /\ ram.state = "formatted"
  /\ s.epoch = ram.ledger.epoch
  /\ s.gen = ram.ledger.gens[s.id]

-----------------------------------------------------------------------------
(***************************************************************************)
(* The steps an operation is made of.                                      *)
(***************************************************************************)
Do(what) == <<[do |-> what]>>

\* Seal a record into the side that is not elected, and erase the other one now
\* or leave that to a cleanup after the operation's own commit.
Program(x, k, g, b, later) ==
  <<[do |-> "program", slot |-> x, key |-> k, gen |-> g, body |-> b, later |-> later]>>

SealLater(x, k, g, b) == Program(x, k, g, b, TRUE)

SealNow(x, k, g, b) == Program(x, k, g, b, FALSE) \o <<[do |-> "retire", slot |-> x]>>

WriteFiller(x) == SealNow(x, Filler, ram.ledger.gens[First], Nothing)

CommitGen(i, g) == <<[do |-> "gen", id |-> i, gen |-> g]>>

CommitPolicy(p) == <<[do |-> "policy", policy |-> p]>>

NewSession(i, k) == <<[do |-> "session", id |-> i, key |-> k]>>

Remount == Do("refresh") \o Do("cleanup") \o Do("sync")

\* A device that was never formatted, or one that was, with a second identity
\* enrolled since, and the ledger rotated by the unlock after it.
NeverUsed ==
  /\ flash = [x \in Slot |-> [s \in Side |-> Blank]]
  /\ last = [x \in Slot |-> "A"]
  /\ ledger = NoLedger /\ calls = 0

Written(g, k) == [A |-> Rec(0, g, k, NoLedger.policy), B |-> Blank]

TwoIdentities ==
  \E i \in Identity \ {First}, p \in Pin, q \in Pin :
    /\ p # q /\ calls = 1
    /\ ledger = [NoLedger EXCEPT !.live = TRUE, !.gens[First] = 1, !.gens[i] = 2]
    /\ last = [x \in Slot |-> "A"]
    /\ flash = [x \in Slot |->
                  IF x = Super THEN Written(0, Super)
                  ELSE IF x = First THEN Written(1, p)
                  ELSE IF x = i THEN Written(2, q)
                  ELSE [A |-> Rec(0, 1, Filler, Nothing), B |-> Blank]]

Init ==
  /\ NeverUsed \/ TwoIdentities
  /\ ram = Off /\ found = Stored
  /\ sessions = {} /\ plan = <<>>
  /\ goal = found
  /\ promised = [x \in DOMAIN found |-> {found[x]}]
  /\ result = "ok" /\ kept = TRUE /\ gap = FALSE
  /\ hits = 0

\* A call: what it has to do and what the caller is to have after it.  Of the
\* calls that are made out of step the model follows the first.
Begin(steps, wish, gaps) ==
  /\ Idle /\ kept
  /\ plan' = steps \o Do("done")
  /\ goal' = wish
  /\ promised' = [x \in DOMAIN promised |-> promised[x] \cup {wish[x]}]
  /\ result' = "running"
  /\ kept' = (kept /\ InStep)
  /\ gap' = (gap \/ gaps)
  /\ UNCHANGED <<disk, ram, sessions, hits>>

\* The calls that are counted, to bound them.
Call(steps, wish, gaps) ==
  Begin(steps, wish, gaps) /\ calls < MaxCalls /\ calls' = calls + 1

-----------------------------------------------------------------------------
(***************************************************************************)
(* The calls.  A call works on the table the last one left in RAM.         *)
(***************************************************************************)
\* M8, the wipe an over-limit store is owed, is the step "due".
Mount ==
  /\ plan = <<>> /\ ram.state = "off"
  /\ plan' = Do("refresh") \o Do("due") \o Do("cleanup") \o Do("sync") \o Do("mounted")
  /\ result' = "running"
  /\ UNCHANGED <<disk, ram, sessions, goal, promised, kept, gap, calls, hits>>

\* F2 to F7.  A generation that is committed already is used again.
Format(p) ==
  /\ ram.state = "blank"
  /\ LET old == ram.ledger.gens[First]
         gen == IF old = 0 THEN GenNext(ram.ledger) ELSE old
         policy == [val |-> Strict,
                    gen |-> IF ram.ledger.live THEN ram.ledger.policy.gen + 1 ELSE 0]
     IN Call(Do("head") \o Do("refresh")
               \o SealNow(Super, Super, 0, policy)
               \o SealNow(First, p, gen, policy)
               \o (IF old = gen THEN <<>> ELSE CommitGen(First, gen))
               \o Do("refresh") \o Do("fill") \o Do("refresh")
               \o <<[do |-> "prove", id |-> First, key |-> p]>> \o NewSession(First, p),
             [found EXCEPT ![First] = p], FALSE)

\* reconcile_policy, once the canary has opened.  Mutant: a canary that is one
\* policy behind is not brought up to date.
ReconcileNever(i, p) ==
  IF At(ram.table, i).body = ram.policy THEN <<>> ELSE Do("distrust")

Reconcile(i, p) ==
  LET witness == At(ram.table, i).body
  IN IF witness = ram.policy THEN <<>>
     ELSE IF witness.gen + 1 = ram.policy.gen
          THEN SealNow(i, p, ram.ledger.gens[i], ram.policy)
                 \o Do("refresh") \o Do("cleanup")
          ELSE Do("distrust")

\* A PIN that opens an identity, the first of those it opens.  That it is
\* counted, and what a wrong one leads to, is module Ledger's.
Unlock(p) ==
  /\ ram.state = "formatted"
  /\ \E i \in Identity :
       /\ Opens(ram.table, i, p)
       /\ \A j \in Identity : j < i => ~Opens(ram.table, j, p)
       /\ Begin(Reconcile(i, p) \o Do("rotate") \o NewSession(i, p), found, FALSE)
  /\ UNCHANGED calls

Write(s, u, d) ==
  /\ Valid(s)
  /\ Call(Do("rotate") \o SealNow(u, s.key, s.gen, d),
          [found EXCEPT ![u] = <<s.id, d>>], FALSE)

Clear(s, u) ==
  /\ Valid(s)
  /\ Call(Do("rotate") \o WriteFiller(u), [found EXCEPT ![u] = Nothing], FALSE)

\* C3 seals again, one slot at a time, what the session's generation sealed and
\* its key opens, and, for the first identity, the filler: the step "reseal".  C4:
\* the canary, or the call fails.
Reseal(s, p, g) ==
  <<[do |-> "reseal", id |-> s.id, from |-> s.key, old |-> s.gen, key |-> p, gen |-> g]>>

ResealCanary(s, p, g) ==
  IF Opens(ram.table, s.id, s.key) THEN SealLater(s.id, p, g, ram.policy) ELSE Do("fail")

\* C6, C7.  Mutant: no new election before the old sides go.
AfterCommitBlind == Do("fill") \o Do("refresh")

AfterCommit == Do("refresh") \o Do("cleanup") \o Do("fill") \o Do("refresh")

\* The session is consumed; a copy of it may be in somebody's hands yet.
ChangePin(s, p) ==
  /\ Valid(s)
  /\ LET g == GenNext(ram.ledger)
     IN Call(Do("rotate") \o Reseal(s, p, g) \o ResealCanary(s, p, g) \o CommitGen(s.id, g)
               \o AfterCommit \o NewSession(s.id, p),
             [found EXCEPT ![s.id] = p], FALSE)

\* Nothing asks whether the identity exists already; if it does, what it wrote
\* is no longer a candidate.
AddIdentity(s, i, p) ==
  /\ Valid(s) /\ i # First
  /\ LET g == GenNext(ram.ledger)
         wish == [x \in User \cup Identity |->
                    IF found[x] \in {i} \X Data THEN Nothing
                    ELSE IF x = i THEN p ELSE found[x]]
     IN Call(Do("rotate") \o SealLater(i, p, g, ram.policy) \o CommitGen(i, g)
               \o Do("refresh") \o Do("cleanup"),
             wish, found[i] # NoPin)

\* Y4 to Y7; a full policy log is rotated first.
SetPolicy(s, v) ==
  /\ Valid(s)
  /\ LET next == [val |-> v, gen |-> ram.policy.gen + 1]
     IN Call(Do("rotate") \o CommitPolicy(next)
               \o (IF Opens(ram.table, s.id, s.key)
                   THEN SealNow(s.id, s.key, s.gen, next) ELSE Do("fail"))
               \o Do("refresh") \o Do("sync") \o Do("cleanup"),
             found, FALSE)

\* wipe, remove_pin, and the wipe a wrong PIN may lead to.
Nobody == [x \in User \cup Identity |-> IF x \in Identity THEN NoPin ELSE Nothing]

WipeSteps == Do("rotate") \o Do("epoch") \o Do("erase")

Wipe ==
  /\ ram.ledger.epoch < MaxEpoch
  /\ Call((IF ram.ledger.live THEN WipeSteps ELSE Do("erase")) \o Remount, Nobody, FALSE)

-----------------------------------------------------------------------------
(***************************************************************************)
(* The steps, as they complete.                                            *)
(***************************************************************************)
Now(what) == plan # <<>> /\ plan[1].do = what

Next1 == plan' = Tail(plan)

Target(x) == IF ram.table[x] = "none" THEN "A" ELSE Other(ram.table[x])

Sealed(st) == Rec(ram.ledger.epoch, st.gen, st.key, st.body)

DoProgram ==
  /\ Now("program") /\ Next1
  /\ LET st == plan[1]  t == Target(st.slot)
     IN /\ flash' = [flash EXCEPT ![st.slot][t] = Sealed(st)]
        /\ last' = [last EXCEPT ![st.slot] = t]
        /\ ram' = IF st.later THEN [ram EXCEPT !.table[st.slot] = t] ELSE ram
  /\ UNCHANGED <<ledger, sessions, ghost, hits>>
  /\ Observe

DoRetire ==
  /\ Now("retire") /\ Next1
  /\ LET x == plan[1].slot  t == Target(x)
     IN /\ flash' = [flash EXCEPT ![x][Other(t)] = Blank]
        /\ ram' = [ram EXCEPT !.table[x] = t]
  /\ UNCHANGED <<last, ledger, sessions, ghost, hits>>
  /\ Observe

WithGen(l, st) == [l EXCEPT !.gens[st.id] = st.gen, !.used = @ + 1]

WithPolicy(l, p) == [l EXCEPT !.policy = p]

WithEpoch(l) == [l EXCEPT !.epoch = @ + 1]

DoGen ==
  /\ Now("gen") /\ ledger.used < GenCells /\ Next1
  /\ ledger' = WithGen(ledger, plan[1])
  /\ ram' = [ram EXCEPT !.ledger.gens[plan[1].id] = plan[1].gen,
                        !.ledger.used = ledger'.used]
  /\ UNCHANGED <<flash, last, sessions, ghost, hits>>
  /\ Observe

\* The generation log is full, and nothing rotates it here: Capacity.  The
\* error says that the old PIN is still valid.
GenRefused ==
  /\ Now("gen") /\ ledger.used = GenCells
  /\ plan' = <<>>
  /\ result' = "uncommitted"
  /\ UNCHANGED <<disk, ram, sessions, goal, promised, kept, gap, calls, hits>>

DoPolicy ==
  /\ Now("policy") /\ Next1
  /\ ledger' = WithPolicy(ledger, plan[1].policy)
  /\ ram' = [ram EXCEPT !.ledger = ledger', !.policy = plan[1].policy]
  /\ UNCHANGED <<flash, last, sessions, ghost, hits>>
  /\ Observe

DoEpoch ==
  /\ Now("epoch") /\ Next1
  /\ ledger' = WithEpoch(ledger)
  /\ ram' = [ram EXCEPT !.ledger = ledger']
  /\ UNCHANGED <<flash, last, sessions, ghost, hits>>
  /\ Observe

\* F2: a ledger that lives is rotated, which keeps its epoch and generations.
FormatHead ==
  IF ram.ledger.live
  THEN [ram.ledger EXCEPT !.used = 0, !.policy = [val |-> Strict, gen |-> @.gen + 1]]
  ELSE [NoLedger EXCEPT !.live = TRUE]

DoHead ==
  /\ Now("head") /\ Next1
  /\ ledger' = FormatHead
  /\ ram' = [ram EXCEPT !.ledger = ledger']
  /\ UNCHANGED <<flash, last, sessions, ghost, hits>>
  /\ Observe

\* The ledger may be rotated at an unlock, by set_policy and wipe when their log
\* is full, and by any seal that finds no sequence number left (reserve_seq); in
\* a call that seals several records it does not matter before which of them.
\* The policy in force goes with it.
Rotated == [ram.ledger EXCEPT !.used = 0, !.policy = ram.policy]

Rotate ==
  /\ Now("rotate") /\ Next1
  /\ ledger' = Rotated
  /\ ram' = [ram EXCEPT !.ledger = ledger']
  /\ UNCHANGED <<flash, last, sessions, ghost, hits>>
  /\ Observe

NoRotation == Now("rotate") /\ Next1 /\ UNCHANGED <<disk, ram, sessions, ghost, hits>>

DoRefresh ==
  /\ Now("refresh") /\ Next1
  /\ ram' = View(ledger)
  /\ UNCHANGED <<disk, sessions, ghost, hits>>

\* cleanup spares the sides the table names, erase none; one side at a time.
\* Mutant: neither looks at the canaries.
DoomedButCanaries ==
  {p \in IF Now("cleanup") THEN Leftovers(ram.table)
         ELSE IF Now("erase") THEN Leftovers(Off.table) ELSE {} : p[1] \notin Identity}

Doomed ==
  IF Now("cleanup") THEN Leftovers(ram.table)
  ELSE IF Now("erase") THEN Leftovers(Off.table)
  ELSE {}

NextDoomed == CHOOSE p \in Doomed : TRUE

EraseOne ==
  /\ Doomed # {}
  /\ flash' = [flash EXCEPT ![NextDoomed[1]][NextDoomed[2]] = Blank]
  /\ UNCHANGED <<last, ledger, ram, sessions, plan, ghost, hits>>
  /\ Observe

Erased ==
  /\ Now("cleanup") \/ Now("erase")
  /\ Doomed = {} /\ Next1
  /\ ram' = IF Now("erase") THEN [ram EXCEPT !.table = Off.table] ELSE ram
  /\ UNCHANGED <<disk, sessions, ghost, hits>>

\* fill_unoccupied, one slot at a time.
Unoccupied == {x \in Slot \ {Super} : ram.table[x] = "none"}

FillOne ==
  /\ Now("fill") /\ Unoccupied # {}
  /\ plan' = WriteFiller(CHOOSE x \in Unoccupied : TRUE) \o plan
  /\ UNCHANGED <<disk, ram, sessions, ghost, hits>>

Filled ==
  /\ Now("fill") /\ Unoccupied = {} /\ Next1
  /\ gap' = FALSE
  /\ UNCHANGED <<disk, ram, sessions, goal, promised, result, kept, calls, hits>>

\* The loop of C3: a slot it has sealed is of the old generation no longer.
\* Mutant: the records keep the key they have.
ResealNone(st) == {}

ToReseal(st) ==
  {u \in User : /\ At(ram.table, u).kind = "record" /\ At(ram.table, u).gen = st.old
                /\ \/ Opens(ram.table, u, Filler) /\ st.id = First
                   \/ Opens(ram.table, u, st.from)}

ResealOne ==
  /\ Now("reseal") /\ ToReseal(plan[1]) # {}
  /\ LET st == plan[1]
         u == CHOOSE x \in ToReseal(st) : TRUE
     IN plan' = (IF Opens(ram.table, u, Filler)
                 THEN SealLater(u, Filler, st.gen, Nothing)
                 ELSE SealLater(u, st.key, st.gen, At(ram.table, u).body)) \o plan
  /\ UNCHANGED <<disk, ram, sessions, ghost, hits>>

Resealed ==
  /\ Now("reseal") /\ ToReseal(plan[1]) = {} /\ Next1
  /\ UNCHANGED <<disk, ram, sessions, ghost, hits>>

\* sync_policy_mirror.
Mirror == At(ram.table, Super).body

MirrorStale == ~ram.tamper /\ ram.state = "formatted" /\ Mirror # ram.policy

Sync ==
  /\ Now("sync")
  /\ plan' = IF MirrorStale
             THEN SealNow(Super, Super, 0, ram.policy) \o Do("refresh") \o Tail(plan)
             ELSE Tail(plan)
  /\ UNCHANGED <<disk, ram, sessions, ghost, hits>>

\* M8; how many attempts have failed is module Ledger's to say.
Due ==
  /\ Now("due")
  /\ \/ Next1 /\ UNCHANGED promised
     \/ /\ ram.state = "formatted" /\ ledger.epoch < MaxEpoch
        /\ plan' = WipeSteps \o Do("refresh") \o Tail(plan)
        /\ promised' = [x \in DOMAIN promised |-> promised[x] \cup {Nobody[x]}]
  /\ UNCHANGED <<disk, ram, sessions, goal, result, kept, gap, calls, hits>>

Distrust ==
  /\ Now("distrust") /\ Next1
  /\ ram' = [ram EXCEPT !.tamper = TRUE, !.policy = [val |-> Strict, gen |-> @.gen]]
  /\ UNCHANGED <<disk, sessions, ghost, hits>>

\* F7: the canary must open from flash.
Proven ==
  /\ Now("prove") /\ Opens(ram.table, plan[1].id, plan[1].key)
  /\ At(ram.table, plan[1].id).body = ram.policy

Prove == Proven /\ Next1 /\ UNCHANGED <<disk, ram, sessions, ghost, hits>>

Fail ==
  /\ Now("fail") \/ (Now("prove") /\ ~Proven)
  /\ plan' = <<>> /\ result' = "error"
  /\ UNCHANGED <<disk, ram, sessions, goal, promised, kept, gap, calls, hits>>

OpenSession ==
  /\ Now("session") /\ Next1
  /\ sessions' = sessions \cup {[id |-> plan[1].id, key |-> plan[1].key,
                                 gen |-> ram.ledger.gens[plan[1].id],
                                 epoch |-> ram.ledger.epoch]}
  /\ UNCHANGED <<disk, ram, ghost, hits>>

Done ==
  /\ Now("done") \/ Now("mounted")
  /\ plan' = <<>> /\ result' = "ok"
  /\ promised' = [x \in DOMAIN promised |-> {IF Now("done") THEN goal[x] ELSE found[x]}]
  /\ UNCHANGED <<disk, ram, sessions, goal, kept, gap, calls, hits>>

-----------------------------------------------------------------------------
(***************************************************************************)
(* The step at the head of plan does not complete.                         *)
(***************************************************************************)
Sides(x, s, contents) == {[flash EXCEPT ![x][s] = c] : c \in contents}

\* Only the MAC, programmed last, makes a side a record.
TornProgram ==
  /\ Now("program")
  /\ LET st == plan[1]  x == st.slot  t == Target(x)
     IN \/ flash' \in Sides(x, t, {Blank, Garbage}) /\ UNCHANGED last
        \/ flash' \in Sides(x, t, {Sealed(st)}) /\ last' = [last EXCEPT ![x] = t]
  /\ UNCHANGED ledger

TornErase ==
  /\ \/ /\ Now("retire")
        /\ flash' \in Sides(plan[1].slot, Other(Target(plan[1].slot)), {Garbage, Blank})
     \/ Doomed # {} /\ flash' \in Sides(NextDoomed[1], NextDoomed[2], {Garbage, Blank})
  /\ UNCHANGED <<last, ledger>>

\* A torn cell counts as used; that of a policy stands for the strict default.
TornCell ==
  /\ \/ /\ Now("gen") /\ ledger.used < GenCells
        /\ ledger' \in {WithGen(ledger, plan[1]), [ledger EXCEPT !.used = @ + 1]}
     \/ /\ Now("policy")
        /\ ledger' \in {WithPolicy(ledger, [plan[1].policy EXCEPT !.val = val]) :
                          val \in {plan[1].policy.val, Strict}}
     \/ Now("epoch") /\ ledger' = WithEpoch(ledger)
  /\ UNCHANGED <<flash, last>>

TornHead == Now("head") /\ ledger' = FormatHead /\ UNCHANGED <<flash, last>>

Torn == TornProgram \/ TornErase \/ TornCell \/ UNCHANGED <<flash, last, ledger>>

OnFlashStep == \E w \in {"program", "retire", "gen", "policy", "epoch", "refresh"} : Now(w)

Filling == \E n \in DOMAIN plan : plan[n].do = "fill"

Cut ==
  /\ ram.state # "off" \/ plan # <<>>
  /\ IF plan = <<>> THEN UNCHANGED hits ELSE hits < MaxHits /\ hits' = hits + 1
  /\ Torn \/ TornHead
  /\ ram' = Off /\ sessions' = {} /\ plan' = <<>>
  /\ gap' = (gap \/ Filling)
  /\ result' = "cut"
  /\ UNCHANGED <<goal, promised, kept, calls>>
  /\ Observe

\* An error return: the call is abandoned with RAM as it is.  What a rotation
\* that fails leaves behind is module Ledger's.
Abandon ==
  /\ hits < MaxHits /\ hits' = hits + 1
  /\ plan' = <<>> /\ result' = "error"
  /\ ram' = IF plan[Len(plan)].do = "mounted" THEN Off ELSE ram
  /\ gap' = (gap \/ Filling)
  /\ UNCHANGED <<sessions, goal, promised, calls>>

Error ==
  /\ "error" \in Errors
  /\ OnFlashStep \/ Doomed # {}
  /\ Torn /\ Abandon
  /\ UNCHANGED kept
  /\ Observe

\* A superblock that did not take: write_plain finds it out and leaves it there.
\* (A sealed record that did not take is erased again by verify_written, as if
\* it had never been programmed.)
BadSuper ==
  /\ "program" \in Errors /\ Now("program") /\ plan[1].slot = Super
  /\ LET t == Target(Super)
     IN /\ flash' = [flash EXCEPT ![Super][t] = [Sealed(plan[1]) EXCEPT !.body = Corrupt]]
        /\ last' = [last EXCEPT ![Super] = t]
  /\ Abandon /\ kept' = FALSE /\ UNCHANGED ledger
  /\ Observe

Step ==
  \/ DoProgram \/ DoRetire \/ DoGen \/ GenRefused \/ DoPolicy \/ DoEpoch \/ DoHead
  \/ Rotate \/ NoRotation \/ DoRefresh \/ EraseOne \/ Erased \/ FillOne \/ Filled
  \/ ResealOne \/ Resealed \/ Sync \/ Due \/ Distrust \/ Prove \/ Fail \/ OpenSession \/ Done

Next ==
  \/ Mount \/ Step \/ Cut \/ Error \/ BadSuper \/ Wipe
  \/ \E p \in Pin : Format(p) \/ Unlock(p)
  \/ \E s \in sessions :
       \/ \E u \in User : Clear(s, u) \/ \E d \in Data : Write(s, u, d)
       \/ \E p \in Pin : ChangePin(s, p) \/ \E i \in Identity : AddIdentity(s, i, p)
       \/ \E v \in Values : SetPolicy(s, v)

Spec == Init /\ [][Next]_vars

-----------------------------------------------------------------------------
(***************************************************************************)
(* Properties.                                                             *)
(***************************************************************************)
\* What the flash amounts to is what the caller was told or may expect of the
\* call under way: no cut and no error, at any step, loses a record, revives
\* one, or leaves a record under a key that no PIN opens (vault.rs write: "a
\* successful return means the record is durable"; change_pin: "there is no
\* window in which neither works").
NothingLost == kept => \A x \in DOMAIN found : found[x] \in promised[x]

\* After a call that succeeded RAM is what the next boot would see (vault.rs
\* remount: "a post-operation view can never diverge").
ViewIsWhatBootSees ==
  Idle /\ result = "ok" /\ kept =>
    InStep /\ ram.state = Classify(OnFlash) /\ (ram.tamper \/ ram.policy = ledger.policy)

\* After a call that succeeded the flash does not tell what was there before, nor
\* how many identities there are: no side but the elected ones is left, so no
\* ciphertext under a retired PIN or of before a wipe (vault.rs reseal: "the only
\* place an old-PIN ciphertext can survive a completed change"), and on a formatted
\* store every slot holds a record, until a cut or an error has kept filler from
\* being written, or an identity was enrolled over (vault.rs change_pin C7).
FlashTellsNothing ==
  Idle /\ result = "ok" /\ kept =>
    /\ \A x \in Slot : \A s \in Side : flash[x][s] # Blank => OnFlash[x] = s
    /\ ~gap /\ ram.state = "formatted" => \A x \in Slot : OnFlash[x] # "none"

\* A session that check_session lets through holds the key that opens its
\* identity, and the generation under which a mount finds what it seals
\* (vault.rs check_session: "keeps a stale session from writing a record that
\* nobody will ever be able to read").
ValidSessionsSeal ==
  Idle /\ kept /\ InStep =>
    \A s \in sessions : Valid(s) => s.gen # 0 /\ found[s.id] = s.key

\* As long as there is one identity and no more than one call was cut or failed,
\* its canary is at most one policy behind, so no unlock takes the store for
\* tampered with (vault.rs reconcile_policy: "any other gap is unreachable").
NoFalseTamper ==
  kept /\ hits <= 1 /\ Now("distrust") => \E i \in Identity \ {First} : found[i] # NoPin

\* A session of the epoch on flash is that of an identity on flash: what a wipe
\* left behind opens to no PIN (vault.rs wipe_inner: "a record whose wipe_epoch is
\* not the current one can never be elected or opened").
WipedNeverOpens ==
  Idle => \A s \in sessions :
            Valid(s) /\ s.epoch = ledger.epoch => found[s.id] # NoPin

Store == INSTANCE WalletStore WITH
  contents <- [u \in User |-> found[u]], pin <- [i \in Identity |-> found[i]]

\* The slots are a wallet store whose operations are indivisible.
ImplementsWalletStore == Store!Spec

=============================================================================
