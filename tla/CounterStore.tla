---------------------------- MODULE CounterStore ----------------------------
(***************************************************************************)
(* What the main ledger promises the vault (ledger.rs, the table of        *)
(* ESP-SEAL 4): a handful of counters, each of which changes in one        *)
(* indivisible step.  The pair of sectors, rotation, torn cells and power  *)
(* cuts are invisible here.                                                *)
(***************************************************************************)
EXTENDS Naturals

CONSTANTS Identity, FormatAfter, Afters

VARIABLES exists,  \* the store has a ledger
          epoch,   \* wipe epoch
          high,    \* cells of sequence numbers reserved
          fails,   \* unlock attempts that were not made good
          gens,    \* the PIN generation of each identity, 0 for none
          policy   \* the wipe policy in force

store == <<exists, epoch, high, fails, gens, policy>>

Init ==
  /\ exists = FALSE
  /\ epoch = 0 /\ high = 0 /\ fails = 0
  /\ gens = [i \in Identity |-> 0]
  /\ policy = [after |-> FormatAfter, gen |-> 0]

\* There is no action that takes a ledger away: one is created once.
Create == ~exists /\ exists' = TRUE /\ UNCHANGED <<epoch, high, fails, gens, policy>>

Attempt == exists /\ fails' = fails + 1 /\ UNCHANGED <<exists, epoch, high, gens, policy>>

\* An attempt is made good; the last ones may be made good all at once.
Forgive ==
  /\ exists /\ fails > 0
  /\ fails' \in {0, fails - 1}
  /\ UNCHANGED <<exists, epoch, high, gens, policy>>

RaiseMark == exists /\ high' = high + 1 /\ UNCHANGED <<exists, epoch, fails, gens, policy>>

Wipe == exists /\ epoch' = epoch + 1 /\ UNCHANGED <<exists, high, fails, gens, policy>>

\* A generation no identity has had.
NewGen(i) ==
  /\ exists
  /\ \E g \in {gens[j] + 1 : j \in Identity} :
       /\ \A j \in Identity : gens[j] < g
       /\ gens' = [gens EXCEPT ![i] = g]
  /\ UNCHANGED <<exists, epoch, high, fails, policy>>

\* The policy asked for, or the strict default in its place: never a third.
SetPolicy(a) ==
  /\ exists
  /\ policy' \in [after : {a, FormatAfter}, gen : {policy.gen + 1}]
  /\ UNCHANGED <<exists, epoch, high, fails, gens>>

Reformat ==
  /\ exists
  /\ fails' = 0 /\ policy' = [after |-> FormatAfter, gen |-> policy.gen + 1]
  /\ UNCHANGED <<exists, epoch, high, gens>>

Next ==
  \/ Create \/ Attempt \/ Forgive \/ RaiseMark \/ Wipe \/ Reformat
  \/ \E i \in Identity : NewGen(i)
  \/ \E a \in Afters : SetPolicy(a)

Spec == Init /\ [][Next]_store

=============================================================================
