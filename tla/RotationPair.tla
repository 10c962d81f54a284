---------------------------- MODULE RotationPair ----------------------------
(***************************************************************************)
(* Two flash sectors, A and B, that take turns holding a head followed by  *)
(* append-only logs.  Both counter ledgers of notyas-wallet are kept this  *)
(* way: the main pair (ledger.rs, MAIN_SECTORS) and the auxiliary pair     *)
(* that carries the boot log (AUX_SECTORS).                                *)
(*                                                                         *)
(* A sector is blank, or garbage (programmed, but its head does not        *)
(* verify: a head whose MAC has not landed, or the rest of a torn erase),  *)
(* or live: a record with a head whose MAC verifies and the logs behind    *)
(* it.  The head is the first thing in the sector, so an erase that was    *)
(* cut part-way has lost it.                                               *)
(***************************************************************************)
EXTENDS Naturals

Side == {"A", "B"}

Other(s) == IF s = "A" THEN "B" ELSE "A"

Blank == [kind |-> "blank"]

Garbage == [kind |-> "garbage"]

LiveSides(pair) == {s \in Side : pair[s].kind = "live"}

\* The live side with the greatest rotation counter; on a tie, the first.
Elected(pair) ==
  CHOOSE s \in LiveSides(pair) :
    \A t \in LiveSides(pair) :
      \/ pair[t].head.ctr < pair[s].head.ctr
      \/ pair[t].head.ctr = pair[s].head.ctr /\ (s = "A" \/ t = s)

\* What an erase of side s may leave if the rail drops under it: nothing
\* happened, the head is gone but the rest is not, or all of it.
ErasedOrTorn(pair, s) ==
  {[pair EXCEPT ![s] = left] : left \in {pair[s], Garbage, Blank}}

\* What programming the head body may leave.  Without its MAC no part of a
\* head verifies.
HeadBodyOrTorn(pair, s) ==
  {[pair EXCEPT ![s] = left] : left \in {pair[s], Garbage}}

\* What programming the head MAC may leave: it verifies or it does not.
HeadMacOrTorn(pair, s, live) ==
  {[pair EXCEPT ![s] = left] : left \in {Garbage, live}}

=============================================================================
