----------------------------- MODULE MCDelivery -----------------------------
(***************************************************************************)
(* Two cards, two transactions with the same file name.                    *)
(***************************************************************************)
EXTENDS Delivery

CONSTANTS c1, c2, a1, a2

MCCard == {c1, c2}
MCArtifact == {a1, a2}

=============================================================================
