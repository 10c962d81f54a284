------------------------------ MODULE MCLedger ------------------------------
(***************************************************************************)
(* Instances of Ledger: two identities, logs of one to three cells.        *)
(***************************************************************************)
EXTENDS Ledger

CONSTANTS i0, i1

MCIdentity == {i0, i1}

\* An error anywhere.
EveryStep == Steps

=============================================================================
