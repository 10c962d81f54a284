------------------------------ MODULE MCDevice ------------------------------
(***************************************************************************)
(* Two slots, two wallets of which one has a passphrase, two transactions. *)
(***************************************************************************)
EXTENDS Device

CONSTANTS w1, w2, t1, t2

MCSlots == {0, 1}
MCWallet == {w1, w2}
MCHidden == {w2}
MCTx == {t1, t2}

=============================================================================
