--------------------------- MODULE MCVaultRecords ---------------------------
(***************************************************************************)
(* Instances of VaultRecords: two slots, two identities, two PINs.         *)
(***************************************************************************)
EXTENDS VaultRecords, TLC

CONSTANTS u0, u1, p, q

MCUser == {u0, u1}
MCPin == {p, q}

\* No definition chooses among PINs.
PinSymmetry == Permutations(MCPin)

=============================================================================
