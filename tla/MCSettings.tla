----------------------------- MODULE MCSettings -----------------------------
(***************************************************************************)
(* Settings for TLC: three names, the two networks, and a region whose     *)
(* sequence numbers run out after MaxSeq - 1 saves.                        *)
(***************************************************************************)
EXTENDS Settings

CONSTANTS n0, n1, n2, main, test

MCNames == {n0, n1, n2}

MCNetworks == {main, test}

=============================================================================
