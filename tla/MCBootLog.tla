------------------------------ MODULE MCBootLog -----------------------------
(***************************************************************************)
(* Instances of BootLog: a log of two cells, so that every second boot     *)
(* rotates.                                                                *)
(***************************************************************************)
EXTENDS BootLog

MCBootCells == 2

=============================================================================
