----------------------------- MODULE BootCounter ----------------------------
(***************************************************************************)
(* What the boot log promises (vault.rs record_boot, acknowledge_boots):   *)
(* a count that only grows, one at a time, and a mark the owner sets to    *)
(* the current count.  Rotation, creation, recovery and power cuts are     *)
(* invisible here: each of them stutters or is one of these two steps.     *)
(***************************************************************************)
EXTENDS Naturals

VARIABLES count,   \* boots counted on this store
          acked    \* the count the owner last marked as seen

Init == count = 0 /\ acked = 0

CountBoot == count' = count + 1 /\ UNCHANGED acked

MarkSeen == acked' = count /\ UNCHANGED count

Next == CountBoot \/ MarkSeen

Spec == Init /\ [][Next]_<<count, acked>>

=============================================================================
