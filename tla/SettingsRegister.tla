-------------------------- MODULE SettingsRegister --------------------------
(***************************************************************************)
(* What the settings region promises: the settings in force after the next *)
(* boot, and the ones saved before them, which a clear that is cut may     *)
(* bring back (settings.rs).                                               *)
(***************************************************************************)
CONSTANTS Records, Default

VARIABLES value, older, clearing

vars == <<value, older, clearing>>

Init == value = Default /\ older = Default /\ clearing = FALSE

\* The new settings take the place of the ones in force.
Save(r) ==
  /\ ~clearing
  /\ value' = r /\ older' = value
  /\ UNCHANGED clearing

\* The side that lost the election goes, for a save or for a clear.
DropOlder ==
  /\ older' = Default
  /\ clearing' => clearing
  /\ UNCHANGED value

\* Only a clear takes the settings in force away.
DropValue ==
  /\ clearing
  /\ value' = older /\ older' = Default
  /\ clearing' \in BOOLEAN

StartOrStopClear ==
  /\ clearing' = ~clearing
  /\ UNCHANGED <<value, older>>

Next ==
  \/ \E r \in Records : Save(r)
  \/ DropOlder
  \/ DropValue
  \/ StartOrStopClear

Spec == Init /\ [][Next]_vars

=============================================================================
