------------------------------ MODULE NvmStore ------------------------------
(***************************************************************************)
(* What the persistent block promises (Nvm.h): a save takes effect at once *)
(* or not at all.  After a power loss the board comes up with the last     *)
(* acknowledged value, or with one whose save was never acknowledged,      *)
(* never with anything older and never with a mixture.                     *)
(***************************************************************************)
CONSTANTS Values, Default

VARIABLES
  ram,     \* the value in the RAM block g_xcpNvm
  stored,  \* the last value whose save was acknowledged, or that was booted
  tried,   \* values whose save was started since, but never acknowledged
  busy     \* a save is running

vars == <<ram, stored, tried, busy>>

Init == /\ ram = Default /\ stored = Default
        /\ tried = {} /\ busy = FALSE

\* The operator edits the block, or has the defaults loaded.
Edit ==
  /\ ~busy
  /\ ram' \in Values
  /\ UNCHANGED <<stored, tried, busy>>

Begin ==
  /\ ~busy
  /\ busy' = TRUE
  /\ tried' = tried \cup {ram}
  /\ UNCHANGED <<ram, stored>>

Acknowledge ==
  /\ busy
  /\ busy' = FALSE
  /\ stored' = ram
  /\ tried' = {}
  /\ UNCHANGED ram

Refuse ==
  /\ busy
  /\ busy' = FALSE
  /\ UNCHANGED <<ram, stored, tried>>

\* Power loss and boot, at any time.
Reboot ==
  /\ stored' \in {stored} \cup tried
  /\ ram' = stored'
  /\ tried' = {}
  /\ busy' = FALSE

Next == Edit \/ Begin \/ Acknowledge \/ Refuse \/ Reboot

Spec == Init /\ [][Next]_vars
=============================================================================
