------------------------------ MODULE MCFusion ------------------------------
(***************************************************************************)
(* What Fusion_update takes from the other core, and what it does with it: *)
(* the latches with their proofs, and the gates of the filter.  A          *)
(* behaviour follows one of them.                                          *)
(***************************************************************************)
EXTENDS LatchProofs, Fusion

VARIABLE follows

MCvars == <<follows, vars, fusionVars>>

MCInit ==
  /\ follows \in {"latch", "gates"}
  /\ Init /\ Fusion_init
  /\ follows = "latch" => axis = "down"
  /\ follows = "gates" => fused

Latches == follows = "latch" /\ UNCHANGED <<follows, fusionVars>>
Gates   == follows = "gates" /\ UNCHANGED <<follows, vars>>

MCNext == (Latches /\ Next) \/ (Gates /\ FusionNext)

MCSpec ==
  /\ MCInit /\ [][MCNext]_MCvars
  /\ WF_MCvars(Latches /\ (StoreReachesLmu \/ FinishPublish))
  /\ WF_MCvars(Latches /\ Reader)
  /\ WF_MCvars(Gates /\ calm /\ Baro)
  /\ WF_MCvars(Gates /\ calm /\ Fix)
=============================================================================
