----------------------------- MODULE SendLoopMC -----------------------------
(* The instance of SendLoop that TLC checks. *)
EXTENDS SendLoop
=============================================================================
