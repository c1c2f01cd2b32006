------------------------------ MODULE LauncherMC ------------------------------
(* A flat rate and a ramp of equal ends that do not divide evenly, and a ramp *)
(* up.                                                                        *)
EXTENDS Launcher
FlatThenRamps ==
    <<[ramp |-> FALSE, from |-> 3, to |-> 3, duration |-> 1],
      [ramp |-> TRUE, from |-> 2, to |-> 4, duration |-> 2],
      [ramp |-> TRUE, from |-> 3, to |-> 3, duration |-> 1]>>
=============================================================================
