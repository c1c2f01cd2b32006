------------------------------- MODULE TestRun -------------------------------
(***************************************************************************)
(* What the manager owes its user: it ends with success only after every   *)
(* worker's test came to its own end; until then it runs, or it fails.     *)
(***************************************************************************)
CONSTANTS Workers

VARIABLES outcome,   \* of the manager process: "running", "done", "failed"
          finished   \* workers whose launcher finished its test

vars == <<outcome, finished>>

Init == outcome = "running" /\ finished = {}

Finish == \E w \in Workers : /\ finished' = finished \cup {w}
                             /\ UNCHANGED outcome

Succeed == /\ outcome = "running" /\ finished = Workers
           /\ outcome' = "done"
           /\ UNCHANGED finished

Fail == /\ outcome = "running"
        /\ outcome' = "failed"
        /\ UNCHANGED finished

Next == Finish \/ Succeed \/ Fail

Spec == Init /\ [][Next]_vars
=============================================================================
