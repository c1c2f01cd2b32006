------------------------------- MODULE LoadTest -------------------------------
(***************************************************************************)
(* What the launcher owes the test: users are launched in the phases of    *)
(* the script only, and the test ends when all of them have ended, or when *)
(* its time is up.                                                         *)
(***************************************************************************)
EXTENDS Naturals

VARIABLES stage,    \* "launching", "draining", "ended" or "failed"
          users,    \* users that were launched and have not ended
          time_up   \* total_duration_limit is over

vars == <<stage, users, time_up>>

Running == stage \in {"launching", "draining"}

Init == stage = "launching" /\ users = 0 /\ time_up = FALSE

Launch == /\ stage = "launching"
          /\ users' \in Nat /\ users' >= users
          /\ UNCHANGED <<stage, time_up>>

Leave == /\ Running /\ users > 0
         /\ users' = users - 1
         /\ UNCHANGED <<stage, time_up>>

Drain == /\ stage = "launching"
         /\ stage' = "draining"
         /\ UNCHANGED <<users, time_up>>

Elapse == /\ Running
          /\ time_up' = TRUE
          /\ UNCHANGED <<stage, users>>

Finish == /\ \/ stage = "draining" /\ users = 0
             \/ Running /\ time_up
          /\ stage' = "ended"
          /\ UNCHANGED <<users, time_up>>

Fail == /\ Running
        /\ stage' = "failed"
        /\ UNCHANGED <<users, time_up>>

Next == Launch \/ Leave \/ Drain \/ Elapse \/ Finish \/ Fail

Spec == Init /\ [][Next]_vars
=============================================================================
