----------------------------- MODULE ByteStream -----------------------------
(***************************************************************************)
(* What a sender owes its connection: the bytes of the messages given to   *)
(* send, in order and once each, where a send returns only after the last  *)
(* byte of its message.  Bytes are numbered from 1 over the connection's   *)
(* life.                                                                   *)
(***************************************************************************)
EXTENDS Integers, Sequences

VARIABLES wire,    \* the bytes the peer's side was given
          total,   \* bytes of the messages begun so far
          status   \* "idle", "busy" or, for good, "broken"

vars == <<wire, total, status>>

Init == wire = <<>> /\ total = 0 /\ status = "idle"

Begin == /\ status = "idle"
         /\ status' = "busy"
         /\ total' \in Nat /\ total' >= total
         /\ UNCHANGED wire

Deliver == /\ status = "busy"
           /\ Len(wire') <= total
           /\ Len(wire') > Len(wire)
           /\ wire' = [i \in 1..Len(wire') |-> i]
           /\ UNCHANGED <<total, status>>

Complete == /\ status = "busy"
            /\ Len(wire) = total
            /\ status' = "idle"
            /\ UNCHANGED <<wire, total>>

Break == /\ status = "busy"
         /\ status' = "broken"
         /\ UNCHANGED <<wire, total>>

Next == Begin \/ Deliver \/ Complete \/ Break

Spec == Init /\ [][Next]_vars
=============================================================================
