--------------------------- MODULE SendLoopProofs ---------------------------
(***************************************************************************)
(* Theorems of SendLoop, for messages of any number and length: its        *)
(* invariants, and that it implements ByteStream.                          *)
(***************************************************************************)
EXTENDS SendLoop, TLAPS

WireInOrder == \A i \in 1..Len(wire) : wire[i] = i

\* PositionMatchesWire says where the next byte comes from, WireInOrder that
\* it is the right one; neither is inductive without the other.
Inv == TypeOK /\ PositionMatchesWire /\ WireInOrder /\ NoWatcherLeft

USE MaxLenAssumption, MaxMessagesAssumption

LEMMA BytesAreNumbered ==
    ASSUME NEW from \in Nat, NEW n \in Nat
    PROVE  /\ Bytes(from, n) \in Seq(Nat) /\ Len(Bytes(from, n)) = n
           /\ \A i \in 1..n : Bytes(from, n)[i] = from + i
BY DEF Bytes

LEMMA InvInit == Init => Inv
<1> SUFFICES ASSUME Init PROVE Inv
  OBVIOUS
<1>1. bare \in BOOLEAN /\ flagged \in BOOLEAN /\ cleans \in BOOLEAN
  BY DEF Init
<1>2. wire = <<>> /\ Len(wire) = 0 /\ wire \in Seq(Nat)
  BY DEF Init
<1>3. TypeOK
  BY <1>1, <1>2 DEF Init, TypeOK, Pcs
<1>4. PositionMatchesWire /\ WireInOrder /\ NoWatcherLeft
  BY <1>2 DEF Init, PositionMatchesWire, WireInOrder, NoWatcherLeft
<1> QED BY <1>3, <1>4 DEF Inv

\* One send() appends the bytes that follow those on the wire.
LEMMA SendSomeExtendsWire ==
    ASSUME Inv, SendSome
    PROVE  /\ wire' \in Seq(Nat) /\ total_sent' \in Nat
           /\ Len(wire') = base + total_sent' /\ Len(wire') > Len(wire)
           /\ total_sent' <= len /\ total_sent < total_sent'
           /\ \A i \in 1..Len(wire') : wire'[i] = i
<1>1. PICK k \in 1..len - total_sent :
          /\ wire' = wire \o Bytes(base + total_sent, k)
          /\ total_sent' = total_sent + k
  BY DEF SendSome, NextBytes
<1>2. /\ base \in Nat /\ total_sent \in Nat /\ len \in Nat /\ wire \in Seq(Nat)
      /\ Len(wire) = base + total_sent /\ Len(wire) \in Nat
  BY DEF Inv, TypeOK, PositionMatchesWire
<1>3. k \in Nat /\ k > 0 /\ k <= len - total_sent
  BY <1>2
<1>4. PICK new : new = Bytes(Len(wire), k)
  OBVIOUS
<1>5. /\ new \in Seq(Nat) /\ Len(new) = k
      /\ \A i \in 1..k : new[i] = Len(wire) + i
  <2>1. /\ Bytes(Len(wire), k) \in Seq(Nat) /\ Len(Bytes(Len(wire), k)) = k
        /\ \A i \in 1..k : Bytes(Len(wire), k)[i] = Len(wire) + i
    BY <1>2, <1>3, BytesAreNumbered
  <2> QED BY <1>4, <2>1
<1>6. wire' = wire \o new
  BY <1>1, <1>2, <1>4
<1>7. /\ wire' \in Seq(Nat) /\ Len(wire') = Len(wire) + k
      /\ \A i \in 1..Len(wire) : wire'[i] = wire[i]
      /\ \A i \in Len(wire) + 1..Len(wire) + k : wire'[i] = new[i - Len(wire)]
  <2>1. ASSUME NEW a \in Seq(Nat), NEW b \in Seq(Nat)
        PROVE  /\ a \o b \in Seq(Nat) /\ Len(a \o b) = Len(a) + Len(b)
               /\ \A i \in 1..Len(a) : (a \o b)[i] = a[i]
               /\ \A i \in Len(a) + 1..Len(a) + Len(b) :
                      (a \o b)[i] = b[i - Len(a)]
    OBVIOUS
  <2> QED BY <1>2, <1>5, <1>6, <2>1
<1>8. ASSUME NEW i \in 1..Len(wire') PROVE wire'[i] = i
  <2>1. CASE i \in 1..Len(wire)
    BY <1>7, <2>1 DEF Inv, WireInOrder
  <2>2. CASE i \notin 1..Len(wire)
    <3>1. i \in Len(wire) + 1..Len(wire) + k /\ i - Len(wire) \in 1..k
      BY <1>2, <1>3, <1>7, <2>2
    <3>2. wire'[i] = Len(wire) + (i - Len(wire))
      BY <1>5, <1>7, <3>1
    <3> QED BY <1>2, <3>1, <3>2
  <2> QED BY <2>1, <2>2
<1>9. /\ total_sent' \in Nat /\ total_sent < total_sent' /\ total_sent' <= len
      /\ Len(wire) + k = base + total_sent' /\ Len(wire) + k > Len(wire)
  BY <1>1, <1>2, <1>3
<1> QED BY <1>7, <1>8, <1>9

LEMMA InvStep == Inv /\ [Next]_vars => Inv'
<1> SUFFICES ASSUME Inv, [Next]_vars PROVE Inv'
  OBVIOUS
<1>0. TypeOK /\ PositionMatchesWire /\ WireInOrder /\ NoWatcherLeft
  BY DEF Inv
<1>1. CASE Send
  <2>1. /\ pc' = "loop" /\ base' = base + len /\ pos' = 0 /\ total_sent' = 0
        /\ messages' = messages + 1
        /\ UNCHANGED <<cleans, sent_len, armed, planned, flagged, wire>>
    BY <1>1 DEF Send, waitVars
  <2>2. base' \in Nat /\ len' \in Nat /\ messages' \in Nat /\ bare' \in BOOLEAN
    BY <1>0, <1>1 DEF Send, TypeOK
  <2>3. TypeOK'
    BY <1>0, <2>1, <2>2 DEF TypeOK, Pcs
  <2>4. PositionMatchesWire'
    BY <1>0, <1>1, <2>1, <2>2 DEF TypeOK, PositionMatchesWire, Send
  <2>5. WireInOrder' /\ NoWatcherLeft'
    BY <1>0, <1>1, <2>1 DEF WireInOrder, NoWatcherLeft, Send
  <2> QED BY <2>3, <2>4, <2>5 DEF Inv
<1>2. CASE SendSome
  <2>1. pc = "loop" /\ UNCHANGED <<pc, sendVars, pos, sent_len, waitVars>>
    BY <1>2 DEF SendSome, NextBytes
  <2>2. TypeOK'
    BY <1>0, <1>2, <2>1, SendSomeExtendsWire DEF TypeOK, sendVars, waitVars
  <2>3. PositionMatchesWire'
    BY <1>0, <1>2, <2>1, SendSomeExtendsWire
       DEF TypeOK, PositionMatchesWire, sendVars
  <2>4. WireInOrder' /\ NoWatcherLeft'
    BY <1>0, <1>2, <2>1, SendSomeExtendsWire
       DEF WireInOrder, NoWatcherLeft, waitVars
  <2> QED BY <2>2, <2>3, <2>4 DEF Inv
<1>3. CASE SendBlocks
  <2>1. CASE bare
    <3>1. /\ pc' = "dead"
          /\ UNCHANGED <<sendVars, pos, total_sent, sent_len, waitVars, wire>>
      BY <1>3, <2>1 DEF SendBlocks, SentLen, StartWatchers, waitVars
    <3> QED BY <1>0, <3>1 DEF Inv, TypeOK, Pcs, PositionMatchesWire, WireInOrder,
                          NoWatcherLeft, sendVars, waitVars
  <2>2. CASE ~bare
    <3>1. /\ pc = "loop" /\ pc' = "wait" /\ total_sent < len
          /\ sent_len' = total_sent - pos /\ armed' = {"io", "timer"}
          /\ UNCHANGED <<sendVars, pos, total_sent, planned, flagged, wire>>
      BY <1>3, <2>2 DEF SendBlocks, SentLen, StartWatchers
    <3>2. sent_len' \in Nat /\ pos + sent_len' = total_sent
      BY <1>0, <3>1 DEF TypeOK, PositionMatchesWire
    <3>3. TypeOK'
      BY <1>0, <3>1, <3>2 DEF TypeOK, Pcs, sendVars
    <3>4. PositionMatchesWire'
      BY <1>0, <3>1, <3>2 DEF PositionMatchesWire, sendVars
    <3>5. WireInOrder' /\ NoWatcherLeft'
      BY <1>0, <3>1 DEF WireInOrder, NoWatcherLeft
    <3> QED BY <3>3, <3>4, <3>5 DEF Inv
  <2> QED BY <2>1, <2>2
<1>4. CASE SendFails \/ SendReturns \/ WriteError
  <2>1. /\ pc \in {"loop", "wait", "stopped"}
        /\ pc' \in {"errno", "dead", "idle"}
        /\ pc' = "idle" => pc = "loop" /\ total_sent >= len
        /\ UNCHANGED <<sendVars, pos, total_sent, sent_len, waitVars, wire>>
    BY <1>4 DEF SendFails, SendReturns, WriteError
  <2>2. TypeOK'
    BY <1>0, <2>1 DEF TypeOK, Pcs, sendVars, waitVars
  <2>3. PositionMatchesWire'
    BY <1>0, <2>1 DEF TypeOK, PositionMatchesWire, sendVars
  <2>4. WireInOrder' /\ NoWatcherLeft'
    BY <1>0, <2>1 DEF WireInOrder, NoWatcherLeft, waitVars
  <2> QED BY <2>2, <2>3, <2>4 DEF Inv
<1>5. CASE \/ WriteReady \/ SendTimeout \/ Interrupt
           \/ SkipStopped \/ CallerCleans
  <2>1. /\ pc \in {"wait", "stopped"} /\ armed' \subseteq armed
        /\ UNCHANGED <<pc, sendVars, pos, total_sent, sent_len, wire>>
    BY <1>5 DEF WriteReady, SendTimeout, Interrupt, SkipStopped, CallerCleans
  <2>2. planned' \in {"no", "ready", "timeout"} /\ flagged' \in BOOLEAN
    BY <1>0, <1>5 DEF WriteReady, SendTimeout, Interrupt, SkipStopped,
                      CallerCleans, Plan, TypeOK
  <2>3. TypeOK'
    BY <1>0, <2>1, <2>2 DEF TypeOK, sendVars
  <2>4. PositionMatchesWire' /\ WireInOrder' /\ NoWatcherLeft'
    BY <1>0, <2>1 DEF PositionMatchesWire, WireInOrder, NoWatcherLeft, sendVars
  <2> QED BY <2>3, <2>4 DEF Inv
<1>6. CASE Resume
  <2>1. pc = "wait" /\ UNCHANGED <<sendVars, sent_len, flagged, wire>>
        /\ planned' = "no"
    BY <1>6 DEF Resume, NextPos, DestroyWatchers
  <2>2. total_sent = pos + sent_len /\ total_sent < len
    BY <1>0, <2>1 DEF PositionMatchesWire
  <2>3. \/ /\ pc' = "dead" /\ UNCHANGED <<pos, total_sent, armed>>
        \/ /\ pc' = "stopped" /\ armed' \in {{}, armed}
           /\ UNCHANGED <<pos, total_sent>>
        \/ /\ pc' = "loop" /\ armed' = {}
           /\ pos' = total_sent /\ total_sent' = total_sent
    BY <1>0, <1>6, <2>2 DEF Resume, NextPos, DestroyWatchers, TypeOK
  <2>4. TypeOK'
    BY <1>0, <2>1, <2>3 DEF TypeOK, Pcs, sendVars
  <2>5. PositionMatchesWire'
    BY <1>0, <2>1, <2>2, <2>3 DEF TypeOK, PositionMatchesWire, sendVars
  <2>6. WireInOrder' /\ NoWatcherLeft'
    BY <1>0, <2>1, <2>3 DEF WireInOrder, NoWatcherLeft
  <2> QED BY <2>4, <2>5, <2>6 DEF Inv
<1>7. CASE UNCHANGED vars
  BY <1>0, <1>7 DEF Inv, vars, sendVars, waitVars, TypeOK, PositionMatchesWire,
                    WireInOrder, NoWatcherLeft
<1> QED BY <1>1, <1>2, <1>3, <1>4, <1>5, <1>6, <1>7 DEF Next

\* Every variable keeps its type: no length or position becomes negative, and a
\* call is planned and has watchers only as send and connect know them.
THEOREM TypeCorrect == Spec => []TypeOK
<1>1. Inv => TypeOK
  BY DEF Inv
<1> QED BY <1>1, InvInit, InvStep, PTL DEF Spec

\* The C loop's and the Lua loop's positions always meet at the first byte
\* the kernel has not taken.
THEOREM PositionCorrect == Spec => []PositionMatchesWire
<1>1. Inv => PositionMatchesWire
  BY DEF Inv
<1> QED BY <1>1, InvInit, InvStep, PTL DEF Spec

\* A send that returns or goes on has destroyed the watchers of its wait.
THEOREM NoWatcherLeftCorrect == Spec => []NoWatcherLeft
<1>1. Inv => NoWatcherLeft
  BY DEF Inv
<1> QED BY <1>1, InvInit, InvStep, PTL DEF Spec

-----------------------------------------------------------------------------
(* Refinement *)

LEMMA StreamInit == Init => Stream!Init
BY DEF Init, Stream!Init

\* Every step of the two loops is a step of the promise or a stutter.
LEMMA StreamStep == Inv /\ [Next]_vars => [Stream!Next]_(Stream!vars)
<1> SUFFICES ASSUME Inv, [Next]_vars PROVE [Stream!Next]_(Stream!vars)
  OBVIOUS
<1> USE DEF Inv
<1>1. CASE Send
  <2>1. Stream!Begin
    BY <1>1 DEF Send, Stream!Begin, TypeOK, sendVars
  <2> QED BY <2>1 DEF Stream!Next
<1>2. CASE SendSome
  <2>1. wire' = [i \in 1..Len(wire') |-> i]
    BY <1>2, SendSomeExtendsWire
  <2>2. /\ Len(wire') > Len(wire) /\ Len(wire') <= base + len
        /\ pc = "loop" /\ UNCHANGED <<pc, base, len>>
    BY <1>2, SendSomeExtendsWire DEF SendSome, NextBytes, TypeOK, sendVars
  <2>3. Stream!Deliver
    BY <2>1, <2>2 DEF Stream!Deliver
  <2> QED BY <2>3 DEF Stream!Next
<1>3. CASE SendReturns
  <2>1. Stream!Complete
    BY <1>3 DEF SendReturns, Stream!Complete, TypeOK, PositionMatchesWire, sendVars
  <2> QED BY <2>1 DEF Stream!Next
<1>4. CASE SendBlocks \/ SendFails \/ WriteError
  <2>1. Stream!Break \/ UNCHANGED Stream!vars
    BY <1>4 DEF SendBlocks, SentLen, StartWatchers, SendFails, WriteError, Stream!Break, Stream!vars,
                sendVars, TypeOK
  <2> QED BY <2>1 DEF Stream!Next
<1>5. CASE \/ WriteReady \/ SendTimeout \/ Interrupt
           \/ SkipStopped \/ CallerCleans
  BY <1>5 DEF WriteReady, SendTimeout, Interrupt, SkipStopped, CallerCleans,
              Stream!vars, sendVars
<1>6. CASE Resume
  <2>1. pc = "wait" /\ pc' \in {"dead", "stopped", "loop"}
    BY <1>6 DEF Resume, NextPos, DestroyWatchers, TypeOK, PositionMatchesWire
  <2>2. Stream!Break \/ UNCHANGED Stream!vars
    BY <1>6, <2>1 DEF Resume, NextPos, DestroyWatchers, Stream!Break, Stream!vars, sendVars
  <2> QED BY <2>2 DEF Stream!Next
<1>7. CASE UNCHANGED vars
  BY <1>7 DEF vars, sendVars, Stream!vars
<1> QED BY <1>1, <1>2, <1>3, <1>4, <1>5, <1>6, <1>7 DEF Next

\* The loops hand over every message whole, in order and once.
THEOREM ImplementsByteStream == Spec => StreamSpec
BY InvInit, InvStep, StreamInit, StreamStep, PTL DEF Spec, StreamSpec, Stream!Spec
=============================================================================
