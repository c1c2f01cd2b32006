------------------------------ MODULE SendLoop ------------------------------
(***************************************************************************)
(* Session:send (session.lua) over lua_mistress_send (main.c): one uthread *)
(* sends messages over one non-blocking socket.  The C loop writes until   *)
(* the kernel would block, then the Lua loop yields to a write watcher and *)
(* a 15 s timer and calls the C loop again from the position it reached.   *)
(***************************************************************************)
EXTENDS Integers, Sequences

CONSTANTS
    MaxLen,        \* bound: bytes of a message
    MaxMessages    \* bound: messages sent over the connection

ASSUME MaxLenAssumption == MaxLen \in Nat
ASSUME MaxMessagesAssumption == MaxMessages \in Nat

VARIABLES
    pc,          \* "idle": between sends, "loop": in the C loop, "wait":
                 \* yielded; "stopped": unwound by STOP; "dead": the process
                 \* exited, "errno": send returned EPIPE
    bare,        \* mistress.send called without a coroutine id
    cleans,      \* the uthread's clean() runs its finalizers; that of a
                 \* function of parallel() does nothing
    messages,    \* messages begun
    base,        \* bytes of the messages before this one
    len,         \* #data
    pos,         \* Session:send's position
    total_sent,  \* the C loop's position
    sent_len,    \* what the C loop returned when it would block
    armed,       \* watchers of the present wait
    planned,     \* what the planned resume carries, or "no"
    flagged,     \* _gonna_shut_down
    wire         \* bytes taken by the kernel, numbered over the connection

sendVars == <<bare, cleans, messages, base, len>>
waitVars == <<armed, planned, flagged>>
vars == <<pc, sendVars, pos, total_sent, sent_len, waitVars, wire>>

Pcs == {"idle", "loop", "wait", "stopped", "dead", "errno"}
Bytes(from, n) == [i \in 1..n |-> from + i]

Init == /\ pc = "idle" /\ bare = FALSE /\ cleans \in BOOLEAN /\ messages = 0
        /\ base = 0 /\ len = 0 /\ pos = 0 /\ total_sent = 0 /\ sent_len = 0
        /\ armed = {} /\ planned = "no" /\ flagged = FALSE
        /\ wire = <<>>

-----------------------------------------------------------------------------
(* Session:send, and mistress.send called directly ("bare") *)

Send ==
    /\ pc = "idle"
    /\ messages < MaxMessages
    /\ messages' = messages + 1
    /\ base' = base + len
    /\ len' \in 0..MaxLen
    /\ bare' \in BOOLEAN
    /\ pos' = 0 /\ total_sent' = 0
    /\ pc' = "loop"
    /\ UNCHANGED <<cleans, sent_len, waitVars, wire>>

\* The next k bytes of the data; a faulty variant counts from the call's start.
NextBytesFromPos(k) == Bytes(base + pos, k)
NextBytes(k) == Bytes(base + total_sent, k)

\* One send() of the C loop takes k of the bytes left.
SendSome ==
    /\ pc = "loop"
    /\ \E k \in 1..len - total_sent :
        /\ wire' = wire \o NextBytes(k)
        /\ total_sent' = total_sent + k
    /\ UNCHANGED <<pc, sendVars, pos, sent_len, waitVars>>

\* The length returned.
SentLen == total_sent - pos

\* The watchers started and destroyed around the yield, with faulty variants.
StartNoTimer == armed' = {"io"}
StartWatchers == armed' = {"io", "timer"}
KeepWatchers == UNCHANGED armed
DestroyWatchers == armed' = {}

\* The Lua loop's next position; a faulty variant does not accumulate.
LastPos == sent_len
NextPos == pos + sent_len

\* EAGAIN: returns 0 and the bytes sent by this call; Session:send yields.
\* Without a coroutine id the assertion aborts the process.
SendBlocks ==
    /\ pc = "loop"
    /\ total_sent < len
    /\ IF bare
       THEN pc' = "dead" /\ UNCHANGED <<armed, sent_len>>
       ELSE /\ pc' = "wait"
            /\ sent_len' = SentLen
            /\ StartWatchers
    /\ UNCHANGED <<sendVars, pos, total_sent, planned, flagged, wire>>

\* EPIPE is returned, any other error exits.
SendFails ==
    /\ pc = "loop"
    /\ total_sent < len
    /\ pc' \in {"errno", "dead"}
    /\ UNCHANGED <<sendVars, pos, total_sent, sent_len, waitVars, wire>>

SendReturns ==
    /\ pc = "loop"
    /\ total_sent >= len
    /\ pc' = "idle"
    /\ UNCHANGED <<sendVars, pos, total_sent, sent_len, waitVars, wire>>

-----------------------------------------------------------------------------
(* The callbacks plan the resume; only the first plan counts.  What STOP    *)
(* left started still calls them.                                           *)

Plan(params) == planned' = IF planned = "no" THEN params ELSE planned

WriteReady ==
    /\ pc \in {"wait", "stopped"} /\ "io" \in armed
    /\ Plan("ready")
    /\ UNCHANGED <<pc, sendVars, pos, total_sent, sent_len, armed, flagged,
                   wire>>

\* cb_send_ready finds SO_ERROR set.
WriteError ==
    /\ pc \in {"wait", "stopped"} /\ "io" \in armed
    /\ pc' = "dead"
    /\ UNCHANGED <<sendVars, pos, total_sent, sent_len, waitVars, wire>>

SendTimeout ==
    /\ pc \in {"wait", "stopped"} /\ "timer" \in armed
    /\ armed' = armed \ {"timer"}
    /\ Plan("timeout")
    /\ UNCHANGED <<pc, sendVars, pos, total_sent, sent_len, flagged, wire>>

\* Manager:shut_down visits the uthread.
Interrupt ==
    /\ pc = "wait" /\ planned = "no" /\ ~flagged
    /\ flagged' = TRUE
    /\ Plan("ready")
    /\ UNCHANGED <<pc, sendVars, pos, total_sent, sent_len, armed, wire>>

\* The uthread is resumed: a timeout fails the assertion, then STOP is looked
\* at, then the loop goes on from where the C loop got to.  STOP does not
\* destroy the watchers: clean() does, if it is the uthread's own.
Resume ==
    /\ pc = "wait" /\ planned # "no"
    /\ planned' = "no"
    /\ \/ /\ planned = "timeout"
          /\ pc' = "dead"
          /\ UNCHANGED <<pos, total_sent, armed>>
       \/ /\ planned # "timeout" /\ flagged
          /\ pc' = "stopped"
          /\ armed' = IF cleans THEN {} ELSE armed
          /\ UNCHANGED <<pos, total_sent>>
       \/ /\ planned # "timeout" /\ ~flagged
          /\ DestroyWatchers
          /\ pos' = NextPos
          /\ total_sent' = pos'
          /\ pc' = IF pos' = len THEN "idle" ELSE "loop"
    /\ UNCHANGED <<sendVars, sent_len, flagged, wire>>

\* The pass skips a uthread that has ended.
SkipStopped ==
    /\ pc = "stopped" /\ planned # "no"
    /\ planned' = "no"
    /\ UNCHANGED <<pc, sendVars, pos, total_sent, sent_len, armed, flagged,
                   wire>>

\* The caller of parallel(), flagged as well, ends before or after its
\* function: its clean() runs the finalizers that both share.
CallerCleans ==
    /\ ~cleans /\ flagged /\ pc \in {"wait", "stopped"}
    /\ armed # {}
    /\ armed' = {}
    /\ UNCHANGED <<pc, sendVars, pos, total_sent, sent_len, planned, flagged,
                   wire>>

-----------------------------------------------------------------------------
Next == \/ Send \/ SendSome \/ SendBlocks \/ SendFails \/ SendReturns
        \/ WriteReady \/ WriteError \/ SendTimeout \/ Interrupt \/ Resume
        \/ SkipStopped \/ CallerCleans

Spec == Init /\ [][Next]_vars

\* The C loop does not pause, a planned uthread is resumed in the next pass,
\* and an expired timer fires.  Nothing is assumed of the peer.
FairSpec == /\ Spec
            /\ WF_vars(SendSome \/ SendBlocks \/ SendFails \/ SendReturns)
            /\ WF_vars(SendTimeout) /\ WF_vars(Resume)

-----------------------------------------------------------------------------
(* Properties *)

TypeOK ==
    /\ pc \in Pcs /\ bare \in BOOLEAN /\ cleans \in BOOLEAN
    /\ messages \in Nat
    /\ base \in Nat /\ len \in Nat /\ pos \in Nat
    /\ total_sent \in Nat /\ sent_len \in Nat
    /\ armed \in SUBSET {"io", "timer"}
    /\ planned \in {"no", "ready", "timeout"} /\ flagged \in BOOLEAN
    /\ wire \in Seq(Nat)

\* The two positions, the C loop's and the Lua loop's, always add up to what
\* the kernel took, so that the next call starts at the first unsent byte.
PositionMatchesWire ==
    /\ Len(wire) = base + total_sent
    /\ pos <= total_sent /\ total_sent <= len
    /\ pc = "wait" => total_sent = pos + sent_len /\ total_sent < len
    /\ pc = "idle" => total_sent = len

\* However the kernel cuts the messages and however often send yields, the
\* peer is given every byte once and in order, and a send that returned nil
\* has handed over its whole message.
Stream == INSTANCE ByteStream WITH
              total <- base + len,
              status <- CASE pc = "idle" -> "idle"
                          [] pc \in {"loop", "wait"} -> "busy"
                          [] OTHER -> "broken"
StreamSpec == Stream!Spec

\* A blocked send comes to an end or goes on, even when the peer never reads.
BlockedSendEnds == pc = "wait" ~> pc # "wait"

\* No watcher of a wait is left started when the uthread runs on: a timer
\* left behind would later kill the process in some other send.
NoWatcherLeft == pc \in {"idle", "loop"} => armed = {}
=============================================================================
