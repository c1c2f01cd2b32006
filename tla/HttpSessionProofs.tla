------------------------- MODULE HttpSessionProofs -------------------------
(***************************************************************************)
(* Theorems of HttpSession, for every set of uthreads, every number of     *)
(* descriptors and of calls.                                               *)
(***************************************************************************)
EXTENDS HttpSession, FiniteSetTheorems, SequenceTheorems, TLAPS

PlannedIds == {planned[i].id : i \in DOMAIN planned}

\* A uthread is planned once, and one that runs is not planned; io watchers
\* are called between a poll and a pass, and nobody runs outside a pass.
Turns ==
    /\ \A i, j \in DOMAIN planned : planned[i].id = planned[j].id => i = j
    /\ running \notin PlannedIds
    /\ \A u \in Uthreads : pc[u] = "run" <=> running = u
    /\ running # Nobody => phase \in {"pass", "dead"}
    /\ pending # {} => phase = "io"
    /\ \A w \in pending :
           ~w.old => /\ pc[w.id] \in {"connecting", "receiving"}
                     /\ w.fd = conn[w.id]

\* Who owns which descriptor; that a process has died changes nothing of it.
Owners ==
    /\ \A u \in Connecting \cup Asking : conn[u] \in Fds
    /\ free \cap busy = {}
    /\ busy = {conn[u] : u \in Asking}
    /\ \A u, v \in Connecting \cup Asking : conn[u] = conn[v] => u = v
    /\ \A u \in Connecting : conn[u] \notin Pooled
    /\ {f \in Fds : sock[f] # "closed"}
           = Pooled \cup {conn[u] : u \in Connecting}
    /\ conns_num = Cardinality(Pooled)

\* A response is there only for a request, and a request is made only over a
\* connection that is established.
Answers ==
    \A f \in Fds :
        /\ inbox[f] \in Responses => asked[f] # <<>>
        /\ sock[f] = "closed" => inbox[f] = "none"
        /\ f \notin Pooled => asked[f] = <<>>

\* As long as no watcher of an ended call has meddled, the only request that
\* has no answer on a connection is the one of the call it belongs to, and
\* whoever is planned with a response has read its own.
Undisturbed ==
    /\ \A f \in free : asked[f] = <<>>
    /\ \A u \in Asking : asked[conn[u]] \in {<<>>, <<u>>}
    /\ \A i \in DOMAIN planned :
           planned[i].kind \in Responses =>
               /\ pc[planned[i].id] = "receiving"
               /\ asked[conn[planned[i].id]] = <<>>
               /\ planned[i].to = planned[i].id

Inv == TypeOK /\ Turns /\ Owners /\ Answers /\ (~misfired => Undisturbed)

USE UthreadsAssumption, BoundsAssumption, NobodyAssumption

-----------------------------------------------------------------------------
(* The queue and the pool *)

\* plan_resume adds at most one entry, the one it is called with, and only for
\* a uthread that has none.
LEMMA PlanKeeps ==
    ASSUME planned \in Seq(Payloads),
           \A i, j \in DOMAIN planned : planned[i].id = planned[j].id => i = j,
           NEW u \in Uthreads, NEW kind \in Kinds,
           NEW to \in Uthreads \cup {Nobody}, Plan(u, kind, to)
    PROVE  /\ planned' \in Seq(Payloads)
           /\ \A i, j \in DOMAIN planned' :
                  planned'[i].id = planned'[j].id => i = j
           /\ PlannedIds' \subseteq PlannedIds \cup {u}
           /\ \A i \in DOMAIN planned' :
                  \/ i \in DOMAIN planned /\ planned'[i] = planned[i]
                  \/ planned'[i] = [id |-> u, kind |-> kind, to |-> to]
<1> DEFINE e == [id |-> u, kind |-> kind, to |-> to]
<1>1. CASE \E i \in DOMAIN planned : planned[i].id = u
  <2>1. planned' = planned
    BY <1>1 DEF Plan
  <2> QED BY <2>1 DEF PlannedIds
<1>2. CASE ~\E i \in DOMAIN planned : planned[i].id = u
  <2>1. planned' = Append(planned, e)
    BY <1>2 DEF Plan
  <2>2. e \in Payloads
    BY DEF Payloads
  <2>3. /\ planned' \in Seq(Payloads)
        /\ DOMAIN planned = 1..Len(planned) /\ Len(planned) \in Nat
        /\ DOMAIN planned' = 1..Len(planned) + 1
        /\ \A i \in 1..Len(planned) : planned'[i] = planned[i]
        /\ planned'[Len(planned) + 1] = e
    BY <2>1, <2>2
  <2>4. \A i \in DOMAIN planned' :
            \/ i \in DOMAIN planned /\ planned'[i] = planned[i]
            \/ i = Len(planned) + 1 /\ planned'[i] = e
    BY <2>3
  <2>5. \A i, j \in DOMAIN planned' : planned'[i].id = planned'[j].id => i = j
    BY <1>2, <2>4
  <2> HIDE DEF e
  <2>6. PlannedIds' \subseteq PlannedIds \cup {e.id}
    BY <2>4 DEF PlannedIds
  <2>7. e.id = u
    BY DEF e
  <2> QED BY <2>3, <2>4, <2>5, <2>6, <2>7 DEF e
<1> QED BY <1>1, <1>2

\* The pass takes the first entry, whose uthread is then planned no more.
LEMMA ResumedTakesFirst ==
    ASSUME planned \in Seq(Payloads),
           \A i, j \in DOMAIN planned : planned[i].id = planned[j].id => i = j,
           NEW u \in Uthreads, NEW kinds, Resumed(u, kinds)
    PROVE  /\ 1 \in DOMAIN planned /\ Head(planned) = planned[1]
           /\ planned' \in Seq(Payloads)
           /\ \A i \in DOMAIN planned' :
                  /\ i + 1 \in DOMAIN planned
                  /\ planned'[i] = planned[i + 1]
                  /\ planned'[i].id # u
           /\ \A i, j \in DOMAIN planned' :
                  planned'[i].id = planned'[j].id => i = j
           /\ PlannedIds' \subseteq PlannedIds
           /\ u \in PlannedIds /\ u \notin PlannedIds'
<1>1. /\ planned # <<>> /\ planned' = Tail(planned)
      /\ Head(planned).id = u
  BY DEF Resumed
<1>2. /\ DOMAIN planned = 1..Len(planned) /\ Len(planned) \in Nat \ {0}
      /\ Head(planned) = planned[1]
      /\ planned' \in Seq(Payloads)
      /\ DOMAIN planned' = 1..Len(planned) - 1
      /\ \A i \in 1..Len(planned) - 1 : planned'[i] = planned[i + 1]
  BY <1>1
<1>3. \A i \in DOMAIN planned' :
          i \in Nat /\ i # 0 /\ i + 1 \in DOMAIN planned /\ planned'[i] = planned[i + 1]
  BY <1>2
<1>4. 1 \in DOMAIN planned
  BY <1>2
<1>5. \A i \in DOMAIN planned' : planned'[i].id # u
  BY <1>1, <1>2, <1>3, <1>4
<1>6. \A i, j \in DOMAIN planned' : planned'[i].id = planned'[j].id => i = j
  BY <1>3
<1>7. PlannedIds' \subseteq PlannedIds /\ u \in PlannedIds
  BY <1>1, <1>2, <1>3, <1>4 DEF PlannedIds
<1>8. u \notin PlannedIds'
  BY <1>5 DEF PlannedIds
<1> QED BY <1>2, <1>3, <1>4, <1>5, <1>6, <1>7, <1>8

\* A set of descriptors is finite, and counts at most MaxFd.
LEMMA SetsOfFds ==
    ASSUME NEW S \in SUBSET Fds
    PROVE  /\ IsFiniteSet(S) /\ Cardinality(S) \in 0..MaxFd
           /\ \A f \in Fds : f \notin S => Cardinality(S \cup {f}) = Cardinality(S) + 1
           /\ \A f \in S : Cardinality(S \ {f}) = Cardinality(S) - 1
<1>1. IsFiniteSet(Fds) /\ Cardinality(Fds) = MaxFd
  BY FS_Interval, 1 \in Int, MaxFd \in Int, 1 <= MaxFd DEF Fds
<1>2. IsFiniteSet(S) /\ Cardinality(S) <= MaxFd /\ Cardinality(S) \in Nat
  BY <1>1, FS_Subset, FS_CardinalityType
<1>3. \A f \in Fds : f \notin S => Cardinality(S \cup {f}) = Cardinality(S) + 1
  BY <1>2, FS_AddElement
<1>4. \A f \in S : Cardinality(S \ {f}) = Cardinality(S) - 1
  BY <1>2, FS_RemoveElement
<1> QED BY <1>2, <1>3, <1>4

-----------------------------------------------------------------------------
(* What a step does not touch *)

LEMMA TurnsFrame ==
    ASSUME Turns, UNCHANGED <<phase, planned, pending, running, pc, conn>>
    PROVE  Turns'
BY DEF Turns, PlannedIds

LEMMA OwnersFrame ==
    ASSUME Owners, UNCHANGED <<pc, conn, sock, poolVars>>
    PROVE  Owners'
BY DEF Owners, Connecting, Asking, Pooled, poolVars

LEMMA AnswersFrame ==
    ASSUME Answers, UNCHANGED <<free, busy, kernelVars>>
    PROVE  Answers'
BY DEF Answers, Pooled, kernelVars

LEMMA UndisturbedFrame ==
    ASSUME Undisturbed, UNCHANGED <<planned, pc, conn, free, asked>>
    PROVE  Undisturbed'
BY DEF Undisturbed, Asking

-----------------------------------------------------------------------------
(* The invariant holds initially *)

LEMMA InvInit == Init => Inv
<1> SUFFICES ASSUME Init PROVE Inv
  OBVIOUS
<1>1. Connecting = {} /\ Asking = {} /\ Pooled = {}
  BY DEF Init, Connecting, Asking, Pooled
<1>2. DOMAIN planned = {} /\ planned \in Seq(Payloads)
  BY DEF Init
<1>3. TypeOK
  <2>1. pc \in [Uthreads -> Pcs] /\ conn \in [Uthreads -> Fds \cup {NoFd}]
    BY DEF Init, Pcs
  <2>2. /\ sock \in [Fds -> {"closed", "opening", "open"}]
        /\ inbox \in [Fds -> {"none", "eof", "reset"} \cup Responses]
        /\ asked \in [Fds -> Seq(Uthreads)]
    BY DEF Init
  <2>3. conns_num \in 0..MaxFd /\ calls \in 0..MaxCalls
    BY DEF Init
  <2> QED BY <1>2, <2>1, <2>2, <2>3 DEF Init, TypeOK
<1>4. Turns
  BY <1>2 DEF Init, Turns, PlannedIds
<1>5. Owners
  BY <1>1, FS_EmptySet DEF Init, Owners
<1>6. Answers
  BY DEF Init, Answers, Responses
<1>7. Undisturbed
  BY <1>1, <1>2 DEF Init, Undisturbed
<1> QED BY <1>3, <1>4, <1>5, <1>6, <1>7 DEF Inv

-----------------------------------------------------------------------------
(* The servers, the timers and the callbacks *)

LEMMA ServerMovesKeeps ==
    ASSUME Inv, NEW f \in Fds, ServerMoves(f)
    PROVE  Inv'
<1>1. sock[f] # "closed" /\ sock' \in [Fds -> {"closed", "opening", "open"}]
      /\ \A g \in Fds : sock'[g] = "closed" <=> sock[g] = "closed"
  BY DEF ServerMoves, Inv, TypeOK
<1>2. /\ inbox' \in [Fds -> {"none", "eof", "reset"} \cup Responses]
      /\ \A g \in Fds : g # f => inbox'[g] = inbox[g]
      /\ inbox'[f] \in Responses => asked[f] # <<>>
  BY DEF ServerMoves, Inv, TypeOK, Responses
<1>3. UNCHANGED <<phase, planned, pending, running, callVars, poolVars, asked,
                  misfired>>
  BY DEF ServerMoves
<1>4. TypeOK'
  BY <1>1, <1>2, <1>3 DEF Inv, TypeOK, callVars, poolVars
<1>5. Turns'
  BY <1>3, TurnsFrame DEF Inv, callVars
<1>6. Owners'
  BY <1>1, <1>3 DEF Inv, Owners, Connecting, Asking, Pooled, callVars, poolVars
<1>7. Answers'
  BY <1>1, <1>2, <1>3 DEF Inv, Answers, Pooled, poolVars
<1>8. ~misfired' => Undisturbed'
  BY <1>3, UndisturbedFrame DEF Inv, callVars, poolVars
<1> QED BY <1>4, <1>5, <1>6, <1>7, <1>8 DEF Inv

LEMMA TimerFiresKeeps ==
    ASSUME Inv, NEW u \in Uthreads, TimerFires(u)
    PROVE  Inv'
<1> DEFINE kind == IF pc[u] = "connecting" THEN "noconn" ELSE "timeout"
<1>1. /\ phase = "poll" /\ timer' \in SUBSET Uthreads
      /\ Plan(u, kind, Nobody)
      /\ UNCHANGED <<phase, pending, running, pc, calls, conn, left, poolVars,
                     kernelVars, misfired>>
  BY DEF TimerFires, Inv, TypeOK
<1>2. kind \in Kinds /\ kind \notin Responses
  BY DEF Kinds, ConnectKinds, Responses
<1> HIDE DEF kind
<1>3. /\ planned' \in Seq(Payloads)
      /\ \A i, j \in DOMAIN planned' : planned'[i].id = planned'[j].id => i = j
      /\ PlannedIds' \subseteq PlannedIds \cup {u}
      /\ \A i \in DOMAIN planned' :
             \/ i \in DOMAIN planned /\ planned'[i] = planned[i]
             \/ planned'[i] = [id |-> u, kind |-> kind, to |-> Nobody]
  BY <1>1, <1>2, PlanKeeps DEF Inv, TypeOK, Turns
<1>4. TypeOK'
  BY <1>1, <1>3 DEF Inv, TypeOK, poolVars, kernelVars
<1>5. Turns'
  BY <1>1, <1>3 DEF Inv, Turns
<1>6. Owners' /\ Answers'
  BY <1>1, OwnersFrame, AnswersFrame DEF Inv, poolVars, kernelVars
<1>7. ~misfired' => Undisturbed'
  BY <1>1, <1>2, <1>3 DEF Inv, Undisturbed, Asking, poolVars, kernelVars
<1> QED BY <1>4, <1>5, <1>6, <1>7 DEF Inv

LEMMA LeftTimerFiresKeeps ==
    ASSUME Inv, NEW w \in left, LeftTimerFires(w)
    PROVE  Inv'
<1>1. /\ phase = "poll" /\ misfired'
      /\ Plan(w.id, "timeout", Nobody)
      /\ UNCHANGED <<phase, pending, running, pc, calls, conn, timer, poolVars,
                     kernelVars>>
  BY DEF LeftTimerFires
<1>2. w.id \in Uthreads /\ "timeout" \in Kinds
  BY DEF Inv, TypeOK, Kinds
<1>3. /\ planned' \in Seq(Payloads)
      /\ \A i, j \in DOMAIN planned' : planned'[i].id = planned'[j].id => i = j
      /\ PlannedIds' \subseteq PlannedIds \cup {w.id}
  BY <1>1, <1>2, PlanKeeps DEF Inv, TypeOK, Turns
<1>4. left' \in SUBSET [id : Uthreads, fd : Fds, timer : BOOLEAN]
  BY DEF LeftTimerFires, Inv, TypeOK
<1>5. TypeOK'
  BY <1>1, <1>3, <1>4 DEF LeftTimerFires, Inv, TypeOK, poolVars, kernelVars
<1>6. Turns'
  BY <1>1, <1>2, <1>3 DEF Inv, Turns
<1>7. Owners' /\ Answers'
  BY <1>1, OwnersFrame, AnswersFrame DEF Inv, poolVars, kernelVars
<1> QED BY <1>1, <1>5, <1>6, <1>7 DEF Inv

LEMMA BackendPollKeeps ==
    ASSUME Inv, BackendPoll
    PROVE  Inv'
<1>1. /\ phase = "poll" /\ phase' = "io" /\ pending' = ReadyWatchers
      /\ UNCHANGED <<planned, running, callVars, poolVars, kernelVars, misfired>>
  BY DEF BackendPoll
<1>2. ReadyWatchers \in SUBSET [id : Uthreads, fd : Fds, old : BOOLEAN]
  <2>1. \A u \in Uthreads :
            pc[u] \in {"connecting", "receiving"} => conn[u] \in Fds
    BY DEF Inv, Owners, Connecting, Asking
  <2>2. \A w \in left : w.id \in Uthreads /\ w.fd \in Fds
    BY DEF Inv, TypeOK
  <2>3. ASSUME NEW w \in ReadyWatchers
        PROVE  w \in [id : Uthreads, fd : Fds, old : BOOLEAN]
    <3>1. \/ \E u \in Uthreads :
                 /\ pc[u] \in {"connecting", "receiving"}
                 /\ w = [id |-> u, fd |-> conn[u], old |-> FALSE]
          \/ \E x \in left : w = [id |-> x.id, fd |-> x.fd, old |-> TRUE]
      BY DEF ReadyWatchers
    <3>2. w.id \in Uthreads /\ w.fd \in Fds /\ w.old \in BOOLEAN
          /\ w = [id |-> w.id, fd |-> w.fd, old |-> w.old]
      <4>1. CASE \E u \in Uthreads :
                     /\ pc[u] \in {"connecting", "receiving"}
                     /\ w = [id |-> u, fd |-> conn[u], old |-> FALSE]
        BY <4>1, <2>1
      <4>2. CASE \E x \in left : w = [id |-> x.id, fd |-> x.fd, old |-> TRUE]
        BY <4>2, <2>2
      <4> QED BY <3>1, <4>1, <4>2
    <3> QED BY <3>2
  <2> QED BY <2>3
<1>3. \A w \in ReadyWatchers :
          ~w.old => /\ pc[w.id] \in {"connecting", "receiving"}
                    /\ w.fd = conn[w.id]
  BY DEF ReadyWatchers
<1>4. TypeOK'
  BY <1>1, <1>2 DEF Inv, TypeOK, callVars, poolVars, kernelVars
<1>5. Turns'
  BY <1>1, <1>3 DEF Inv, Turns, PlannedIds, callVars
<1>6. Owners' /\ Answers'
  BY <1>1, OwnersFrame, AnswersFrame DEF Inv, poolVars, kernelVars, callVars
<1>7. ~misfired' => Undisturbed'
  BY <1>1, UndisturbedFrame DEF Inv, poolVars, kernelVars, callVars
<1> QED BY <1>4, <1>5, <1>6, <1>7 DEF Inv

LEMMA PhaseKeeps ==
    ASSUME Inv, BeginPass \/ EndPass
    PROVE  Inv'
<1>1. /\ pending' = {} /\ running' = Nobody /\ phase' \in {"pass", "poll"}
      /\ running = Nobody
      /\ UNCHANGED <<planned, pending, running, callVars, poolVars, kernelVars,
                     misfired>>
  BY DEF BeginPass, EndPass, Inv, Turns
<1>2. TypeOK'
  BY <1>1 DEF Inv, TypeOK, callVars, poolVars, kernelVars
<1>3. Turns'
  BY <1>1 DEF Inv, Turns, PlannedIds, callVars
<1>4. Owners' /\ Answers'
  BY <1>1, OwnersFrame, AnswersFrame DEF Inv, poolVars, kernelVars, callVars
<1>5. ~misfired' => Undisturbed'
  BY <1>1, UndisturbedFrame DEF Inv, poolVars, kernelVars, callVars
<1> QED BY <1>2, <1>3, <1>4, <1>5 DEF Inv

LEMMA IoCallbackKeeps ==
    ASSUME Inv, NEW w \in pending, IoCallback(w)
    PROVE  Inv'
<1> DEFINE Planning(kind, to) ==
               /\ kind \in Kinds /\ to \in Uthreads \cup {Nobody}
               /\ Plan(w.id, kind, to)
           Read == /\ inbox[w.fd] \in Responses
                   /\ w.old \/ pc[w.id] = "receiving"
                   /\ Planning(inbox[w.fd], Head(asked[w.fd]))
                   /\ inbox' = [inbox EXCEPT ![w.fd] = "none"]
                   /\ asked' = [asked EXCEPT ![w.fd] = Tail(@)]
           ReadNothing == /\ \E kind \in Kinds \ Responses : Planning(kind, Nobody)
                          /\ \/ /\ inbox[w.fd] = "reset"
                                /\ inbox' = [inbox EXCEPT ![w.fd] = "eof"]
                             \/ inbox' = inbox
                          /\ asked' = asked
<1>1. /\ phase = "io" /\ pending' = pending \ {w}
      /\ misfired' = (misfired \/ w.old)
      /\ UNCHANGED <<phase, running, callVars, poolVars, sock>>
  BY DEF IoCallback
<1>2. /\ w.id \in Uthreads /\ w.fd \in Fds /\ w.old \in BOOLEAN
      /\ ~w.old => /\ pc[w.id] \in {"connecting", "receiving"}
                   /\ w.fd = conn[w.id]
  BY DEF Inv, TypeOK, Turns
<1>3. /\ inbox \in [Fds -> {"none", "eof", "reset"} \cup Responses]
      /\ asked \in [Fds -> Seq(Uthreads)] /\ asked[w.fd] \in Seq(Uthreads)
      /\ inbox[w.fd] \in Responses => asked[w.fd] # <<>>
  BY <1>2 DEF Inv, TypeOK, Answers
<1>4. asked[w.fd] # <<>> =>
          Head(asked[w.fd]) \in Uthreads /\ Tail(asked[w.fd]) \in Seq(Uthreads)
  BY <1>3
<1>5. Read \/ ReadNothing
  <2>1. CASE CbConnect(w)
    <3>1. "noconn" \in Kinds \ Responses /\ "connected" \in Kinds \ Responses
      BY DEF Kinds, ConnectKinds, Responses
    <3> QED BY <2>1, <3>1 DEF CbConnect
  <2>2. CASE CbRecv(w) /\ inbox[w.fd] \in Responses
    BY <2>2, <1>3, <1>4 DEF CbRecv, Kinds
  <2>3. CASE CbRecv(w) /\ inbox[w.fd] \notin Responses
    <3> DEFINE kind == IF inbox[w.fd] = "eof" THEN "eof" ELSE "error"
    <3>1. kind \in Kinds \ Responses
      BY DEF Kinds, Responses
    <3>2. Plan(w.id, kind, Nobody) /\ asked' = asked
      BY <2>3 DEF CbRecv
    <3>3. \/ /\ inbox[w.fd] = "reset"
             /\ inbox' = [inbox EXCEPT ![w.fd] = "eof"]
          \/ inbox' = inbox
      BY <2>3, <1>2, <1>3 DEF CbRecv
    <3> QED BY <3>1, <3>2, <3>3
  <2> QED BY <2>1, <2>2, <2>3 DEF IoCallback
<1>6. \E kind \in Kinds, to \in Uthreads \cup {Nobody} : Plan(w.id, kind, to)
  BY <1>5, <1>4, <1>3
<1>7. /\ planned' \in Seq(Payloads)
      /\ \A i, j \in DOMAIN planned' : planned'[i].id = planned'[j].id => i = j
      /\ PlannedIds' \subseteq PlannedIds \cup {w.id}
  BY <1>2, <1>6, PlanKeeps DEF Inv, TypeOK, Turns
<1>8. /\ inbox' \in [Fds -> {"none", "eof", "reset"} \cup Responses]
      /\ asked' \in [Fds -> Seq(Uthreads)]
  BY <1>2, <1>3, <1>4, <1>5
<1>9. TypeOK'
  BY <1>1, <1>2, <1>7, <1>8 DEF Inv, TypeOK, callVars, poolVars
<1>10. Turns'
  <2>1. running = Nobody /\ pending' \subseteq pending
    BY <1>1 DEF Inv, Turns
  <2> QED BY <1>1, <1>2, <1>7, <2>1 DEF Inv, Turns, callVars
<1>11. Owners'
  BY <1>1, OwnersFrame DEF Inv, callVars, poolVars
<1>12. Answers'
  <2> SUFFICES ASSUME NEW f \in Fds
               PROVE  /\ inbox'[f] \in Responses => asked'[f] # <<>>
                      /\ sock[f] = "closed" => inbox'[f] = "none"
                      /\ f \notin Pooled => asked'[f] = <<>>
    BY <1>1 DEF Answers, Pooled, poolVars
  <2>1. /\ inbox[f] \in Responses => asked[f] # <<>>
        /\ sock[f] = "closed" => inbox[f] = "none"
        /\ f \notin Pooled => asked[f] = <<>>
    BY DEF Inv, Answers
  <2>2. "none" \notin Responses /\ "eof" \notin Responses
    BY DEF Responses
  <2>3. CASE Read
    BY <2>1, <2>2, <2>3, <1>2, <1>3
  <2>4. CASE ReadNothing
    BY <2>1, <2>2, <2>4, <1>2, <1>3
  <2> QED BY <1>5, <2>3, <2>4
<1>13. ~misfired' => Undisturbed'
  <2> SUFFICES ASSUME ~misfired' PROVE Undisturbed'
    OBVIOUS
  <2>1. ~w.old /\ Undisturbed
    BY <1>1, <1>2 DEF Inv, TypeOK
  <2>2. CASE Read
    <3> DEFINE u == w.id
    <3>1. u \in Asking /\ w.fd = conn[u] /\ w.fd \in busy
      BY <1>2, <2>1, <2>2 DEF Asking, Inv, Owners
    <3>2. asked[w.fd] = <<u>> /\ Head(asked[w.fd]) = u /\ Tail(asked[w.fd]) = <<>>
      <4>1. asked[w.fd] = <<u>>
        BY <1>3, <2>1, <2>2, <3>1 DEF Undisturbed
      <4> QED BY <4>1
    <3>3. /\ asked' \in [Fds -> Seq(Uthreads)] /\ asked'[w.fd] = <<>>
          /\ \A f \in Fds : f # w.fd => asked'[f] = asked[f]
      BY <1>2, <1>3, <1>8, <2>2, <3>2
    <3>4. \A f \in free : asked'[f] = <<>>
      BY <2>1, <3>3 DEF Undisturbed, Inv, TypeOK
    <3>5. \A v \in Asking : asked'[conn[v]] \in {<<>>, <<v>>}
      BY <2>1, <3>3 DEF Undisturbed, Inv, Owners
    <3>6. \A i \in DOMAIN planned' :
              \/ i \in DOMAIN planned /\ planned'[i] = planned[i]
              \/ planned'[i] = [id |-> u, kind |-> inbox[w.fd], to |-> u]
      BY <1>2, <2>2, <3>2, PlanKeeps DEF Inv, TypeOK, Turns
    <3>7. ASSUME NEW i \in DOMAIN planned', planned'[i].kind \in Responses
          PROVE  /\ pc[planned'[i].id] = "receiving"
                 /\ asked'[conn[planned'[i].id]] = <<>>
                 /\ planned'[i].to = planned'[i].id
      <4>1. CASE i \in DOMAIN planned /\ planned'[i] = planned[i]
        <5>1. planned[i].id \in Asking
          <6>1. planned[i] \in Payloads
            BY <4>1, ElementOfSeq DEF Inv, TypeOK
          <6>2. planned[i].id \in Uthreads
            BY <6>1 DEF Payloads
          <6> QED BY <2>1, <3>7, <4>1, <6>2 DEF Undisturbed, Asking
        <5> QED BY <2>1, <3>3, <3>7, <4>1, <5>1 DEF Undisturbed, Inv, Owners
      <4>2. CASE planned'[i] = [id |-> u, kind |-> inbox[w.fd], to |-> u]
        BY <3>1, <3>3, <4>2 DEF Asking
      <4> QED BY <3>6, <4>1, <4>2
    <3> QED BY <1>1, <3>4, <3>5, <3>7 DEF Undisturbed, Asking, callVars, poolVars
  <2>3. CASE ReadNothing
    <3>1. PICK kind \in Kinds \ Responses : Planning(kind, Nobody)
      BY <2>3
    <3>2. \A i \in DOMAIN planned' :
              \/ i \in DOMAIN planned /\ planned'[i] = planned[i]
              \/ planned'[i] = [id |-> w.id, kind |-> kind, to |-> Nobody]
      BY <1>2, <3>1, PlanKeeps DEF Inv, TypeOK, Turns
    <3> QED BY <1>1, <2>1, <2>3, <3>1, <3>2
            DEF Undisturbed, Asking, callVars, poolVars
  <2> QED BY <1>5, <2>2, <2>3
<1> QED BY <1>9, <1>10, <1>11, <1>12, <1>13 DEF Inv

-----------------------------------------------------------------------------
(* The pass: what all steps of one uthread have in common *)

\* The queue lost at most its head, and names the uthread of the step no more.
PlannedWithout(u) ==
    /\ planned' \in Seq(Payloads)
    /\ \A i, j \in DOMAIN planned' : planned'[i].id = planned'[j].id => i = j
    /\ PlannedIds' \subseteq PlannedIds /\ u \notin PlannedIds'
    /\ \A i \in DOMAIN planned' :
           /\ planned'[i].id # u
           /\ \E j \in DOMAIN planned : planned'[i] = planned[j]

LEMMA ResumedTaken ==
    ASSUME Inv, NEW u \in Uthreads, NEW kinds, Resumed(u, kinds)
    PROVE  /\ PlannedWithout(u) /\ phase = "pass" /\ running = Nobody
           /\ pending = {} /\ pc[u] # "run"
           /\ 1 \in DOMAIN planned /\ Head(planned) = planned[1]
           /\ planned[1].id = u /\ planned[1].kind \in kinds
<1>1. phase = "pass" /\ running = Nobody /\ pending = {} /\ pc[u] # "run"
  BY DEF Resumed, Inv, Turns
<1>2. PlannedWithout(u) /\ 1 \in DOMAIN planned /\ Head(planned) = planned[1]
  BY ResumedTakesFirst DEF Inv, TypeOK, Turns, PlannedWithout
<1> QED BY <1>1, <1>2 DEF Resumed

LEMMA RunningTaken ==
    ASSUME Inv, NEW u \in Uthreads, running = u, UNCHANGED planned,
           phase = "pass"
    PROVE  PlannedWithout(u) /\ pending = {} /\ pc[u] = "run"
BY DEF Inv, TypeOK, Turns, PlannedWithout, PlannedIds

LEMMA PlannedIdsAreUthreads ==
    ASSUME Inv PROVE PlannedIds \subseteq Uthreads /\ Nobody \notin PlannedIds
<1>1. \A i \in DOMAIN planned : planned[i] \in Payloads
  BY ElementOfSeq DEF Inv, TypeOK
<1> QED BY <1>1 DEF Payloads, PlannedIds

LEMMA RunsOnTurns ==
    ASSUME Inv, NEW u \in Uthreads, PlannedWithout(u), RunsOn(u),
           running = Nobody, pending = {},
           phase = "pass", UNCHANGED <<phase, pending>>
    PROVE  Turns'
BY DEF Inv, TypeOK, Turns, PlannedWithout, RunsOn

LEMMA YieldTurns ==
    ASSUME Inv, NEW u \in Uthreads, PlannedWithout(u), running \in {u, Nobody},
           NEW call \in Pcs \ {"run"}, pc' = [pc EXCEPT ![u] = call],
           running' = Nobody, pending = {}, UNCHANGED pending
    PROVE  Turns'
<1>1. Nobody \notin PlannedIds'
  BY PlannedIdsAreUthreads DEF PlannedWithout
<1> QED BY <1>1 DEF Inv, TypeOK, Turns, PlannedWithout

\* Whatever a uthread does with its own connection, the others' calls and
\* their planned responses are not concerned.
LEMMA OthersUndisturbed ==
    ASSUME Inv, Undisturbed, NEW u \in Uthreads, PlannedWithout(u),
           \A v \in Uthreads \ {u} : pc'[v] = pc[v] /\ conn'[v] = conn[v],
           \A v \in Asking \ {u} : asked'[conn[v]] = asked[conn[v]],
           \A f \in free' : asked'[f] = <<>>,
           u \in Asking' => asked'[conn'[u]] \in {<<>>, <<u>>}
    PROVE  Undisturbed'
<1>1. \A v \in Asking' : asked'[conn'[v]] \in {<<>>, <<v>>}
  BY DEF Undisturbed, Asking
<1>2. ASSUME NEW i \in DOMAIN planned', planned'[i].kind \in Responses
      PROVE  /\ pc'[planned'[i].id] = "receiving"
             /\ asked'[conn'[planned'[i].id]] = <<>>
             /\ planned'[i].to = planned'[i].id
  <2> DEFINE v == planned'[i].id
  <2>1. PICK j \in DOMAIN planned : planned'[i] = planned[j]
    BY DEF PlannedWithout
  <2>2. v # u /\ v \in Uthreads
    BY <2>1, PlannedIdsAreUthreads DEF PlannedWithout, PlannedIds
  <2>3. /\ pc[v] = "receiving" /\ asked[conn[v]] = <<>>
        /\ planned'[i].to = v
    BY <1>2, <2>1 DEF Undisturbed
  <2> QED BY <2>2, <2>3 DEF Asking
<1> QED BY <1>1, <1>2 DEF Undisturbed

LEMMA IdleOwners ==
    ASSUME Inv, NEW u \in Uthreads, NEW call,
           pc[u] \notin {"connecting", "receiving"},
           call \notin {"connecting", "receiving"},
           pc' = [pc EXCEPT ![u] = call], UNCHANGED <<conn, sock, poolVars>>
    PROVE  Owners' /\ Connecting' = Connecting /\ Asking' = Asking
<1>1. Connecting' = Connecting /\ Asking' = Asking
  BY DEF Connecting, Asking, Inv, TypeOK
<1> QED BY <1>1 DEF Inv, Owners, Pooled, poolVars

-----------------------------------------------------------------------------
(* The steps that leave the connections alone *)

LEMMA SkipKeeps ==
    ASSUME Inv, NEW u \in Uthreads, Skip(u)
    PROVE  Inv'
<1>1. /\ PlannedWithout(u) /\ running = Nobody
      /\ UNCHANGED <<phase, pending, running, callVars, poolVars, kernelVars,
                     misfired>>
  BY ResumedTaken DEF Skip
<1>2. TypeOK'
  BY <1>1 DEF Inv, TypeOK, PlannedWithout, callVars, poolVars, kernelVars
<1>3. Turns'
  BY <1>1 DEF Inv, Turns, PlannedWithout, callVars
<1>4. Owners' /\ Answers'
  BY <1>1, OwnersFrame, AnswersFrame DEF Inv, poolVars, kernelVars, callVars
<1>5. ~misfired' => Undisturbed'
  BY <1>1 DEF Inv, PlannedWithout, Undisturbed, Asking, callVars, poolVars,
              kernelVars
<1> QED BY <1>2, <1>3, <1>4, <1>5 DEF Inv

LEMMA WakeUpKeeps ==
    ASSUME Inv, NEW u \in Uthreads, WakeUp(u)
    PROVE  Inv'
<1>1. /\ PlannedWithout(u) /\ running = Nobody /\ pending = {}
      /\ phase = "pass" /\ pc[u] = "sleeping" /\ RunsOn(u)
      /\ UNCHANGED <<phase, pending, calls, conn, left, poolVars, kernelVars,
                     misfired>>
  BY ResumedTaken DEF WakeUp
<1>2. TypeOK'
  BY <1>1 DEF Inv, TypeOK, PlannedWithout, RunsOn, Pcs, poolVars, kernelVars
<1>3. Turns'
  BY <1>1, RunsOnTurns
<1>4. Owners' /\ Asking' = Asking
  BY <1>1, IdleOwners DEF RunsOn, kernelVars
<1>5. Answers'
  BY <1>1, AnswersFrame DEF Inv, poolVars
<1>6. ~misfired' => Undisturbed'
  <2>1. \A v \in Uthreads \ {u} : pc'[v] = pc[v]
    BY <1>1 DEF RunsOn, Inv, TypeOK
  <2>2. conn' = conn /\ asked' = asked /\ free' = free /\ misfired' = misfired
    BY <1>1 DEF poolVars, kernelVars
  <2>3. Undisturbed =>
            /\ \A f \in free' : asked'[f] = <<>>
            /\ u \in Asking' => asked'[conn'[u]] \in {<<>>, <<u>>}
    BY <1>4, <2>2 DEF Undisturbed
  <2> QED BY <1>1, <2>1, <2>2, <2>3, OthersUndisturbed DEF Inv
<1> QED BY <1>2, <1>3, <1>4, <1>5, <1>6 DEF Inv

LEMMA SleepKeeps ==
    ASSUME Inv, NEW u \in Uthreads, phase = "pass", Sleep(u)
    PROVE  Inv'
<1>1. /\ PlannedWithout(u) /\ running = u /\ pending = {} /\ pc[u] = "run"
      /\ pc' = [pc EXCEPT ![u] = "sleeping"] /\ running' = Nobody
      /\ timer' = timer \cup {u}
      /\ UNCHANGED <<phase, planned, pending, calls, conn, left, poolVars,
                     kernelVars, misfired>>
  BY RunningTaken DEF Sleep, Wait
<1>2. TypeOK'
  BY <1>1 DEF Inv, TypeOK, Pcs, poolVars, kernelVars
<1>3. Turns'
  BY <1>1, YieldTurns DEF Pcs
<1>4. Owners' /\ Asking' = Asking
  BY <1>1, IdleOwners DEF kernelVars
<1>5. Answers'
  BY <1>1, AnswersFrame DEF Inv, poolVars
<1>6. ~misfired' => Undisturbed'
  <2>1. \A v \in Uthreads \ {u} : pc'[v] = pc[v]
    BY <1>1 DEF Inv, TypeOK
  <2>2. conn' = conn /\ asked' = asked /\ free' = free /\ misfired' = misfired
    BY <1>1 DEF poolVars, kernelVars
  <2>3. Undisturbed =>
            /\ \A f \in free' : asked'[f] = <<>>
            /\ u \in Asking' => asked'[conn'[u]] \in {<<>>, <<u>>}
    BY <1>4, <2>2 DEF Undisturbed
  <2> QED BY <1>1, <2>1, <2>2, <2>3, OthersUndisturbed DEF Inv
<1> QED BY <1>2, <1>3, <1>4, <1>5, <1>6 DEF Inv

LEMMA ConnectConfusedKeeps ==
    ASSUME Inv, NEW u \in Uthreads, ConnectConfused(u)
    PROVE  Inv'
<1>1. /\ PlannedWithout(u) /\ running = Nobody /\ phase' = "dead"
      /\ pending = {}
      /\ UNCHANGED <<pending, running, callVars, poolVars, kernelVars, misfired>>
  BY ResumedTaken DEF ConnectConfused
<1>2. TypeOK'
  BY <1>1 DEF Inv, TypeOK, PlannedWithout, callVars, poolVars, kernelVars
<1>3. Turns'
  BY <1>1 DEF Inv, Turns, PlannedWithout, callVars
<1>4. Owners' /\ Answers'
  BY <1>1, OwnersFrame, AnswersFrame DEF Inv, poolVars, kernelVars, callVars
<1>5. ~misfired' => Undisturbed'
  BY <1>1 DEF Inv, PlannedWithout, Undisturbed, Asking, callVars, poolVars,
              kernelVars
<1> QED BY <1>2, <1>3, <1>4, <1>5 DEF Inv

-----------------------------------------------------------------------------
(* A call ends *)

LEMMA CloseSocketEffect ==
    ASSUME Inv, NEW f \in Fds, CloseSocket(f)
    PROVE  /\ sock' \in [Fds -> {"closed", "opening", "open"}]
           /\ inbox' \in [Fds -> {"none", "eof", "reset"} \cup Responses]
           /\ asked' \in [Fds -> Seq(Uthreads)]
           /\ sock'[f] = "closed" /\ inbox'[f] = "none" /\ asked'[f] = <<>>
           /\ \A g \in Fds \ {f} : /\ sock'[g] = sock[g]
                                   /\ inbox'[g] = inbox[g]
                                   /\ asked'[g] = asked[g]
<1>1. /\ sock' = [sock EXCEPT ![f] = "closed"]
      /\ inbox' = [inbox EXCEPT ![f] = "none"]
      /\ asked' = [asked EXCEPT ![f] = <<>>]
  BY DEF CloseSocket
<1>2. <<>> \in Seq(Uthreads)
  OBVIOUS
<1> QED BY <1>1, <1>2 DEF Inv, TypeOK

\* on_disconnect and the kernel agree: the connection leaves the pool, its
\* descriptor is closed, and the launcher counts one connection less.
LEMMA CloseConnectionKeeps ==
    ASSUME Inv, NEW u \in Asking, pc' = [pc EXCEPT ![u] = "run"],
           UNCHANGED conn, CloseConnection(conn[u])
    PROVE  /\ Owners' /\ Answers' /\ free' = free
           /\ busy' \subseteq Fds /\ conns_num' \in 0..MaxFd
           /\ Asking' = Asking \ {u} /\ CloseSocket(conn[u])
<1> DEFINE f == conn[u]
<1>1. f \in Fds /\ f \in busy /\ f \notin free /\ f \in Pooled
  BY DEF Inv, Owners, Pooled
<1>2. /\ free' = free /\ busy' = busy \ {f} /\ Pooled' = Pooled \ {f}
      /\ conns_num' = conns_num - 1 /\ CloseSocket(f)
  BY <1>1 DEF CloseConnection, OnDisconnect, Pooled
<1>3. u \in Uthreads /\ pc \in [Uthreads -> Pcs]
  BY DEF Asking, Inv, TypeOK
<1>4. Connecting' = Connecting /\ Asking' = Asking \ {u}
  BY <1>3 DEF Connecting, Asking
<1>5. Pooled \in SUBSET Fds /\ Pooled' \in SUBSET Fds
  BY <1>2 DEF Pooled, Inv, TypeOK
<1>6. conns_num' = Cardinality(Pooled') /\ conns_num' \in 0..MaxFd
  BY <1>1, <1>2, <1>5, SetsOfFds DEF Inv, Owners
<1>7. \A v \in Connecting : conn[v] # f
  BY <1>1 DEF Inv, Owners
<1>8. {g \in Fds : sock'[g] # "closed"} = {g \in Fds : sock[g] # "closed"} \ {f}
  BY <1>1, <1>2, CloseSocketEffect
<1>9. {g \in Fds : sock'[g] # "closed"} = Pooled' \cup {conn'[v] : v \in Connecting'}
  BY <1>2, <1>4, <1>7, <1>8 DEF Inv, Owners
<1>10. busy' = {conn'[v] : v \in Asking'}
  BY <1>2, <1>4 DEF Inv, Owners
<1>11. Owners'
  BY <1>1, <1>2, <1>4, <1>6, <1>9, <1>10 DEF Inv, Owners
<1>12. Answers'
  <2>1. /\ sock'[f] = "closed" /\ inbox'[f] = "none" /\ asked'[f] = <<>>
        /\ \A g \in Fds \ {f} : /\ sock'[g] = sock[g] /\ inbox'[g] = inbox[g]
                                /\ asked'[g] = asked[g]
    BY <1>1, <1>2, CloseSocketEffect
  <2>2. \A g \in Fds \ {f} : g \notin Pooled' => g \notin Pooled
    BY <1>2
  <2>3. "none" \notin Responses
    BY DEF Responses
  <2> QED BY <2>1, <2>2, <2>3 DEF Inv, Answers
<1> QED BY <1>2, <1>4, <1>6, <1>11, <1>12 DEF Inv, TypeOK

LEMMA MarkFreeKeeps ==
    ASSUME Inv, NEW u \in Asking, pc' = [pc EXCEPT ![u] = "run"],
           UNCHANGED conn, MarkFree(conn[u])
    PROVE  /\ Owners' /\ Answers' /\ free' = free \cup {conn[u]}
           /\ busy' \subseteq Fds /\ free' \subseteq Fds
           /\ Asking' = Asking \ {u}
<1> DEFINE f == conn[u]
<1>1. f \in Fds /\ f \in busy /\ f \notin free
  BY DEF Inv, Owners
<1>2. /\ free' = free \cup {f} /\ busy' = busy \ {f} /\ Pooled' = Pooled
      /\ conns_num' = conns_num /\ UNCHANGED kernelVars
  BY <1>1 DEF MarkFree, Pooled
<1>3. u \in Uthreads /\ pc \in [Uthreads -> Pcs]
  BY DEF Asking, Inv, TypeOK
<1>4. Connecting' = Connecting /\ Asking' = Asking \ {u}
  BY <1>3 DEF Connecting, Asking
<1>5. busy' = {conn'[v] : v \in Asking'}
  BY <1>2, <1>4 DEF Inv, Owners
<1>6. Owners'
  BY <1>1, <1>2, <1>4, <1>5 DEF Inv, Owners, kernelVars
<1>7. Answers'
  BY <1>2 DEF Inv, Answers, kernelVars
<1> QED BY <1>1, <1>2, <1>4, <1>6, <1>7 DEF Inv, TypeOK

\* The uthread that leaves its call disturbs nobody.
LEMMA LeaverDisturbsNobody ==
    ASSUME Inv, NEW u \in Uthreads, PlannedWithout(u), Undisturbed,
           u \in Connecting \cup Asking,
           pc' = [pc EXCEPT ![u] = "run"], UNCHANGED conn, u \notin Asking',
           \A g \in Fds \ {conn[u]} : asked'[g] = asked[g],
           free' \subseteq free \cup {conn[u]},
           conn[u] \in free' => asked'[conn[u]] = <<>>
    PROVE  Undisturbed'
<1>1. \A v \in Uthreads \ {u} : pc'[v] = pc[v] /\ conn'[v] = conn[v]
  BY DEF Inv, TypeOK
<1>2. \A v \in Asking \ {u} : asked'[conn[v]] = asked[conn[v]]
  BY DEF Inv, Owners
<1>3. \A f \in free' : asked'[f] = <<>>
  BY DEF Undisturbed, Inv, TypeOK
<1> QED BY <1>1, <1>2, <1>3, OthersUndisturbed

LEMMA ResponseArrivesKeeps ==
    ASSUME Inv, NEW u \in Uthreads, ResponseArrives(u)
    PROVE  Inv'
<1>1. /\ PlannedWithout(u) /\ phase = "pass" /\ running = Nobody
      /\ pending = {} /\ 1 \in DOMAIN planned /\ Head(planned) = planned[1]
      /\ planned[1].id = u /\ planned[1].kind \in {"keep", "last"}
  BY ResumedTaken DEF ResponseArrives
<1>2. /\ RunsOn(u) /\ u \in Asking
      /\ IF planned[1].kind = "keep" THEN MarkFree(conn[u])
                                     ELSE CloseConnection(conn[u])
      /\ UNCHANGED <<phase, pending, calls, conn, left, misfired>>
  BY <1>1 DEF ResponseArrives, Asking
<1>3. pc' = [pc EXCEPT ![u] = "run"] /\ running' = u /\ timer' = timer \ {u}
  BY <1>2 DEF RunsOn
<1>4. Turns'
  BY <1>1, <1>2, RunsOnTurns
<1>5. conn[u] \in Fds
  BY <1>2 DEF Inv, Owners
<1>6. /\ pc' \in [Uthreads -> Pcs] /\ running' \in Uthreads \cup {Nobody}
      /\ timer' \in SUBSET Uthreads
  BY <1>3 DEF Inv, TypeOK, Pcs
<1>7. CASE planned[1].kind = "keep"
  <2>1. MarkFree(conn[u]) /\ UNCHANGED <<conns_num, kernelVars>>
    BY <1>2, <1>7 DEF MarkFree
  <2>2. /\ Owners' /\ Answers' /\ free' = free \cup {conn[u]}
        /\ busy' \subseteq Fds /\ free' \subseteq Fds /\ Asking' = Asking \ {u}
    BY <1>2, <1>3, <2>1, MarkFreeKeeps
  <2>3. TypeOK'
    BY <1>1, <1>2, <1>6, <2>1, <2>2 DEF Inv, TypeOK, PlannedWithout, kernelVars
  <2>4. ASSUME ~misfired' PROVE Undisturbed'
    <3>1. Undisturbed /\ asked' = asked
      BY <1>2, <2>1, <2>4 DEF Inv, kernelVars
    <3>2. asked[conn[u]] = <<>>
      BY <1>1, <1>7, <3>1 DEF Undisturbed, Responses
    <3> QED BY <1>1, <1>2, <1>3, <2>2, <3>1, <3>2, LeaverDisturbsNobody
  <2> QED BY <1>4, <2>2, <2>3, <2>4 DEF Inv
<1>8. CASE planned[1].kind # "keep"
  <2>1. CloseConnection(conn[u])
    BY <1>2, <1>8
  <2>2. /\ Owners' /\ Answers' /\ free' = free /\ busy' \subseteq Fds
        /\ conns_num' \in 0..MaxFd /\ Asking' = Asking \ {u}
        /\ CloseSocket(conn[u])
    BY <1>2, <1>3, <2>1, CloseConnectionKeeps
  <2>3. TypeOK'
    BY <1>1, <1>2, <1>5, <1>6, <2>2, CloseSocketEffect
       DEF Inv, TypeOK, PlannedWithout
  <2>4. ASSUME ~misfired' PROVE Undisturbed'
    <3>1. /\ \A g \in Fds \ {conn[u]} : asked'[g] = asked[g]
          /\ asked'[conn[u]] = <<>>
      BY <1>5, <2>2, CloseSocketEffect
    <3>2. Undisturbed /\ conn' = conn
      BY <1>2, <2>4 DEF Inv
    <3> QED BY <1>1, <1>2, <1>3, <2>2, <3>1, <3>2, LeaverDisturbsNobody
  <2> QED BY <1>4, <2>2, <2>3, <2>4 DEF Inv
<1> QED BY <1>7, <1>8

LEMMA ResponseFailsKeeps ==
    ASSUME Inv, NEW u \in Uthreads, ResponseFails(u)
    PROVE  Inv'
<1>1. /\ PlannedWithout(u) /\ phase = "pass" /\ running = Nobody
      /\ pending = {}
  BY ResumedTaken DEF ResponseFails
<1>2. /\ RunsOn(u) /\ u \in Asking /\ CloseConnection(conn[u])
      /\ UNCHANGED <<phase, pending, calls, conn, misfired>>
  BY <1>1 DEF ResponseFails, Asking
<1>3. pc' = [pc EXCEPT ![u] = "run"] /\ running' = u /\ timer' = timer \ {u}
  BY <1>2 DEF RunsOn
<1>4. Turns'
  BY <1>1, <1>2, RunsOnTurns
<1>5. conn[u] \in Fds
  BY <1>2 DEF Inv, Owners
<1>6. /\ pc' \in [Uthreads -> Pcs] /\ running' \in Uthreads \cup {Nobody}
      /\ timer' \in SUBSET Uthreads
  BY <1>3 DEF Inv, TypeOK, Pcs
<1>7. left' \in SUBSET [id : Uthreads, fd : Fds, timer : BOOLEAN]
  <2> DEFINE w == [id |-> u, fd |-> conn[u], timer |-> u \in timer]
  <2>1. left' \in {left, left \cup {w}}
    BY DEF ResponseFails
  <2>2. w \in [id : Uthreads, fd : Fds, timer : BOOLEAN]
    BY <1>5
  <2> QED BY <2>1, <2>2 DEF Inv, TypeOK
<1>8. /\ Owners' /\ Answers' /\ free' = free /\ busy' \subseteq Fds
      /\ conns_num' \in 0..MaxFd /\ Asking' = Asking \ {u}
      /\ CloseSocket(conn[u])
  BY <1>2, <1>3, CloseConnectionKeeps
<1>9. TypeOK'
  BY <1>1, <1>2, <1>5, <1>6, <1>7, <1>8, CloseSocketEffect
     DEF Inv, TypeOK, PlannedWithout
<1>10. ASSUME ~misfired' PROVE Undisturbed'
  <2>1. /\ \A g \in Fds \ {conn[u]} : asked'[g] = asked[g]
        /\ asked'[conn[u]] = <<>>
    BY <1>5, <1>8, CloseSocketEffect
  <2>2. Undisturbed /\ conn' = conn
    BY <1>2, <1>10 DEF Inv
  <2> QED BY <1>1, <1>2, <1>3, <1>8, <2>1, <2>2, LeaverDisturbsNobody
<1> QED BY <1>4, <1>8, <1>9, <1>10 DEF Inv

LEMMA ConnectFailsKeeps ==
    ASSUME Inv, NEW u \in Uthreads, ConnectFails(u)
    PROVE  Inv'
<1> DEFINE f == conn[u]
<1>1. /\ PlannedWithout(u) /\ phase = "pass" /\ running = Nobody
      /\ pending = {}
  BY ResumedTaken DEF ConnectFails
<1>2. /\ RunsOn(u) /\ u \in Connecting /\ CloseSocket(f)
      /\ UNCHANGED <<phase, pending, calls, conn, left, poolVars, misfired>>
  BY <1>1 DEF ConnectFails, Connecting
<1>3. pc' = [pc EXCEPT ![u] = "run"] /\ running' = u /\ timer' = timer \ {u}
  BY <1>2 DEF RunsOn
<1>4. Turns'
  BY <1>1, <1>2, RunsOnTurns
<1>5. f \in Fds /\ f \notin Pooled /\ Pooled' = Pooled
  BY <1>2 DEF Inv, Owners, Pooled, poolVars
<1>6. Connecting' = Connecting \ {u} /\ Asking' = Asking /\ u \notin Asking
  BY <1>2, <1>3 DEF Connecting, Asking, Inv, TypeOK
<1>7. TypeOK'
  BY <1>1, <1>2, <1>3, <1>5, CloseSocketEffect
     DEF Inv, TypeOK, PlannedWithout, Pcs, poolVars
<1>8. Owners'
  <2>1. {g \in Fds : sock'[g] # "closed"} = {g \in Fds : sock[g] # "closed"} \ {f}
    BY <1>2, <1>5, CloseSocketEffect
  <2>2. \A v \in Connecting' : conn[v] # f
    BY <1>2, <1>6 DEF Inv, Owners
  <2>3. {g \in Fds : sock'[g] # "closed"}
            = Pooled' \cup {conn'[v] : v \in Connecting'}
    BY <1>2, <1>5, <1>6, <2>1, <2>2 DEF Inv, Owners
  <2> QED BY <1>2, <1>5, <1>6, <2>3 DEF Inv, Owners, poolVars
<1>9. Answers'
  BY <1>2, <1>5, CloseSocketEffect DEF Inv, Answers, Responses
<1>10. ASSUME ~misfired' PROVE Undisturbed'
  BY <1>1, <1>2, <1>3, <1>5, <1>6, <1>10, CloseSocketEffect,
     LeaverDisturbsNobody DEF Inv, poolVars
<1> QED BY <1>4, <1>7, <1>8, <1>9, <1>10 DEF Inv

-----------------------------------------------------------------------------
(* A request is made, or a connection is *)

\* The connection of a request is a free one, or the one just established: in
\* both cases nobody else's, with no answer due on it.
LEMMA RequestKeeps ==
    ASSUME Inv, NEW u \in Uthreads, NEW f \in Fds, phase = "pass",
           PlannedWithout(u), running \in {u, Nobody}, pending = {},
           Request(u, f), UNCHANGED <<pending, left, misfired>>,
           calls' \in 0..MaxCalls,
           \/ f \in free /\ pc[u] = "run" /\ conns_num' = conns_num
           \/ f = conn[u] /\ pc[u] = "connecting" /\ conns_num' = conns_num + 1
    PROVE  Inv'
<1>1. /\ busy' = busy \cup {f} /\ free' = free \ {f}
      /\ conn' = [conn EXCEPT ![u] = f] /\ running' = Nobody
      /\ pc' = [pc EXCEPT ![u] = "receiving"] /\ timer' = timer \cup {u}
      /\ asked' = [asked EXCEPT ![f] = Append(@, u)]
      /\ UNCHANGED <<sock, inbox>> /\ phase' \in {"pass", "dead"}
  BY DEF Request, MarkBusy, Wait
<1>2. /\ pc \in [Uthreads -> Pcs] /\ conn \in [Uthreads -> Fds \cup {NoFd}]
      /\ asked \in [Fds -> Seq(Uthreads)] /\ asked[f] \in Seq(Uthreads)
      /\ Pooled \in SUBSET Fds
  BY DEF Inv, TypeOK, Pooled
<1>3. /\ Append(asked[f], u) \in Seq(Uthreads) /\ Append(asked[f], u) # <<>>
      /\ asked[f] = <<>> => Append(asked[f], u) = <<u>>
  <2>1. Append(asked[f], u) \in Seq(Uthreads)
    BY <1>2
  <2>2. Append(asked[f], u) # <<>>
    BY <1>2, AppendProperties
  <2>3. Append(<<>>, u) = <<u>>
    OBVIOUS
  <2> QED BY <2>1, <2>2, <2>3
<1>4. /\ Asking' = Asking \cup {u} /\ Connecting' = Connecting \ {u}
      /\ u \notin Asking /\ Pooled' = Pooled \cup {f}
  <2>1. u \notin Asking /\ Pooled' = Pooled \cup {f}
    BY <1>1 DEF Asking, Pooled
  <2>2. \A v \in Uthreads : pc'[v] = IF v = u THEN "receiving" ELSE pc[v]
    BY <1>1, <1>2
  <2> QED BY <2>1, <2>2 DEF Asking, Connecting
<1>5. \A v \in (Connecting \cup Asking) \ {u} : conn[v] # f
  <2>1. CASE f \in free
    BY <2>1 DEF Inv, Owners, Pooled
  <2>2. CASE f = conn[u] /\ pc[u] = "connecting"
    <3>1. u \in Connecting
      BY <2>2 DEF Connecting
    <3> QED BY <2>2, <3>1 DEF Inv, Owners
  <2> QED BY <2>1, <2>2
<1>6. conns_num' = Cardinality(Pooled') /\ Pooled' \in SUBSET Fds
  <2>1. CASE f \in free /\ conns_num' = conns_num
    <3>1. Pooled' = Pooled
      BY <1>4, <2>1 DEF Pooled
    <3> QED BY <1>2, <2>1, <3>1 DEF Inv, Owners
  <2>2. CASE f = conn[u] /\ pc[u] = "connecting" /\ conns_num' = conns_num + 1
    <3>1. f \notin Pooled
      BY <2>2 DEF Inv, Owners, Connecting
    <3> QED BY <1>2, <1>4, <2>2, <3>1, SetsOfFds DEF Inv, Owners
  <2> QED BY <2>1, <2>2
<1>7. TypeOK'
  <2>1. conns_num' \in 0..MaxFd
    BY <1>6, SetsOfFds
  <2>2. asked' \in [Fds -> Seq(Uthreads)] /\ pc' \in [Uthreads -> Pcs]
        /\ conn' \in [Uthreads -> Fds \cup {NoFd}]
    BY <1>1, <1>2, <1>3 DEF Pcs
  <2>3. phase' \in {"poll", "io", "pass", "dead"} /\ running' \in Uthreads \cup {Nobody}
    BY <1>1
  <2> QED BY <1>1, <2>1, <2>2, <2>3 DEF Inv, TypeOK, PlannedWithout
<1>8. Turns'
  BY <1>1, YieldTurns DEF Pcs
<1>9. Owners'
  <2>1. \A v \in Connecting' \cup Asking' :
            conn'[v] = IF v = u THEN f ELSE conn[v]
    BY <1>1, <1>2 DEF Connecting, Asking
  <2>2. busy' = {conn'[v] : v \in Asking'}
    <3>1. busy = {conn[v] : v \in Asking}
      BY DEF Inv, Owners
    <3>2. \A v \in Asking : conn'[v] = conn[v]
      BY <1>4, <2>1
    <3>3. conn'[u] = f
      BY <1>4, <2>1
    <3> QED BY <1>1, <1>4, <3>1, <3>2, <3>3
  <2>3. {conn'[v] : v \in Connecting'} = {conn[v] : v \in Connecting \ {u}}
    BY <1>4, <2>1
  <2>4. {g \in Fds : sock'[g] # "closed"}
            = Pooled' \cup {conn'[v] : v \in Connecting'}
    <3>1. {g \in Fds : sock'[g] # "closed"}
              = Pooled \cup {conn[v] : v \in Connecting}
      BY <1>1 DEF Inv, Owners
    <3>2. CASE f \in free /\ pc[u] = "run"
      <4>1. Connecting \ {u} = Connecting /\ Pooled' = Pooled
        BY <1>4, <3>2 DEF Connecting, Pooled
      <4> QED BY <2>3, <3>1, <4>1
    <3>3. CASE f = conn[u] /\ pc[u] = "connecting"
      <4>1. u \in Connecting
        BY <3>3 DEF Connecting
      <4>2. {conn[v] : v \in Connecting}
                = {f} \cup {conn[v] : v \in Connecting \ {u}}
        BY <3>3, <4>1
      <4> QED BY <1>4, <2>3, <3>1, <4>2
    <3> QED BY <3>2, <3>3
  <2>5. free' \cap busy' = {} /\ \A v \in Connecting' \cup Asking' : conn'[v] \in Fds
    BY <1>1, <1>4, <2>1 DEF Inv, Owners
  <2>6. /\ \A v, w \in Connecting' \cup Asking' : conn'[v] = conn'[w] => v = w
        /\ \A v \in Connecting' : conn'[v] \notin Pooled'
    BY <1>4, <1>5, <2>1 DEF Inv, Owners
  <2> QED BY <1>6, <2>2, <2>4, <2>5, <2>6 DEF Owners
<1>10. Answers'
  BY <1>1, <1>2, <1>3, <1>4 DEF Inv, Answers
<1>11. ASSUME ~misfired' PROVE Undisturbed'
  <2>1. Undisturbed
    BY <1>11 DEF Inv
  <2>2. asked[f] = <<>>
    BY <2>1 DEF Inv, Undisturbed, Answers, Owners, Connecting
  <2>3. asked'[f] = <<u>> /\ conn'[u] = f
    BY <1>1, <1>2, <1>3, <2>2
  <2>4. \A v \in Uthreads \ {u} : pc'[v] = pc[v] /\ conn'[v] = conn[v]
    BY <1>1, <1>2
  <2>5. \A v \in Asking \ {u} : asked'[conn[v]] = asked[conn[v]]
    BY <1>1, <1>2, <1>5 DEF Inv, Owners
  <2>6. \A g \in free' : asked'[g] = <<>>
    BY <1>1, <1>2, <2>1 DEF Undisturbed
  <2> QED BY <2>1, <2>3, <2>4, <2>5, <2>6, OthersUndisturbed
<1> QED BY <1>7, <1>8, <1>9, <1>10, <1>11 DEF Inv

LEMMA ConnectReturnsKeeps ==
    ASSUME Inv, NEW u \in Uthreads, ConnectReturns(u)
    PROVE  Inv'
<1>1. /\ PlannedWithout(u) /\ phase = "pass" /\ running = Nobody
      /\ pending = {} /\ pc[u] = "connecting" /\ conns_num' = conns_num + 1
      /\ Request(u, conn[u]) /\ UNCHANGED <<pending, calls, left, misfired>>
  BY ResumedTaken DEF ConnectReturns, OnConnect
<1>2. conn[u] \in Fds /\ calls' \in 0..MaxCalls
  BY <1>1 DEF Inv, TypeOK, Owners, Connecting
<1> QED BY <1>1, <1>2, RequestKeeps

LEMMA HttpReusesKeeps ==
    ASSUME Inv, NEW u \in Uthreads, phase = "pass", HttpReuses(u)
    PROVE  Inv'
<1>1. /\ running = u /\ calls' \in 0..MaxCalls
      /\ UNCHANGED <<planned, pending, left, conns_num, misfired>>
  BY DEF HttpReuses, Inv, TypeOK
<1>2. PICK f \in free : Request(u, f)
  BY DEF HttpReuses
<1>3. f \in Fds /\ PlannedWithout(u) /\ pending = {} /\ pc[u] = "run"
  BY <1>1, RunningTaken DEF Inv, TypeOK
<1> QED BY <1>1, <1>2, <1>3, RequestKeeps

LEMMA HttpConnectsKeeps ==
    ASSUME Inv, NEW u \in Uthreads, phase = "pass", HttpConnects(u)
    PROVE  Inv'
<1>1. /\ running = u /\ calls' \in 0..MaxCalls
      /\ UNCHANGED <<planned, pending, left, poolVars, inbox, asked, misfired>>
  BY DEF HttpConnects, Inv, TypeOK
<1>2. PlannedWithout(u) /\ pending = {} /\ pc[u] = "run"
  BY <1>1, RunningTaken
<1>3. CASE UNCHANGED <<running, pc, conn, timer, sock>>
           /\ phase' \in {phase, "dead"}
  <2>1. TypeOK'
    BY <1>1, <1>2, <1>3 DEF Inv, TypeOK, poolVars
  <2>2. Turns'
    BY <1>1, <1>2, <1>3 DEF Inv, Turns, PlannedIds
  <2>3. Owners'
    BY <1>1, <1>3, OwnersFrame DEF Inv
  <2>4. Answers'
    BY <1>1, <1>3, AnswersFrame DEF Inv, poolVars, kernelVars
  <2>5. ~misfired' => Undisturbed'
    BY <1>1, <1>3, UndisturbedFrame DEF Inv, poolVars
  <2> QED BY <2>1, <2>2, <2>3, <2>4, <2>5 DEF Inv
<1>4. ASSUME NEW f \in Fds, Lowest(f), conn' = [conn EXCEPT ![u] = f],
             sock' = [sock EXCEPT ![f] = "opening"], Wait(u, "connecting"),
             UNCHANGED phase
      PROVE  Inv'
  <2>1. /\ running' = Nobody /\ pc' = [pc EXCEPT ![u] = "connecting"]
        /\ timer' = timer \cup {u} /\ sock[f] = "closed"
    BY <1>4 DEF Wait, Lowest, Closed
  <2>2. /\ pc \in [Uthreads -> Pcs] /\ conn \in [Uthreads -> Fds \cup {NoFd}]
        /\ sock \in [Fds -> {"closed", "opening", "open"}]
    BY DEF Inv, TypeOK
  <2>3. TypeOK'
    BY <1>1, <1>4, <2>1, <2>2 DEF Inv, TypeOK, Pcs, poolVars
  <2>4. Turns'
    BY <1>1, <1>2, <2>1, YieldTurns DEF Pcs
  <2>5. f \notin Pooled /\ \A v \in Connecting : conn[v] # f
    BY <2>1 DEF Inv, Owners
  <2>6. \A v \in Asking : conn[v] # f
    BY <2>5 DEF Inv, Owners, Pooled
  <2>7. /\ Connecting' = Connecting \cup {u} /\ Asking' = Asking
        /\ u \notin Connecting /\ u \notin Asking /\ Pooled' = Pooled
    <3>1. \A v \in Uthreads : pc'[v] = IF v = u THEN "connecting" ELSE pc[v]
      BY <2>1, <2>2
    <3> QED BY <1>1, <1>2, <3>1 DEF Connecting, Asking, Pooled, poolVars
  <2>8. /\ \A v \in Connecting \cup Asking : conn'[v] = conn[v]
        /\ conn'[u] = f
    BY <1>4, <2>2, <2>7 DEF Connecting, Asking
  <2>9. Owners'
    <3>1. {conn'[v] : v \in Connecting'} = {conn[v] : v \in Connecting} \cup {f}
      BY <2>7, <2>8
    <3>2. {g \in Fds : sock'[g] # "closed"}
              = {g \in Fds : sock[g] # "closed"} \cup {f}
      BY <1>4, <2>2
    <3>3. busy' = {conn'[v] : v \in Asking'}
      BY <1>1, <2>7, <2>8 DEF Inv, Owners, poolVars
    <3>4. /\ \A v, w \in Connecting' \cup Asking' : conn'[v] = conn'[w] => v = w
          /\ \A v \in Connecting' : conn'[v] \notin Pooled'
          /\ \A v \in Connecting' \cup Asking' : conn'[v] \in Fds
      BY <2>5, <2>6, <2>7, <2>8 DEF Inv, Owners
    <3>5. {g \in Fds : sock'[g] # "closed"}
              = Pooled' \cup {conn'[v] : v \in Connecting'}
      BY <2>7, <3>1, <3>2 DEF Inv, Owners
    <3> QED BY <1>1, <2>7, <3>3, <3>4, <3>5 DEF Inv, Owners, poolVars
  <2>10. Answers'
    BY <1>1, <1>4, <2>1, <2>2, <2>7 DEF Inv, Answers
  <2>11. ~misfired' => Undisturbed'
    <3>1. \A v \in Uthreads \ {u} : pc'[v] = pc[v] /\ conn'[v] = conn[v]
      BY <1>4, <2>1, <2>2
    <3>2. asked' = asked /\ free' = free /\ misfired' = misfired
      BY <1>1 DEF poolVars
    <3>3. u \notin Asking' /\ (Undisturbed => \A g \in free' : asked'[g] = <<>>)
      BY <2>7, <3>2 DEF Undisturbed
    <3> QED BY <1>2, <3>1, <3>2, <3>3, OthersUndisturbed DEF Inv
  <2> QED BY <2>3, <2>4, <2>9, <2>10, <2>11 DEF Inv
<1> QED BY <1>3, <1>4 DEF HttpConnects

LEMMA FinishKeeps ==
    ASSUME Inv, NEW u \in Uthreads, phase = "pass", Finish(u)
    PROVE  Inv'
<1>1. /\ running = u /\ running' = Nobody /\ pc' = [pc EXCEPT ![u] = "done"]
      /\ UNCHANGED <<phase, planned, pending, calls, conn, timer, misfired>>
  BY DEF Finish
<1>2. PlannedWithout(u) /\ pending = {} /\ pc[u] = "run"
  BY <1>1, RunningTaken
<1>3. /\ pc' \in [Uthreads -> Pcs]
      /\ \A v \in Uthreads \ {u} : pc'[v] = pc[v] /\ conn'[v] = conn[v]
  BY <1>1 DEF Inv, TypeOK, Pcs
<1>4. Turns'
  BY <1>1, <1>2, YieldTurns DEF Pcs
<1>5. CASE UNCHANGED <<left, poolVars, kernelVars>>
  <2>1. TypeOK'
    BY <1>1, <1>3, <1>5 DEF Inv, TypeOK, poolVars, kernelVars
  <2>2. Owners' /\ Asking' = Asking
    BY <1>1, <1>2, <1>5, IdleOwners DEF kernelVars
  <2>3. Answers'
    BY <1>5, AnswersFrame DEF Inv, poolVars
  <2>4. ~misfired' => Undisturbed'
    <3>1. conn' = conn /\ asked' = asked /\ free' = free /\ misfired' = misfired
      BY <1>1, <1>5 DEF poolVars, kernelVars
    <3>2. Undisturbed =>
              /\ \A f \in free' : asked'[f] = <<>>
              /\ u \in Asking' => asked'[conn'[u]] \in {<<>>, <<u>>}
      BY <2>2, <3>1 DEF Undisturbed
    <3> QED BY <1>2, <1>3, <3>1, <3>2, OthersUndisturbed DEF Inv
  <2> QED BY <1>4, <2>1, <2>2, <2>3, <2>4 DEF Inv
<1>6. CASE ~UNCHANGED <<left, poolVars, kernelVars>>
  <2>1. \A v \in Uthreads \ {u} : pc[v] = "done"
    BY <1>6 DEF Finish
  <2>2. /\ sock' = [f \in Fds |-> IF f \in Pooled THEN "closed" ELSE sock[f]]
        /\ inbox' = [f \in Fds |-> IF f \in Pooled THEN "none" ELSE inbox[f]]
        /\ asked' = [f \in Fds |-> IF f \in Pooled THEN <<>> ELSE asked[f]]
        /\ conns_num' = conns_num - Cardinality(Pooled)
        /\ free' = {} /\ busy' = {} /\ left' = {}
    BY <2>1, <1>6 DEF Finish, Pooled
  <2>3. /\ Connecting = {} /\ Asking = {} /\ Connecting' = {} /\ Asking' = {}
        /\ Pooled' = {}
    BY <1>1, <1>2, <1>3, <2>1, <2>2 DEF Connecting, Asking, Pooled, Inv, TypeOK
  <2>4. conns_num' = 0 /\ Cardinality(Pooled') = 0
    BY <2>2, <2>3, FS_EmptySet DEF Inv, Owners, TypeOK
  <2>5. TypeOK'
    <3>1. /\ sock' \in [Fds -> {"closed", "opening", "open"}]
          /\ inbox' \in [Fds -> {"none", "eof", "reset"} \cup Responses]
      BY <2>2 DEF Inv, TypeOK
    <3>2. asked' \in [Fds -> Seq(Uthreads)]
      <4>1. <<>> \in Seq(Uthreads)
        OBVIOUS
      <4> QED BY <2>2, <4>1 DEF Inv, TypeOK
    <3> QED BY <1>1, <1>3, <2>2, <2>4, <3>1, <3>2 DEF Inv, TypeOK
  <2>6. {f \in Fds : sock'[f] # "closed"} = {}
    <3>1. \A f \in Fds : sock[f] # "closed" => f \in Pooled
      BY <2>3 DEF Inv, Owners
    <3> QED BY <2>2, <3>1
  <2>7. Owners'
    BY <2>2, <2>3, <2>4, <2>6 DEF Owners
  <2>8. Answers'
    BY <2>2, <2>3 DEF Inv, Answers, Responses
  <2>9. ~misfired' => Undisturbed'
    BY <1>1, <1>2, <1>3, <2>2, <2>3, OthersUndisturbed DEF Inv
  <2> QED BY <1>4, <2>5, <2>7, <2>8, <2>9 DEF Inv
<1> QED BY <1>5, <1>6

-----------------------------------------------------------------------------
(* The theorems *)

LEMMA InvNext == Inv /\ [Next]_vars => Inv'
<1> SUFFICES ASSUME Inv, [Next]_vars PROVE Inv'
  OBVIOUS
<1>1. CASE UNCHANGED vars
  <2>1. /\ UNCHANGED <<phase, planned, pending, running, pc, conn, sock, left,
                       calls, timer, poolVars, kernelVars, misfired>>
    BY <1>1 DEF vars, callVars, kernelVars
  <2>2. TypeOK'
    BY <2>1 DEF Inv, TypeOK, poolVars, kernelVars
  <2>3. Turns' /\ Owners'
    BY <2>1, TurnsFrame, OwnersFrame DEF Inv
  <2>4. Answers' /\ (~misfired' => Undisturbed')
    BY <2>1, AnswersFrame, UndisturbedFrame DEF Inv, poolVars, kernelVars
  <2> QED BY <2>2, <2>3, <2>4 DEF Inv
<1>2. ASSUME NEW f \in Fds, ServerMoves(f) PROVE Inv'
  BY <1>2, ServerMovesKeeps
<1>3. ASSUME NEW u \in Uthreads, TimerFires(u) PROVE Inv'
  BY <1>3, TimerFiresKeeps
<1>4. ASSUME NEW w \in left, LeftTimerFires(w) PROVE Inv'
  BY <1>4, LeftTimerFiresKeeps
<1>5. CASE BackendPoll
  BY <1>5, BackendPollKeeps
<1>6. CASE BeginPass \/ EndPass
  BY <1>6, PhaseKeeps
<1>7. ASSUME NEW w \in pending, IoCallback(w) PROVE Inv'
  BY <1>7, IoCallbackKeeps
<1>8. ASSUME NEW u \in Uthreads, phase = "pass", PassStep(u) PROVE Inv'
  <2>1. CASE Skip(u)
    BY <2>1, SkipKeeps
  <2>2. CASE WakeUp(u)
    BY <2>2, WakeUpKeeps
  <2>3. CASE ConnectReturns(u)
    BY <2>3, ConnectReturnsKeeps
  <2>4. CASE ConnectFails(u)
    BY <2>4, ConnectFailsKeeps
  <2>5. CASE ConnectConfused(u)
    BY <2>5, ConnectConfusedKeeps
  <2>6. CASE ResponseArrives(u)
    BY <2>6, ResponseArrivesKeeps
  <2>7. CASE ResponseFails(u)
    BY <2>7, ResponseFailsKeeps
  <2>8. CASE HttpReuses(u)
    BY <1>8, <2>8, HttpReusesKeeps
  <2>9. CASE HttpConnects(u)
    BY <1>8, <2>9, HttpConnectsKeeps
  <2>10. CASE Sleep(u)
    BY <1>8, <2>10, SleepKeeps
  <2>11. CASE Finish(u)
    BY <1>8, <2>11, FinishKeeps
  <2> QED BY <1>8, <2>1, <2>2, <2>3, <2>4, <2>5, <2>6, <2>7, <2>8, <2>9, <2>10,
             <2>11 DEF PassStep
<1> QED BY <1>1, <1>2, <1>3, <1>4, <1>5, <1>6, <1>7, <1>8 DEF Next, LoopStep

LEMMA InvAlways == Spec => []Inv
BY InvInit, InvNext, PTL DEF Spec

-----------------------------------------------------------------------------
(* What a call is resumed with *)

\* connect() is planned with results of connect() alone, receive() with none.
Fitting ==
    \A i \in DOMAIN planned :
        /\ pc[planned[i].id] = "connecting" => planned[i].kind \in ConnectKinds
        /\ pc[planned[i].id] = "receiving" => planned[i].kind \notin ConnectKinds

\* A callback plans what fits the call that its uthread waits in.
LEMMA PlanFits ==
    ASSUME Inv, Fitting, NEW u \in Uthreads, NEW kind \in Kinds,
           NEW to \in Uthreads \cup {Nobody}, Plan(u, kind, to), UNCHANGED pc,
           pc[u] = "connecting" => kind \in ConnectKinds,
           pc[u] = "receiving" => kind \notin ConnectKinds
    PROVE  Fitting'
<1>1. \A i \in DOMAIN planned' :
          \/ i \in DOMAIN planned /\ planned'[i] = planned[i]
          \/ planned'[i] = [id |-> u, kind |-> kind, to |-> to]
  BY PlanKeeps DEF Inv, TypeOK, Turns
<1> QED BY <1>1 DEF Fitting

\* A step of the pass moves a uthread that is not planned after it.
LEMMA StepFits ==
    ASSUME Inv, Fitting, NEW u \in Uthreads, PlannedWithout(u),
           \A v \in Uthreads \ {u} : pc'[v] = pc[v]
    PROVE  Fitting'
<1> SUFFICES ASSUME NEW i \in DOMAIN planned'
             PROVE  LET p == planned'[i] IN
                    /\ pc'[p.id] = "connecting" => p.kind \in ConnectKinds
                    /\ pc'[p.id] = "receiving" => p.kind \notin ConnectKinds
  BY DEF Fitting
<1>1. PICK j \in DOMAIN planned : planned'[i] = planned[j]
  BY DEF PlannedWithout
<1>2. planned[j].id # u /\ planned[j].id \in Uthreads
  BY <1>1, PlannedIdsAreUthreads DEF PlannedWithout, PlannedIds
<1>3. pc'[planned[j].id] = pc[planned[j].id]
  BY <1>2
<1> QED BY <1>1, <1>3 DEF Fitting

LEMMA PassStepTakes ==
    ASSUME Inv, NEW u \in Uthreads, phase = "pass", PassStep(u)
    PROVE  PlannedWithout(u) /\ \A v \in Uthreads \ {u} : pc'[v] = pc[v]
<1>1. pc \in [Uthreads -> Pcs]
  BY DEF Inv, TypeOK
<1>2. CASE \E kinds : Resumed(u, kinds)
  <2>1. PlannedWithout(u)
    BY <1>2, ResumedTaken
  <2>2. pc' = pc \/ \E call : pc' = [pc EXCEPT ![u] = call]
    <3>1. CASE Skip(u) \/ ConnectConfused(u)
      BY <3>1 DEF Skip, ConnectConfused, callVars
    <3>2. CASE WakeUp(u) \/ ConnectFails(u) \/ ResponseArrives(u)
               \/ ResponseFails(u)
      BY <3>2 DEF WakeUp, ConnectFails, ResponseArrives, ResponseFails, RunsOn
    <3>3. CASE ConnectReturns(u)
      BY <3>3 DEF ConnectReturns, Request, Wait
    <3>4. CASE HttpReuses(u) \/ HttpConnects(u) \/ Sleep(u) \/ Finish(u)
      BY <3>4, <1>2 DEF HttpReuses, HttpConnects, Sleep, Finish, Resumed
    <3> QED BY <3>1, <3>2, <3>3, <3>4 DEF PassStep
  <2> QED BY <1>1, <2>1, <2>2
<1>3. CASE HttpReuses(u) \/ HttpConnects(u) \/ Sleep(u) \/ Finish(u)
  <2>1. running = u /\ UNCHANGED planned
    BY <1>3 DEF HttpReuses, HttpConnects, Sleep, Finish, Request
  <2>2. PlannedWithout(u)
    BY <2>1, RunningTaken
  <2>3. pc' = pc \/ \E call : pc' = [pc EXCEPT ![u] = call]
    BY <1>3 DEF HttpReuses, HttpConnects, Sleep, Finish, Request, Wait
  <2> QED BY <1>1, <2>2, <2>3
<1> QED BY <1>2, <1>3 DEF PassStep, Skip, WakeUp, ConnectReturns, ConnectFails,
                          ConnectConfused, ResponseArrives, ResponseFails

LEMMA IoCallbackFits ==
    ASSUME Inv, Fitting, NEW w \in pending, IoCallback(w), ~misfired'
    PROVE  Fitting'
<1>1. w.id \in Uthreads /\ w.fd \in Fds /\ ~w.old /\ UNCHANGED pc
  BY DEF IoCallback, Inv, TypeOK, callVars
<1>2. CASE CbConnect(w)
  <2>1. /\ pc[w.id] = "connecting"
        /\ Plan(w.id, "noconn", Nobody) \/ Plan(w.id, "connected", Nobody)
    BY <1>2 DEF CbConnect
  <2>2. ConnectKinds \subseteq Kinds /\ "noconn" \in ConnectKinds
        /\ "connected" \in ConnectKinds
    BY DEF ConnectKinds, Kinds
  <2> QED BY <1>1, <2>1, <2>2, PlanFits
<1>3. CASE CbRecv(w)
  <2>1. pc[w.id] = "receiving"
    BY <1>1, <1>3 DEF CbRecv
  <2>2. Responses \cup {"eof", "error"} \subseteq Kinds \ ConnectKinds
    BY DEF ConnectKinds, Kinds, Responses
  <2>3. CASE inbox[w.fd] \in Responses
    <3>1. asked[w.fd] \in Seq(Uthreads) /\ asked[w.fd] # <<>>
      BY <1>1, <2>3 DEF Inv, TypeOK, Answers
    <3>2. Head(asked[w.fd]) \in Uthreads
      BY <3>1
    <3>3. Plan(w.id, inbox[w.fd], Head(asked[w.fd]))
      BY <1>3, <2>3 DEF CbRecv
    <3> QED BY <1>1, <2>1, <2>2, <2>3, <3>2, <3>3, PlanFits
  <2>4. CASE inbox[w.fd] \notin Responses
    <3>1. \E kind \in {"eof", "error"} : Plan(w.id, kind, Nobody)
      BY <1>3, <2>4 DEF CbRecv
    <3> QED BY <1>1, <2>1, <2>2, <3>1, PlanFits
  <2> QED BY <2>3, <2>4
<1> QED BY <1>2, <1>3 DEF IoCallback

LEMMA FittingNext ==
    Inv /\ (~misfired => Fitting) /\ [Next]_vars => (~misfired' => Fitting')
<1> SUFFICES ASSUME Inv, ~misfired => Fitting, [Next]_vars, ~misfired'
             PROVE  Fitting'
  OBVIOUS
<1>1. CASE UNCHANGED <<planned, pc, misfired>>
  BY <1>1 DEF Fitting
<1>2. CASE \/ UNCHANGED vars \/ BackendPoll \/ BeginPass \/ EndPass
           \/ \E f \in Fds : ServerMoves(f)
  BY <1>1, <1>2 DEF vars, callVars, BackendPoll, BeginPass, EndPass, ServerMoves
<1>3. ASSUME NEW u \in Uthreads, TimerFires(u) PROVE Fitting'
  <2> DEFINE kind == IF pc[u] = "connecting" THEN "noconn" ELSE "timeout"
  <2>1. Plan(u, kind, Nobody) /\ UNCHANGED <<pc, misfired>>
    BY <1>3 DEF TimerFires
  <2>2. /\ kind \in Kinds
        /\ pc[u] = "connecting" => kind \in ConnectKinds
        /\ pc[u] = "receiving" => kind \notin ConnectKinds
    BY DEF Kinds, ConnectKinds
  <2> HIDE DEF kind
  <2> QED BY <2>1, <2>2, PlanFits
<1>4. ASSUME NEW w \in left, LeftTimerFires(w) PROVE Fitting'
  BY <1>4 DEF LeftTimerFires
<1>5. ASSUME NEW w \in pending, IoCallback(w) PROVE Fitting'
  <2>1. ~misfired
    BY <1>5 DEF IoCallback
  <2> QED BY <1>5, <2>1, IoCallbackFits
<1>6. ASSUME NEW u \in Uthreads, phase = "pass", PassStep(u) PROVE Fitting'
  <2>1. misfired' = misfired
    BY <1>6 DEF PassStep, Skip, WakeUp, ConnectReturns, ConnectFails,
                ConnectConfused, ResponseArrives, ResponseFails, HttpReuses,
                HttpConnects, Sleep, Finish
  <2> QED BY <1>6, <2>1, PassStepTakes, StepFits
<1> QED BY <1>2, <1>3, <1>4, <1>5, <1>6 DEF Next, LoopStep

LEMMA FittingAlways == Spec => [](~misfired => Fitting)
<1>1. Init => (~misfired => Fitting)
  <2>1. Init => DOMAIN planned = {}
    BY DEF Init
  <2> QED BY <2>1 DEF Fitting
<1> QED BY <1>1, FittingNext, InvAlways, PTL DEF Spec

-----------------------------------------------------------------------------
\* Every variable keeps its type; that the count of connections stays between
\* 0 and the number of descriptors is the part that needs the other invariants.
THEOREM TypeCorrect == Spec => []TypeOK
<1>1. Inv => TypeOK
  BY DEF Inv
<1> QED BY <1>1, InvAlways, PTL

\* However calls end and descriptors are reused, no two uthreads of a user hold
\* the same connection, and no free connection is held by one.
THEOREM ExclusiveCorrect == Spec => []ConnectionsExclusive
<1>1. Inv => ConnectionsExclusive
  BY DEF Inv, Owners, ConnectionsExclusive
<1> QED BY <1>1, InvAlways, PTL

\* What is open is in the pool or being connected: http leaks no descriptor and
\* closes none that is in use, however its calls end.
THEOREM DescriptorsCorrect == Spec => []NoDescriptorLost
<1>1. Inv => NoDescriptorLost
  BY DEF Inv, Owners, NoDescriptorLost
<1> QED BY <1>1, InvAlways, PTL

\* on_connect and on_disconnect keep the launcher's count equal to the number
\* of connections of the pool.
THEOREM CounterCorrect == Spec => []ConnCounter
<1>1. Inv => ConnCounter
  BY DEF Inv, Owners, ConnCounter
<1> QED BY <1>1, InvAlways, PTL

\* Unless a watcher of an ended call has meddled, a connection is in the free
\* table only without a request to be answered or a response to be read.
THEOREM FreeConnsCorrect == Spec => []FreeConnsQuiet
<1>1. Inv => FreeConnsQuiet
  BY DEF Inv, Undisturbed, Answers, TypeOK, FreeConnsQuiet
<1> QED BY <1>1, InvAlways, PTL

\* The watchers that receive() leaves started are the only cause of a uthread
\* being resumed with the response to somebody else's request.
THEOREM LeftWatchersAreTheCause == Spec => [](~misfired => OwnResponse)
<1>1. Inv => (~misfired => OwnResponse)
  BY DEF Inv, Undisturbed, OwnResponse
<1> QED BY <1>1, InvAlways, PTL

\* Unless a watcher of an ended call has meddled, every call is resumed with a
\* result of its own: connect() never takes a packet or a timeout of receive()
\* for its descriptor, and receive() gets the response to its own request.
THEOREM OwnResultsCorrect == Spec => []CallGetsItsOwn
<1>1. Inv /\ (~misfired => Fitting) => CallGetsItsOwn
  BY DEF Inv, Undisturbed, Fitting, CallGetsItsOwn
<1> QED BY <1>1, InvAlways, FittingAlways, PTL
=============================================================================
