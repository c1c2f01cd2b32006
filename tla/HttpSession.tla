---------------------------- MODULE HttpSession ----------------------------
(***************************************************************************)
(* Session:http and what it is made of (session.lua, connection.lua, and   *)
(* the connect and receive watchers of main.c): the uthreads of one        *)
(* virtual user, its run() and its parallel() functions, share a pool of   *)
(* keep-alive connections and one table of finalizers.  The scheduler is   *)
(* Scheduler's, reduced to its queue; send does not yield here (SendLoop). *)
(***************************************************************************)
EXTENDS Integers, Sequences, FiniteSets

CONSTANTS
    Uthreads,    \* uthreads of the user
    MaxFd,       \* bound: descriptors the process may open (ulimit -n)
    MaxCalls     \* bound: calls of http

ASSUME UthreadsAssumption == IsFiniteSet(Uthreads) /\ Uthreads # {}
ASSUME BoundsAssumption == MaxFd \in Nat \ {0} /\ MaxCalls \in Nat

Fds == 1..MaxFd
NoFd == 0
Nobody == "nobody"
ASSUME NobodyAssumption == Nobody \notin Uthreads

\* What a callback hands over: to receive() a response (the server keeps the
\* connection or not, or it does not parse), end of file, an error of recv or
\* a timeout; to connect() success or not (an errno, or its timeout).
Responses == {"keep", "last", "broken"}
ConnectKinds == {"connected", "noconn"}
Kinds == Responses \cup {"eof", "error", "timeout"} \cup ConnectKinds
Payloads == [id : Uthreads, kind : Kinds, to : Uthreads \cup {Nobody}]
Pcs == {"run", "sleeping", "connecting", "receiving", "done"}

VARIABLES
    phase,     \* "poll", "io" (callbacks), "pass", or "dead": process exit
    planned,   \* Manager.active_sessions
    pending,   \* io watchers whose callback libev is to call in this poll
    running,   \* the uthread that runs, or Nobody
    pc,        \* where each uthread stands
    calls,     \* calls of http begun
    conn,      \* the descriptor a uthread connects, or asks over
    timer,     \* uthreads the timer of whose call is started
    left,      \* receive watchers that no one destroyed: [id, fd, timer]
    free, busy,\* the pool (_conn_cache), by descriptor
    conns_num, \* Launcher._concur_conns_num
    sock,      \* kernel: "closed", "opening" or "open" (also if refused)
    inbox,     \* kernel: "none", "eof", "reset" or a response to be read
    asked,     \* whose requests on the connection have no answer read
    misfired   \* history: a watcher of an ended call planned a resume

kernelVars == <<sock, inbox, asked>>
poolVars == <<free, busy, conns_num>>
callVars == <<pc, calls, conn, timer, left>>
vars == <<phase, planned, pending, running, callVars, poolVars, kernelVars,
          misfired>>

\* All functions sleep, as scripts do before their first request.
Init ==
    /\ phase = "poll" /\ planned = <<>> /\ pending = {} /\ running = Nobody
    /\ pc = [u \in Uthreads |-> "sleeping"] /\ calls = 0
    /\ conn = [u \in Uthreads |-> NoFd] /\ timer = Uthreads /\ left = {}
    /\ free = {} /\ busy = {} /\ conns_num = 0
    /\ sock = [f \in Fds |-> "closed"] /\ inbox = [f \in Fds |-> "none"]
    /\ asked = [f \in Fds |-> <<>>]
    /\ misfired = FALSE

-----------------------------------------------------------------------------
(* The servers and the kernel *)

ServerMoves(f) ==
    /\ phase = "poll"
    /\ inbox[f] = "none"
    /\ \/ /\ sock[f] = "opening"
          /\ sock' = [sock EXCEPT ![f] = "open"]
          /\ inbox' \in {inbox, [inbox EXCEPT ![f] = "reset"]}
       \/ /\ sock[f] = "open"
          /\ \E r \in {"eof", "reset"} \cup IF asked[f] = <<>> THEN {}
                                                           ELSE Responses :
                 inbox' = [inbox EXCEPT ![f] = r]
          /\ UNCHANGED sock
    /\ UNCHANGED <<phase, planned, pending, running, callVars, poolVars, asked,
                   misfired>>

-----------------------------------------------------------------------------
(* One round of libev: timers, then the io watchers found ready, all of     *)
(* which only plan resumes                                                  *)

\* plan_resume keeps the first plan; a faulty variant adds the later one.
PlanTwice(u, kind, to) ==
    planned' = Append(planned, [id |-> u, kind |-> kind, to |-> to])
Plan(u, kind, to) ==
    planned' = IF \E i \in DOMAIN planned : planned[i].id = u
               THEN planned
               ELSE Append(planned, [id |-> u, kind |-> kind, to |-> to])

TimerFires(u) ==
    /\ phase = "poll"
    /\ u \in timer
    /\ timer' = timer \ {u}
    /\ Plan(u, IF pc[u] = "connecting" THEN "noconn" ELSE "timeout", Nobody)
    /\ UNCHANGED <<phase, pending, running, pc, calls, conn, left, poolVars,
                   kernelVars, misfired>>

LeftTimerFires(w) ==
    /\ phase = "poll"
    /\ w \in left /\ w.timer
    /\ left' = (left \ {w}) \cup {[w EXCEPT !.timer = FALSE]}
    /\ Plan(w.id, "timeout", Nobody)
    /\ misfired' = TRUE
    /\ UNCHANGED <<phase, pending, running, pc, calls, conn, timer, poolVars,
                   kernelVars>>

Readable(f) == inbox[f] # "none"

\* Watchers stay bound to the number of the descriptor, which the kernel
\* gives to the next socket once it is closed.
ReadyWatchers ==
    {[id |-> u, fd |-> conn[u], old |-> FALSE] :
        u \in {v \in Uthreads :
                 \/ pc[v] = "connecting" /\ sock[conn[v]] # "opening"
                 \/ pc[v] = "receiving" /\ Readable(conn[v])}}
    \cup {[id |-> w.id, fd |-> w.fd, old |-> TRUE] :
              w \in {x \in left : Readable(x.fd)}}

BackendPoll ==
    /\ phase = "poll"
    /\ ReadyWatchers # {} \/ planned # <<>>
    /\ pending' = ReadyWatchers
    /\ phase' = "io"
    /\ UNCHANGED <<planned, running, callVars, poolVars, kernelVars, misfired>>

\* cb_connect: getsockopt clears the error that it reports.
CbConnect(w) ==
    /\ ~w.old /\ pc[w.id] = "connecting"
    /\ IF inbox[w.fd] = "reset"
       THEN /\ Plan(w.id, "noconn", Nobody)
            /\ inbox' = [inbox EXCEPT ![w.fd] = "eof"]
       ELSE /\ Plan(w.id, "connected", Nobody)
            /\ UNCHANGED inbox
    /\ UNCHANGED asked

\* cb_recv; recv finds nothing (EAGAIN) when another watcher was first.
CbRecv(w) ==
    /\ w.old \/ pc[w.id] = "receiving"
    /\ IF inbox[w.fd] \in Responses
       THEN /\ Plan(w.id, inbox[w.fd], Head(asked[w.fd]))
            /\ inbox' = [inbox EXCEPT ![w.fd] = "none"]
            /\ asked' = [asked EXCEPT ![w.fd] = Tail(@)]
       ELSE /\ Plan(w.id, IF inbox[w.fd] = "eof" THEN "eof" ELSE "error",
                    Nobody)
            /\ inbox' = [inbox EXCEPT ![w.fd] = IF @ = "reset" THEN "eof"
                                                ELSE @]
            /\ UNCHANGED asked

\* Of the watchers of one descriptor the oldest comes first.
IoCallback(w) ==
    /\ phase = "io"
    /\ w \in pending
    /\ w.old \/ ~\E x \in pending : x.old /\ x.fd = w.fd
    /\ pending' = pending \ {w}
    /\ CbConnect(w) \/ CbRecv(w)
    /\ misfired' = (misfired \/ w.old)
    /\ UNCHANGED <<phase, running, callVars, poolVars, sock>>

BeginPass ==
    /\ phase = "io" /\ pending = {}
    /\ phase' = "pass"
    /\ UNCHANGED <<planned, pending, running, callVars, poolVars, kernelVars,
                   misfired>>

EndPass ==
    /\ phase = "pass" /\ running = Nobody /\ planned = <<>>
    /\ phase' = "poll"
    /\ UNCHANGED <<planned, pending, running, callVars, poolVars, kernelVars,
                   misfired>>

-----------------------------------------------------------------------------
(* The pass: each planned uthread runs on from its yield *)

Resumed(u, kinds) ==
    /\ phase = "pass" /\ running = Nobody /\ planned # <<>>
    /\ Head(planned).id = u /\ Head(planned).kind \in kinds
    /\ planned' = Tail(planned)

Skip(u) ==
    /\ Resumed(u, Kinds) /\ pc[u] = "done"
    /\ UNCHANGED <<phase, pending, running, callVars, poolVars, kernelVars,
                   misfired>>

RunsOn(u) ==
    /\ running' = u
    /\ pc' = [pc EXCEPT ![u] = "run"]
    /\ timer' = timer \ {u}

WakeUp(u) ==
    /\ Resumed(u, Kinds) /\ pc[u] = "sleeping"
    /\ RunsOn(u)
    /\ UNCHANGED <<phase, pending, calls, conn, left, poolVars, kernelVars,
                   misfired>>

\* A uthread yields in a call with a timer; a faulty variant starts no timer.
WaitUntimed(u, call) ==
    running' = Nobody /\ pc' = [pc EXCEPT ![u] = call] /\ UNCHANGED timer
Wait(u, call) ==
    /\ running' = Nobody
    /\ pc' = [pc EXCEPT ![u] = call]
    /\ timer' = timer \cup {u}

\* on_disconnect, with a faulty variant that does not count, and on_connect.
NotCounted == UNCHANGED conns_num
OnDisconnect == conns_num' = conns_num - 1
OnConnect == conns_num' = conns_num + 1

\* mark_busy; a faulty variant leaves the connection in the free table, too.
MarkBoth(f) == busy' = busy \cup {f} /\ UNCHANGED free
MarkBusy(f) == busy' = busy \cup {f} /\ free' = free \ {f}

MarkFree(f) == /\ busy' = busy \ {f} /\ free' = free \cup {f}
               /\ UNCHANGED <<conns_num, kernelVars>>

\* close_socket, with a connection of the pool the finalizer of
\* get_connection first; a faulty variant forgets the former.
KeepSocket(f) == UNCHANGED kernelVars
CloseSocket(f) ==
    /\ sock' = [sock EXCEPT ![f] = "closed"]
    /\ inbox' = [inbox EXCEPT ![f] = "none"]
    /\ asked' = [asked EXCEPT ![f] = <<>>]

CloseConnection(f) ==
    /\ free' = free \ {f}
    /\ busy' = busy \ {f}
    /\ OnDisconnect
    /\ CloseSocket(f)

\* mark_busy, the send of the request, and the start of receive.  A request
\* on a connection that its server has closed may fail (EPIPE), and the
\* assertion that it did not ends the process.
Request(u, f) ==
    /\ MarkBusy(f)
    /\ conn' = [conn EXCEPT ![u] = f]
    /\ Wait(u, "receiving")
    /\ asked' = [asked EXCEPT ![f] = Append(@, u)]
    /\ UNCHANGED <<sock, inbox>>
    /\ \/ inbox[f] # "reset" /\ UNCHANGED phase
       \/ inbox[f] \in {"eof", "reset"} /\ phase' = "dead"

ConnectReturns(u) ==
    /\ Resumed(u, {"connected"}) /\ pc[u] = "connecting"
    /\ OnConnect
    /\ Request(u, conn[u])
    /\ UNCHANGED <<pending, calls, left, misfired>>

ConnectFails(u) ==
    /\ Resumed(u, {"noconn"}) /\ pc[u] = "connecting"
    /\ CloseSocket(conn[u])
    /\ RunsOn(u)
    /\ UNCHANGED <<phase, pending, calls, conn, left, poolVars, misfired>>

\* connect() takes what is handed over for a descriptor; send() then raises.
ConnectConfused(u) ==
    /\ Resumed(u, Kinds \ ConnectKinds) /\ pc[u] = "connecting"
    /\ phase' = "dead"
    /\ UNCHANGED <<pending, running, callVars, poolVars, kernelVars, misfired>>

\* receive() returns the response: mark_free, unless the server closes.
ResponseArrives(u) ==
    /\ Resumed(u, {"keep", "last"}) /\ pc[u] = "receiving"
    /\ RunsOn(u)
    /\ IF Head(planned).kind = "keep"
       THEN MarkFree(conn[u])
       ELSE CloseConnection(conn[u])
    /\ UNCHANGED <<phase, pending, calls, conn, left, misfired>>

\* receive() returns false; on "conn closed" and on a parse failure it leaves
\* its watcher started.
ResponseFails(u) ==
    /\ Resumed(u, {"eof", "broken", "error", "timeout"}) /\ pc[u] = "receiving"
    /\ RunsOn(u)
    /\ left' = IF Head(planned).kind \in {"eof", "broken"}
               THEN left \cup {[id |-> u, fd |-> conn[u], timer |-> u \in timer]}
               ELSE left
    /\ CloseConnection(conn[u])
    /\ UNCHANGED <<phase, pending, calls, conn, misfired>>

-----------------------------------------------------------------------------
(* The script of the running uthread *)

Closed == {f \in Fds : sock[f] = "closed"}
Lowest(f) == f \in Closed /\ \A g \in Closed : f <= g

\* http() over a connection of the pool, which one next() leaves open.
HttpReuses(u) ==
    /\ running = u /\ calls < MaxCalls
    /\ calls' = calls + 1
    /\ \E f \in free : Request(u, f)
    /\ UNCHANGED <<planned, pending, left, conns_num, misfired>>

\* http() has to connect.  The other users of the process may have used up the
\* local ports (http returns nil) or the descriptors (the process exits).
HttpConnects(u) ==
    /\ running = u /\ calls < MaxCalls
    /\ free = {}
    /\ calls' = calls + 1
    /\ \/ \E f \in Fds :
             /\ Lowest(f)
             /\ conn' = [conn EXCEPT ![u] = f]
             /\ sock' = [sock EXCEPT ![f] = "opening"]
             /\ Wait(u, "connecting")
             /\ UNCHANGED phase
       \/ UNCHANGED <<phase, running, pc, conn, timer, sock>>
       \/ /\ phase' = "dead"
          /\ UNCHANGED <<running, pc, conn, timer, sock>>
    /\ UNCHANGED <<planned, pending, left, poolVars, inbox, asked, misfired>>

Sleep(u) ==
    /\ running = u
    /\ Wait(u, "sleeping")
    /\ UNCHANGED <<phase, planned, pending, calls, conn, left, poolVars,
                   kernelVars, misfired>>

\* The function returns.  After the last one the user's clean() closes every
\* connection and destroys every watcher.
Finish(u) ==
    /\ running = u
    /\ running' = Nobody
    /\ pc' = [pc EXCEPT ![u] = "done"]
    /\ IF \A v \in Uthreads \ {u} : pc[v] = "done"
       THEN LET pool == free \cup busy IN
            /\ sock' = [f \in Fds |-> IF f \in pool THEN "closed" ELSE sock[f]]
            /\ inbox' = [f \in Fds |-> IF f \in pool THEN "none" ELSE inbox[f]]
            /\ asked' = [f \in Fds |-> IF f \in pool THEN <<>> ELSE asked[f]]
            /\ conns_num' = conns_num - Cardinality(pool)
            /\ free' = {} /\ busy' = {} /\ left' = {}
       ELSE UNCHANGED <<left, poolVars, kernelVars>>
    /\ UNCHANGED <<phase, planned, pending, calls, conn, timer, misfired>>

-----------------------------------------------------------------------------
PassStep(u) == \/ Skip(u) \/ WakeUp(u) \/ ConnectReturns(u) \/ ConnectFails(u)
               \/ ConnectConfused(u) \/ ResponseArrives(u) \/ ResponseFails(u)
               \/ HttpReuses(u) \/ HttpConnects(u) \/ Sleep(u) \/ Finish(u)

LoopStep == \/ BackendPoll \/ BeginPass \/ EndPass
            \/ \E w \in pending : IoCallback(w)
            \/ \E u \in Uthreads : phase = "pass" /\ PassStep(u)

Next == \/ \E f \in Fds : ServerMoves(f)
        \/ \E u \in Uthreads : TimerFires(u)
        \/ \E w \in left : LeftTimerFires(w)
        \/ LoopStep

Spec == Init /\ [][Next]_vars

\* The loop never pauses and an expired timer fires; nothing is assumed of
\* the servers.
FairSpec == /\ Spec
            /\ WF_vars(LoopStep)
            /\ \A u \in Uthreads : SF_vars(TimerFires(u))
-----------------------------------------------------------------------------
(* Properties *)

Alive == phase # "dead"
Pooled == free \cup busy
Connecting == {u \in Uthreads : pc[u] = "connecting"}
Asking == {u \in Uthreads : pc[u] = "receiving"}

TypeOK ==
    /\ phase \in {"poll", "io", "pass", "dead"}
    /\ planned \in Seq(Payloads)
    /\ pending \in SUBSET [id : Uthreads, fd : Fds, old : BOOLEAN]
    /\ running \in Uthreads \cup {Nobody}
    /\ pc \in [Uthreads -> Pcs]
    /\ calls \in 0..MaxCalls
    /\ conn \in [Uthreads -> Fds \cup {NoFd}]
    /\ timer \in SUBSET Uthreads
    /\ left \in SUBSET [id : Uthreads, fd : Fds, timer : BOOLEAN]
    /\ free \in SUBSET Fds /\ busy \in SUBSET Fds
    /\ conns_num \in 0..MaxFd
    /\ sock \in [Fds -> {"closed", "opening", "open"}]
    /\ inbox \in [Fds -> {"none", "eof", "reset"} \cup Responses]
    /\ asked \in [Fds -> Seq(Uthreads)]
    /\ misfired \in BOOLEAN

\* The uthreads of a user never talk over each other's connection: a busy one
\* belongs to exactly one call, a free one and one being connected to no other,
\* whatever mixture of reuse, closing and reuse of descriptors came before.
ConnectionsExclusive ==
    Alive =>
        /\ free \cap busy = {}
        /\ busy = {conn[u] : u \in Asking}
        /\ \A u, v \in Connecting \cup Asking : conn[u] = conn[v] => u = v
        /\ \A u \in Connecting : conn[u] \notin Pooled

\* No descriptor leaks, and none that is in use is closed: what is open is in
\* the pool or being connected, however the calls on it ended.
NoDescriptorLost ==
    Alive => {f \in Fds : sock[f] # "closed"}
             = Pooled \cup {conn[u] : u \in Connecting}

\* The launcher's count of concurrent connections, kept by on_connect and
\* on_disconnect, is the number of connections in the pool.
ConnCounter == Alive => conns_num = Cardinality(Pooled)

\* A connection goes back to the pool only once its response was read, unless
\* a watcher of an ended call has meddled: the next request on it is not
\* answered with the response to the one before.
FreeConnsQuiet ==
    ~misfired => \A f \in free : asked[f] = <<>> /\ inbox[f] \notin Responses

\* A call is resumed with a result of its own, unless a watcher of an ended call
\* has meddled: connect() takes whatever it gets for its descriptor, and must
\* get no packet and no timeout of an earlier receive(); receive() must get
\* nothing of the connect() before it, and no response to another's request.
\* The timer and the watcher of one call may fire in one poll.
CallGetsItsOwn ==
    ~misfired =>
        \A i \in DOMAIN planned :
            LET p == planned[i] IN
            /\ pc[p.id] = "connecting" => p.kind \in ConnectKinds
            /\ pc[p.id] = "receiving" => /\ p.kind \notin ConnectKinds
                                         /\ p.kind \in Responses => p.to = p.id

\* A call of http comes back, whatever the server does or does not do.
CallsReturn ==
    \A u \in Uthreads :
        pc[u] \in {"connecting", "receiving"}
        ~> (pc[u] \notin {"connecting", "receiving"} \/ ~Alive)

\* The result a uthread in receive() is resumed with is the one of its own
\* request.
OwnResponse ==
    \A i \in DOMAIN planned :
        planned[i].kind \in Responses /\ pc[planned[i].id] = "receiving"
        => planned[i].to = planned[i].id
=============================================================================
