----------------------------- MODULE Scheduler -----------------------------
(***************************************************************************)
(* The cooperative scheduler of Mistress: Manager (manager.lua), the       *)
(* uthreads it resumes (uthread.lua, session.lua) and the libev loop that  *)
(* wakes them (main.c).  One OS thread alternates between                  *)
(*   poll: libev runs the callbacks of the watchers that are ready; a      *)
(*         callback only calls Manager:plan_resume;                        *)
(*   pass: cb_prepare runs Manager:resume_active_sessions, which resumes   *)
(*         the planned uthreads one by one until each yields again.        *)
(* What a uthread does between two yields is a sequence of calls of the    *)
(* session API, chosen freely: its script.                                 *)
(***************************************************************************)
EXTENDS Integers, Sequences, FiniteSets

CONSTANTS
    MaxId,       \* bound: uthreads registered in the life of the process
    MaxFuns,     \* bound: functions given to one parallel() call
    Worker       \* TRUE for run_worker (uthread 1 is the Acceptor),
                 \* FALSE for run_manager (uthread 1 is the WorkersManager)

ASSUME MaxIdAssumption == MaxId \in Nat \ {0}
ASSUME MaxFunsAssumption == MaxFuns \in Nat
ASSUME WorkerAssumption == Worker \in BOOLEAN

Ids == 1..MaxId
NoId == 0
BootId == 1                         \* the uthread that init.lua registers
Acceptor == IF Worker THEN BootId ELSE NoId

\* What the planned resume carries: nothing (a plan made by Lua code), the
\* result of the awaited io, the sign that its timer fired, or the same two of
\* an earlier receive(): what it got, which is a table or false, and false.
Params == {"none", "ready", "timeout", "packet", "late"}
Entries == [id : Ids, params : Params]
Watchers == {"io", "timer"}
\* "freed": a clean() has destroyed the watchers of the call under its waiter.
Marks == Watchers \cup {"freed"}
\* Where a uthread stands: not registered or ended ("none"), registered and
\* never resumed ("start"), running, or yielded inside the API call named.
\* "io" is a connect() or a send(), "join" a parallel().
Waits == {"none", "start", "run", "sleep", "io", "recv", "accept", "join",
          "coop"}
Ended == {"exited", "failed", "crashed", "aborted"}
Phases == {"poll", "pass"} \cup Ended

VARIABLES
    next_id,             \* Manager.next_id
    sessions,            \* Manager.sessions: ids of the registered uthreads
    active_sessions,     \* Manager.active_sessions: the planned resumes
    active_sessions_ids, \* Manager.active_sessions_ids
    phase,               \* what the thread does, or how the process ended
    cursor,              \* index of the ipairs loop of a pass
    running,             \* the uthread whose coroutine runs, or NoId
    wait,                \* [Ids -> Waits]
    armed,               \* started watchers of the call a uthread waits in
    stale,               \* watchers an earlier call of it left started
    parent, group,       \* of a parallel() child: who called, which call
    owner,               \* whose clean() runs a uthread's finalizers
    joinOn, fns_left,    \* the call a parent waits in; children left per call
    cut_short,           \* history: a stale watcher resumed a parallel()
    stopping,            \* uthreads with _gonna_shut_down set
    launcher,            \* the Launcher, or NoId
    interrupted,         \* a SIGINT was handled (a second one is hard abort)
    to_visit,            \* rest of the loop over sessions of a shut_down
    loop_done,           \* stop_ev_loop was called
    yielded              \* history: uthreads that yielded at least once

queueVars == <<active_sessions, active_sessions_ids>>
joinVars == <<parent, group, owner, joinOn, fns_left, cut_short>>
signalVars == <<stopping, launcher, interrupted, to_visit>>
vars == <<next_id, sessions, queueVars, phase, cursor, running, wait, armed,
          stale, joinVars, signalVars, loop_done, yielded>>

-----------------------------------------------------------------------------
(* Manager *)

\* plan_resume: an id already marked is a 'late resume', whose params drop.
PlanResume(id, params) ==
    IF id \in active_sessions_ids
    THEN UNCHANGED queueVars
    ELSE /\ active_sessions' = Append(active_sessions,
                                      [id |-> id, params |-> params])
         /\ active_sessions_ids' = active_sessions_ids \cup {id}

NewIds(n) == next_id + 1 .. next_id + n

\* register, then plan_resume, of n uthreads: the new ids are not marked yet.
RegisterAndPlan(n) ==
    /\ next_id' = next_id + n
    /\ sessions' = sessions \cup NewIds(n)
    /\ active_sessions' = active_sessions \o
            [k \in 1..n |-> [id |-> next_id + k, params |-> "none"]]
    /\ active_sessions_ids' = active_sessions_ids \cup NewIds(n)

Queued == {active_sessions[i].id : i \in DOMAIN active_sessions}
\* The entries that the present or the next pass will still reach.
Pending(u) == \E i \in DOMAIN active_sessions :
                  i >= cursor /\ active_sessions[i].id = u

Init ==
    /\ next_id = BootId
    /\ sessions = {BootId}
    /\ active_sessions = <<[id |-> BootId, params |-> "none"]>>
    /\ active_sessions_ids = {BootId}
    /\ phase = "poll" /\ cursor = 1 /\ running = NoId
    /\ wait = [u \in Ids |-> IF u = BootId THEN "start" ELSE "none"]
    /\ armed = [u \in Ids |-> {}] /\ stale = [u \in Ids |-> {}]
    /\ parent = [u \in Ids |-> NoId] /\ group = [u \in Ids |-> NoId]
    /\ owner = [u \in Ids |-> u]
    /\ joinOn = [u \in Ids |-> NoId] /\ fns_left = [g \in Ids |-> 0]
    /\ cut_short = FALSE
    /\ stopping = {} /\ launcher = NoId /\ interrupted = FALSE
    /\ to_visit = {} /\ loop_done = FALSE /\ yielded = {}

-----------------------------------------------------------------------------
(* poll: callbacks of libev.  SIGINT's runs first, then the timers', then   *)
(* the io watchers'.                                                        *)

Polling == phase = "poll" /\ to_visit = {}

NoIoCallbackYet == \A i \in DOMAIN active_sessions :
                       active_sessions[i].params \notin {"ready", "packet"}

ParamsOf(w) == IF w = "timer" THEN "timeout" ELSE "ready"
\* A uthread that goes on after it left watchers started left those of a
\* receive().
LeftParamsOf(w) == IF w = "timer" THEN "late" ELSE "packet"

\* A timer is one-shot, an io watcher stays started.
AfterFiring(ws, w) == ws \ ({w} \cap {"timer"})

\* A watcher of the call that u waits in fires.
Callback(u, w) ==
    /\ Polling
    /\ w \in armed[u]
    /\ w = "timer" => NoIoCallbackYet
    /\ PlanResume(u, ParamsOf(w))
    /\ armed' = [armed EXCEPT ![u] = AfterFiring(@, w)]
    /\ UNCHANGED <<next_id, sessions, phase, cursor, running, wait, stale,
                   joinVars, signalVars, loop_done, yielded>>

\* A watcher that an earlier call of u never destroyed fires: it still holds
\* the id of u, whatever u waits for now, and even if u has ended.
StaleCallback(u, w) ==
    /\ Polling
    /\ w \in stale[u]
    /\ w = "timer" => NoIoCallbackYet
    /\ PlanResume(u, LeftParamsOf(w))
    /\ stale' = [stale EXCEPT ![u] = AfterFiring(@, w)]
    /\ UNCHANGED <<next_id, sessions, phase, cursor, running, wait, armed,
                   joinVars, signalVars, loop_done, yielded>>

\* register_shut_down was called.
ShutDownRegistered == launcher # NoId

\* cb_sigint: without a registered shut_down the pcall of nil fails; the
\* second time the launcher's shut_down is the hard abort; the first time it
\* sets its own flag and walks the sessions.
Sigint ==
    /\ Polling
    /\ active_sessions = <<>>
    /\ IF ~ShutDownRegistered
       THEN /\ phase' = "failed"
            /\ UNCHANGED <<stopping, to_visit, interrupted>>
       ELSE IF interrupted
       THEN /\ phase' = "aborted"
            /\ UNCHANGED <<stopping, to_visit, interrupted>>
       ELSE /\ interrupted' = TRUE
            /\ stopping' = stopping \cup {launcher}
            /\ to_visit' = sessions
            /\ UNCHANGED phase
    /\ UNCHANGED <<next_id, sessions, queueVars, cursor, running, wait, armed,
                   stale, joinVars, launcher, loop_done, yielded>>

\* What shut_down does to a session.
StopSession(u) == stopping' = stopping \cup {u} /\ PlanResume(u, "none")

\* One round of Manager:shut_down's loop, whose order pairs() leaves open.
VisitSession(u) ==
    /\ phase = "poll"
    /\ u \in to_visit
    /\ to_visit' = to_visit \ {u}
    /\ StopSession(u)
    /\ UNCHANGED <<next_id, sessions, phase, cursor, running, wait, armed,
                   stale, joinVars, launcher, interrupted, loop_done, yielded>>

\* cb_prepare; a pass over an empty queue would change nothing.
BeginPass ==
    /\ Polling
    /\ active_sessions # <<>>
    /\ phase' = "pass"
    /\ cursor' = 1
    /\ UNCHANGED <<next_id, sessions, queueVars, running, wait, armed, stale,
                   joinVars, signalVars, loop_done, yielded>>

-----------------------------------------------------------------------------
(* pass: the loop of resume_active_sessions *)

AtEntry == phase = "pass" /\ running = NoId /\ cursor <= Len(active_sessions)
Entry == active_sessions[cursor]
Resumable(u) == AtEntry /\ Entry.id = u /\ u \in sessions

SkipAbsent ==
    /\ AtEntry
    /\ Entry.id \notin sessions
    /\ cursor' = cursor + 1
    /\ UNCHANGED <<next_id, sessions, queueVars, phase, running, wait, armed,
                   stale, joinVars, signalVars, loop_done, yielded>>

\* The launcher's only sleep is tick_sleep, which catches STOP.
CatchesStop(u) == u = launcher /\ wait[u] = "sleep"
\* Every call tests _gonna_shut_down when its yield returns; a faulty variant
\* where receive() does not.
StopRaisedNotInReceive(u) == u \in stopping /\ wait[u] \notin {"start", "recv"}
StopRaised(u) == u \in stopping /\ wait[u] # "start"

\* Asserted before the test of _gonna_shut_down: accept() wants fds, and
\* send() a false or absent first argument, which connect() does not.
AcceptAsserts(u) == wait[u] = "accept" /\ Entry.params # "ready"
SendMayAssert(u) == wait[u] = "io" /\ Entry.params \in {"timeout", "packet"}

\* What a receive() is resumed with when data came.
HasData == Entry.params \in {"ready", "packet"}

\* parallel() does not look at what it is resumed with.
CutsShort(u) == joinOn[u] # NoId /\ Entry.params # "none"

\* The coroutine of u runs on from its yield.  The call destroys its watchers
\* first, but for the sleep out of which STOP was thrown, and for a receive()
\* that returns early on "conn closed" or on a parse failure.  One such leak
\* per uthread is modelled.
Resume(u) ==
    /\ Resumable(u)
    /\ StopRaised(u) => CatchesStop(u)
    /\ ~AcceptAsserts(u)
    /\ cursor' = cursor + 1
    /\ running' = u
    /\ wait' = [wait EXCEPT ![u] = "run"]
    /\ armed' = [armed EXCEPT ![u] = {}]
    /\ joinOn' = [joinOn EXCEPT ![u] = NoId]
    /\ cut_short' = (cut_short \/ CutsShort(u))
    /\ \/ ~StopRaised(u) /\ UNCHANGED stale
       \/ /\ \/ StopRaised(u)
             \/ wait[u] = "recv" /\ HasData
          /\ stale[u] = {}
          /\ stale' = [stale EXCEPT ![u] = armed[u] \ {"freed"}]
    /\ UNCHANGED <<next_id, sessions, queueVars, phase, parent, group, owner,
                   fns_left, signalVars, loop_done, yielded>>

\* receive() got a part of the packet and yields again on the same watcher.
ReceiveMore(u) ==
    /\ Resumable(u)
    /\ wait[u] = "recv" /\ HasData /\ ~StopRaised(u)
    /\ cursor' = cursor + 1
    /\ UNCHANGED <<next_id, sessions, queueVars, phase, running, wait, armed,
                   stale, joinVars, signalVars, loop_done, yielded>>

\* A call that destroys its watchers a second time may go on or abort.
DestroyMayAbort(u) == "freed" \in armed[u] /\ ~StopRaised(u)

\* An assertion of the call fails: the error ends the process.
ResumeAsserts(u) ==
    /\ Resumable(u)
    /\ \/ AcceptAsserts(u) /\ phase' = "crashed"
       \/ /\ SendMayAssert(u) \/ DestroyMayAbort(u)
          /\ phase' = "failed"
    /\ UNCHANGED <<next_id, sessions, queueVars, cursor, running, wait, armed,
                   stale, joinVars, signalVars, loop_done, yielded>>

\* Whether on_after_run counts u, which it does after STOP, too; and whether u
\* is the last one.  With faulty variants.
CountsUnlessStopped(u) == group[u] # NoId /\ u \notin stopping
Counts(u) == group[u] # NoId
ComparesEarly(u) == fns_left[group[u]] = 0
EveryIsLast(u) == fns_left[group[u]] > 0
IsLast(u) == fns_left[group[u]] = 1

\* on_after_run of a parallel() child: the last one wakes the parent.
LeaveGroup(u) ==
    IF ~Counts(u)
    THEN UNCHANGED <<queueVars, fns_left>>
    ELSE /\ fns_left' = [fns_left EXCEPT ![group[u]] = @ - 1]
         /\ IF IsLast(u) THEN PlanResume(parent[u], "none")
                         ELSE UNCHANGED queueVars

\* Faulty variant: a parallel() child cleans, too.
CleanAlways(u) ==
    /\ armed' = [v \in Ids |-> IF owner[v] = owner[u] THEN {} ELSE armed[v]]
    /\ stale' = [v \in Ids |-> IF owner[v] = owner[u] THEN {} ELSE stale[v]]

\* Waits of other uthreads whose watchers u's finalizers destroy.
Disturbed(u) == {v \in sessions \ {u} : /\ owner[v] = u
                                        /\ wait[v] \in {"sleep", "io", "recv"}}

\* clean(): the watchers of all who share u's finalizers are destroyed.  The
\* clean() of a parallel() child does nothing.
Clean(u) ==
    IF owner[u] = u
    THEN /\ armed' = [v \in Ids |-> IF v \in Disturbed(u) THEN {"freed"}
                                    ELSE IF owner[v] = u THEN {} ELSE armed[v]]
         /\ stale' = [v \in Ids |-> IF owner[v] = u THEN {} ELSE stale[v]]
    ELSE /\ armed' = [armed EXCEPT ![u] = {}]
         /\ stale' = [stale EXCEPT ![u] = @ \cup (armed[u] \ {"freed"})]

\* The end of the coroutine, and the manager dropping a dead session.
EndUthread(u) ==
    /\ LeaveGroup(u)
    /\ Clean(u)
    /\ sessions' = sessions \ {u}
    /\ wait' = [wait EXCEPT ![u] = "none"]
    /\ joinOn' = [joinOn EXCEPT ![u] = NoId]
    /\ running' = NoId

\* u is flagged: STOP unwinds it to the end of its coroutine.
StopUthread(u) ==
    /\ Resumable(u)
    /\ StopRaised(u) /\ ~CatchesStop(u)
    /\ ~AcceptAsserts(u)
    /\ cursor' = cursor + 1
    /\ EndUthread(u)
    /\ UNCHANGED <<next_id, phase, parent, group, owner, cut_short, signalVars,
                   loop_done, yielded>>

\* The end of the loop, and a faulty variant that misses the last entry.
PassOverEarly == cursor >= Len(active_sessions)
PassOver == cursor > Len(active_sessions)

\* The reset after the loop, and faulty variants of it.
ResetMarksOnly == active_sessions_ids' = {} /\ cursor' = 1 /\ UNCHANGED active_sessions
ResetQueueOnly == active_sessions' = <<>> /\ cursor' = 1 /\ UNCHANGED active_sessions_ids
ResetToZero == active_sessions' = <<>> /\ active_sessions_ids' = {} /\ cursor' = 0
ResetActive == active_sessions' = <<>> /\ active_sessions_ids' = {} /\ cursor' = 1

EndPass ==
    /\ phase = "pass" /\ running = NoId
    /\ PassOver
    /\ ResetActive
    /\ phase' = IF loop_done THEN "exited" ELSE "poll"
    /\ UNCHANGED <<next_id, sessions, running, wait, armed, stale, joinVars,
                   signalVars, loop_done, yielded>>

-----------------------------------------------------------------------------
(* The script of the running uthread u.  The Acceptor only accepts and      *)
(* registers handlers; the launcher ticks, sends and registers users.       *)

Running(u) == phase = "pass" /\ running = u
Plain(u) == u \notin {Acceptor, launcher}

Yield(u, call, ws) ==
    /\ running' = NoId
    /\ wait' = [wait EXCEPT ![u] = call]
    /\ armed' = [armed EXCEPT ![u] = ws]
    /\ yielded' = yielded \cup {u}

\* sleep, connect, send, receive (its timeout may be 0: none) and accept.
Await(u) ==
    /\ Running(u)
    /\ \/ u # Acceptor /\ Yield(u, "sleep", {"timer"})
       \/ u # Acceptor /\ Yield(u, "io", {"io", "timer"})
       \/ Plain(u) /\ Yield(u, "recv", {"io", "timer"})
       \/ Plain(u) /\ Yield(u, "recv", {"io"})
       \/ u = Acceptor /\ Yield(u, "accept", {"io"})
    /\ UNCHANGED <<next_id, sessions, queueVars, phase, cursor, stale,
                   joinVars, signalVars, loop_done>>

\* The Acceptor registers a handler, the launcher a user (tick).
SpawnsSession(u) == u \in {Acceptor, launcher} \ stopping /\ UNCHANGED launcher

\* A handler registers the launcher, and its shut_down.
InitLauncher(u) == /\ Worker /\ ~ShutDownRegistered /\ u # Acceptor
                   /\ launcher' = next_id + 1

Spawn(u) ==
    /\ Running(u)
    /\ next_id < MaxId
    /\ RegisterAndPlan(1)
    /\ wait' = [wait EXCEPT ![next_id + 1] = "start"]
    /\ SpawnsSession(u) \/ InitLauncher(u)
    /\ UNCHANGED <<phase, cursor, running, armed, stale, joinVars, stopping,
                   interrupted, to_visit, loop_done, yielded>>

\* parallel() of n functions: the children share the caller's finalizers.
Parallel(u) ==
    /\ Running(u)
    /\ Plain(u)
    /\ \E n \in 0..MaxFuns :
        /\ next_id + n <= MaxId
        /\ RegisterAndPlan(n)
        /\ wait' = [v \in Ids |-> IF v \in NewIds(n) THEN "start"
                                  ELSE IF v = u THEN "join" ELSE wait[v]]
        /\ parent' = [v \in Ids |-> IF v \in NewIds(n) THEN u ELSE parent[v]]
        /\ owner' = [v \in Ids |-> IF v \in NewIds(n) THEN owner[u]
                                   ELSE owner[v]]
        /\ group' = [v \in Ids |-> IF v \in NewIds(n) THEN next_id + 1
                                   ELSE group[v]]
        /\ IF n = 0
           THEN UNCHANGED <<joinOn, fns_left>>
           ELSE /\ joinOn' = [joinOn EXCEPT ![u] = next_id + 1]
                /\ fns_left' = [fns_left EXCEPT ![next_id + 1] = n]
    /\ running' = NoId
    /\ yielded' = yielded \cup {u}
    /\ UNCHANGED <<phase, cursor, armed, stale, cut_short, signalVars,
                   loop_done>>

\* cooperate: plans u itself, then yields.
Cooperate(u) ==
    /\ Running(u)
    /\ Plain(u)
    /\ PlanResume(u, "none")
    /\ running' = NoId
    /\ wait' = [wait EXCEPT ![u] = "coop"]
    /\ yielded' = yielded \cup {u}
    /\ UNCHANGED <<next_id, sessions, phase, cursor, armed, stale, joinVars,
                   signalVars, loop_done>>

\* The launcher goes on to its next phase after an interrupt.
NextPhase(u) ==
    /\ Running(u)
    /\ u = launcher /\ u \in stopping
    /\ stopping' = stopping \ {u}
    /\ UNCHANGED <<next_id, sessions, queueVars, phase, cursor, running, wait,
                   armed, stale, joinVars, launcher, interrupted, to_visit,
                   loop_done, yielded>>

\* stop_ev_loop, by the launcher or by the manager's last worker to finish.
StopLoop(u) ==
    /\ Running(u)
    /\ u = launcher \/ ~Worker
    /\ loop_done' = TRUE
    /\ UNCHANGED <<next_id, sessions, queueVars, phase, cursor, running, wait,
                   armed, stale, joinVars, signalVars, yielded>>

\* run() returns.
Finish(u) ==
    /\ Running(u)
    /\ u # Acceptor
    /\ EndUthread(u)
    /\ UNCHANGED <<next_id, phase, cursor, parent, group, owner, cut_short,
                   signalVars, loop_done, yielded>>

\* run() raises an error or calls os.exit: the process ends.
Fail(u) ==
    /\ Running(u)
    /\ phase' = "failed"
    /\ UNCHANGED <<next_id, sessions, queueVars, cursor, running, wait, armed,
                   stale, joinVars, signalVars, loop_done, yielded>>

-----------------------------------------------------------------------------
Script(u) == \/ Await(u) \/ Spawn(u) \/ Parallel(u) \/ Cooperate(u)
             \/ NextPhase(u) \/ StopLoop(u) \/ Finish(u) \/ Fail(u)

PassStep == \/ SkipAbsent
            \/ \E u \in Ids : \/ Resume(u) \/ ReceiveMore(u)
                              \/ ResumeAsserts(u) \/ StopUthread(u)
                              \/ Script(u)
            \/ EndPass

Next == \/ \E u \in Ids, w \in Watchers : Callback(u, w) \/ StaleCallback(u, w)
        \/ Sigint
        \/ \E u \in Ids : VisitSession(u)
        \/ BeginPass
        \/ PassStep

Spec == Init /\ [][Next]_vars

\* The loop never stops between two callbacks or two resumes, a script comes
\* to its next yield, and libev runs the callback of an expired timer in the
\* poll that finds it expired.
Fairness == /\ WF_vars(BeginPass) /\ WF_vars(PassStep)
            /\ \A u \in Ids : WF_vars(VisitSession(u))
            /\ \A u \in Ids : SF_vars(Callback(u, "timer"))

FairSpec == Spec /\ Fairness

-----------------------------------------------------------------------------
(* Properties *)

IdsOrNone == Ids \cup {NoId}

TypeOK ==
    /\ next_id \in Ids
    /\ sessions \in SUBSET Ids
    /\ active_sessions \in Seq(Entries)
    /\ active_sessions_ids \in SUBSET Ids
    /\ phase \in Phases
    /\ cursor \in Nat \ {0}
    /\ running \in IdsOrNone
    /\ wait \in [Ids -> Waits]
    /\ armed \in [Ids -> SUBSET Marks]
    /\ stale \in [Ids -> SUBSET Watchers]
    /\ parent \in [Ids -> IdsOrNone]
    /\ group \in [Ids -> IdsOrNone]
    /\ owner \in [Ids -> Ids]
    /\ joinOn \in [Ids -> IdsOrNone]
    /\ fns_left \in [Ids -> Int]
    /\ cut_short \in BOOLEAN
    /\ stopping \in SUBSET Ids
    /\ launcher \in IdsOrNone
    /\ interrupted \in BOOLEAN
    /\ to_visit \in SUBSET Ids
    /\ loop_done \in BOOLEAN
    /\ yielded \in SUBSET Ids

\* The marks that plan_resume tests and the queue that a pass walks agree, and
\* no uthread is queued twice: a pass resumes each uthread at most once, so
\* nobody is handed a result meant for the call before.
QueueMatchesIds ==
    /\ active_sessions_ids = Queued
    /\ \A i, j \in DOMAIN active_sessions :
           active_sessions[i].id = active_sessions[j].id => i = j

Awaited(u) ==
    \/ Pending(u)
    \/ running = u
    \/ /\ wait[u] \in {"sleep", "io", "recv", "accept"}
       /\ armed[u] \cap Watchers # {}
    \/ /\ wait[u] = "join" /\ joinOn[u] # NoId
       /\ fns_left[joinOn[u]] > 0

\* No wakeup is lost for a uthread that was just registered or that waits for
\* io or time, however callbacks, timeouts and passes interleave: it is
\* planned, or a watcher of its call is still started.  (Not so when the
\* uthread whose clean() runs its finalizers has ended.)
WaitersAreWoken ==
    \A u \in sessions :
        /\ wait[u] \in {"start", "sleep", "io", "recv", "accept"}
        /\ owner[u] \in sessions
        => Awaited(u)

\* The closure counter of a parallel() call is the number of its functions
\* that have not ended, whichever way they end.
JoinCounters ==
    \A g \in Ids :
        fns_left[g] = Cardinality({v \in sessions : group[v] = g})

\* A parallel() that nobody will wake is one whose functions all ended in the
\* pass that called it, without one yield between them: as soon as one of
\* them yields, the parent is woken.
StrandedJoinWasInstant ==
    \A p \in sessions :
        wait[p] = "join" /\ ~Awaited(p)
        => \A v \in Ids : group[v] # NoId /\ group[v] = joinOn[p]
                          => v \notin yielded

\* A uthread that shut_down flagged never runs on: whatever it waits in, and
\* whoever's clean() destroys its watchers before its turn comes, it is still
\* to be resumed in this pass, where it ends, or it has ended.  The launcher
\* alone may carry its flag further.
FlaggedEnd ==
    phase \in {"poll", "pass"} =>
        \A u \in (stopping \cap sessions) \ {launcher} :
            Pending(u) /\ running # u

\* A uthread that was registered gets to run, also when the pass that
\* registered it was already under way.
RegisteredRun ==
    \A u \in Ids : wait[u] = "start" ~> (wait[u] # "start" \/ phase \in Ended)

\* sleep, connect and send come back whatever the peer does: their timer is a
\* wake of last resort, even if an earlier wake is dropped.
TimedCallsReturn ==
    \A u \in Ids :
        wait[u] \in {"sleep", "io"}
        ~> \/ wait[u] \notin {"sleep", "io"} \/ running = u
           \/ phase \in Ended \/ owner[u] \notin sessions

\* A parallel() returns when its functions have ended and not before, unless
\* it is interrupted or what an earlier receive() left started resumes it: the
\* clean() of a user finds no function that still waits.
ParallelWaitsForAll ==
    ~cut_short =>
        \A v \in sessions : group[v] # NoId =>
            \/ wait[parent[v]] = "join" /\ joinOn[parent[v]] = group[v]
            \/ parent[v] \in stopping

\* A uthread is resumed after its own plan to be: in cooperate(), which plans
\* it before it yields, and in a parallel(), whose functions plan it in the
\* end.
PlannedIsResumed ==
    phase = "poll" =>
        \A u \in sessions :
            wait[u] = "coop" \/ (wait[u] = "join" /\ joinOn[u] # NoId)
            => Awaited(u)

\* An interrupt shuts the test down, it does not end in a failed assertion.
InterruptIsGraceful == phase # "crashed"
=============================================================================
