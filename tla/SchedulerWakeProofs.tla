------------------------ MODULE SchedulerWakeProofs ------------------------
(***************************************************************************)
(* Theorems of Scheduler about who is woken and about parallel(), for      *)
(* every MaxId, MaxFuns and both process modes.  They build on the         *)
(* invariant Inv of SchedulerProofs.                                       *)
(***************************************************************************)
EXTENDS SchedulerProofs, FiniteSetTheorems, SequenceTheorems

\* An id that is not registered yet has no history, and calls of parallel()
\* are named by ids that are.
Fresh ==
    /\ launcher \in 0..next_id
    /\ \A v \in Ids :
           /\ v > next_id => /\ group[v] = NoId /\ wait[v] = "none"
                             /\ v \notin stopping /\ v \notin yielded
           /\ group[v] \in 0..next_id /\ joinOn[v] \in 0..next_id
           /\ owner[v] <= v

\* The present pass, or the last one, has come to the entry of u.
Passed(u) == u \in Queued /\ ~Pending(u)

\* Outside a pass nobody runs and no entry is passed; the one that runs is
\* registered and its entry is passed.
Turns ==
    /\ phase = "poll" => cursor = 1 /\ running = NoId
    /\ cursor <= Len(active_sessions) + 1
    /\ phase # "poll" => to_visit = {}
    /\ \A u \in Ids : running = u => u \in sessions /\ Passed(u)
    /\ \A u \in sessions : wait[u] # "none" /\ (wait[u] = "run" <=> running = u)
    /\ \A u \in Ids : wait[u] # "join" => joinOn[u] = NoId
    /\ to_visit # {} => \A v \in sessions : wait[v] # "start"

\* Who waits for an event has its watcher started, or is planned by it; the
\* io watcher of a call outlives its callbacks.
Wakes ==
    \A u \in sessions :
        /\ wait[u] = "start" => Pending(u)
        /\ owner[u] \in sessions =>
               /\ wait[u] \in {"io", "recv", "accept"} => "io" \in armed[u]
               /\ wait[u] = "sleep" => "timer" \in armed[u] \/ Pending(u)

\* A uthread that shut_down flagged is planned until the pass ends it.
Stops ==
    \A u \in (stopping \cap sessions) \ {launcher} :
        wait[u] \notin {"start", "run"} /\ Pending(u)

\* The functions of the parallel() that p waits in are p's.
Parents ==
    \A p, v \in Ids : joinOn[p] # NoId /\ group[v] = joinOn[p] => parent[v] = p

\* A parent that nothing will wake has no function that yielded.
Stranded ==
    \A p \in sessions :
        wait[p] = "join" /\ joinOn[p] # NoId /\ ~Pending(p)
        /\ ~(fns_left[joinOn[p]] > 0) =>
            \A v \in Ids : group[v] = joinOn[p] => v \notin yielded

\* When the pass has passed a parent, a function of it that has yielded did so
\* in this very pass, and cannot end in it.
PassedParents ==
    \A p \in sessions :
        wait[p] = "join" /\ joinOn[p] # NoId /\ Passed(p) =>
            \A v \in Ids : group[v] = joinOn[p] /\ v \in yielded =>
                v \in sessions /\ Passed(v) /\ v # running

\* The launcher calls no parallel(), so its flag, the only one that is ever
\* taken back, is not the flag of a parent.
NoLauncherJoins ==
    launcher # NoId =>
        /\ joinOn[launcher] = NoId
        /\ \A v \in Ids : group[v] # NoId => parent[v] # launcher

\* Only the last function of a call, or a shut_down, plans its parent without
\* a watcher.
JoinsPlanned ==
    ~cut_short =>
        \A i \in DOMAIN active_sessions :
            LET p == active_sessions[i].id IN
            i >= cursor /\ active_sessions[i].params = "none"
            /\ joinOn[p] # NoId
            => fns_left[joinOn[p]] = 0 \/ p \in stopping

WakeInv ==
    /\ Fresh /\ Turns /\ Wakes /\ Stops
    /\ JoinCounters /\ Parents /\ Stranded /\ PassedParents
    /\ NoLauncherJoins /\ ParallelWaitsForAll /\ JoinsPlanned

USE MaxIdAssumption, MaxFunsAssumption, WorkerAssumption

-----------------------------------------------------------------------------
(* How a step changes the queue *)

\* The cursor moves by k, and entries with the parameter p for the ids of add,
\* which had none, are appended.
QueueStep(k, add, p) ==
    /\ cursor' = cursor + k
    /\ Len(active_sessions') \in Nat
    /\ Len(active_sessions) <= Len(active_sessions')
    /\ DOMAIN active_sessions' = 1..Len(active_sessions')
    /\ \A i \in 1..Len(active_sessions) :
           active_sessions'[i] = active_sessions[i]
    /\ \A i \in Len(active_sessions) + 1..Len(active_sessions') :
           active_sessions'[i].id \in add /\ active_sessions'[i].params = p
    /\ \A v \in add :
           /\ v \notin Queued
           /\ \E i \in Len(active_sessions) + 1..Len(active_sessions') :
                  active_sessions'[i].id = v

LEMMA PlanIsQueueStep ==
    ASSUME Inv, NEW id \in Ids, NEW p \in Params, PlanResume(id, p),
           NEW k \in Nat, cursor' = cursor + k
    PROVE  QueueStep(k, {id} \ Queued, p)
<1>1. /\ active_sessions \in Seq(Entries)
      /\ DOMAIN active_sessions = 1..Len(active_sessions)
      /\ Len(active_sessions) \in Nat /\ active_sessions_ids = Queued
  BY DEF Inv, TypeOK, QueueMatchesIds
<1>2. CASE id \in Queued
  <2>1. active_sessions' = active_sessions /\ {id} \ Queued = {}
    BY <1>1, <1>2 DEF PlanResume, queueVars
  <2> QED BY <1>1, <2>1 DEF QueueStep
<1>3. CASE id \notin Queued
  <2> DEFINE e == [id |-> id, params |-> p]
  <2>1. active_sessions' = Append(active_sessions, e) /\ {id} \ Queued = {id}
    BY <1>1, <1>3 DEF PlanResume
  <2>2. /\ Len(active_sessions') = Len(active_sessions) + 1
        /\ DOMAIN active_sessions' = 1..Len(active_sessions')
        /\ \A i \in 1..Len(active_sessions) :
               active_sessions'[i] = active_sessions[i]
        /\ active_sessions'[Len(active_sessions) + 1] = e
    BY <1>1, <2>1, AppendProperties
  <2>3. \A i \in Len(active_sessions) + 1..Len(active_sessions') :
            active_sessions'[i] = e
    BY <1>1, <2>2
  <2>4. Len(active_sessions) + 1
            \in Len(active_sessions) + 1..Len(active_sessions')
    BY <1>1, <2>2
  <2> QED BY <1>1, <1>3, <2>1, <2>2, <2>3, <2>4 DEF QueueStep
<1> QED BY <1>2, <1>3

LEMMA RegisterIsQueueStep ==
    ASSUME Inv, NEW n \in Nat, next_id + n \in Ids, RegisterAndPlan(n),
           cursor' = cursor
    PROVE  QueueStep(0, NewIds(n), "none")
<1> DEFINE new == [k \in 1..n |-> [id |-> next_id + k, params |-> "none"]]
           len == Len(active_sessions)
<1>1. next_id \in Nat /\ next_id + n <= MaxId
  BY InvFacts DEF Ids
<1>2. new \in Seq(Entries) /\ Len(new) = n
  <2>1. \A k \in 1..n : [id |-> next_id + k, params |-> "none"] \in Entries
    BY <1>1 DEF Entries, Params, Ids
  <2> QED BY <2>1
<1>3. active_sessions' = active_sessions \o new /\ active_sessions \in Seq(Entries)
  BY DEF RegisterAndPlan, Inv, TypeOK
<1>4. /\ len \in Nat /\ Len(active_sessions') = len + n
      /\ DOMAIN active_sessions' = 1..len + n
      /\ \A i \in 1..len : active_sessions'[i] = active_sessions[i]
      /\ \A i \in len + 1..len + n :
             /\ i \in Int /\ i - len \in 1..n
             /\ active_sessions'[i].id = next_id + (i - len)
             /\ active_sessions'[i].params = "none"
  BY <1>2, <1>3
<1>5. \A i \in len + 1..len + n :
          active_sessions'[i].id \in NewIds(n) /\ active_sessions'[i].params = "none"
  BY <1>1, <1>4 DEF NewIds
<1>6. ASSUME NEW v \in NewIds(n)
      PROVE  v \notin Queued
             /\ \E i \in len + 1..len + n : active_sessions'[i].id = v
  <2>1. v \in Int /\ next_id + 1 <= v /\ v <= next_id + n
    BY <1>1 DEF NewIds
  <2>2. Queued \subseteq 1..next_id
    BY InvFacts DEF QueueMatchesIds
  <2>3. len + (v - next_id) \in len + 1..len + n
    BY <1>1, <1>4, <2>1
  <2>4. active_sessions'[len + (v - next_id)].id = v
    <3>1. next_id + ((len + (v - next_id)) - len) = v
      BY <1>1, <1>4, <2>1
    <3> QED BY <1>4, <2>3, <3>1
  <2> QED BY <1>1, <2>1, <2>2, <2>3, <2>4
<1> QED BY <1>1, <1>4, <1>5, <1>6 DEF QueueStep, Inv, TypeOK

LEMMA QuietIsQueueStep ==
    ASSUME Inv, UNCHANGED active_sessions, NEW k \in Nat, cursor' = cursor + k
    PROVE  QueueStep(k, {}, "none")
BY DEF QueueStep, Inv, TypeOK

\* What that does to who is queued, and to whose entry lies ahead.
LEMMA QueueStepEffect ==
    ASSUME Inv, cursor <= Len(active_sessions) + 1, NEW k \in {0, 1},
           k = 1 => cursor <= Len(active_sessions),
           NEW add, NEW p, QueueStep(k, add, p)
    PROVE  /\ Queued' = Queued \cup add
           /\ \A v \in add : Pending(v)'
           /\ \A v : v \notin add =>
                  (Pending(v)' <=> Pending(v) /\ ~(k = 1 /\ Entry.id = v))
           /\ cursor' <= Len(active_sessions') + 1
           /\ k = 1 => Entry.id \in Queued
           /\ \A v : Pending(v) => v \in Queued
<1> DEFINE len == Len(active_sessions)
<1>1. /\ active_sessions \in Seq(Entries) /\ len \in Nat
      /\ DOMAIN active_sessions = 1..len /\ cursor \in Nat \ {0}
      /\ \A i, j \in 1..len :
             active_sessions[i].id = active_sessions[j].id => i = j
  BY DEF Inv, TypeOK, QueueMatchesIds
<1>2. /\ cursor' = cursor + k /\ Len(active_sessions') \in Nat
      /\ len <= Len(active_sessions')
      /\ DOMAIN active_sessions' = 1..Len(active_sessions')
      /\ \A i \in 1..len : active_sessions'[i] = active_sessions[i]
      /\ \A i \in len + 1..Len(active_sessions') : active_sessions'[i].id \in add
      /\ \A v \in add : /\ v \notin Queued
                        /\ \E i \in len + 1..Len(active_sessions') :
                               active_sessions'[i].id = v
  BY DEF QueueStep
<1>3. 1..Len(active_sessions') = (1..len) \cup (len + 1..Len(active_sessions'))
  BY <1>1, <1>2
<1>4. Queued' = Queued \cup add
  <2>1. Queued' = {active_sessions'[i].id : i \in 1..Len(active_sessions')}
    BY <1>2 DEF Queued
  <2>2. Queued = {active_sessions[i].id : i \in 1..len}
    BY <1>1 DEF Queued
  <2> QED BY <1>2, <1>3, <2>1, <2>2
<1>5. ASSUME NEW v \in add PROVE Pending(v)'
  <2>1. PICK i \in len + 1..Len(active_sessions') : active_sessions'[i].id = v
    BY <1>2
  <2>2. i \in DOMAIN active_sessions' /\ i >= cursor'
    BY <1>1, <1>2, <2>1
  <2> QED BY <2>1, <2>2 DEF Pending
<1>6. ASSUME NEW v, v \notin add
      PROVE  Pending(v)' <=> Pending(v) /\ ~(k = 1 /\ Entry.id = v)
  <2>1. Pending(v)' <=> \E i \in 1..len : i >= cursor + k /\ active_sessions[i].id = v
    BY <1>1, <1>2, <1>3, <1>6 DEF Pending
  <2>2. Pending(v) <=> \E i \in 1..len : i >= cursor /\ active_sessions[i].id = v
    BY <1>1 DEF Pending
  <2>3. CASE k = 0
    BY <1>1, <2>1, <2>2, <2>3
  <2>4. CASE k = 1
    <3>1. cursor \in 1..len
      BY <1>1, <2>4
    <3>2. \A i \in 1..len : i >= cursor + 1 <=> i >= cursor /\ i # cursor
      BY <1>1
    <3> QED BY <1>1, <2>1, <2>2, <2>4, <3>1, <3>2 DEF Entry
  <2> QED BY <2>3, <2>4
<1>7. cursor' <= Len(active_sessions') + 1
  BY <1>1, <1>2
<1>8. k = 1 => Entry.id \in Queued
  BY <1>1 DEF Entry, Queued
<1>9. \A v : Pending(v) => v \in Queued
  BY DEF Pending, Queued
<1> QED BY <1>4, <1>5, <1>6, <1>7, <1>8, <1>9

LEMMA EntryIds ==
    ASSUME Inv
    PROVE  \A i \in DOMAIN active_sessions : active_sessions[i].id \in Ids
<1>1. \A i \in DOMAIN active_sessions : active_sessions[i] \in Entries
  BY InvFacts, ElementOfSeq
<1> QED BY <1>1 DEF Entries

\* As long as the cursor is at the first entry, who is queued lies ahead.
LEMMA AllPendingInPoll ==
    ASSUME Inv, cursor = 1 PROVE \A v : Pending(v) <=> v \in Queued
<1>1. DOMAIN active_sessions = 1..Len(active_sessions)
      /\ Len(active_sessions) \in Nat
  BY DEF Inv, TypeOK
<1> QED BY <1>1 DEF Pending, Queued

-----------------------------------------------------------------------------
(* What a step does not touch *)

LEMMA JoinFrame ==
    ASSUME JoinCounters, Parents,
           UNCHANGED <<sessions, group, fns_left, joinOn, parent>>
    PROVE  JoinCounters' /\ Parents'
BY DEF JoinCounters, Parents

-----------------------------------------------------------------------------
(* poll *)

LEMMA PlanInPoll ==
    ASSUME Inv, WakeInv, Inv', NEW u \in Ids, NEW p \in Params,
           phase = "poll", PlanResume(u, p),
           UNCHANGED <<next_id, sessions, phase, cursor, running, wait,
                       joinVars, launcher, yielded>>,
           to_visit' \subseteq to_visit, stopping' \in {stopping, stopping \cup {u}},
           p = "none" => u \in stopping',
           \A v \in Ids \ {u} : armed'[v] = armed[v],
           armed'[u] \in {armed[u], armed[u] \ {"timer"}},
           u \in stopping' \ stopping => u <= next_id /\ to_visit # {}
    PROVE  WakeInv'
<1>1. /\ cursor = 1 /\ cursor' = 1 /\ running = NoId /\ running' = NoId
      /\ cursor' = cursor + 0
  BY DEF WakeInv, Turns
<1>2. QueueStep(0, {u} \ Queued, p)
  BY <1>1, PlanIsQueueStep
<1>3. /\ Queued' = Queued \cup {u}
      /\ \A v : Pending(v)' <=> v \in Queued'
      /\ \A v : Pending(v) <=> v \in Queued
      /\ cursor' <= Len(active_sessions') + 1
  BY <1>1, <1>2, QueueStepEffect, AllPendingInPoll DEF WakeInv, Turns
<1>4. Fresh'
  <2>1. \A v \in Ids : v > next_id => v \notin stopping'
    BY InvFacts DEF WakeInv, Fresh, Ids
  <2> QED BY <2>1 DEF WakeInv, Fresh, joinVars
<1>5. Turns'
  BY <1>1, <1>3 DEF WakeInv, Turns, joinVars, Ids, NoId
<1>6. Wakes'
  <2>1. Pending(u)'
    BY <1>3
  <2>2. \A v \in Ids : /\ Pending(v) => Pending(v)'
                       /\ "io" \in armed[v] => "io" \in armed'[v]
                       /\ "timer" \in armed[v] => "timer" \in armed'[v] \/ v = u
    BY <1>3
  <2>3. sessions' \subseteq Ids
    BY DEF Inv, TypeOK
  <2> QED BY <2>1, <2>2, <2>3 DEF WakeInv, Wakes, joinVars
<1>7. Stops'
  <2>1. \A v \in sessions : wait[v] # "run"
    BY <1>1 DEF WakeInv, Turns, Inv, TypeOK, Ids, NoId
  <2>2. u \in (stopping' \ stopping) \cap sessions => wait[u] # "start"
    BY DEF WakeInv, Turns
  <2> QED BY <1>3, <2>1, <2>2 DEF WakeInv, Stops
<1>8. JoinCounters' /\ Parents'
  BY JoinFrame DEF WakeInv, joinVars
<1>9. Stranded' /\ PassedParents'
  BY <1>3 DEF WakeInv, Stranded, PassedParents, Passed, joinVars
<1>10. NoLauncherJoins' /\ ParallelWaitsForAll'
  BY DEF WakeInv, NoLauncherJoins, ParallelWaitsForAll, joinVars
<1>11. JoinsPlanned'
  <2>1. /\ DOMAIN active_sessions' = 1..Len(active_sessions')
        /\ DOMAIN active_sessions = 1..Len(active_sessions)
        /\ Len(active_sessions) \in Nat /\ Len(active_sessions') \in Nat
        /\ \A i \in 1..Len(active_sessions) :
               active_sessions'[i] = active_sessions[i]
        /\ \A i \in Len(active_sessions) + 1..Len(active_sessions') :
               active_sessions'[i].id = u /\ active_sessions'[i].params = p
    BY <1>2 DEF QueueStep, Inv, TypeOK
  <2>2. \A i \in DOMAIN active_sessions' :
            \/ i \in DOMAIN active_sessions /\ active_sessions'[i] = active_sessions[i]
            \/ active_sessions'[i].id = u /\ active_sessions'[i].params = p
    BY <2>1
  <2> QED BY <2>2 DEF WakeInv, JoinsPlanned, joinVars
<1> QED BY <1>4, <1>5, <1>6, <1>7, <1>8, <1>9, <1>10, <1>11 DEF WakeInv

LEMMA CallbackWakes ==
    ASSUME Inv, WakeInv, Inv', NEW u \in Ids, NEW w \in Watchers,
           Callback(u, w) \/ StaleCallback(u, w)
    PROVE  WakeInv'
<1>0. PICK p \in Params \ {"none"} : PlanResume(u, p)
  BY DEF Callback, StaleCallback, ParamsOf, LeftParamsOf, Params
<1>1. /\ phase = "poll" /\ PlanResume(u, p) /\ p \in Params /\ p # "none"
      /\ UNCHANGED <<next_id, sessions, phase, cursor, running, wait, joinVars,
                     signalVars, yielded>>
  BY <1>0 DEF Callback, StaleCallback, Polling
<1>2. /\ \A v \in Ids \ {u} : armed'[v] = armed[v]
      /\ armed'[u] \in {armed[u], armed[u] \ {"timer"}}
  <2>1. CASE Callback(u, w)
    <3>1. AfterFiring(armed[u], w) \in {armed[u], armed[u] \ {"timer"}}
      BY DEF AfterFiring, Watchers
    <3> QED BY <2>1, <3>1 DEF Callback, Inv, TypeOK
  <2>2. CASE StaleCallback(u, w)
    BY <2>2 DEF StaleCallback
  <2> QED BY <2>1, <2>2
<1> QED BY <1>1, <1>2, PlanInPoll DEF signalVars

LEMMA VisitSessionWakes ==
    ASSUME Inv, WakeInv, Inv', NEW u \in Ids, VisitSession(u)
    PROVE  WakeInv'
<1>1. u \in to_visit /\ "none" \in Params
  BY DEF VisitSession, Params
<1>2. u <= next_id /\ to_visit # {}
  BY <1>1, InvFacts DEF Inv, OnlyRegistered
<1> QED BY <1>1, <1>2, PlanInPoll DEF VisitSession, StopSession

\* The steps that leave the queue, its cursor and the uthreads as they are.
LEMMA QuietWakes ==
    ASSUME Inv, WakeInv,
           UNCHANGED <<next_id, sessions, queueVars, cursor, running, wait,
                       armed, joinVars, launcher, yielded>>,
           phase' = "poll" => phase = "poll",
           phase' # "poll" => to_visit' = {},
           to_visit' # {} => \A v \in sessions : wait[v] # "start",
           \/ stopping' = stopping
           \/ launcher # NoId /\ stopping' = stopping \cup {launcher}
           \/ stopping' = stopping \ {launcher}
    PROVE  WakeInv'
<1>1. \A v : Queued' = Queued /\ (Pending(v)' <=> Pending(v))
  BY DEF Queued, Pending, queueVars
<1>2. Fresh'
  <2>1. \A v \in Ids : v > next_id => v \notin stopping'
    BY InvFacts DEF WakeInv, Fresh, Ids
  <2> QED BY <2>1 DEF WakeInv, Fresh, joinVars
<1>3. Turns'
  BY <1>1 DEF WakeInv, Turns, Passed, joinVars, queueVars
<1>4. Wakes'
  BY <1>1 DEF WakeInv, Wakes, joinVars
<1>5. Stops'
  BY <1>1 DEF WakeInv, Stops
<1>6. JoinCounters' /\ Parents'
  BY JoinFrame DEF WakeInv, joinVars
<1>7. Stranded' /\ PassedParents'
  BY <1>1 DEF WakeInv, Stranded, PassedParents, Passed, joinVars
<1>8. NoLauncherJoins'
  BY DEF WakeInv, NoLauncherJoins, joinVars
<1>9. ParallelWaitsForAll'
  <2>1. \A v \in sessions : group[v] # NoId /\ parent[v] \in stopping
                            => parent[v] \in stopping'
    BY DEF WakeInv, NoLauncherJoins, Inv, TypeOK, OnlyRegistered, IdsOrNone, Ids
  <2> QED BY <2>1 DEF WakeInv, ParallelWaitsForAll, joinVars
<1>10. JoinsPlanned'
  <2>1. \A v \in Ids : joinOn[v] # NoId /\ v \in stopping => v \in stopping'
    BY DEF WakeInv, NoLauncherJoins, Ids, NoId
  <2>2. \A i \in DOMAIN active_sessions : active_sessions[i].id \in Ids
    BY EntryIds
  <2> QED BY <2>1, <2>2 DEF WakeInv, JoinsPlanned, joinVars, queueVars
<1> QED BY <1>2, <1>3, <1>4, <1>5, <1>6, <1>7, <1>8, <1>9, <1>10 DEF WakeInv

LEMMA SigintWakes == ASSUME Inv, WakeInv, Sigint PROVE WakeInv'
<1>1. \A v \in sessions : wait[v] # "start"
  BY DEF Sigint, Pending, WakeInv, Wakes
<1> QED BY <1>1, QuietWakes DEF Sigint, Polling, ShutDownRegistered

LEMMA BeginPassWakes == ASSUME Inv, WakeInv, BeginPass PROVE WakeInv'
<1>1. cursor = 1
  BY DEF BeginPass, Polling, WakeInv, Turns
<1> QED BY <1>1, QuietWakes DEF BeginPass, Polling, signalVars

LEMMA RunningQuietWakes ==
    ASSUME Inv, WakeInv, NEW u \in Ids,
           ResumeAsserts(u) \/ NextPhase(u) \/ StopLoop(u) \/ Fail(u)
    PROVE  WakeInv'
<1>1. phase = "pass" /\ to_visit = {}
  BY DEF ResumeAsserts, NextPhase, StopLoop, Fail, Running, Resumable, AtEntry,
         WakeInv, Turns
<1>2. CASE ResumeAsserts(u)
  BY <1>1, <1>2, QuietWakes DEF ResumeAsserts, signalVars
<1>3. CASE NextPhase(u)
  BY <1>1, <1>3, QuietWakes DEF NextPhase
<1>4. CASE StopLoop(u) \/ Fail(u)
  BY <1>1, <1>4, QuietWakes DEF StopLoop, Fail, signalVars
<1> QED BY <1>2, <1>3, <1>4

-----------------------------------------------------------------------------
(* The pass *)

\* What holds at the entry that the pass has come to.
LEMMA AtEntryFacts ==
    ASSUME Inv, WakeInv, AtEntry
    PROVE  /\ phase = "pass" /\ running = NoId /\ to_visit = {}
           /\ cursor \in DOMAIN active_sessions /\ Entry = active_sessions[cursor]
           /\ Entry.id \in Ids /\ Entry.id <= next_id /\ Pending(Entry.id)
<1>1. /\ cursor \in Nat \ {0} /\ active_sessions \in Seq(Entries)
      /\ cursor <= Len(active_sessions)
  BY DEF AtEntry, Inv, TypeOK
<1>2. cursor \in DOMAIN active_sessions /\ Entry = active_sessions[cursor]
  BY <1>1 DEF Entry
<1>3. Entry \in Entries
  BY <1>1, <1>2, ElementOfSeq
<1>4. Pending(Entry.id) /\ Entry.id \in Queued
  BY <1>1, <1>2 DEF Pending, Queued
<1>5. Entry.id <= next_id
  BY <1>4, InvFacts DEF QueueMatchesIds
<1> QED BY <1>2, <1>3, <1>4, <1>5 DEF AtEntry, Entries, WakeInv, Turns

LEMMA MovesPastEntry ==
    ASSUME Inv, WakeInv, AtEntry, cursor' = cursor + 1, UNCHANGED queueVars,
           NEW e, Entry.id = e
    PROVE  /\ Queued' = Queued /\ cursor' <= Len(active_sessions') + 1
           /\ \A v : Pending(v)' <=> Pending(v) /\ v # e
           /\ \A v : Passed(v) => Passed(v)' /\ v # e
           /\ \A v : Passed(v)' => Passed(v) \/ v = e
           /\ Passed(e)'
           /\ active_sessions' = active_sessions
           /\ \A i \in DOMAIN active_sessions : i >= cursor' => i >= cursor
<1>1. QueueStep(1, {}, "none") /\ cursor <= Len(active_sessions)
  BY QuietIsQueueStep DEF AtEntry, queueVars
<1>2. /\ Queued' = Queued /\ cursor' <= Len(active_sessions') + 1
      /\ \A v : Pending(v)' <=> Pending(v) /\ v # e
      /\ e \in Queued
  BY <1>1, QueueStepEffect DEF WakeInv, Turns
<1>3. \A i \in DOMAIN active_sessions : i >= cursor' => i >= cursor
  <2>1. DOMAIN active_sessions = 1..Len(active_sessions) /\ cursor \in Nat
        /\ Len(active_sessions) \in Nat
    BY DEF Inv, TypeOK
  <2> QED BY <2>1
<1>4. Pending(e)
  BY AtEntryFacts
<1> QED BY <1>2, <1>3, <1>4 DEF Passed, queueVars

LEMMA MovePastWakes ==
    ASSUME Inv, WakeInv, AtEntry, cursor' = cursor + 1, UNCHANGED queueVars,
           NEW e, Entry.id = e,
           \/ e \notin sessions
           \/ wait[e] = "recv" /\ e \notin stopping,
           UNCHANGED <<next_id, sessions, phase, running, wait, armed,
                       joinVars, signalVars, yielded>>
    PROVE  WakeInv'
<1>1. /\ Queued' = Queued /\ cursor' <= Len(active_sessions') + 1
      /\ \A v : Pending(v)' <=> Pending(v) /\ v # e
      /\ \A v : Passed(v) => Passed(v)' /\ v # e
      /\ \A v : Passed(v)' => Passed(v) \/ v = e
      /\ active_sessions' = active_sessions
      /\ \A i \in DOMAIN active_sessions : i >= cursor' => i >= cursor
  BY MovesPastEntry
<1>2. Fresh'
  BY DEF WakeInv, Fresh, joinVars, signalVars
<1>3. Turns'
  BY <1>1, AtEntryFacts DEF WakeInv, Turns, joinVars, signalVars
<1>4. Wakes'
  BY <1>1 DEF WakeInv, Wakes, joinVars
<1>5. Stops'
  BY <1>1 DEF WakeInv, Stops, signalVars
<1>6. JoinCounters' /\ Parents'
  BY JoinFrame DEF WakeInv, joinVars
<1>7. Stranded'
  BY <1>1 DEF WakeInv, Stranded, joinVars
<1>8. PassedParents'
  BY <1>1 DEF WakeInv, PassedParents, joinVars
<1>9. NoLauncherJoins' /\ ParallelWaitsForAll'
  BY DEF WakeInv, NoLauncherJoins, ParallelWaitsForAll, joinVars, signalVars
<1>10. JoinsPlanned'
  BY <1>1 DEF WakeInv, JoinsPlanned, joinVars, signalVars
<1> QED BY <1>2, <1>3, <1>4, <1>5, <1>6, <1>7, <1>8, <1>9, <1>10 DEF WakeInv

LEMMA PassOnWakes ==
    ASSUME Inv, WakeInv, SkipAbsent \/ \E u \in Ids : ReceiveMore(u)
    PROVE  WakeInv'
<1>1. CASE SkipAbsent
  <2> DEFINE e == Entry.id
  <2>1. \E x : x = e
    OBVIOUS
  <2>2. PICK x : x = Entry.id
    BY <2>1
  <2> QED BY <1>1, <2>2, MovePastWakes DEF SkipAbsent
<1>2. ASSUME NEW u \in Ids, ReceiveMore(u) PROVE WakeInv'
  BY <1>2, MovePastWakes DEF ReceiveMore, Resumable, StopRaised
<1> QED BY <1>1, <1>2

LEMMA EndPassWakes == ASSUME Inv, WakeInv, EndPass PROVE WakeInv'
<1>1. /\ cursor' = 1 /\ active_sessions' = <<>> /\ phase = "pass"
      /\ running = NoId /\ to_visit = {} /\ phase' \in {"exited", "poll"}
      /\ UNCHANGED <<next_id, sessions, running, wait, armed, joinVars,
                     signalVars, yielded>>
  BY DEF EndPass, ResetActive, WakeInv, Turns
<1>2. \A v : ~Pending(v)
  BY DEF EndPass, PassOver, Pending, Inv, TypeOK
<1>3. \A v : ~Pending(v)' /\ v \notin Queued' /\ ~Passed(v)'
  BY <1>1 DEF Pending, Queued, Passed
<1>4. Fresh'
  BY <1>1 DEF WakeInv, Fresh, joinVars, signalVars
<1>5. Turns'
  <2>1. Len(active_sessions') = 0
    BY <1>1
  <2> QED BY <1>1, <2>1 DEF WakeInv, Turns, joinVars, signalVars, Ids, NoId
<1>6. Wakes' /\ Stops'
  BY <1>1, <1>2 DEF WakeInv, Wakes, Stops, joinVars, signalVars
<1>7. JoinCounters' /\ Parents'
  BY <1>1, JoinFrame DEF WakeInv, joinVars
<1>8. Stranded' /\ PassedParents'
  BY <1>1, <1>2, <1>3 DEF WakeInv, Stranded, PassedParents, joinVars
<1>9. NoLauncherJoins' /\ ParallelWaitsForAll'
  BY <1>1 DEF WakeInv, NoLauncherJoins, ParallelWaitsForAll, joinVars, signalVars
<1>10. JoinsPlanned'
  BY <1>1 DEF JoinsPlanned
<1> QED BY <1>4, <1>5, <1>6, <1>7, <1>8, <1>9, <1>10 DEF WakeInv

\* A counter at zero: no function of the call is left.
LEMMA ZeroMeansEnded ==
    ASSUME Inv, JoinCounters, NEW g \in Ids
    PROVE  /\ fns_left[g] \in Nat
           /\ fns_left[g] = 0 => \A v \in sessions : group[v] # g
           /\ \A v \in sessions : group[v] = g => fns_left[g] > 0
<1> DEFINE S == {v \in sessions : group[v] = g}
<1>1. IsFiniteSet(S)
  <2>1. IsFiniteSet(Ids)
    BY FS_Interval DEF Ids
  <2>2. S \subseteq Ids
    BY DEF Inv, TypeOK
  <2> QED BY <2>1, <2>2, FS_Subset
<1>2. fns_left[g] = Cardinality(S)
  BY DEF JoinCounters
<1>3. Cardinality(S) \in Nat /\ (Cardinality(S) = 0 <=> S = {})
  BY <1>1, FS_CardinalityType, FS_EmptySet
<1>4. \A v \in sessions : group[v] = g => v \in S
  OBVIOUS
<1> HIDE DEF S
<1> QED BY <1>2, <1>3, <1>4

LEMMA ResumeWakes ==
    ASSUME Inv, WakeInv, NEW u \in Ids, Resume(u)
    PROVE  WakeInv'
<1>1. /\ AtEntry /\ cursor' = cursor + 1 /\ Entry.id = u /\ u \in sessions
      /\ running' = u /\ wait' = [wait EXCEPT ![u] = "run"]
      /\ armed' = [armed EXCEPT ![u] = {}]
      /\ joinOn' = [joinOn EXCEPT ![u] = NoId]
      /\ cut_short' = (cut_short \/ CutsShort(u))
      /\ StopRaised(u) => CatchesStop(u)
      /\ UNCHANGED <<next_id, sessions, queueVars, phase, parent, group, owner,
                     fns_left, signalVars, yielded>>
  BY DEF Resume, Resumable
<1>2. /\ Queued' = Queued /\ cursor' <= Len(active_sessions') + 1
      /\ \A v : Pending(v)' <=> Pending(v) /\ v # u
      /\ \A v : Passed(v) => Passed(v)' /\ v # u
      /\ \A v : Passed(v)' => Passed(v) \/ v = u
      /\ Passed(u)'
      /\ active_sessions' = active_sessions
      /\ \A i \in DOMAIN active_sessions : i >= cursor' => i >= cursor
  BY <1>1, MovesPastEntry
<1>3. /\ phase = "pass" /\ running = NoId /\ to_visit = {}
      /\ cursor \in DOMAIN active_sessions /\ Entry = active_sessions[cursor]
      /\ u # NoId
  BY <1>1, AtEntryFacts DEF Ids, NoId
<1>4. /\ wait \in [Ids -> Waits] /\ joinOn \in [Ids -> IdsOrNone]
      /\ armed \in [Ids -> SUBSET Marks] /\ sessions \subseteq Ids
      /\ \A v \in Ids : /\ wait'[v] = IF v = u THEN "run" ELSE wait[v]
                        /\ joinOn'[v] = IF v = u THEN NoId ELSE joinOn[v]
                        /\ v # u => armed'[v] = armed[v]
  BY <1>1 DEF Inv, TypeOK
<1>5. Fresh'
  <2>1. u <= next_id /\ next_id \in Nat
    BY <1>1, AtEntryFacts, InvFacts
  <2>2. 0 \in 0..next_id
    BY <2>1
  <2> QED BY <1>1, <1>4, <2>1, <2>2 DEF WakeInv, Fresh, signalVars, NoId, Ids
<1>6. Turns'
  BY <1>1, <1>2, <1>3, <1>4 DEF WakeInv, Turns, signalVars, Ids, NoId
<1>7. Wakes'
  BY <1>1, <1>2, <1>4 DEF WakeInv, Wakes
<1>8. Stops'
  <2>1. u \in stopping => u = launcher
    BY <1>1 DEF WakeInv, Stops, StopRaised, CatchesStop
  <2> QED BY <1>1, <1>2, <1>4, <2>1 DEF WakeInv, Stops, signalVars
<1>9. JoinCounters'
  BY <1>1 DEF WakeInv, JoinCounters
<1>10. Parents'
  BY <1>1, <1>4 DEF WakeInv, Parents
<1>11. Stranded'
  BY <1>1, <1>2, <1>4 DEF WakeInv, Stranded
<1>12. PassedParents'
  BY <1>1, <1>2, <1>4 DEF WakeInv, PassedParents
<1>13. NoLauncherJoins'
  BY <1>1, <1>4 DEF WakeInv, NoLauncherJoins, signalVars, Inv, TypeOK, IdsOrNone
<1>14. ParallelWaitsForAll'
  <2> SUFFICES ASSUME ~cut_short', NEW v \in sessions, group[v] # NoId
               PROVE  \/ wait'[parent[v]] = "join" /\ joinOn'[parent[v]] = group[v]
                      \/ parent[v] \in stopping
    BY <1>1 DEF ParallelWaitsForAll, signalVars
  <2>1. ~cut_short /\ ~CutsShort(u)
    BY <1>1 DEF Inv, TypeOK
  <2>2. \/ wait[parent[v]] = "join" /\ joinOn[parent[v]] = group[v]
        \/ parent[v] \in stopping
    BY <2>1 DEF WakeInv, ParallelWaitsForAll
  <2>3. parent[v] \in Ids /\ group[v] \in Ids
    BY <1>4 DEF Inv, TypeOK, OnlyRegistered, IdsOrNone
  <2>4. CASE parent[v] # u
    BY <1>4, <2>2, <2>3, <2>4
  <2>5. CASE parent[v] = u /\ joinOn[u] = group[v]
    <3>1. active_sessions[cursor].params = "none"
      BY <1>3, <2>1, <2>5 DEF CutsShort
    <3>2. fns_left[joinOn[u]] = 0 \/ u \in stopping
      <4>1. active_sessions[cursor].id = u /\ joinOn[u] # NoId
            /\ cursor \in DOMAIN active_sessions
        BY <1>1, <1>3, <2>5
      <4>2. cursor >= cursor
        BY DEF Inv, TypeOK
      <4> QED BY <2>1, <3>1, <4>1, <4>2 DEF WakeInv, JoinsPlanned
    <3>3. fns_left[group[v]] # 0
      BY <2>3, ZeroMeansEnded DEF WakeInv
    <3> QED BY <2>5, <3>2, <3>3
  <2> QED BY <2>2, <2>4, <2>5
<1>15. JoinsPlanned'
  <2>1. ~cut_short' => ~cut_short
    BY <1>1
  <2> QED BY <1>1, <1>2, <1>4, <2>1, EntryIds DEF WakeInv, JoinsPlanned, signalVars
<1> QED BY <1>5, <1>6, <1>7, <1>8, <1>9, <1>10, <1>11, <1>12, <1>13, <1>14,
           <1>15 DEF WakeInv

-----------------------------------------------------------------------------
(* The script of the running uthread *)

LEMMA RunningFacts ==
    ASSUME Inv, WakeInv, NEW u \in Ids, Running(u)
    PROVE  /\ phase = "pass" /\ to_visit = {} /\ running = u /\ u # NoId
           /\ u \in sessions /\ u <= next_id /\ wait[u] = "run"
           /\ Passed(u) /\ u \in Queued /\ ~Pending(u) /\ u \in active_sessions_ids
           /\ joinOn[u] = NoId /\ (u \in stopping => u = launcher)
<1>1. phase = "pass" /\ running = u /\ u # NoId /\ to_visit = {}
  BY DEF Running, Ids, NoId, WakeInv, Turns
<1>2. u \in sessions /\ Passed(u) /\ wait[u] = "run" /\ joinOn[u] = NoId
  BY <1>1 DEF WakeInv, Turns
<1>3. u \in Queued /\ ~Pending(u) /\ u \in active_sessions_ids
  BY <1>2 DEF Passed, Inv, QueueMatchesIds
<1>4. u \in stopping => u = launcher
  BY <1>2 DEF WakeInv, Stops
<1>5. u <= next_id
  BY RunningRegistered, InvFacts
<1> QED BY <1>1, <1>2, <1>3, <1>4, <1>5

LEMMA QueueStepEntries ==
    ASSUME Inv, NEW k \in Nat, NEW add, NEW p, QueueStep(k, add, p)
    PROVE  \A i \in DOMAIN active_sessions' :
               \/ /\ i \in DOMAIN active_sessions
                  /\ active_sessions'[i] = active_sessions[i]
                  /\ i >= cursor' => i >= cursor
               \/ active_sessions'[i].id \in add /\ active_sessions'[i].params = p
<1>1. /\ DOMAIN active_sessions = 1..Len(active_sessions)
      /\ Len(active_sessions) \in Nat /\ cursor \in Nat
  BY DEF Inv, TypeOK
<1>2. /\ DOMAIN active_sessions' = 1..Len(active_sessions')
      /\ Len(active_sessions') \in Nat /\ cursor' = cursor + k
      /\ Len(active_sessions) <= Len(active_sessions')
      /\ \A i \in 1..Len(active_sessions) :
             active_sessions'[i] = active_sessions[i]
      /\ \A i \in Len(active_sessions) + 1..Len(active_sessions') :
             active_sessions'[i].id \in add /\ active_sessions'[i].params = p
  BY DEF QueueStep
<1> QED BY <1>1, <1>2

\* A yield that plans nothing: the queue is as it was.
LEMMA YieldWakes ==
    ASSUME Inv, WakeInv, NEW u \in Ids, Running(u), running' = NoId,
           NEW call \in {"sleep", "io", "recv", "accept", "coop"},
           wait' = [wait EXCEPT ![u] = call],
           \A v \in Ids \ {u} : armed'[v] = armed[v],
           call \in {"io", "recv", "accept"} => "io" \in armed'[u],
           call = "sleep" => "timer" \in armed'[u],
           yielded' = yielded \cup {u},
           UNCHANGED <<next_id, sessions, queueVars, phase, cursor, joinVars,
                       signalVars>>
    PROVE  WakeInv'
<1>1. /\ Queued' = Queued /\ \A v : Pending(v)' <=> Pending(v)
      /\ \A v : Passed(v)' <=> Passed(v)
      /\ active_sessions' = active_sessions
  BY DEF Queued, Pending, Passed, queueVars
<1>2. /\ wait \in [Ids -> Waits] /\ sessions \subseteq Ids
      /\ \A v \in Ids : wait'[v] = IF v = u THEN call ELSE wait[v]
  BY DEF Inv, TypeOK
<1>3. /\ phase = "pass" /\ running = u /\ u # NoId /\ u \in sessions
      /\ u <= next_id /\ Passed(u) /\ joinOn[u] = NoId /\ to_visit = {}
      /\ u \in stopping => u = launcher
  BY RunningFacts
<1>4. Fresh'
  BY <1>2, <1>3, InvFacts DEF WakeInv, Fresh, joinVars, signalVars, Ids
<1>5. Turns'
  BY <1>1, <1>2, <1>3 DEF WakeInv, Turns, joinVars, signalVars, Ids, NoId
<1>6. Wakes'
  BY <1>1, <1>2 DEF WakeInv, Wakes, joinVars
<1>7. Stops'
  BY <1>1, <1>2, <1>3 DEF WakeInv, Stops, signalVars
<1>8. JoinCounters' /\ Parents'
  BY JoinFrame DEF WakeInv, joinVars
<1>9. Stranded'
  <2>1. group[u] \in Ids => fns_left[group[u]] > 0
    BY <1>3, ZeroMeansEnded DEF WakeInv
  <2>2. group[u] # NoId => group[u] \in Ids
    BY DEF Inv, TypeOK, IdsOrNone
  <2> QED BY <1>1, <1>2, <2>1, <2>2 DEF WakeInv, Stranded, joinVars
<1>10. PassedParents'
  BY <1>1, <1>2, <1>3 DEF WakeInv, PassedParents, joinVars, Ids, NoId
<1>11. NoLauncherJoins' /\ JoinsPlanned'
  BY <1>1 DEF WakeInv, NoLauncherJoins, JoinsPlanned, joinVars, signalVars, queueVars
<1>12. ParallelWaitsForAll'
  <2>1. \A v \in sessions : group[v] # NoId => parent[v] \in Ids
    BY <1>2 DEF Inv, TypeOK, OnlyRegistered, IdsOrNone
  <2> QED BY <1>2, <1>3, <2>1 DEF WakeInv, ParallelWaitsForAll, joinVars, signalVars
<1> QED BY <1>4, <1>5, <1>6, <1>7, <1>8, <1>9, <1>10, <1>11, <1>12 DEF WakeInv

LEMMA AwaitWakes == ASSUME Inv, WakeInv, NEW u \in Ids, Await(u) PROVE WakeInv'
<1>1. /\ Running(u)
      /\ UNCHANGED <<next_id, sessions, queueVars, phase, cursor, joinVars,
                     signalVars>>
  BY DEF Await
<1>2. PICK call \in {"sleep", "io", "recv", "accept"}, ws \in SUBSET Watchers :
          /\ Yield(u, call, ws)
          /\ call \in {"io", "recv", "accept"} => "io" \in ws
          /\ call = "sleep" => "timer" \in ws
  BY DEF Await, Watchers
<1>3. /\ running' = NoId /\ wait' = [wait EXCEPT ![u] = call]
      /\ yielded' = yielded \cup {u} /\ armed'[u] = ws
      /\ \A v \in Ids \ {u} : armed'[v] = armed[v]
  BY <1>2 DEF Yield, Inv, TypeOK
<1> QED BY <1>1, <1>2, <1>3, YieldWakes

LEMMA CooperateWakes ==
    ASSUME Inv, WakeInv, NEW u \in Ids, Cooperate(u) PROVE WakeInv'
<1>1. Running(u) /\ UNCHANGED queueVars
  BY RunningFacts DEF Cooperate, PlanResume
<1> QED BY <1>1, YieldWakes DEF Cooperate

LEMMA SpawnWakes ==
    ASSUME Inv, WakeInv, NEW u \in Ids, Spawn(u)
    PROVE  WakeInv'
<1>0. next_id \in Nat /\ next_id \in Ids /\ next_id + 1 \in Ids
  BY InvFacts DEF Spawn, Ids
<1>x. PICK x \in Ids : x = next_id + 1
  BY <1>0
<1>1. /\ Running(u) /\ RegisterAndPlan(1) /\ wait' = [wait EXCEPT ![x] = "start"]
      /\ \/ launcher' = launcher
         \/ launcher = NoId /\ launcher' = x
      /\ UNCHANGED <<phase, cursor, running, armed, stale, joinVars, stopping,
                     interrupted, to_visit, loop_done, yielded>>
  BY <1>x DEF Spawn, SpawnsSession, InitLauncher, ShutDownRegistered
<1>2. x \in Ids /\ x = next_id + 1 /\ next_id \in Nat /\ NewIds(1) = {x}
      /\ x # NoId /\ next_id \in Ids
  BY <1>0, <1>x DEF Ids, NewIds, NoId
<1>3. QueueStep(0, {x}, "none") /\ sessions' = sessions \cup {x} /\ next_id' = x
  <2>1. cursor' = cursor
    BY <1>1
  <2>2. 1 \in Nat /\ next_id + 1 \in Ids
    BY <1>0
  <2> QED BY <1>1, <1>2, <2>1, <2>2, RegisterIsQueueStep DEF RegisterAndPlan
<1>4. /\ Queued' = Queued \cup {x} /\ Pending(x)'
      /\ \A v : v # x => (Pending(v)' <=> Pending(v))
      /\ cursor' <= Len(active_sessions') + 1
      /\ x \notin Queued
  <2>1. cursor <= Len(active_sessions) + 1
    BY DEF WakeInv, Turns
  <2>2. x \notin Queued
    BY <1>3 DEF QueueStep
  <2>3. /\ Queued' = Queued \cup {x} /\ \A v \in {x} : Pending(v)'
        /\ \A v : v \notin {x} => (Pending(v)' <=> Pending(v))
        /\ cursor' <= Len(active_sessions') + 1
    BY <1>3, <2>1, QueueStepEffect
  <2> QED BY <2>2, <2>3
<1>5. /\ \A v : v # x => (Passed(v)' <=> Passed(v))
      /\ ~Passed(x)
  BY <1>4 DEF Passed
<1>6. /\ wait \in [Ids -> Waits] /\ sessions \subseteq Ids
      /\ \A v \in Ids : wait'[v] = IF v = x THEN "start" ELSE wait[v]
      /\ \A v \in sessions : v <= next_id /\ v # x
  BY <1>1, <1>2 DEF Inv, TypeOK, OnlyRegistered
<1>7. /\ phase = "pass" /\ running = u /\ u # NoId /\ u \in sessions
      /\ u <= next_id /\ Passed(u) /\ to_visit = {} /\ u # x
  BY <1>1, <1>6, RunningFacts
<1>8. /\ group[x] = NoId /\ joinOn[x] = NoId /\ x \notin stopping
      /\ x \notin yielded /\ wait[x] = "none"
  <2>1. x > next_id
    BY <1>2
  <2> QED BY <1>2, <2>1 DEF WakeInv, Fresh, Turns
<1>9. Fresh'
  <2>1. 0..next_id \subseteq 0..x /\ x \in 0..x
        /\ \A v \in Ids : v > x => v > next_id /\ v # x
    BY <1>2 DEF Ids
  <2>2. launcher' \in 0..x
    BY <1>1, <2>1 DEF WakeInv, Fresh
  <2> QED BY <1>1, <1>3, <1>6, <2>1, <2>2 DEF WakeInv, Fresh, joinVars
<1>10. Turns'
  <2>1. \A v \in Ids : running' = v => v \in sessions' /\ Passed(v)'
    BY <1>1, <1>3, <1>5, <1>7
  <2>2. \A v \in sessions' : /\ wait'[v] # "none"
                             /\ wait'[v] = "run" <=> running' = v
    BY <1>1, <1>2, <1>3, <1>6, <1>7 DEF WakeInv, Turns
  <2>3. \A v \in Ids : wait'[v] # "join" => joinOn'[v] = NoId
    BY <1>1, <1>6, <1>8 DEF WakeInv, Turns, joinVars
  <2> QED BY <1>1, <1>4, <1>7, <2>1, <2>2, <2>3 DEF Turns
<1>11. Wakes'
  <2>1. \A v \in sessions : owner[v] \in Ids /\ owner[v] # x
    <3>1. \A v \in sessions : owner[v] \in Ids /\ owner[v] <= v
      BY <1>6 DEF WakeInv, Fresh, Inv, TypeOK
    <3>2. \A v, w \in Ids : w <= v /\ v <= next_id => w # x
      BY <1>2 DEF Ids
    <3> QED BY <1>6, <3>1, <3>2
  <2>2. \A v \in sessions :
            /\ wait'[v] = wait[v] /\ (Pending(v)' <=> Pending(v))
            /\ armed'[v] = armed[v] /\ owner'[v] = owner[v]
            /\ owner'[v] \in sessions' => owner[v] \in sessions
    BY <1>1, <1>3, <1>4, <1>6, <2>1 DEF joinVars
  <2>3. wait'[x] = "start" /\ Pending(x)'
    BY <1>4, <1>6
  <2> QED BY <1>3, <2>2, <2>3 DEF WakeInv, Wakes
<1>12. Stops'
  BY <1>1, <1>3, <1>4, <1>6, <1>7, <1>8 DEF WakeInv, Stops, NoId, Ids
<1>13. JoinCounters'
  <2>1. \A g \in Ids : {v \in sessions' : group'[v] = g}
                       = {v \in sessions : group[v] = g}
    BY <1>1, <1>3, <1>8 DEF joinVars, Ids, NoId
  <2> QED BY <1>1, <2>1 DEF WakeInv, JoinCounters, joinVars
<1>14. Parents'
  BY <1>1 DEF WakeInv, Parents, joinVars
<1>15. Stranded' /\ PassedParents'
  BY <1>1, <1>2, <1>3, <1>4, <1>5, <1>6, <1>8
     DEF WakeInv, Stranded, PassedParents, joinVars
<1>16. NoLauncherJoins'
  <2>1. \A v \in Ids : parent[v] # x
    BY <1>2 DEF Inv, TypeOK, OnlyRegistered, IdsOrNone, Ids, NoId
  <2> QED BY <1>1, <1>8, <2>1 DEF WakeInv, NoLauncherJoins, joinVars
<1>17. ParallelWaitsForAll'
  <2>1. \A v \in sessions : group[v] # NoId => parent[v] \in Ids /\ parent[v] # x
    <3>1. \A v \in sessions : /\ group[v] # NoId => parent[v] \in Ids
                              /\ parent[v] <= next_id
      BY <1>6 DEF Inv, TypeOK, OnlyRegistered, IdsOrNone
    <3> QED BY <1>2, <3>1 DEF Ids
  <2> QED BY <1>1, <1>3, <1>6, <1>8, <2>1
          DEF WakeInv, ParallelWaitsForAll, joinVars
<1>18. JoinsPlanned'
  <2>1. \A i \in DOMAIN active_sessions' :
            \/ /\ i \in DOMAIN active_sessions
               /\ active_sessions'[i] = active_sessions[i]
               /\ i >= cursor' => i >= cursor
            \/ active_sessions'[i].id = x
    BY <1>3, QueueStepEntries
  <2> QED BY <1>1, <1>8, <2>1 DEF WakeInv, JoinsPlanned, joinVars
<1> QED BY <1>9, <1>10, <1>11, <1>12, <1>13, <1>14, <1>15, <1>16, <1>17, <1>18
        DEF WakeInv

LEMMA ParallelWakes ==
    ASSUME Inv, WakeInv, NEW u \in Ids, Parallel(u)
    PROVE  WakeInv'
<1>1. PICK n \in 0..MaxFuns :
        /\ next_id + n <= MaxId
        /\ RegisterAndPlan(n)
        /\ wait' = [v \in Ids |-> IF v \in NewIds(n) THEN "start"
                                  ELSE IF v = u THEN "join" ELSE wait[v]]
        /\ parent' = [v \in Ids |-> IF v \in NewIds(n) THEN u ELSE parent[v]]
        /\ owner' = [v \in Ids |-> IF v \in NewIds(n) THEN owner[u]
                                   ELSE owner[v]]
        /\ group' = [v \in Ids |-> IF v \in NewIds(n) THEN next_id + 1
                                   ELSE group[v]]
        /\ IF n = 0
           THEN UNCHANGED <<joinOn, fns_left>>
           ELSE /\ joinOn' = [joinOn EXCEPT ![u] = next_id + 1]
                /\ fns_left' = [fns_left EXCEPT ![next_id + 1] = n]
  BY DEF Parallel
<1>2. /\ running' = NoId /\ yielded' = yielded \cup {u} /\ Running(u)
      /\ u # launcher /\ cursor' = cursor
      /\ UNCHANGED <<phase, cursor, armed, stale, cut_short, signalVars,
                     loop_done>>
  BY DEF Parallel, Plain
<1>3. PICK N, g : N = NewIds(n) /\ g = next_id + 1
  OBVIOUS
<1>4. /\ n \in Nat /\ next_id \in Nat /\ next_id \in Ids /\ next_id + n \in Ids
      /\ g = next_id + 1 /\ N \subseteq Ids /\ \A v \in N : v > next_id /\ v >= g
      /\ n = 0 <=> N = {}
      /\ n # 0 => g \in Ids
      /\ \A v \in Ids : v <= next_id => v \notin N
      /\ \A v \in Ids : v > next_id + n => v \notin N /\ v > next_id
  BY <1>1, <1>3, InvFacts DEF NewIds, Ids
<1>5. /\ QueueStep(0, N, "none") /\ sessions' = sessions \cup N
      /\ next_id' = next_id + n
  BY <1>1, <1>2, <1>3, <1>4, RegisterIsQueueStep DEF RegisterAndPlan
<1>6. /\ Queued' = Queued \cup N /\ \A v \in N : Pending(v)'
      /\ \A v : v \notin N => (Pending(v)' <=> Pending(v))
      /\ cursor' <= Len(active_sessions') + 1
      /\ \A v : Pending(v) => v \in Queued
  <2>1. cursor <= Len(active_sessions) + 1
    BY DEF WakeInv, Turns
  <2> QED BY <1>5, <2>1, QueueStepEffect
<1>7. \A v : v \notin N => (Passed(v)' <=> Passed(v))
  BY <1>6 DEF Passed
<1>8. /\ wait \in [Ids -> Waits] /\ sessions \subseteq Ids
      /\ parent \in [Ids -> IdsOrNone] /\ group \in [Ids -> IdsOrNone]
      /\ joinOn \in [Ids -> IdsOrNone] /\ owner \in [Ids -> Ids]
      /\ fns_left \in [Ids -> Int]
      /\ \A v \in sessions : v <= next_id /\ v \notin N
  <2>1. sessions \subseteq Ids /\ \A v \in sessions : v <= next_id
    BY <1>4 DEF Inv, TypeOK, OnlyRegistered
  <2>2. \A v \in sessions : v \notin N
    BY <1>4, <2>1
  <2> QED BY <2>1, <2>2 DEF Inv, TypeOK
<1>9. \A v \in Ids :
          /\ wait'[v] = IF v \in N THEN "start" ELSE IF v = u THEN "join" ELSE wait[v]
          /\ parent'[v] = IF v \in N THEN u ELSE parent[v]
          /\ owner'[v] = IF v \in N THEN owner[u] ELSE owner[v]
          /\ group'[v] = IF v \in N THEN g ELSE group[v]
          /\ joinOn'[v] = IF v = u /\ n # 0 THEN g ELSE joinOn[v]
          /\ fns_left'[v] = IF v = g /\ n # 0 THEN n ELSE fns_left[v]
  BY <1>1, <1>3, <1>4, <1>8
<1>10. /\ phase = "pass" /\ running = u /\ u # NoId /\ u \in sessions
       /\ u <= next_id /\ Passed(u) /\ to_visit = {} /\ u \notin N
       /\ wait[u] = "run" /\ joinOn[u] = NoId /\ ~Pending(u)
       /\ u \notin stopping
  BY <1>2, <1>8, RunningFacts
<1>11. \A v \in N : /\ group[v] = NoId /\ joinOn[v] = NoId /\ v \notin stopping
                    /\ v \notin yielded /\ wait[v] = "none" /\ v # u
  BY <1>4, <1>10 DEF WakeInv, Fresh, Turns
<1>12. \A v \in Ids : /\ group[v] \in 0..next_id /\ group[v] # g
                      /\ joinOn[v] \in 0..next_id /\ joinOn[v] # g
  <2>1. \A v \in Ids : group[v] \in 0..next_id /\ joinOn[v] \in 0..next_id
    BY DEF WakeInv, Fresh
  <2>2. g \notin 0..next_id
    BY <1>4
  <2> QED BY <2>1, <2>2
<1>13. Fresh'
  <2>1. /\ \A h \in 0..next_id : h \in 0..next_id + n
        /\ n # 0 => g \in 0..next_id + n
    BY <1>4
  <2>2. /\ \A v \in Ids : group'[v] \in 0..next_id' /\ joinOn'[v] \in 0..next_id'
        /\ launcher' \in 0..next_id'
    BY <1>2, <1>4, <1>5, <1>9, <1>12, <2>1 DEF WakeInv, Fresh, signalVars
  <2>3. \A v \in Ids : owner'[v] <= v
    <3>1. \A v \in Ids : owner[v] <= v
      BY DEF WakeInv, Fresh
    <3>2. \A v \in N : owner[u] <= v
      <4>1. \A x \in Ids, v \in N : x <= u => x <= v
        BY <1>4, <1>10 DEF Ids
      <4> QED BY <1>8, <3>1, <4>1
    <3> QED BY <1>9, <3>1, <3>2
  <2>4. \A v \in Ids : v > next_id' => /\ group'[v] = NoId /\ wait'[v] = "none"
                                       /\ v \notin stopping' /\ v \notin yielded'
    BY <1>2, <1>4, <1>5, <1>9, <1>10 DEF WakeInv, Fresh, signalVars, Ids
  <2> QED BY <2>2, <2>3, <2>4 DEF Fresh
<1>14. Turns'
  <2>1. \A v \in sessions' : wait'[v] # "none" /\ wait'[v] # "run" /\ v # NoId
    <3> SUFFICES ASSUME NEW v \in sessions'
                 PROVE  wait'[v] # "none" /\ wait'[v] # "run" /\ v # NoId
      OBVIOUS
    <3>0. v \in Ids /\ (v \in sessions \/ v \in N)
      BY <1>4, <1>5, <1>8
    <3>1. v \in Ids /\ v # NoId /\ (v \in sessions \/ v \in N)
      BY <3>0 DEF Ids, NoId
    <3>2. v \in sessions => wait[v] # "none" /\ (wait[v] = "run" <=> running = v)
      BY DEF WakeInv, Turns
    <3> QED BY <1>9, <1>10, <3>1, <3>2
  <2>2. \A v \in Ids : wait'[v] # "join" => joinOn'[v] = NoId
    BY <1>9, <1>10, <1>11 DEF WakeInv, Turns
  <2> QED BY <1>2, <1>6, <1>10, <2>1, <2>2 DEF Turns, signalVars, Ids, NoId
<1>15. Wakes'
  <2>1. \A v \in sessions : owner[v] \notin N
    <3>1. \A v \in sessions : owner[v] \in Ids /\ owner[v] <= v
      BY <1>8 DEF WakeInv, Fresh
    <3>2. \A v, w \in Ids : w <= v /\ v <= next_id => w \notin N
      BY <1>4 DEF Ids
    <3> QED BY <1>8, <3>1, <3>2
  <2>2. \A v \in sessions \ {u} :
            /\ wait'[v] = wait[v] /\ (Pending(v)' <=> Pending(v))
            /\ armed'[v] = armed[v]
            /\ owner'[v] \in sessions' => owner[v] \in sessions
            /\ owner'[v] = owner[v]
    BY <1>2, <1>5, <1>6, <1>8, <1>9, <2>1
  <2>3. wait'[u] = "join" /\ \A v \in N : wait'[v] = "start" /\ Pending(v)'
    BY <1>4, <1>6, <1>9, <1>10
  <2> QED BY <1>5, <2>2, <2>3 DEF WakeInv, Wakes
<1>16. Stops'
  BY <1>2, <1>5, <1>6, <1>8, <1>9, <1>10, <1>11 DEF WakeInv, Stops, signalVars
<1>17. JoinCounters'
  <2> SUFFICES ASSUME NEW h \in Ids
               PROVE  fns_left'[h] = Cardinality({v \in sessions' : group'[v] = h})
    BY DEF JoinCounters
  <2>1. CASE h = g /\ n # 0
    <3>1. \A v \in sessions' : group'[v] = h <=> v \in N
      BY <1>4, <1>5, <1>8, <1>9, <1>12, <2>1
    <3>0. {v \in sessions' : group'[v] = h} = N
      BY <1>5, <3>1
    <3>2. Cardinality(N) = n
      <4>1. N = next_id + 1..next_id + n
        BY <1>3 DEF NewIds
      <4>2. next_id + 1 \in Int /\ next_id + n \in Int
            /\ next_id + 1 <= next_id + n
        BY <1>4, <2>1
      <4>3. \A a, b \in Int : a <= b => Cardinality(a..b) = b - a + 1
        BY FS_Interval
      <4>4. Cardinality(N) = next_id + n - (next_id + 1) + 1
        <5>1. PICK a \in Int, b \in Int : a = next_id + 1 /\ b = next_id + n
          BY <4>2
        <5>2. Cardinality(a..b) = b - a + 1 /\ N = a..b
          BY <4>1, <4>2, <4>3, <5>1
        <5>3. Cardinality(N) = b - a + 1
          BY <5>2
        <5> QED BY <1>4, <5>1, <5>3
      <4> QED BY <1>4, <4>4
    <3> QED BY <1>9, <2>1, <3>0, <3>2
  <2>2. CASE ~(h = g /\ n # 0)
    <3>1. \A v \in sessions : group'[v] = group[v]
      BY <1>8, <1>9
    <3>2. \A v \in N : group'[v] # h
      BY <1>4, <1>9, <2>2
    <3>3. {v \in sessions' : group'[v] = h} = {v \in sessions : group[v] = h}
      BY <1>5, <3>1, <3>2
    <3> QED BY <1>9, <2>2, <3>3 DEF WakeInv, JoinCounters
  <2> QED BY <2>1, <2>2
<1>18. Parents'
  BY <1>4, <1>9, <1>10, <1>11, <1>12 DEF WakeInv, Parents
<1>19. \A p \in sessions : p # u /\ joinOn[p] # NoId =>
           /\ joinOn'[p] = joinOn[p] /\ fns_left'[joinOn[p]] = fns_left[joinOn[p]]
           /\ \A v \in Ids : group'[v] = joinOn[p] => group[v] = joinOn[p] /\ v \notin N
  BY <1>8, <1>9, <1>12 DEF IdsOrNone
<1>20. Stranded'
  <2> SUFFICES ASSUME NEW p \in sessions', wait'[p] = "join",
                      joinOn'[p] # NoId, ~Pending(p)',
                      ~(fns_left'[joinOn'[p]] > 0),
                      NEW v \in Ids, group'[v] = joinOn'[p]
               PROVE  v \notin yielded'
    BY DEF Stranded
  <2>1. p # u
    BY <1>4, <1>9, <1>10
  <2>2. p \in sessions
    BY <1>4, <1>5, <1>9
  <2>3. /\ joinOn[p] # NoId /\ group[v] = joinOn[p] /\ ~(fns_left[joinOn[p]] > 0)
        /\ ~Pending(p) /\ wait[p] = "join"
    BY <1>6, <1>8, <1>9, <1>19, <2>1, <2>2
  <2>4. v \notin yielded
    BY <2>2, <2>3 DEF WakeInv, Stranded
  <2>5. joinOn[p] \in Ids
    BY <1>8, <2>2, <2>3 DEF IdsOrNone
  <2>6. v # u
    BY <1>10, <2>3, <2>5, ZeroMeansEnded DEF WakeInv
  <2> QED BY <1>2, <2>4, <2>6
<1>21. PassedParents'
  <2> SUFFICES ASSUME NEW p \in sessions', wait'[p] = "join",
                      joinOn'[p] # NoId, Passed(p)',
                      NEW v \in Ids, group'[v] = joinOn'[p], v \in yielded'
               PROVE  v \in sessions' /\ Passed(v)' /\ v # running'
    BY DEF PassedParents
  <2>1. p \in sessions
    BY <1>4, <1>5, <1>9
  <2>2. p # u
    <3> SUFFICES ASSUME p = u PROVE FALSE
      OBVIOUS
    <3>1. joinOn'[p] = g
      BY <1>9, <1>10
    <3>2. v \in N
      BY <1>9, <1>12, <3>1
    <3> QED BY <1>2, <1>11, <3>2
  <2>3. joinOn[p] # NoId /\ group[v] = joinOn[p] /\ Passed(p) /\ wait[p] = "join"
    BY <1>7, <1>8, <1>9, <1>19, <2>1, <2>2
  <2>4. CASE v = u
    BY <1>2, <1>5, <1>7, <1>10, <2>4
  <2>5. CASE v # u
    <3>1. v \in sessions /\ Passed(v)
      BY <1>2, <2>1, <2>3, <2>5 DEF WakeInv, PassedParents
    <3> QED BY <1>2, <1>5, <1>7, <1>8, <3>1 DEF Ids, NoId
  <2> QED BY <2>4, <2>5
<1>22. NoLauncherJoins'
  <2> SUFFICES ASSUME launcher # NoId
               PROVE  /\ joinOn'[launcher] = NoId
                      /\ \A v \in Ids : group'[v] # NoId => parent'[v] # launcher
    BY <1>2 DEF NoLauncherJoins, signalVars
  <2>1. /\ launcher \in Ids /\ joinOn[launcher] = NoId
        /\ \A v \in Ids : group[v] # NoId => parent[v] # launcher
    BY DEF WakeInv, NoLauncherJoins, Inv, TypeOK, IdsOrNone
  <2>2. joinOn'[launcher] = NoId
    BY <1>2, <1>9, <2>1
  <2>3. \A v \in Ids : group'[v] # NoId => parent'[v] # launcher
    BY <1>2, <1>9, <2>1
  <2> QED BY <2>2, <2>3
<1>23. ParallelWaitsForAll'
  <2> SUFFICES ASSUME ~cut_short, NEW v \in sessions', group'[v] # NoId
               PROVE  \/ wait'[parent'[v]] = "join" /\ joinOn'[parent'[v]] = group'[v]
                      \/ parent'[v] \in stopping'
    BY <1>2 DEF ParallelWaitsForAll
  <2>1. CASE v \in N
    BY <1>4, <1>9, <1>10, <2>1
  <2>2. CASE v \notin N
    <3>1. v \in sessions /\ v \in Ids /\ group'[v] = group[v] /\ parent'[v] = parent[v]
      BY <1>5, <1>8, <1>9, <2>2
    <3>2. parent[v] \in Ids /\ parent[v] <= next_id
      BY <1>8, <3>1 DEF Inv, OnlyRegistered, IdsOrNone
    <3>3. parent[v] \notin N
      BY <1>4, <3>2
    <3>4. \/ wait[parent[v]] = "join" /\ joinOn[parent[v]] = group[v]
          \/ parent[v] \in stopping
      BY <3>1 DEF WakeInv, ParallelWaitsForAll
    <3> QED BY <1>2, <1>9, <1>10, <3>1, <3>2, <3>3, <3>4 DEF signalVars
  <2> QED BY <2>1, <2>2
<1>24. JoinsPlanned'
  <2> SUFFICES ASSUME ~cut_short, NEW i \in DOMAIN active_sessions',
                      i >= cursor', active_sessions'[i].params = "none",
                      joinOn'[active_sessions'[i].id] # NoId
               PROVE  \/ fns_left'[joinOn'[active_sessions'[i].id]] = 0
                      \/ active_sessions'[i].id \in stopping
    BY <1>2 DEF JoinsPlanned, signalVars
  <2>1. \/ /\ i \in DOMAIN active_sessions
           /\ active_sessions'[i] = active_sessions[i]
           /\ i >= cursor
        \/ active_sessions'[i].id \in N
    BY <1>5, QueueStepEntries
  <2>2. CASE active_sessions'[i].id \in N
    <3>1. PICK v \in N : v = active_sessions'[i].id
      BY <2>2
    <3>2. v \in Ids /\ v # u /\ joinOn[v] = NoId
      BY <1>4, <1>11
    <3>3. joinOn'[v] = NoId
      BY <1>9, <3>2
    <3> QED BY <3>1, <3>3
  <2>3. CASE /\ i \in DOMAIN active_sessions
             /\ active_sessions'[i] = active_sessions[i] /\ i >= cursor
    <3> DEFINE p == active_sessions[i].id
    <3>1. p \in Ids /\ p # u
      BY <1>10, <2>3, EntryIds DEF Pending
    <3>2. joinOn'[p] = joinOn[p] /\ fns_left'[joinOn[p]] = fns_left[joinOn[p]]
      BY <1>8, <1>9, <1>12, <2>3, <3>1 DEF IdsOrNone
    <3> QED BY <2>3, <3>1, <3>2 DEF WakeInv, JoinsPlanned
  <2> QED BY <2>1, <2>2, <2>3
<1> QED BY <1>13, <1>14, <1>15, <1>16, <1>17, <1>18, <1>20, <1>21, <1>22, <1>23,
           <1>24 DEF WakeInv

-----------------------------------------------------------------------------
(* The end of a uthread *)

\* The functions of the call g that have not ended.
Members(g) == {v \in sessions : group[v] = g}

\* What on_after_run does to the queue and to the counter of the call.
LEMMA LeaveGroupEffect ==
    ASSUME Inv, NEW u \in Ids, NEW k \in {0, 1}, cursor' = cursor + k,
           LeaveGroup(u)
    PROVE  \E add :
               /\ QueueStep(k, add, "none")
               /\ \A v \in add : /\ v = parent[u] /\ group[u] \in Ids
                                 /\ fns_left[group[u]] = 1
               /\ group[u] # NoId /\ fns_left[group[u]] = 1
                  => parent[u] \in Queued \cup add
               /\ \A g \in Ids :
                      fns_left'[g] = IF group[u] = g THEN fns_left[g] - 1
                                                     ELSE fns_left[g]
<1>0. NoId \notin Ids
  BY DEF Ids, NoId
<1>1. /\ group[u] \in IdsOrNone /\ parent[u] \in IdsOrNone
      /\ group[u] # NoId => group[u] \in Ids /\ parent[u] \in Ids
      /\ fns_left \in [Ids -> Int] /\ k \in Nat /\ "none" \in Params
      /\ NoId \notin Ids
  BY <1>0 DEF Inv, TypeOK, OnlyRegistered, IdsOrNone, Params
<1>2. CASE group[u] = NoId
  <2>1. QueueStep(k, {}, "none")
    BY <1>1, <1>2, QuietIsQueueStep DEF LeaveGroup, Counts, queueVars
  <2>2. UNCHANGED fns_left
    BY <1>2 DEF LeaveGroup, Counts
  <2> QED BY <1>1, <1>2, <2>1, <2>2
<1>3. CASE group[u] # NoId
  <2>1. \A g \in Ids : fns_left'[g] = IF group[u] = g THEN fns_left[g] - 1
                                                      ELSE fns_left[g]
    BY <1>1, <1>3 DEF LeaveGroup, Counts
  <2>2. CASE fns_left[group[u]] = 1
    <3>1. PlanResume(parent[u], "none")
      BY <1>3, <2>2 DEF LeaveGroup, Counts, IsLast
    <3>2. QueueStep(k, {parent[u]} \ Queued, "none")
      BY <1>1, <1>3, <3>1, PlanIsQueueStep
    <3> QED BY <1>1, <1>3, <2>1, <2>2, <3>2
  <2>3. CASE fns_left[group[u]] # 1
    <3>1. QueueStep(k, {}, "none")
      BY <1>1, <1>3, <2>3, QuietIsQueueStep
         DEF LeaveGroup, Counts, IsLast, queueVars
    <3> QED BY <1>1, <1>3, <2>1, <2>3, <3>1
  <2> QED BY <2>2, <2>3
<1> QED BY <1>2, <1>3

\* The uthread ends by itself (k = 0) or is unwound at its entry (k = 1).
LEMMA EndUthreadWakes ==
    ASSUME Inv, WakeInv, NEW u \in Ids, EndUthread(u),
           NEW k \in {0, 1}, cursor' = cursor + k,
           k = 0 => Running(u),
           k = 1 => Resumable(u) /\ u \in stopping,
           UNCHANGED <<next_id, phase, parent, group, owner, cut_short,
                       signalVars, yielded>>
    PROVE  WakeInv'
<1>1. /\ LeaveGroup(u) /\ Clean(u) /\ sessions' = sessions \ {u}
      /\ wait' = [wait EXCEPT ![u] = "none"]
      /\ joinOn' = [joinOn EXCEPT ![u] = NoId] /\ running' = NoId
  BY DEF EndUthread
<1>2. /\ phase = "pass" /\ to_visit = {} /\ u \in sessions /\ u # NoId
      /\ u <= next_id /\ running \in {u, NoId}
      /\ k = 0 => running = u /\ wait[u] = "run"
      /\ k = 1 => Pending(u) /\ Entry.id = u /\ cursor <= Len(active_sessions)
  <2>1. CASE k = 0
    BY <2>1, RunningFacts
  <2>2. CASE k = 1
    BY <2>2, AtEntryFacts DEF Resumable, AtEntry, Ids, NoId
  <2> QED BY <2>1, <2>2
<1>3. PICK add :
          /\ QueueStep(k, add, "none")
          /\ \A v \in add : /\ v = parent[u] /\ group[u] \in Ids
                            /\ fns_left[group[u]] = 1
          /\ group[u] # NoId /\ fns_left[group[u]] = 1
             => parent[u] \in Queued \cup add
          /\ \A g \in Ids :
                 fns_left'[g] = IF group[u] = g THEN fns_left[g] - 1
                                                ELSE fns_left[g]
  BY <1>1, LeaveGroupEffect
<1>4. /\ Queued' = Queued \cup add /\ \A v \in add : Pending(v)' /\ v \notin Queued
      /\ \A v : v \notin add => (Pending(v)' <=> Pending(v) /\ ~(k = 1 /\ u = v))
      /\ cursor' <= Len(active_sessions') + 1
      /\ \A v : Pending(v) => v \in Queued
  <2>1. cursor <= Len(active_sessions) + 1
    BY DEF WakeInv, Turns
  <2>2. \A v \in add : v \notin Queued
    BY <1>3 DEF QueueStep
  <2> QED BY <1>2, <1>3, <2>1, <2>2, QueueStepEffect
<1>5. \A v : v # u => /\ Pending(v) => Pending(v)'
                      /\ Passed(v)' <=> Passed(v)
  BY <1>4 DEF Passed
<1>0. NoId \notin Ids
  BY DEF Ids, NoId
<1>6. /\ wait \in [Ids -> Waits] /\ sessions \subseteq Ids
      /\ joinOn \in [Ids -> IdsOrNone] /\ group \in [Ids -> IdsOrNone]
      /\ fns_left \in [Ids -> Int] /\ armed \in [Ids -> SUBSET Marks]
      /\ NoId \notin Ids
  BY <1>0 DEF Inv, TypeOK
<1>7. \A v \in Ids :
          /\ wait'[v] = IF v = u THEN "none" ELSE wait[v]
          /\ joinOn'[v] = IF v = u THEN NoId ELSE joinOn[v]
          /\ group'[v] = group[v] /\ parent'[v] = parent[v]
          /\ owner'[v] = owner[v]
          /\ owner[v] # u /\ v # u => armed'[v] = armed[v]
  BY <1>1, <1>6 DEF Clean, Disturbed
<1>8. Fresh'
  <2>1. 0 \in 0..next_id
    BY InvFacts
  <2> QED BY <1>2, <1>7, <2>1 DEF WakeInv, Fresh, signalVars, NoId
<1>9. Turns'
  <2>1. \A v \in sessions' : /\ wait'[v] # "none"
                             /\ wait'[v] = "run" <=> running' = v
    BY <1>1, <1>2, <1>6, <1>7 DEF WakeInv, Turns
  <2>2. \A v \in Ids : wait'[v] # "join" => joinOn'[v] = NoId
    BY <1>7 DEF WakeInv, Turns
  <2> QED BY <1>1, <1>2, <1>4, <1>6, <2>1, <2>2 DEF Turns, signalVars
<1>10. Wakes'
  BY <1>1, <1>5, <1>6, <1>7 DEF WakeInv, Wakes
<1>11. Stops'
  BY <1>1, <1>5, <1>6, <1>7 DEF WakeInv, Stops, signalVars
<1>12. ASSUME NEW h \in Ids
       PROVE  /\ fns_left[h] = Cardinality(Members(h))
              /\ Cardinality(Members(h) \ {u}) =
                     IF u \in Members(h) THEN Cardinality(Members(h)) - 1
                                         ELSE Cardinality(Members(h))
              /\ Cardinality(Members(h)) = 1 => \E x : Members(h) = {x}
  <2>1. Members(h) \subseteq Ids
    BY <1>6 DEF Members
  <2>2. IsFiniteSet(Ids)
    BY FS_Interval DEF Ids
  <2>3. IsFiniteSet(Members(h))
    BY <2>1, <2>2, FS_Subset
  <2>4. fns_left[h] = Cardinality(Members(h))
    BY DEF WakeInv, JoinCounters, Members
  <2> QED BY <2>3, <2>4, FS_RemoveElement, FS_Singleton
<1>13. JoinCounters'
  <2> SUFFICES ASSUME NEW h \in Ids
               PROVE  fns_left'[h] = Cardinality({v \in sessions' : group'[v] = h})
    BY DEF JoinCounters
  <2>1. \A v \in sessions : group'[v] = group[v]
    BY <1>6, <1>7
  <2>2. {v \in sessions' : group'[v] = h} = Members(h) \ {u}
    BY <1>1, <2>1 DEF Members
  <2>3. /\ fns_left[h] = Cardinality(Members(h))
        /\ Cardinality(Members(h) \ {u}) =
               IF u \in Members(h) THEN Cardinality(Members(h)) - 1
                                   ELSE Cardinality(Members(h))
    BY <1>12
  <2>4. u \in Members(h) <=> group[u] = h
    BY <1>2 DEF Members
  <2> QED BY <1>3, <2>2, <2>3, <2>4
<1>14. Parents'
  BY <1>6, <1>7 DEF WakeInv, Parents
<1>15. \A p, v \in Ids :
           /\ p \in sessions /\ wait[p] = "join" /\ joinOn[p] # NoId /\ Passed(p)
           /\ group[v] = joinOn[p] /\ v \in yielded
           => v \in sessions /\ Passed(v) /\ v # u
  <2> SUFFICES ASSUME NEW p \in Ids, NEW v \in Ids, p \in sessions,
                      wait[p] = "join", joinOn[p] # NoId, Passed(p),
                      group[v] = joinOn[p], v \in yielded
               PROVE  v \in sessions /\ Passed(v) /\ v # u
    OBVIOUS
  <2>1. v \in sessions /\ Passed(v) /\ v # running
    BY DEF WakeInv, PassedParents
  <2> QED BY <1>2, <2>1 DEF Passed
<1>16. Stranded'
  <2> SUFFICES ASSUME NEW p \in sessions', wait'[p] = "join",
                      joinOn'[p] # NoId, ~Pending(p)',
                      ~(fns_left'[joinOn'[p]] > 0),
                      NEW v \in Ids, group'[v] = joinOn'[p]
               PROVE  v \notin yielded'
    BY DEF Stranded
  <2>1. /\ p \in sessions /\ p \in Ids /\ p # u /\ wait[p] = "join"
        /\ joinOn'[p] = joinOn[p] /\ joinOn[p] \in Ids /\ group[v] = joinOn[p]
        /\ yielded' = yielded /\ joinOn[p] # NoId
    BY <1>1, <1>6, <1>7 DEF IdsOrNone
  <2>2. ~Pending(p)
    BY <1>5, <2>1
  <2>3. CASE group[u] # joinOn[p]
    <3>1. ~(fns_left[joinOn[p]] > 0)
      BY <1>3, <2>1, <2>3
    <3> QED BY <2>1, <2>2, <3>1 DEF WakeInv, Stranded
  <2>4. CASE group[u] = joinOn[p]
    <3>1. parent[u] = p
      BY <2>1, <2>4 DEF WakeInv, Parents
    <3>2. fns_left[joinOn[p]] > 0 /\ fns_left[joinOn[p]] \in Nat
      BY <1>2, <2>1, <2>4, ZeroMeansEnded DEF WakeInv
    <3>3. fns_left'[joinOn[p]] = fns_left[joinOn[p]] - 1
      BY <1>3, <2>1, <2>4
    <3>4. fns_left[joinOn[p]] = 1
      BY <2>1, <3>2, <3>3
    <3>5. Passed(p)
      BY <1>3, <1>4, <1>5, <2>1, <2>2, <2>4, <3>1, <3>4 DEF Passed
    <3>6. SUFFICES ASSUME v \in yielded PROVE FALSE
      BY <2>1
    <3>7. v \in sessions /\ v # u
      BY <1>15, <2>1, <3>5, <3>6
    <3>8. \E x : Members(joinOn[p]) = {x}
      BY <1>12, <2>1, <3>4
    <3>9. u \in Members(joinOn[p]) /\ v \in Members(joinOn[p])
      BY <1>2, <2>1, <2>4, <3>7 DEF Members
    <3> QED BY <3>7, <3>8, <3>9
  <2> QED BY <2>3, <2>4
<1>17. PassedParents'
  <2> SUFFICES ASSUME NEW p \in sessions', wait'[p] = "join",
                      joinOn'[p] # NoId, Passed(p)',
                      NEW v \in Ids, group'[v] = joinOn'[p], v \in yielded'
               PROVE  v \in sessions' /\ Passed(v)' /\ v # running'
    BY DEF PassedParents
  <2>1. /\ p \in sessions /\ p \in Ids /\ p # u /\ wait[p] = "join"
        /\ joinOn[p] # NoId /\ group[v] = joinOn[p] /\ v \in yielded
    BY <1>1, <1>6, <1>7
  <2>2. Passed(p)
    BY <1>5, <2>1
  <2>3. v \in sessions /\ Passed(v) /\ v # u
    BY <1>15, <2>1, <2>2
  <2> QED BY <1>1, <1>5, <1>6, <2>3
<1>18. NoLauncherJoins'
  <2> SUFFICES ASSUME launcher # NoId
               PROVE  /\ joinOn'[launcher] = NoId
                      /\ \A v \in Ids : group'[v] # NoId => parent'[v] # launcher
    BY DEF NoLauncherJoins, signalVars
  <2>1. /\ launcher \in Ids /\ joinOn[launcher] = NoId
        /\ \A v \in Ids : group[v] # NoId => parent[v] # launcher
    BY DEF WakeInv, NoLauncherJoins, Inv, TypeOK, IdsOrNone
  <2> QED BY <1>7, <2>1
<1>19. ParallelWaitsForAll'
  <2> SUFFICES ASSUME ~cut_short, NEW v \in sessions', group'[v] # NoId
               PROVE  \/ wait'[parent'[v]] = "join" /\ joinOn'[parent'[v]] = group'[v]
                      \/ parent'[v] \in stopping'
    BY DEF ParallelWaitsForAll
  <2>1. /\ v \in sessions /\ v \in Ids /\ group[v] # NoId
        /\ group'[v] = group[v] /\ parent'[v] = parent[v] /\ stopping' = stopping
    BY <1>1, <1>6, <1>7 DEF signalVars
  <2>2. parent[v] \in Ids
    BY <2>1 DEF Inv, TypeOK, OnlyRegistered, IdsOrNone
  <2>3. \/ wait[parent[v]] = "join" /\ joinOn[parent[v]] = group[v]
        \/ parent[v] \in stopping
    BY <2>1 DEF WakeInv, ParallelWaitsForAll
  <2>4. CASE parent[v] = u
    BY <1>2, <2>1, <2>3, <2>4
  <2>5. CASE parent[v] # u
    BY <1>7, <2>1, <2>2, <2>3, <2>5
  <2> QED BY <2>4, <2>5
<1>20. JoinsPlanned'
  <2> SUFFICES ASSUME ~cut_short, NEW i \in DOMAIN active_sessions',
                      i >= cursor', active_sessions'[i].params = "none",
                      NEW p, p = active_sessions'[i].id, joinOn'[p] # NoId
               PROVE  fns_left'[joinOn'[p]] = 0 \/ p \in stopping
    BY DEF JoinsPlanned, signalVars
  <2>1. \/ /\ i \in DOMAIN active_sessions
           /\ active_sessions'[i] = active_sessions[i]
           /\ i >= cursor
        \/ p \in add
    BY <1>3, QueueStepEntries
  <2>2. CASE p \in add
    <3>1. /\ p = parent[u] /\ group[u] \in Ids /\ fns_left[group[u]] = 1
          /\ fns_left'[group[u]] = 0 /\ p \in Ids
      BY <1>3, <1>6, <2>2 DEF Inv, TypeOK, OnlyRegistered, IdsOrNone
    <3>2. joinOn'[p] = joinOn[p]
      BY <1>7, <3>1
    <3>3. \/ joinOn[p] = group[u]
          \/ p \in stopping
      BY <1>2, <1>6, <3>1 DEF WakeInv, ParallelWaitsForAll
    <3> QED BY <3>1, <3>2, <3>3
  <2>3. CASE /\ i \in DOMAIN active_sessions
             /\ active_sessions'[i] = active_sessions[i] /\ i >= cursor
    <3>1. p \in Ids /\ p = active_sessions[i].id
      BY <2>3, EntryIds
    <3>2. joinOn'[p] = joinOn[p] /\ joinOn[p] \in Ids /\ joinOn[p] # NoId
      BY <1>6, <1>7, <3>1 DEF IdsOrNone
    <3>3. fns_left[joinOn[p]] = 0 \/ p \in stopping
      BY <2>3, <3>1, <3>2 DEF WakeInv, JoinsPlanned
    <3>4. fns_left[joinOn[p]] = 0 => group[u] # joinOn[p]
      BY <1>2, <3>2, ZeroMeansEnded DEF WakeInv
    <3> QED BY <1>3, <3>2, <3>3, <3>4
  <2> QED BY <2>1, <2>2, <2>3
<1> QED BY <1>8, <1>9, <1>10, <1>11, <1>13, <1>14, <1>16, <1>17, <1>18, <1>19,
           <1>20 DEF WakeInv

LEMMA UthreadEndsWakes ==
    ASSUME Inv, WakeInv, NEW u \in Ids, StopUthread(u) \/ Finish(u)
    PROVE  WakeInv'
<1>1. CASE StopUthread(u)
  <2>1. cursor' = cursor + 1 /\ Resumable(u) /\ u \in stopping /\ EndUthread(u)
        /\ UNCHANGED <<next_id, phase, parent, group, owner, cut_short,
                       signalVars, yielded>>
    BY <1>1 DEF StopUthread, StopRaised
  <2> QED BY <2>1, EndUthreadWakes
<1>2. CASE Finish(u)
  <2>1. cursor \in Nat /\ cursor' = cursor /\ Running(u) /\ EndUthread(u)
        /\ UNCHANGED <<next_id, phase, parent, group, owner, cut_short,
                       signalVars, yielded>>
    BY <1>2 DEF Finish, Inv, TypeOK
  <2>2. cursor' = cursor + 0
    BY <2>1
  <2> QED BY <2>1, <2>2, EndUthreadWakes
<1> QED BY <1>1, <1>2

-----------------------------------------------------------------------------
(* The invariant *)

LEMMA WakeInit == Init => WakeInv
<1> SUFFICES ASSUME Init PROVE WakeInv
  OBVIOUS
<1>1. /\ Len(active_sessions) = 1 /\ DOMAIN active_sessions = {1}
      /\ active_sessions[1] = [id |-> BootId, params |-> "none"]
      /\ next_id = 1 /\ BootId = 1 /\ NoId = 0 /\ BootId \in Ids /\ NoId \notin Ids
      /\ cursor = 1
  BY DEF Init, BootId, NoId, Ids
<1>2. Queued = {BootId} /\ Pending(BootId)
  BY <1>1 DEF Queued, Pending
<1>3. Fresh
  <2>1. 0 \in 0..next_id /\ \A v \in Ids : v <= v /\ (v > next_id => v # BootId)
    BY <1>1 DEF Ids
  <2> QED BY <1>1, <2>1 DEF Init, Fresh
<1>4. Turns
  BY <1>1 DEF Init, Turns
<1>5. Wakes /\ Stops
  BY <1>1, <1>2 DEF Init, Wakes, Stops
<1>6. JoinCounters
  <2>1. \A g \in Ids : {v \in sessions : group[v] = g} = {}
    BY <1>1 DEF Init
  <2> QED BY <2>1, FS_EmptySet DEF Init, JoinCounters
<1>7. Parents /\ Stranded /\ PassedParents /\ NoLauncherJoins
  BY <1>1 DEF Init, Parents, Stranded, PassedParents, NoLauncherJoins
<1>8. ParallelWaitsForAll /\ JoinsPlanned
  BY <1>1 DEF Init, ParallelWaitsForAll, JoinsPlanned
<1> QED BY <1>3, <1>4, <1>5, <1>6, <1>7, <1>8 DEF WakeInv

LEMMA WakeStep == Inv /\ WakeInv /\ Inv' /\ [Next]_vars => WakeInv'
<1> SUFFICES ASSUME Inv, WakeInv, Inv', [Next]_vars PROVE WakeInv'
  OBVIOUS
<1>1. ASSUME NEW u \in Ids, NEW w \in Watchers,
             Callback(u, w) \/ StaleCallback(u, w)
      PROVE  WakeInv'
  BY <1>1, CallbackWakes
<1>2. ASSUME NEW u \in Ids, VisitSession(u) PROVE WakeInv'
  BY <1>2, VisitSessionWakes
<1>3. CASE Sigint \/ BeginPass \/ SkipAbsent \/ EndPass
  BY <1>3, SigintWakes, BeginPassWakes, PassOnWakes, EndPassWakes
<1>4. ASSUME NEW u \in Ids,
             Resume(u) \/ ReceiveMore(u) \/ ResumeAsserts(u) \/ StopUthread(u)
      PROVE  WakeInv'
  BY <1>4, ResumeWakes, PassOnWakes, RunningQuietWakes, UthreadEndsWakes
<1>5. ASSUME NEW u \in Ids, Script(u) PROVE WakeInv'
  BY <1>5, AwaitWakes, SpawnWakes, ParallelWakes, CooperateWakes,
     RunningQuietWakes, UthreadEndsWakes DEF Script
<1>6. CASE UNCHANGED vars
  <2>1. to_visit # {} => \A v \in sessions : wait[v] # "start"
    BY DEF WakeInv, Turns
  <2>2. phase # "poll" => to_visit = {}
    BY DEF WakeInv, Turns
  <2> QED BY <1>6, <2>1, <2>2, QuietWakes DEF vars, signalVars
<1> QED BY <1>1, <1>2, <1>3, <1>4, <1>5, <1>6 DEF Next, PassStep

LEMMA WakeInvariant == Spec => [](Inv /\ WakeInv)
<1>1. Inv /\ WakeInv /\ [Next]_vars => Inv' /\ WakeInv'
  BY InvStep, WakeStep
<1> QED BY <1>1, InvInit, WakeInit, PTL DEF Spec

-----------------------------------------------------------------------------
(* Theorems *)

\* Manager and session API: nobody who was registered or who awaits io or time
\* is forgotten, however the callbacks, the timeouts and the passes interleave.
THEOREM WaitersCorrect == Spec => []WaitersAreWoken
<1>1. Inv /\ WakeInv => WaitersAreWoken
  <2> SUFFICES ASSUME WakeInv, NEW u \in sessions, owner[u] \in sessions,
                      wait[u] \in {"start", "sleep", "io", "recv", "accept"}
               PROVE  Awaited(u)
    BY DEF WaitersAreWoken
  <2> QED BY DEF WakeInv, Wakes, Awaited, Watchers
<1> QED BY <1>1, WakeInvariant, PTL

\* parallel(): the closure counter of a call is the number of its functions
\* that have not ended.
THEOREM JoinCountersCorrect == Spec => []JoinCounters
<1>1. Inv /\ WakeInv => JoinCounters
  BY DEF WakeInv
<1> QED BY <1>1, WakeInvariant, PTL

\* parallel(): a parent that nothing will wake has no function that yielded.
THEOREM StrandedCorrect == Spec => []StrandedJoinWasInstant
<1>1. Inv /\ WakeInv => StrandedJoinWasInstant
  BY DEF WakeInv, Stranded, StrandedJoinWasInstant, Awaited
<1> QED BY <1>1, WakeInvariant, PTL

\* Manager:shut_down, and the test of its flag behind every yield of the
\* session API: a flagged uthread does not run on, and the pass does not miss
\* it.
THEOREM FlaggedCorrect == Spec => []FlaggedEnd
<1>1. Inv /\ WakeInv => FlaggedEnd
  <2> SUFFICES ASSUME Inv, WakeInv,
                      NEW u \in (stopping \cap sessions) \ {launcher}
               PROVE  Pending(u) /\ running # u
    BY DEF FlaggedEnd
  <2>1. Pending(u) /\ wait[u] # "run"
    BY DEF WakeInv, Stops
  <2> QED BY <2>1 DEF WakeInv, Turns
<1> QED BY <1>1, WakeInvariant, PTL

\* parallel() returns after its functions, unless it is interrupted or a stale
\* watcher resumes it.
THEOREM ParallelCorrect == Spec => []ParallelWaitsForAll
<1>1. Inv /\ WakeInv => ParallelWaitsForAll
  BY DEF WakeInv
<1> QED BY <1>1, WakeInvariant, PTL
=============================================================================
