-------------------------- MODULE SchedulerProofs --------------------------
(***************************************************************************)
(* Theorems of Scheduler, for every MaxId, MaxFuns and both process modes. *)
(***************************************************************************)
EXTENDS Scheduler, TLAPS

\* Only registered uthreads are named anywhere, and a parallel() child knows
\* its parent: what makes a newly registered id absent from the queue.
OnlyRegistered ==
    /\ sessions \subseteq 1..next_id
    /\ to_visit \subseteq 1..next_id
    /\ active_sessions_ids \subseteq 1..next_id
    /\ running \in 0..next_id
    /\ \A u \in Ids : armed[u] # {} \/ stale[u] # {} => u <= next_id
    /\ \A u \in Ids : parent[u] <= next_id /\ (group[u] # NoId => parent[u] # NoId)

Inv == TypeOK /\ QueueMatchesIds /\ OnlyRegistered

USE MaxIdAssumption, MaxFunsAssumption, WorkerAssumption

-----------------------------------------------------------------------------
(* The two ways in which the queue grows *)

\* plan_resume keeps the queue a list of distinct marked ids, and drops no
\* entry that is in it.
LEMMA PlanResumeKeeps ==
    ASSUME active_sessions \in Seq(Entries), QueueMatchesIds,
           next_id \in Ids, active_sessions_ids \subseteq 1..next_id,
           NEW id \in 1..next_id, NEW p \in Params,
           PlanResume(id, p)
    PROVE  /\ active_sessions' \in Seq(Entries)
           /\ active_sessions_ids' \subseteq 1..next_id
           /\ QueueMatchesIds'
           /\ id \in active_sessions_ids'
<1>1. CASE id \in active_sessions_ids
  BY <1>1 DEF PlanResume, QueueMatchesIds, Queued, queueVars
<1>2. CASE id \notin active_sessions_ids
  <2> DEFINE e == [id |-> id, params |-> p]
  <2>1. active_sessions' = Append(active_sessions, e)
        /\ active_sessions_ids' = active_sessions_ids \cup {id}
    BY <1>2 DEF PlanResume
  <2>2. e \in Entries
    BY DEF Entries, Ids
  <2>3. active_sessions' \in Seq(Entries)
    BY <2>1, <2>2
  <2>4. /\ DOMAIN active_sessions' = 1..Len(active_sessions) + 1
        /\ \A i \in 1..Len(active_sessions) :
               active_sessions'[i] = active_sessions[i]
        /\ active_sessions'[Len(active_sessions) + 1].id = id
    BY <2>1, <2>2
  <2>5. DOMAIN active_sessions = 1..Len(active_sessions)
        /\ Len(active_sessions) \in Nat
    OBVIOUS
  <2>6. Queued' = Queued \cup {id}
    BY <2>4, <2>5 DEF Queued
  <2>7. \A i, j \in DOMAIN active_sessions' :
            active_sessions'[i].id = active_sessions'[j].id => i = j
    BY <1>2, <2>4, <2>5 DEF QueueMatchesIds, Queued
  <2> QED BY <2>1, <2>3, <2>6, <2>7 DEF QueueMatchesIds, Ids
<1> QED BY <1>1, <1>2

\* Registering n uthreads plans n ids that were not in the queue.
LEMMA RegisterAndPlanKeeps ==
    ASSUME active_sessions \in Seq(Entries), QueueMatchesIds,
           next_id \in Ids, active_sessions_ids \subseteq 1..next_id,
           NEW n \in Nat, next_id + n \in Ids,
           RegisterAndPlan(n)
    PROVE  /\ active_sessions' \in Seq(Entries)
           /\ active_sessions_ids' \subseteq 1..next_id'
           /\ QueueMatchesIds'
           /\ NewIds(n) \subseteq active_sessions_ids'
<1> DEFINE new == [k \in 1..n |-> [id |-> next_id + k, params |-> "none"]]
           len == Len(active_sessions)
<1>1. next_id \in Nat /\ next_id + n <= MaxId
  BY DEF Ids
<1>2. new \in Seq(Entries) /\ Len(new) = n
  BY <1>1 DEF Entries, Params, Ids
<1>3. active_sessions' = active_sessions \o new
  BY DEF RegisterAndPlan
<1>4. active_sessions' \in Seq(Entries)
  BY <1>2, <1>3
<1>5. /\ DOMAIN active_sessions = 1..len /\ len \in Nat
      /\ DOMAIN active_sessions' = 1..len + n
      /\ \A i \in 1..len : active_sessions'[i] = active_sessions[i]
      /\ \A i \in len + 1..len + n : active_sessions'[i].id = next_id + (i - len)
  BY <1>2, <1>3
<1>6. \A i \in 1..len : active_sessions[i].id \in 1..next_id
  BY <1>5 DEF QueueMatchesIds, Queued
<1>7. Queued' = Queued \cup NewIds(n)
  <2>1. Queued' \subseteq Queued \cup NewIds(n)
    BY <1>1, <1>5 DEF Queued, NewIds
  <2>2. Queued \subseteq Queued'
    BY <1>5 DEF Queued
  <2>3. ASSUME NEW v \in NewIds(n) PROVE v \in Queued'
    <3>1. len + (v - next_id) \in len + 1..len + n
      BY <1>1, <1>5, <2>3 DEF NewIds
    <3>2. active_sessions'[len + (v - next_id)].id = v
      BY <1>1, <1>5, <3>1, <2>3 DEF NewIds
    <3> QED BY <1>5, <3>1, <3>2 DEF Queued
  <2> QED BY <2>1, <2>2, <2>3
<1>8. \A i, j \in DOMAIN active_sessions' :
          active_sessions'[i].id = active_sessions'[j].id => i = j
  BY <1>1, <1>5, <1>6 DEF QueueMatchesIds
<1>9. active_sessions_ids' = Queued'
  BY <1>7 DEF RegisterAndPlan, QueueMatchesIds
<1>10. NewIds(n) \subseteq 1..next_id' /\ 1..next_id \subseteq 1..next_id'
  BY <1>1 DEF RegisterAndPlan, NewIds
<1> QED BY <1>4, <1>8, <1>9, <1>10 DEF RegisterAndPlan, QueueMatchesIds

LEMMA QueueUnchangedKeeps ==
    ASSUME QueueMatchesIds, UNCHANGED queueVars
    PROVE  QueueMatchesIds'
BY DEF QueueMatchesIds, Queued, queueVars

-----------------------------------------------------------------------------
(* The invariant holds initially and every action keeps it *)

LEMMA InvInit == Init => Inv
<1> SUFFICES ASSUME Init PROVE Inv
  OBVIOUS
<1>1. BootId \in Ids /\ NoId \in IdsOrNone /\ BootId = 1 /\ NoId = 0
  BY DEF BootId, Ids, NoId, IdsOrNone
<1> DEFINE e == [id |-> BootId, params |-> "none"]
<1>2. active_sessions = <<e>> /\ e \in Entries
  BY <1>1 DEF Init, Entries, Params
<1>3. active_sessions \in Seq(Entries) /\ DOMAIN active_sessions = {1}
      /\ active_sessions[1].id = BootId
  BY <1>2
<1>4. TypeOK
  <2>1. wait \in [Ids -> Waits] /\ phase \in Phases
    BY DEF Init, Waits, Phases
  <2>2. armed \in [Ids -> SUBSET Marks] /\ stale \in [Ids -> SUBSET Watchers]
    BY DEF Init
  <2>3. /\ parent \in [Ids -> IdsOrNone] /\ group \in [Ids -> IdsOrNone]
        /\ joinOn \in [Ids -> IdsOrNone] /\ owner \in [Ids -> Ids]
        /\ fns_left \in [Ids -> Int]
    BY <1>1 DEF Init
  <2>4. /\ next_id \in Ids /\ sessions \in SUBSET Ids
        /\ active_sessions_ids \in SUBSET Ids /\ cursor \in Nat \ {0}
        /\ running \in IdsOrNone /\ launcher \in IdsOrNone
        /\ stopping = {} /\ to_visit = {} /\ yielded = {}
    BY <1>1 DEF Init
  <2>5. interrupted \in BOOLEAN /\ loop_done \in BOOLEAN
        /\ cut_short \in BOOLEAN
    BY DEF Init
  <2> QED BY <1>3, <2>1, <2>2, <2>3, <2>4, <2>5 DEF TypeOK
<1>5. QueueMatchesIds
  BY <1>3 DEF Init, QueueMatchesIds, Queued
<1>6. OnlyRegistered
  BY <1>1 DEF Init, OnlyRegistered
<1> QED BY <1>4, <1>5, <1>6 DEF Inv

\* What the steps below use of Inv.
LEMMA InvFacts ==
    ASSUME Inv
    PROVE  /\ active_sessions \in Seq(Entries) /\ QueueMatchesIds
           /\ next_id \in Ids /\ next_id \in Nat /\ next_id <= MaxId
           /\ active_sessions_ids \subseteq 1..next_id
<1>1. active_sessions \in Seq(Entries)
  BY DEF Inv, TypeOK
<1>2. next_id \in Ids
  BY DEF Inv, TypeOK
<1>3. next_id \in Nat /\ next_id <= MaxId
  BY <1>2 DEF Ids
<1> QED BY <1>1, <1>2, <1>3 DEF Inv, OnlyRegistered

LEMMA CallbackKeepsInv ==
    ASSUME Inv, NEW u \in Ids, NEW w \in Watchers,
           Callback(u, w) \/ StaleCallback(u, w)
    PROVE  Inv'
<1>1. u \in 1..next_id
  <2>1. armed[u] # {} \/ stale[u] # {}
    BY DEF Callback, StaleCallback
  <2>2. u <= next_id
    BY <2>1 DEF Inv, OnlyRegistered
  <2> QED BY <2>2, InvFacts DEF Ids
<1>2. PICK p \in Params : PlanResume(u, p)
  BY DEF ParamsOf, LeftParamsOf, Params, Callback, StaleCallback
<1>3. /\ active_sessions' \in Seq(Entries) /\ QueueMatchesIds'
      /\ active_sessions_ids' \subseteq 1..next_id
  BY <1>1, <1>2, InvFacts, PlanResumeKeeps
<1>4. active_sessions_ids' \in SUBSET Ids
  BY <1>3, InvFacts DEF Ids
<1>5. CASE Callback(u, w)
  <2>1. armed' \in [Ids -> SUBSET Marks]
    BY <1>5 DEF Inv, TypeOK, Callback, AfterFiring
  <2>2. TypeOK'
    BY <1>3, <1>4, <1>5, <2>1 DEF Inv, TypeOK, Callback, joinVars, signalVars
  <2>3. \A v \in Ids : armed'[v] # {} => armed[v] # {}
    BY <1>5 DEF Inv, TypeOK, Callback, AfterFiring
  <2>4. OnlyRegistered'
    BY <1>3, <1>5, <2>3 DEF Inv, OnlyRegistered, Callback, joinVars, signalVars
  <2> QED BY <1>3, <2>2, <2>4 DEF Inv
<1>6. CASE StaleCallback(u, w)
  <2>1. stale' \in [Ids -> SUBSET Watchers]
    BY <1>6 DEF Inv, TypeOK, StaleCallback, AfterFiring
  <2>2. TypeOK'
    BY <1>3, <1>4, <1>6, <2>1 DEF Inv, TypeOK, StaleCallback, joinVars,
                                  signalVars
  <2>3. \A v \in Ids : stale'[v] # {} => stale[v] # {}
    BY <1>6 DEF Inv, TypeOK, StaleCallback, AfterFiring
  <2>4. OnlyRegistered'
    BY <1>3, <1>6, <2>3 DEF Inv, OnlyRegistered, StaleCallback, joinVars,
                            signalVars
  <2> QED BY <1>3, <2>2, <2>4 DEF Inv
<1> QED BY <1>5, <1>6

LEMMA VisitSessionKeepsInv ==
    ASSUME Inv, NEW u \in Ids, VisitSession(u)
    PROVE  Inv'
<1>1. u \in 1..next_id
  BY DEF Inv, OnlyRegistered, VisitSession, StopSession
<1>2. "none" \in Params /\ PlanResume(u, "none")
  BY DEF Params, VisitSession, StopSession
<1>3. /\ active_sessions' \in Seq(Entries) /\ QueueMatchesIds'
      /\ active_sessions_ids' \subseteq 1..next_id
  BY <1>1, <1>2, InvFacts, PlanResumeKeeps
<1>4. active_sessions_ids' \in SUBSET Ids
  BY <1>3, InvFacts DEF Ids
<1>5. TypeOK'
  BY <1>3, <1>4 DEF Inv, TypeOK, VisitSession, StopSession, joinVars
<1>6. OnlyRegistered'
  BY <1>3 DEF Inv, OnlyRegistered, VisitSession, StopSession, joinVars
<1> QED BY <1>3, <1>5, <1>6 DEF Inv

\* The actions that leave the queue as it is and register nobody.
LEMMA QuietStepKeepsInv ==
    ASSUME Inv,
           \/ Sigint \/ BeginPass \/ SkipAbsent
           \/ \E u \in Ids : \/ ReceiveMore(u) \/ ResumeAsserts(u)
                             \/ NextPhase(u) \/ StopLoop(u) \/ Fail(u)
    PROVE  Inv'
<1>1. UNCHANGED <<next_id, sessions, queueVars, running, wait, armed, stale,
                  joinVars, launcher, yielded>>
  BY DEF Sigint, BeginPass, SkipAbsent, ReceiveMore, ResumeAsserts, NextPhase,
         StopLoop, Fail, signalVars
<1>2. QueueMatchesIds'
  BY <1>1, QueueUnchangedKeeps DEF Inv
<1>2a. PICK u \in Ids : \/ Sigint \/ BeginPass \/ SkipAbsent
                        \/ ReceiveMore(u) \/ ResumeAsserts(u)
                        \/ NextPhase(u) \/ StopLoop(u) \/ Fail(u)
  BY InvFacts
<1>3. /\ phase' \in Phases /\ cursor' \in Nat \ {0}
      /\ stopping' \in SUBSET Ids /\ interrupted' \in BOOLEAN
      /\ to_visit' \in SUBSET Ids /\ to_visit' \subseteq 1..next_id
      /\ loop_done' \in BOOLEAN
  <2>1. CASE Sigint
    <3>1. /\ launcher \in IdsOrNone /\ sessions \in SUBSET Ids
          /\ sessions \subseteq 1..next_id
      BY DEF Inv, TypeOK, OnlyRegistered
    <3>2. stopping' \in SUBSET Ids
      BY <2>1, <3>1 DEF Inv, TypeOK, Sigint, ShutDownRegistered, IdsOrNone
    <3>3. to_visit' \in SUBSET Ids /\ to_visit' \subseteq 1..next_id
      BY <2>1, <3>1 DEF Inv, TypeOK, OnlyRegistered, Sigint, ShutDownRegistered
    <3>4. phase' \in Phases /\ interrupted' \in BOOLEAN
      BY <2>1 DEF Inv, TypeOK, Sigint, ShutDownRegistered, Phases, Ended
    <3> QED BY <2>1, <3>2, <3>3, <3>4 DEF Inv, TypeOK, Sigint, ShutDownRegistered
  <2>2. CASE BeginPass \/ SkipAbsent \/ ReceiveMore(u)
    <3>1. phase' \in Phases /\ UNCHANGED <<signalVars, loop_done>>
      BY <2>2 DEF Inv, TypeOK, BeginPass, SkipAbsent, ReceiveMore, Phases
    <3>2. cursor' \in Nat \ {0}
      BY <2>2 DEF Inv, TypeOK, BeginPass, SkipAbsent, ReceiveMore
    <3> QED BY <3>1, <3>2 DEF Inv, TypeOK, OnlyRegistered, signalVars
  <2>3. CASE ResumeAsserts(u) \/ NextPhase(u) \/ StopLoop(u) \/ Fail(u)
    BY <2>3 DEF Inv, TypeOK, OnlyRegistered, ResumeAsserts, NextPhase, StopLoop,
                Fail, signalVars, Phases, Ended
  <2> QED BY <1>2a, <2>1, <2>2, <2>3
<1>4. TypeOK'
  BY <1>1, <1>3 DEF Inv, TypeOK, queueVars, joinVars
<1>5. OnlyRegistered'
  BY <1>1, <1>3 DEF Inv, OnlyRegistered, queueVars, joinVars
<1> QED BY <1>2, <1>4, <1>5 DEF Inv

LEMMA EndPassKeepsInv == ASSUME Inv, EndPass PROVE Inv'
<1>1. active_sessions' = <<>> /\ active_sessions_ids' = {}
  BY DEF EndPass, PassOver, ResetActive
<1>2. QueueMatchesIds'
  BY <1>1 DEF QueueMatchesIds, Queued
<1>3. TypeOK'
  BY DEF Inv, TypeOK, EndPass, PassOver, ResetActive, joinVars, signalVars, Phases, Ended
<1>4. OnlyRegistered'
  BY DEF Inv, OnlyRegistered, EndPass, PassOver, ResetActive, joinVars, signalVars
<1> QED BY <1>2, <1>3, <1>4 DEF Inv

LEMMA ResumeKeepsInv == ASSUME Inv, NEW u \in Ids, Resume(u) PROVE Inv'
<1>1. QueueMatchesIds'
  BY QueueUnchangedKeeps DEF Inv, Resume
<1>2. u \in sessions /\ u \in 1..next_id
  BY DEF Inv, OnlyRegistered, Resume, Resumable
<1>3. /\ wait' \in [Ids -> Waits]
      /\ joinOn' \in [Ids -> IdsOrNone]
      /\ armed' \in [Ids -> SUBSET Marks]
  BY DEF Inv, TypeOK, Resume, Waits, IdsOrNone
<1>3a. stale' \in [Ids -> SUBSET Watchers]
  <2>1. armed \in [Ids -> SUBSET Marks] /\ stale \in [Ids -> SUBSET Watchers]
    BY DEF Inv, TypeOK
  <2>2. armed[u] \ {"freed"} \in SUBSET Watchers
    BY <2>1 DEF Marks
  <2>3. \/ stale' = stale
        \/ stale' = [stale EXCEPT ![u] = armed[u] \ {"freed"}]
    BY DEF Resume
  <2> QED BY <2>1, <2>2, <2>3
<1>4. cursor' \in Nat \ {0} /\ running' \in IdsOrNone
  BY DEF Inv, TypeOK, Resume, IdsOrNone
<1>5. TypeOK'
  BY <1>3, <1>3a, <1>4 DEF Inv, TypeOK, Resume, queueVars, signalVars
<1>6. \A v \in Ids : armed'[v] # {} \/ stale'[v] # {}
                     => armed[v] # {} \/ stale[v] # {}
  BY DEF Inv, TypeOK, Resume
<1>7. OnlyRegistered'
  BY <1>2, <1>6, InvFacts DEF Inv, OnlyRegistered, Resume, queueVars, signalVars
<1> QED BY <1>1, <1>5, <1>7 DEF Inv

\* The end of a coroutine, by return or by STOP.
LEMMA EndUthreadKeepsInv ==
    ASSUME Inv, NEW u \in Ids, u \in 1..next_id, EndUthread(u),
           cursor' \in Nat \ {0},
           UNCHANGED <<next_id, phase, parent, group, owner, cut_short,
                       signalVars, loop_done, yielded>>
    PROVE  Inv'
<1>1. /\ active_sessions' \in Seq(Entries) /\ QueueMatchesIds'
      /\ active_sessions_ids' \subseteq 1..next_id
      /\ fns_left' \in [Ids -> Int]
  <2>1. CASE UNCHANGED <<queueVars, fns_left>>
    BY <2>1, InvFacts, QueueUnchangedKeeps DEF Inv, TypeOK, queueVars
  <2>2. CASE group[u] # NoId
    <3>1. parent[u] \in 1..next_id
      BY <2>2 DEF Inv, TypeOK, OnlyRegistered, IdsOrNone, Ids, NoId
    <3>2. fns_left' = [fns_left EXCEPT ![group[u]] = @ - 1]
          /\ (PlanResume(parent[u], "none") \/ UNCHANGED queueVars)
      BY <2>2 DEF EndUthread, LeaveGroup, Counts, IsLast
    <3>3. fns_left' \in [Ids -> Int]
      <4>1. fns_left \in [Ids -> Int]
        BY DEF Inv, TypeOK
      <4>2. group[u] \in Ids
        BY <2>2 DEF Inv, TypeOK, IdsOrNone
      <4>3. \A g \in Ids : fns_left[g] - 1 \in Int
        BY <4>1
      <4> QED BY <3>2, <4>1, <4>2, <4>3
    <3>4. CASE PlanResume(parent[u], "none")
      BY <3>1, <3>3, <3>4, InvFacts, PlanResumeKeeps DEF Params
    <3>5. CASE UNCHANGED queueVars
      BY <3>3, <3>5, InvFacts, QueueUnchangedKeeps DEF Inv, queueVars
    <3> QED BY <3>2, <3>4, <3>5
  <2> QED BY <2>1, <2>2 DEF EndUthread, LeaveGroup, Counts, IsLast
<1>2. active_sessions_ids' \in SUBSET Ids
  BY <1>1, InvFacts DEF Ids
<1>3. /\ armed' \in [Ids -> SUBSET Marks]
      /\ stale' \in [Ids -> SUBSET Watchers]
  <2>1. armed \in [Ids -> SUBSET Marks] /\ stale \in [Ids -> SUBSET Watchers]
    BY DEF Inv, TypeOK
  <2>2. CASE owner[u] = u
    <3>1. armed' \in [Ids -> SUBSET Marks]
      BY <2>1, <2>2 DEF EndUthread, Clean, Marks
    <3>2. stale' \in [Ids -> SUBSET Watchers]
      BY <2>1, <2>2 DEF EndUthread, Clean
    <3> QED BY <3>1, <3>2
  <2>3. CASE owner[u] # u
    <3>1. armed' = [armed EXCEPT ![u] = {}]
          /\ stale' = [stale EXCEPT ![u] = @ \cup (armed[u] \ {"freed"})]
      BY <2>3 DEF EndUthread, Clean
    <3>2. stale[u] \cup (armed[u] \ {"freed"}) \in SUBSET Watchers
      BY <2>1 DEF Marks
    <3> QED BY <2>1, <3>1, <3>2 DEF Marks
  <2> QED BY <2>2, <2>3
<1>4. /\ wait' \in [Ids -> Waits] /\ joinOn' \in [Ids -> IdsOrNone]
      /\ sessions' \in SUBSET Ids /\ running' \in IdsOrNone
  BY DEF Inv, TypeOK, EndUthread, Waits, IdsOrNone
<1>5. TypeOK'
  BY <1>1, <1>2, <1>3, <1>4 DEF Inv, TypeOK, signalVars
<1>6. \A v \in Ids : armed'[v] # {} \/ stale'[v] # {}
                     => armed[v] # {} \/ stale[v] # {} \/ v \in sessions
  <2>1. CASE owner[u] = u
    BY <2>1 DEF Inv, TypeOK, EndUthread, Clean, Disturbed
  <2>2. CASE owner[u] # u
    BY <2>2 DEF Inv, TypeOK, EndUthread, Clean
  <2> QED BY <2>1, <2>2
<1>7. sessions' \subseteq 1..next_id /\ running' \in 0..next_id
  <2>1. sessions \subseteq 1..next_id
    BY DEF Inv, OnlyRegistered
  <2> QED BY <2>1, InvFacts DEF EndUthread, NoId
<1>8. OnlyRegistered'
  BY <1>1, <1>6, <1>7 DEF Inv, OnlyRegistered, signalVars
<1> QED BY <1>1, <1>5, <1>8 DEF Inv

LEMMA FinishKeepsInv ==
    ASSUME Inv, NEW u \in Ids, StopUthread(u) \/ Finish(u)
    PROVE  Inv'
<1>1. CASE StopUthread(u)
  <2>1. u \in 1..next_id /\ cursor' \in Nat \ {0}
    BY <1>1 DEF Inv, TypeOK, OnlyRegistered, StopUthread, Resumable
  <2> QED BY <1>1, <2>1, EndUthreadKeepsInv DEF StopUthread
<1>2. CASE Finish(u)
  <2>1. u \in 1..next_id /\ cursor' \in Nat \ {0}
    BY <1>2, InvFacts DEF Inv, TypeOK, OnlyRegistered, Finish, Running, Ids
  <2> QED BY <1>2, <2>1, EndUthreadKeepsInv DEF Finish
<1> QED BY <1>1, <1>2

LEMMA RunningRegistered ==
    ASSUME Inv, NEW u \in Ids, Running(u) PROVE u \in 1..next_id
BY InvFacts DEF Inv, OnlyRegistered, Running, Ids

LEMMA AwaitKeepsInv == ASSUME Inv, NEW u \in Ids, Await(u) PROVE Inv'
<1>1. PICK call \in Waits, ws \in SUBSET Marks : Yield(u, call, ws)
  BY DEF Await, Waits, Marks, Watchers
<1>2. u \in 1..next_id
  BY RunningRegistered DEF Await
<1>3. QueueMatchesIds'
  BY QueueUnchangedKeeps DEF Inv, Await
<1>4. /\ running' = NoId /\ wait' \in [Ids -> Waits]
      /\ armed' \in [Ids -> SUBSET Marks] /\ yielded' \in SUBSET Ids
  BY <1>1 DEF Inv, TypeOK, Yield
<1>5. TypeOK'
  <2>1. UNCHANGED <<next_id, sessions, phase, cursor, stale, loop_done>>
        /\ UNCHANGED <<queueVars, joinVars, signalVars>>
    BY DEF Await
  <2>2. cut_short' \in BOOLEAN
    BY <2>1 DEF Inv, TypeOK, joinVars
  <2>3. interrupted' \in BOOLEAN /\ loop_done' \in BOOLEAN
    BY <2>1 DEF Inv, TypeOK, signalVars
  <2> QED BY <1>4, <2>1, <2>2, <2>3 DEF Inv, TypeOK, IdsOrNone, queueVars,
                                        joinVars, signalVars
<1>6. \A v \in Ids : v # u => armed'[v] = armed[v]
  BY <1>1 DEF Inv, TypeOK, Yield
<1>7. OnlyRegistered'
  <2>1. UNCHANGED <<next_id, sessions, active_sessions_ids, stale, parent,
                    group, to_visit>>
    BY DEF Await, queueVars, joinVars, signalVars
  <2> QED BY <1>2, <1>4, <1>6, <2>1, InvFacts DEF Inv, OnlyRegistered, NoId
<1> QED BY <1>3, <1>5, <1>7 DEF Inv

LEMMA CooperateKeepsInv == ASSUME Inv, NEW u \in Ids, Cooperate(u) PROVE Inv'
<1>1. u \in 1..next_id
  BY RunningRegistered DEF Cooperate
<1>2. /\ active_sessions' \in Seq(Entries) /\ QueueMatchesIds'
      /\ active_sessions_ids' \subseteq 1..next_id
  BY <1>1, InvFacts, PlanResumeKeeps DEF Cooperate, Params
<1>3. active_sessions_ids' \in SUBSET Ids
  BY <1>2, InvFacts DEF Ids
<1>4. wait' \in [Ids -> Waits]
  BY DEF Inv, TypeOK, Cooperate, Waits
<1>5. TypeOK'
  BY <1>2, <1>3, <1>4 DEF Inv, TypeOK, Cooperate, IdsOrNone, joinVars, signalVars
<1>6. OnlyRegistered'
  BY <1>2, InvFacts DEF Inv, OnlyRegistered, Cooperate, NoId, joinVars, signalVars
<1> QED BY <1>2, <1>5, <1>6 DEF Inv

LEMMA SpawnKeepsInv == ASSUME Inv, NEW u \in Ids, Spawn(u) PROVE Inv'
<1>1. next_id + 1 \in Ids /\ 1 \in Nat /\ RegisterAndPlan(1)
  BY InvFacts DEF Spawn, SpawnsSession, InitLauncher, Ids
<1>2. /\ active_sessions' \in Seq(Entries) /\ QueueMatchesIds'
      /\ active_sessions_ids' \subseteq 1..next_id'
  BY <1>1, InvFacts, RegisterAndPlanKeeps
<1>3. next_id' = next_id + 1 /\ sessions' \subseteq 1..next_id'
  <2>1. sessions \subseteq 1..next_id
    BY DEF Inv, OnlyRegistered
  <2>2. next_id' = next_id + 1 /\ sessions' = sessions \cup NewIds(1)
    BY <1>1 DEF RegisterAndPlan
  <2>3. 1..next_id \subseteq 1..next_id + 1 /\ NewIds(1) \subseteq 1..next_id + 1
    BY InvFacts DEF NewIds
  <2> QED BY <2>1, <2>2, <2>3
<1>4. 1..next_id' \subseteq Ids
  BY <1>1, <1>3 DEF Ids
<1>5. /\ wait' \in [Ids -> Waits] /\ launcher' \in IdsOrNone
  BY <1>1 DEF Inv, TypeOK, Spawn, SpawnsSession, InitLauncher, Waits, IdsOrNone
<1>6. TypeOK'
  BY <1>1, <1>2, <1>3, <1>4, <1>5 DEF Inv, TypeOK, Spawn, SpawnsSession, InitLauncher, joinVars
<1>7. OnlyRegistered'
  <2>1. 1..next_id \subseteq 1..next_id' /\ 0..next_id \subseteq 0..next_id'
    BY <1>3, InvFacts
  <2>2. \A v \in IdsOrNone : v <= next_id => v <= next_id'
    BY <1>3, InvFacts DEF IdsOrNone, Ids, NoId
  <2>3. Ids \subseteq IdsOrNone /\ parent \in [Ids -> IdsOrNone]
    BY DEF Inv, TypeOK, IdsOrNone
  <2> QED BY <1>2, <1>3, <2>1, <2>2, <2>3
             DEF Inv, OnlyRegistered, Spawn, SpawnsSession, InitLauncher, joinVars
<1> QED BY <1>2, <1>6, <1>7 DEF Inv

LEMMA ParallelKeepsInv == ASSUME Inv, NEW u \in Ids, Parallel(u) PROVE Inv'
<1>1. PICK n \in 0..MaxFuns :
        /\ next_id + n <= MaxId
        /\ RegisterAndPlan(n)
        /\ wait' = [v \in Ids |-> IF v \in NewIds(n) THEN "start"
                                  ELSE IF v = u THEN "join" ELSE wait[v]]
        /\ parent' = [v \in Ids |-> IF v \in NewIds(n) THEN u ELSE parent[v]]
        /\ owner' = [v \in Ids |-> IF v \in NewIds(n) THEN owner[u]
                                   ELSE owner[v]]
        /\ group' = [v \in Ids |-> IF v \in NewIds(n) THEN next_id + 1
                                   ELSE group[v]]
        /\ IF n = 0
           THEN UNCHANGED <<joinOn, fns_left>>
           ELSE /\ joinOn' = [joinOn EXCEPT ![u] = next_id + 1]
                /\ fns_left' = [fns_left EXCEPT ![next_id + 1] = n]
  BY DEF Parallel
<1>2. n \in Nat /\ next_id + n \in Ids /\ u \in 1..next_id
  BY <1>1, InvFacts, RunningRegistered DEF Parallel, Ids
<1>3. /\ active_sessions' \in Seq(Entries) /\ QueueMatchesIds'
      /\ active_sessions_ids' \subseteq 1..next_id'
  BY <1>1, <1>2, InvFacts, RegisterAndPlanKeeps
<1>4. next_id' = next_id + n /\ sessions' \subseteq 1..next_id'
  <2>1. sessions \subseteq 1..next_id
    BY DEF Inv, OnlyRegistered
  <2>2. next_id' = next_id + n /\ sessions' = sessions \cup NewIds(n)
    BY <1>1 DEF RegisterAndPlan
  <2>3. 1..next_id \subseteq 1..next_id + n /\ NewIds(n) \subseteq 1..next_id + n
    BY <1>2, InvFacts DEF NewIds
  <2> QED BY <2>1, <2>2, <2>3
<1>5. 1..next_id' \subseteq Ids
  BY <1>2, <1>4 DEF Ids
<1>6. n # 0 => next_id + 1 \in Ids
  BY <1>2, InvFacts DEF Ids
<1>7. NewIds(n) # {} => n # 0
  BY <1>2, InvFacts DEF NewIds
<1>8. /\ wait' \in [Ids -> Waits]
      /\ parent' \in [Ids -> IdsOrNone]
      /\ owner' \in [Ids -> Ids]
  BY <1>1 DEF Inv, TypeOK, Waits, IdsOrNone
<1>9. /\ group' \in [Ids -> IdsOrNone]
      /\ joinOn' \in [Ids -> IdsOrNone]
      /\ fns_left' \in [Ids -> Int]
  <2>1. /\ group \in [Ids -> IdsOrNone]
        /\ joinOn \in [Ids -> IdsOrNone]
        /\ fns_left \in [Ids -> Int]
    BY DEF Inv, TypeOK
  <2>2. group' \in [Ids -> IdsOrNone]
    <3>1. \A v \in NewIds(n) : next_id + 1 \in IdsOrNone
      BY <1>6, <1>7 DEF IdsOrNone
    <3> QED BY <1>1, <2>1, <3>1
  <2>3. CASE n = 0
    BY <1>1, <2>1, <2>2, <2>3
  <2>4. CASE n # 0
    <3>1. next_id + 1 \in IdsOrNone
      BY <1>6, <2>4 DEF IdsOrNone
    <3>2. /\ joinOn' = [joinOn EXCEPT ![u] = next_id + 1]
          /\ fns_left' = [fns_left EXCEPT ![next_id + 1] = n]
      BY <1>1, <2>4
    <3>3. joinOn' \in [Ids -> IdsOrNone]
      BY <2>1, <3>1, <3>2
    <3>4. fns_left' \in [Ids -> Int]
      <4>1. n \in Int
        BY <1>2
      <4> QED BY <2>1, <3>2, <4>1
    <3> QED BY <2>2, <3>3, <3>4
  <2> QED BY <2>3, <2>4
<1>10. TypeOK'
  <2>1. running' \in IdsOrNone /\ yielded' \in SUBSET Ids
    BY DEF Inv, TypeOK, Parallel, IdsOrNone
  <2> QED BY <1>2, <1>3, <1>4, <1>5, <1>8, <1>9, <2>1
          DEF Inv, TypeOK, Parallel, signalVars
<1>11. OnlyRegistered'
  <2>1. 1..next_id \subseteq 1..next_id' /\ running' \in 0..next_id'
    BY <1>2, <1>4, InvFacts DEF Parallel, NoId
  <2>2. \A v \in IdsOrNone : v <= next_id => v <= next_id'
    BY <1>2, <1>4, InvFacts DEF IdsOrNone, Ids, NoId
  <2>3. u <= next_id' /\ u # NoId
    BY <1>2, <1>4, InvFacts DEF NoId
  <2>4. \A v \in Ids : parent'[v] <= next_id'
                       /\ (group'[v] # NoId => parent'[v] # NoId)
    BY <1>1, <2>2, <2>3 DEF Inv, TypeOK, OnlyRegistered
  <2>5. \A v \in Ids : armed'[v] # {} \/ stale'[v] # {} => v <= next_id'
    BY <2>2 DEF Inv, OnlyRegistered, Parallel, IdsOrNone
  <2> QED BY <1>3, <1>4, <2>1, <2>4, <2>5
          DEF Inv, OnlyRegistered, Parallel, signalVars
<1> QED BY <1>3, <1>10, <1>11 DEF Inv

LEMMA InvStep == Inv /\ [Next]_vars => Inv'
<1> SUFFICES ASSUME Inv, [Next]_vars PROVE Inv'
  OBVIOUS
<1>1. ASSUME NEW u \in Ids, NEW w \in Watchers,
             Callback(u, w) \/ StaleCallback(u, w)
      PROVE  Inv'
  BY <1>1, CallbackKeepsInv
<1>2. ASSUME NEW u \in Ids, VisitSession(u) PROVE Inv'
  BY <1>2, VisitSessionKeepsInv
<1>3. CASE Sigint \/ BeginPass \/ SkipAbsent
  BY <1>3, QuietStepKeepsInv
<1>4. CASE EndPass
  BY <1>4, EndPassKeepsInv
<1>5. ASSUME NEW u \in Ids,
             Resume(u) \/ ReceiveMore(u) \/ ResumeAsserts(u) \/ StopUthread(u)
      PROVE  Inv'
  BY <1>5, ResumeKeepsInv, QuietStepKeepsInv, FinishKeepsInv
<1>6. ASSUME NEW u \in Ids, Script(u) PROVE Inv'
  BY <1>6, AwaitKeepsInv, SpawnKeepsInv, ParallelKeepsInv, CooperateKeepsInv,
     QuietStepKeepsInv, FinishKeepsInv DEF Script
<1>7. CASE UNCHANGED vars
  <2>1. QueueMatchesIds'
    BY <1>7, QueueUnchangedKeeps DEF Inv, vars
  <2>2. TypeOK'
    BY <1>7 DEF Inv, TypeOK, vars, queueVars, joinVars, signalVars
  <2>3. OnlyRegistered'
    BY <1>7 DEF Inv, OnlyRegistered, vars, queueVars, joinVars, signalVars
  <2> QED BY <2>1, <2>2, <2>3 DEF Inv
<1> QED BY <1>1, <1>2, <1>3, <1>4, <1>5, <1>6, <1>7 DEF Next, PassStep

-----------------------------------------------------------------------------
(* Theorems *)

\* Every variable keeps its type: in particular no operation names a uthread
\* that was never registered.
THEOREM TypeCorrect == Spec => []TypeOK
<1>1. Inv => TypeOK
  BY DEF Inv
<1> QED BY <1>1, InvInit, InvStep, PTL DEF Spec

\* The queue of planned resumes and the marks that guard it agree, and no
\* uthread is queued twice.
THEOREM QueueCorrect == Spec => []QueueMatchesIds
<1>1. Inv => QueueMatchesIds
  BY DEF Inv
<1> QED BY <1>1, InvInit, InvStep, PTL DEF Spec
=============================================================================
