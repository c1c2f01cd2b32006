---------------------------- MODULE SchedulerMC ----------------------------
(* The instances of Scheduler that TLC checks. *)
EXTENDS Scheduler

\* Bound: once MaxId uthreads are registered, at most one watcher of an ended
\* receive() or sleep() is left started; with fewer, any number.
OneLeftOver ==
    next_id = MaxId
    => Cardinality({x \in Ids \X Watchers : x[2] \in stale[x[1]]}) <= 1
=============================================================================
