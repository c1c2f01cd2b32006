------------------------------- MODULE Launcher -------------------------------
(***************************************************************************)
(* One worker's test: Launcher:run with its phases and ticks, the users it *)
(* launches and counts, and the statistics buffer that users and launcher  *)
(* fill and each tick sends (launcher.lua, stat.lua), with the worker's    *)
(* share of the script's rates (HTTPHandler.lua).                          *)
(* Time is in seconds.  A sleep may last a little longer than asked, so a  *)
(* comparison with a whole number of seconds that are just over may go     *)
(* either way.  Users differ in nothing that is counted here.              *)
(***************************************************************************)
EXTENDS Integers, Sequences, SequencesExt

CONSTANTS
    Phases,     \* the script's: a ramp is a table of two rates, which may be
                \* equal; a flat rate is a number
    WorkerNum,  \* workers that share the rates
    Limits,     \* values of total_duration_limit to choose from; 0 is none
    MaxBlock,   \* bound: seconds for which a send blocks (the code's is 15)
    MaxStep     \* bound: users end before this step of a test without limit

ASSUME PhasesAssumption ==
    /\ Phases \in Seq([ramp : BOOLEAN, from : Nat, to : Nat,
                       duration : Nat \ {0}])
    /\ \A i \in DOMAIN Phases :
        /\ \/ Phases[i].from >= WorkerNum /\ Phases[i].to >= WorkerNum
           \/ Phases[i].from = 0 /\ ~Phases[i].ramp
        /\ Phases[i].ramp \/ Phases[i].to = Phases[i].from
ASSUME WorkerNumAssumption == WorkerNum \in Nat \ {0}
ASSUME LimitsAssumption == Limits \subseteq Nat
ASSUME BoundsAssumption == {MaxBlock, MaxStep} \subseteq Nat

VARIABLES
    pc,           \* "connect", "phase", "loop", "sleep", "send", "ticked",
                  \* "send_finish", or "finished" or "crashed"
    phase,        \* index of the for loop; Len(Phases) + 1 is final_phase
    cur_step, start_step,
    elapsed,      \* now() - phase_started, counted while it matters to the phase
    total,        \* now() - test_started, counted up to the limit
    limit,        \* total_duration_limit
    asleep,       \* users in the sleep of on_before_run
    awake,        \* users that run
    concur_users_num,
    stat_buf,     \* Stat.stat_buf: events, numbered in the order of their add()
    out_data,     \* the encoded buffer that a blocked send is sending
    added,        \* history: number of events added
    reports,      \* history: what the statistics server was sent
    lost          \* history: events that a reset erased before they were sent

timeVars == <<elapsed, total>>
userVars == <<asleep, awake, concur_users_num>>
stepVars == <<phase, cur_step, start_step>>
statVars == <<stat_buf, out_data, added, reports, lost>>
vars == <<pc, stepVars, timeVars, limit, userVars, statVars>>

-----------------------------------------------------------------------------
(* Rates.  round() of a fraction, and what range() makes of one.            *)

Round(a, b) == (2 * a + b) \div (2 * b)
RoundDown(a, b) == a \div b

\* A worker's share.  A flat rate stays a fraction, of which range() takes the
\* whole users; the ends of a ramp are rounded.  A faulty variant divides a flat
\* rate only.
ShareOfFlat(rate, p) == IF p.ramp THEN rate ELSE RoundDown(rate, WorkerNum)
Share(rate, p) == IF p.ramp THEN Round(rate, WorkerNum)
                            ELSE RoundDown(rate, WorkerNum)

\* calc_rate, k steps into the phase.
Ramp(from, to, d, k) == Round(from * d + (to - from) * k, d)
Rate(p, k) == Ramp(Share(p.from, p), Share(p.to, p), p.duration, k)

IsFinishPhase == phase = Len(Phases) + 1
PhaseRate == IF IsFinishPhase THEN 0
             ELSE Rate(Phases[phase], cur_step - start_step)

-----------------------------------------------------------------------------
(* Stat                                                                     *)

\* add() of n events.
Added(n) == [i \in 1..n |-> added + i]
Add(n) == stat_buf' = stat_buf \o Added(n) /\ added' = added + n

\* send_stats has sent data for the step, and reset() empties the buffer, with
\* what came into it since it was encoded.
Report(step, data) == reports' = Append(reports, [step |-> step, data |-> data])

\* What reset() leaves, and a faulty variant without it.
KeepAll(buf) == buf
Reset(buf) == <<>>

\* Any time after the phase's duration is as good as another.
Least(a, b) == IF a < b THEN a ELSE b
MaxElapsed == IF IsFinishPhase THEN 0 ELSE Phases[phase].duration + 1

Elapse(n) ==
    /\ elapsed' = Least(elapsed + n, MaxElapsed)
    /\ total' = Least(total + n, limit)

-----------------------------------------------------------------------------
(* Launcher:run                                                             *)

ConnectToStatServer ==
    /\ pc = "connect"
    /\ pc' \in {"phase", "crashed"}
    /\ UNCHANGED <<stepVars, timeVars, limit, userVars, statVars>>

StartPhase ==
    /\ pc = "phase"
    /\ phase' = phase + 1
    /\ start_step' = cur_step
    /\ elapsed' = 0
    /\ pc' = "loop"
    /\ UNCHANGED <<cur_step, total, limit, userVars, statVars>>

\* The condition of the while loop, which is true, false, or either; and a
\* faulty variant that allows for a tick more.
OneMore == IF IsFinishPhase THEN TRUE ELSE elapsed <= Phases[phase].duration + 1
MayTick == IF IsFinishPhase THEN TRUE ELSE elapsed <= Phases[phase].duration
MayLeave == ~IsFinishPhase /\ elapsed >= Phases[phase].duration

\* tick, up to tick_sleep: the users are registered and planned.
Tick ==
    /\ pc = "loop" /\ MayTick
    /\ asleep' = asleep + PhaseRate
    /\ pc' = "sleep"
    /\ UNCHANGED <<stepVars, timeVars, limit, awake, concur_users_num,
                   statVars>>

LeavePhase ==
    /\ pc = "loop" /\ MayLeave
    /\ pc' = "phase"
    /\ UNCHANGED <<stepVars, timeVars, limit, userVars, statVars>>

\* Users wait for less than the second of tick_sleep, and started their timers
\* at the same time of the loop: theirs fire first.  Faulty variants: without that
\* order, and a tick that waits until its users have ended.
AnyTime == TRUE
UsersEndFirst == asleep = 0 /\ awake = 0
UsersWokeFirst == asleep = 0

\* The end of tick_sleep: max and min of users and connections, then a send,
\* which may block.
TickWakes ==
    /\ pc = "sleep"
    /\ UsersWokeFirst
    /\ cur_step < MaxStep \/ limit > 0 \/ awake = 0
    /\ Elapse(1)
    /\ added' = added + 1
    /\ LET data == stat_buf \o Added(1)
       IN  \/ /\ pc' = "ticked"
              /\ Report(cur_step, data)
              /\ stat_buf' = Reset(data)
              /\ UNCHANGED out_data
           \/ /\ pc' = "send"
              /\ out_data' = data
              /\ stat_buf' = data
              /\ UNCHANGED reports
    /\ UNCHANGED <<stepVars, limit, userVars, lost>>

\* The blocked send ends; then the reset.
Erased == {stat_buf[i] : i \in DOMAIN stat_buf} \ ToSet(out_data)

SendEnds ==
    /\ pc = "send"
    /\ \E n \in 0..MaxBlock : Elapse(n)
    /\ Report(cur_step, out_data)
    /\ lost' = lost \cup Erased
    /\ stat_buf' = Reset(stat_buf)
    /\ out_data' = <<>>
    /\ pc' = "ticked"
    /\ UNCHANGED <<stepVars, limit, userVars, added>>

Sending == pc \in {"send", "send_finish"}

\* A send that fails, at once or after its timeout, fails an assertion.
SendFails ==
    /\ Sending \/ pc \in {"sleep", "ticked"}
    /\ pc' = "crashed"
    /\ UNCHANGED <<stepVars, timeVars, limit, userVars, statVars>>

\* The limit, and a faulty variant that compares with ">".
TimeOver == limit > 0 /\ total > limit
TimeUp == limit > 0 /\ total >= limit
MustFinish == (IsFinishPhase /\ concur_users_num = 0) \/ TimeUp

NextStep ==
    /\ pc = "ticked" /\ ~MustFinish
    /\ cur_step' = cur_step + 1
    /\ pc' = "loop"
    /\ UNCHANGED <<phase, start_step, timeVars, limit, userVars, statVars>>

\* finish_test: the event FINISH_TEST, a last send, and the handler's
\* 'finished'; then the event loop stops.  The report is of a step of its own,
\* which a faulty variant does not count.
SameStep == cur_step
LastStep == cur_step + 1

FinishTest ==
    /\ pc = "ticked" /\ MustFinish
    /\ added' = added + 1
    /\ LET data == stat_buf \o Added(1)
       IN  /\ stat_buf' = data
           /\ \/ /\ pc' = "finished"
                 /\ Report(LastStep, data)
                 /\ UNCHANGED out_data
              \/ /\ pc' = "send_finish"
                 /\ out_data' = data
                 /\ UNCHANGED reports
    /\ UNCHANGED <<stepVars, timeVars, limit, userVars, lost>>

FinishSendEnds ==
    /\ pc = "send_finish"
    /\ Report(LastStep, out_data)
    /\ out_data' = <<>>
    /\ pc' = "finished"
    /\ UNCHANGED <<stepVars, timeVars, limit, userVars, stat_buf, added, lost>>

-----------------------------------------------------------------------------
(* Users, while the launcher waits.                                         *)

Waiting == pc \in {"sleep", "send", "send_finish"}

\* The rest of on_before_run.
UserStarts ==
    /\ Waiting /\ asleep > 0
    /\ asleep' = asleep - 1
    /\ awake' = awake + 1
    /\ concur_users_num' = concur_users_num + 1
    /\ Add(1)
    /\ UNCHANGED <<pc, stepVars, timeVars, limit, out_data, reports, lost>>

\* The user's last response, the end of its run(), and on_after_run, of which
\* a faulty variant counts twice.
CountedTwice == concur_users_num - 2
CountedDown == concur_users_num - 1

UserEnds ==
    /\ Waiting /\ awake > 0
    /\ awake' = awake - 1
    /\ concur_users_num' = CountedDown
    /\ Add(1)
    /\ UNCHANGED <<pc, stepVars, timeVars, limit, asleep, out_data, reports,
                   lost>>

UserFails ==
    /\ Waiting /\ awake > 0
    /\ pc' = "crashed"
    /\ UNCHANGED <<stepVars, timeVars, limit, userVars, statVars>>

-----------------------------------------------------------------------------
Init ==
    /\ pc = "connect" /\ phase = 0 /\ cur_step = 1 /\ start_step = 1
    /\ elapsed = 0 /\ total = 0 /\ limit \in Limits
    /\ asleep = 0 /\ awake = 0 /\ concur_users_num = 0
    /\ stat_buf = <<>> /\ out_data = <<>> /\ added = 0
    /\ reports = <<>> /\ lost = {}

Run == \/ ConnectToStatServer \/ StartPhase \/ Tick \/ LeavePhase
       \/ NextStep \/ FinishTest

Next == \/ Run \/ TickWakes \/ SendEnds \/ SendFails \/ FinishSendEnds
        \/ UserStarts \/ UserEnds \/ UserFails

Spec == Init /\ [][Next]_vars

\* Timers fire, and a send ends or fails by its timeout.
Fairness == /\ WF_vars(Run) /\ WF_vars(TickWakes) /\ WF_vars(UserStarts)
            /\ WF_vars(SendEnds \/ FinishSendEnds \/ (Sending /\ SendFails))

FairSpec == Spec /\ Fairness

-----------------------------------------------------------------------------
(* Properties *)

TypeOK ==
    /\ pc \in {"connect", "phase", "loop", "sleep", "send", "ticked",
               "send_finish", "finished", "crashed"}
    /\ phase \in 0..(Len(Phases) + 1)
    /\ cur_step \in Nat \ {0} /\ start_step \in 1..cur_step
    /\ elapsed \in Nat /\ limit \in Limits /\ total \in 0..limit
    /\ asleep \in Nat /\ awake \in Nat /\ concur_users_num \in Nat
    /\ stat_buf \in Seq(1..added) /\ out_data \in Seq(1..added)
    /\ added \in Nat
    /\ reports \in Seq([step : Nat, data : Seq(1..added)])
    /\ lost \in SUBSET (1..added)

stage == CASE pc = "finished" -> "ended"
           [] pc = "crashed" -> "failed"
           [] OTHER -> IF IsFinishPhase THEN "draining" ELSE "launching"

Test == INSTANCE LoadTest WITH users <- asleep + awake, time_up <- TimeUp

\* The launcher implements LoadTest: no user is launched once the phases are
\* over, and no test ends before its last user, also the one that still waits
\* to be started, unless its time is up.
ImplementsLoadTest == Test!Spec

Reported == UNION {ToSet(reports[i].data) : i \in DOMAIN reports}

\* Every event is reported once and in order, or still in the buffer, or was
\* added while a send of the tick was blocked: a send that does not block
\* loses nothing, and nothing is reported twice.
EventsAccounted ==
    /\ \A i, j \in DOMAIN reports :
           \A a \in DOMAIN reports[i].data, b \in DOMAIN reports[j].data :
               i < j \/ (i = j /\ a < b)
               => reports[i].data[a] < reports[j].data[b]
    /\ 1..added = Reported \cup ToSet(stat_buf) \cup lost
    /\ Reported \cap lost = {}

\* The reports are those of steps 1, 2, ..., and the last of them ends with the
\* end of the test: every event before it has been reported, or was lost to a
\* reset.
ReportsInStep ==
    /\ \A i \in DOMAIN reports : reports[i].step = i
    /\ pc = "finished" => /\ Len(reports) = cur_step + 1
                          /\ 1..Last(Last(reports).data) = Reported \cup lost

\* A ramp does not run past its ends, however late the ticks are.
RampInRange ==
    pc = "sleep" /\ ~IsFinishPhase =>
        LET p == Phases[phase]
            ends == {Share(p.from, p), Share(p.to, p)}
        IN  /\ cur_step - start_step <= p.duration
            /\ \E low, high \in ends : low <= PhaseRate /\ PhaseRate <= high

\* Together the workers launch in a tick what the script says for it, but for
\* one user per worker at most.
SharesAddUp ==
    pc = "sleep" /\ ~IsFinishPhase =>
        LET p == Phases[phase]
            exact == p.from * p.duration
                     + (p.to - p.from) * (cur_step - start_step)
            launched == WorkerNum * PhaseRate * p.duration
        IN  /\ launched - exact <= WorkerNum * p.duration
            /\ exact - launched <= WorkerNum * p.duration

\* A test with total_duration_limit has no more ticks than seconds, so that
\* the limit is overrun by a tick and its blocked send at most.
LimitHonoured == limit > 0 => cur_step <= limit /\ Len(reports) <= limit + 1

\* A test with a limit ends whatever its users do; one without a limit ends
\* if its users end.
TestEnds ==
    limit > 0 \/ []<>(awake = 0) => <>(pc \in {"finished", "crashed"})
=============================================================================
