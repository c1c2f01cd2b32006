------------------------------- MODULE Cluster -------------------------------
(***************************************************************************)
(* One test over the cluster: WorkersManager (init.lua) in the manager     *)
(* process and, on each worker host, an HTTPHandler with the Launcher that *)
(* it starts (HTTPHandler.lua, launcher.lua).  The manager talks to each   *)
(* worker over one TCP connection, whose streams keep their order; hosts   *)
(* may die silently, processes may end at any step, calls may time out.    *)
(* An error in any uthread ends its process.                               *)
(***************************************************************************)
EXTENDS Integers, Sequences, FiniteSets

CONSTANTS
    Workers      \* cfg.workers

ASSUME WorkersAssumption == IsFiniteSet(Workers) /\ Workers # {}

ManagerEnded == {"done", "failed"}
ManagerStates == {"connect_stat", "start_workers", "register", "parallel"}
                 \cup ManagerEnded

\* The function that parallel() runs for a worker: connecting, waiting for the
\* answer to /start, waiting for 'finished'.
Talks == {"none", "connecting", "starting", "running", "over"}

\* A worker: its process is not there, boots, accepts, waits for start_time,
\* or runs its test; it ended with its test finished, with an error, or
\* because the manager went; or its host died.
WorkerEnded == {"finished", "error", "orphaned", "lost"}
WorkerStates == {"off", "booting", "listening", "waiting", "testing"}
                \cup WorkerEnded

Messages == {"200", "finished"}
Links == {"none", "open", "half", "closed"}
Faults == {"stat", "ssh", "script", "worker", "host", "slow", "merged",
           "interrupt", "socket"}

VARIABLES
    mgr,           \* where the manager's uthread stands, or how it ended
    talk,          \* [Workers -> Talks]
    workers_left,  \* closure of on_worker_finished
    test_id,       \* _test_id was set
    wrk,           \* [Workers -> WorkerStates]
    stat_server,   \* the script does not set no_stat_server
    script_ok,     \* each worker's share of the rates is a user at least
    link,          \* the connection: "half": one end closed it
    start,         \* the request is on its way to the worker
    answers,       \* responses on their way to the manager
    faults         \* history: what went wrong outside of the manager

talkVars == <<talk, workers_left>>
netVars == <<link, start, answers>>
scriptVars == <<stat_server, script_ok>>
vars == <<mgr, talkVars, test_id, wrk, scriptVars, netVars, faults>>

ManagerRuns == mgr \notin ManagerEnded
Alive(w) == wrk[w] \in {"listening", "waiting", "testing"}

\* What a connection becomes when one of its ends closes it.
Closed(l) == CASE l = "open" -> "half" [] l = "half" -> "closed" [] OTHER -> l

\* The manager process ends, and its descriptors close.
EndManager(outcome) ==
    /\ mgr' = outcome
    /\ link' = [w \in Workers |-> Closed(link[w])]
    /\ UNCHANGED <<talkVars, test_id, wrk, scriptVars, start, answers>>

ManagerFails(fault) == /\ EndManager("failed")
                       /\ faults' = faults \cup fault

-----------------------------------------------------------------------------
(* WorkersManager:run                                                       *)

ConnectToStatServer ==
    /\ mgr = "connect_stat"
    /\ \/ /\ mgr' = "start_workers"
          /\ UNCHANGED <<talkVars, test_id, wrk, scriptVars, netVars, faults>>
       \/ stat_server /\ ManagerFails({"stat"})

\* os.execute of ssh: screen starts the worker and returns at once.  A worker
\* that an earlier test left behind keeps the port.
StartWorker(w) ==
    /\ mgr = "start_workers"
    /\ talk[w] = "none"
    /\ \/ /\ talk' = [talk EXCEPT ![w] = "connecting"]
          /\ wrk' = [wrk EXCEPT ![w] = IF @ = "off" THEN "booting" ELSE @]
          /\ UNCHANGED <<mgr, workers_left, test_id, scriptVars, netVars,
                         faults>>
       \/ ManagerFails({"ssh"})

\* The sleep of three seconds after the last one, in the hope of the best.
WorkersStarted ==
    /\ mgr = "start_workers"
    /\ \A w \in Workers : talk[w] = "connecting"
    /\ mgr' = "register"
    /\ UNCHANGED <<talkVars, test_id, wrk, scriptVars, netVars, faults>>

\* register_test, and resolving the workers' hosts.
RegisterTest ==
    /\ mgr = "register"
    /\ \/ /\ mgr' = "parallel"
          /\ test_id' = stat_server
          /\ workers_left' = Cardinality(Workers)
          /\ UNCHANGED <<talk, wrk, scriptVars, netVars, faults>>
       \/ ManagerFails({IF stat_server THEN "stat" ELSE "host"})

\* A parallel() function connects and sends the request, with a bare send.
\* Without a test id the path cannot be put together.
Talking(w, state) == mgr = "parallel" /\ talk[w] = state

ConnectToWorker(w) ==
    /\ Talking(w, "connecting")
    /\ Alive(w)
    /\ \/ /\ test_id
          /\ talk' = [talk EXCEPT ![w] = "starting"]
          /\ link' = [link EXCEPT ![w] = "open"]
          /\ start' = start \cup {w}
          /\ UNCHANGED <<mgr, workers_left, test_id, wrk, scriptVars, answers,
                         faults>>
       \/ ~test_id /\ ManagerFails({})
       \/ test_id /\ ManagerFails({"socket"})

\* The connection is refused, when nobody listens or not yet, or times out.
ConnectFails(w) ==
    /\ Talking(w, "connecting")
    /\ \/ wrk[w] \in WorkerEnded /\ ManagerFails({})
       \/ ManagerFails({"slow"})

\* receive() with the default of 20 s.
AnswerTimeout(w) ==
    /\ Talking(w, "starting")
    /\ ManagerFails({"slow"})

\* receive() gets the first response; if the second came in the same packet,
\* the parser callbacks end the process.
ReceiveStarted(w) ==
    /\ Talking(w, "starting")
    /\ answers[w] # <<>>
    /\ \/ /\ talk' = [talk EXCEPT ![w] = "running"]
          /\ answers' = [answers EXCEPT ![w] = Tail(@)]
          /\ UNCHANGED <<mgr, workers_left, test_id, wrk, scriptVars, link,
                         start, faults>>
       \/ Len(answers[w]) > 1 /\ ManagerFails({"merged"})

\* on_worker_finished compares after it has counted down; and faulty variants.
AnyIsLast == TRUE
ComparesBefore == workers_left = 0
IsLast == workers_left = 1
LeftKept == workers_left
LeftTwice == workers_left - 2
Left == workers_left - 1

ReceiveFinished(w) ==
    /\ Talking(w, "running")
    /\ answers[w] # <<>>
    /\ talk' = [talk EXCEPT ![w] = "over"]
    /\ workers_left' = Left
    /\ answers' = [answers EXCEPT ![w] = Tail(@)]
    /\ IF IsLast
       THEN mgr' = "done" /\ link' = [v \in Workers |-> Closed(link[v])]
       ELSE UNCHANGED <<mgr, link>>
    /\ UNCHANGED <<test_id, wrk, scriptVars, start, faults>>

\* "conn closed" or a receive error: the connection's end reaches the manager
\* after the answers that were sent on it (in a faulty variant, before).
UnheardDropped(w) == TRUE
AllHeard(w) == answers[w] = <<>>

WorkerGone(w) ==
    /\ talk[w] \in {"starting", "running"} /\ Talking(w, talk[w])
    /\ AllHeard(w) /\ link[w] = "half"
    /\ ManagerFails({})

\* SIGINT: nobody registered a shut_down in the manager process.
Interrupt ==
    /\ ManagerRuns
    /\ ManagerFails({"interrupt"})

-----------------------------------------------------------------------------
(* The worker process                                                       *)

WorkerFails(w, fault) ==
    /\ wrk' = [wrk EXCEPT ![w] = "error"]
    /\ link' = [link EXCEPT ![w] = Closed(@)]
    /\ faults' = faults \cup {fault}
    /\ UNCHANGED <<mgr, talkVars, test_id, scriptVars, start, answers>>

Boot(w) ==
    /\ wrk[w] = "booting"
    /\ \/ /\ wrk' = [wrk EXCEPT ![w] = "listening"]
          /\ UNCHANGED <<mgr, talkVars, test_id, scriptVars, netVars, faults>>
       \/ WorkerFails(w, "worker")

Answer(w, what) == answers' = [answers EXCEPT ![w] = Append(@, what)]

\* The handler got /start: it answers before it looks at the rates.  The bare
\* send gets EPIPE when the manager is gone.
HandleStart(w) ==
    /\ wrk[w] = "listening" /\ w \in start
    /\ start' = start \ {w}
    /\ \/ /\ Answer(w, "200")
          /\ IF script_ok
             THEN wrk' = [wrk EXCEPT ![w] = "waiting"] /\ UNCHANGED <<link, faults>>
             ELSE /\ wrk' = [wrk EXCEPT ![w] = "error"]
                  /\ link' = [link EXCEPT ![w] = Closed(@)]
                  /\ faults' = faults \cup {"script"}
       \/ /\ link[w] = "half"
          /\ wrk' = [wrk EXCEPT ![w] = "error"]
          /\ link' = [link EXCEPT ![w] = Closed(@)]
          /\ UNCHANGED <<answers, faults>>
    /\ UNCHANGED <<mgr, talkVars, test_id, scriptVars>>

\* start_time has come: init_launcher.  Until then the handler does not read.
StartTest(w) ==
    /\ wrk[w] = "waiting"
    /\ wrk' = [wrk EXCEPT ![w] = "testing"]
    /\ UNCHANGED <<mgr, talkVars, test_id, scriptVars, netVars, faults>>

\* An error in the launcher, in a user, or in the handler's next receive().
TestFails(w) ==
    /\ wrk[w] \in {"waiting", "testing"}
    /\ WorkerFails(w, "worker")

\* Launcher:finish_test and the end of the event loop.  (Without a statistics
\* server it would send nothing, but then no test gets as far as this.)
FinishTest(w) ==
    /\ wrk[w] = "testing"
    /\ \/ /\ wrk' = [wrk EXCEPT ![w] = "finished"]
          /\ Answer(w, "finished")
       \/ /\ link[w] = "half"
          /\ wrk' = [wrk EXCEPT ![w] = "error"]
          /\ UNCHANGED answers
    /\ link' = [link EXCEPT ![w] = Closed(@)]
    /\ UNCHANGED <<mgr, talkVars, test_id, scriptVars, start, faults>>

\* The handler's receive() returns "conn closed": os.exit(0).  It "just keeps
\* receiving"; in a faulty variant, not once it started the test.
ReadsOnce(w) == wrk[w] = "listening" /\ w \notin start
Reads(w) == wrk[w] = "testing" \/ (wrk[w] = "listening" /\ w \notin start)

ManagerGone(w) ==
    /\ Reads(w)
    /\ link[w] = "half"
    /\ wrk' = [wrk EXCEPT ![w] = "orphaned"]
    /\ link' = [link EXCEPT ![w] = "closed"]
    /\ UNCHANGED <<mgr, talkVars, test_id, scriptVars, start, answers, faults>>

\* The host or the way to it dies: nobody closes anything, what was sent is
\* lost, and keep-alive is not set on the connections.
LoseHost(w) ==
    /\ Alive(w)
    /\ wrk' = [wrk EXCEPT ![w] = "lost"]
    /\ answers' = [answers EXCEPT ![w] = <<>>]
    /\ start' = start \ {w}
    /\ faults' = faults \cup {"host"}
    /\ UNCHANGED <<mgr, talkVars, test_id, scriptVars, link>>

-----------------------------------------------------------------------------
Init ==
    /\ mgr = "connect_stat"
    /\ talk = [w \in Workers |-> "none"] /\ workers_left = 0
    /\ test_id = FALSE
    /\ wrk \in [Workers -> {"off", "listening"}]
    /\ stat_server \in BOOLEAN /\ script_ok \in BOOLEAN
    /\ link = [w \in Workers |-> "none"]
    /\ start = {} /\ answers = [w \in Workers |-> <<>>]
    /\ faults = {}

Manager == \/ ConnectToStatServer \/ WorkersStarted \/ RegisterTest
           \/ \E w \in Workers : \/ StartWorker(w) \/ ConnectToWorker(w)
                                 \/ ConnectFails(w) \/ AnswerTimeout(w)
                                 \/ ReceiveStarted(w) \/ ReceiveFinished(w)
                                 \/ WorkerGone(w)

Worker(w) == \/ Boot(w) \/ HandleStart(w) \/ StartTest(w) \/ TestFails(w)
             \/ FinishTest(w) \/ ManagerGone(w)

Next == \/ Manager
        \/ Interrupt
        \/ \E w \in Workers : Worker(w) \/ LoseHost(w)

Spec == Init /\ [][Next]_vars

\* Both programs go on as long as they can; nothing says that a test that was
\* started comes to its own end.
Fairness ==
    /\ WF_vars(Manager)
    /\ \A w \in Workers : /\ WF_vars(Boot(w)) /\ WF_vars(HandleStart(w))
                          /\ WF_vars(StartTest(w)) /\ WF_vars(ManagerGone(w))

FairSpec == Spec /\ Fairness

-----------------------------------------------------------------------------
(* Properties *)

TypeOK ==
    /\ mgr \in ManagerStates
    /\ talk \in [Workers -> Talks]
    /\ workers_left \in 0..Cardinality(Workers)
    /\ test_id \in BOOLEAN
    /\ wrk \in [Workers -> WorkerStates]
    /\ stat_server \in BOOLEAN /\ script_ok \in BOOLEAN
    /\ link \in [Workers -> Links]
    /\ start \in SUBSET Workers
    /\ answers \in [Workers -> Seq(Messages)]
    /\ faults \in SUBSET Faults

outcome == IF ManagerRuns THEN "running" ELSE mgr
Finished == {w \in Workers : wrk[w] = "finished"}

\* The manager ends with success only after every worker sent 'finished' at
\* the end of its own test: the cluster implements TestRun.
Test == INSTANCE TestRun WITH finished <- Finished

ImplementsTestRun == Test!Spec

\* With a statistics server the manager fails only if something failed around
\* it: no order of answers, ends of tests and closes makes a clean run fail.
FailureHasCause == mgr = "failed" /\ stat_server => faults # {}

\* The counter of on_worker_finished is the number of workers that have not
\* been heard to finish, so the loop stops with the last of them.
CountsUnfinished ==
    mgr \in {"parallel"} \cup ManagerEnded /\ workers_left > 0
    => workers_left = Cardinality({w \in Workers : talk[w] # "over"})

\* A worker ends quietly in the middle of its test only after the manager has
\* ended, and a manager that succeeded leaves no such worker behind.
OrphansHaveLostManager ==
    \A w \in Workers : wrk[w] = "orphaned" => mgr = "failed"

\* When the manager ends, no worker that it reached goes on with a test: the
\* closed connection ends the worker, sooner or later.
NoStrandedTest ==
    \A w \in Workers :
        mgr \in ManagerEnded /\ wrk[w] \in {"waiting", "testing"}
        ~> wrk[w] \in WorkerEnded

\* The manager ends, unless a test never does or a host died silently while
\* it was waited for: every other end of a worker reaches it.
ManagerEnds ==
    (\A w \in Workers : []<>(wrk[w] # "testing"))
    => <>(mgr \in ManagerEnded \/ \E w \in Workers : wrk[w] = "lost")

\* "start statistics server (or use `no_stat_server = true` in script)": a run
\* without one fails only if something failed around it.
CleanRunSucceeds == mgr = "failed" => faults # {}
=============================================================================
