# A TLA+ verification of Mistress

Mistress is a load generator: a C program (`src/src/main.c`) around libev and
LuaJIT, whose logic is Lua (`src/src/mistress/`). Every virtual user is a
coroutine, a *uthread*; it yields when it starts io and is resumed with the
result. This directory holds models of that machinery, their TLC runs and
machine-checked proofs.

Paths below are relative to `src/src/` (`session.lua` is
`src/src/mistress/session.lua`).

## 1. The system

| Component | State | Operations | Talks to |
|---|---|---|---|
| Manager (`manager.lua`) | `sessions`, `active_sessions` (queue of planned resumes), `active_sessions_ids` (marks), `next_id` | `register`, `plan_resume`, `resume_active_sessions`, `shut_down` | called by C callbacks, by `cb_prepare`, by sessions |
| Uthread and Session (`uthread.lua`, `session.lua`) | coroutine, `_finalizers`, `_gonna_shut_down` | `yield`, `sleep`, `cooperate`, `connect`, `send`, `receive`, `accept`, `parallel`, `http`, `clean` | Manager; the C functions; a `parallel` function shares caches and finalizers with its caller |
| Event loop (`main.c`) | libev watchers, each with a uthread id | `cb_prepare`, `cb_sigint`, `cb_sleep`, `cb_recv`, `cb_connect`, `cb_accept`, `cb_send_ready` and their timeouts | only `plan_resume`, `resume_active_sessions`, `shut_down` |
| Connection pool (`session.lua`, `connection.lua`) | `_conn_cache`: per host a free and a busy table by descriptor | `get_connection`, `mark_busy`, `mark_free`, `close` | all uthreads of one user; the launcher's counters |
| Acceptor (`acceptor.lua`) | listening descriptor | accept, register a handler | Manager |
| HTTPHandler (`HTTPHandler.lua`) | connection of the manager process | `/start`: divide rates, sleep, register the launcher; `finish_test` | manager process, Launcher |
| Launcher (`launcher.lua`) | phases, step, user and connection counters, `_gonna_shut_down` | `run`, `tick`, `send_stats`, `finish_test`, `shut_down` | registers users; statistics server; HTTPHandler |
| WorkersManager (`init.lua`) | workers, `workers_left`, `_test_id` | start workers, register the test, wait for all | workers and statistics server over HTTP |
| Receive parser (`main.c`, `http_parser.c`) | http_parser, `got_response`, Lua stack | `hp_*` callbacks inside `cb_recv`, `cb_recv_timeout` | `Session:receive` |
| Cookies (`cookies.lua`, `session.lua`) | table by domain mask, path prefix and name | `handle_cookies`, `update`, `get_by` | all uthreads of one user |
| Stat (`stat.lua`), utils | event buffer; none | `add`, `reset`; request building, rates, choice | sessions fill it, the launcher sends it |

One OS thread alternates between *poll*, in which libev runs the callbacks of
ready watchers, and *pass*, in which `cb_prepare` resumes what was planned.
What is hard is therefore not parallelism but order: which of two callbacks
plans first, what a pass does with plans made during it, what a late callback
of an earlier call does to the next one, who is left waiting when someone
else ends, and what an interrupt does to all of them. `PROJECT.json` lists each
hazard at its line with the properties that watch it, or why none does. What
makes each component correct:

- *Manager and uthreads*: no wakeup is lost, none is delivered twice, `parallel`
  returns when its functions have ended and not before, an interrupt unwinds
  everybody.
- *send*: every byte once and in order; no watcher survives the call; it ends.
- *Pool*: nobody else's connection, nobody else's response, no lost descriptor,
  exact counters.
- *Receive*: however a response is cut into packets, it is returned whole, with
  nothing of another one, and nothing of it stays on a kept connection.
- *Launcher*: every user counted once, every event reported once, rates within
  what the script says, a test that ends with its last user or with its time.
- *Cluster*: success only after every worker's own end, no failure out of mere
  order, no worker left running for a manager that is gone.
- *Cookies*: the latest cookie, to its own hosts and paths, until it expires.

## 2. Modules

| Module | Models | Composes with |
|---|---|---|
| `Scheduler` | Manager, uthreads, watchers, SIGINT | |
| `SchedulerMC` | TLC bound `OneLeftOver` | extends `Scheduler` |
| `SchedulerProofs` | theorems on the queue | extends `Scheduler` |
| `SchedulerWakeProofs` | theorems on wakeups, interrupts and `parallel` | extends `SchedulerProofs` |
| `ByteStream` | what a sender owes its connection (abstract) | |
| `SendLoop` | `Session:send`, `lua_mistress_send`, their callbacks | refines `ByteStream` |
| `SendLoopMC`, `SendLoopProofs` | instance, theorems | extend `SendLoop` |
| `HttpSession` | pool, `connect`, `receive`, `http`, `clean` of one user | the queue and pass of `Scheduler`, reduced |
| `HttpSessionMC`, `HttpSessionProofs` | instance, theorems | extend `HttpSession` |
| `HttpParser` | response states of `http_parser_execute` | operators only |
| `RecvWatcher` | `cb_recv`, its timer, the `hp_*` callbacks, `Session:receive` | extends `HttpParser` |
| `RecvWatcherMC`, `RecvWatcherProofs` | responses of every framing, theorems | extend `RecvWatcher` |
| `LoadTest` | what a launcher owes the test (abstract) | |
| `Launcher` | `Launcher:run`, users, Stat, rates | refines `LoadTest` |
| `LauncherMC`, `LauncherProofs` | instance, theorems | extend `Launcher` |
| `TestRun` | what the manager owes its user (abstract) | |
| `Cluster` | WorkersManager, HTTPHandlers, their connections | refines `TestRun`; a worker's `Launcher` is its states `testing` and `finished` |
| `ClusterProofs` | theorems | extends `Cluster` |
| `Cookies` | `handle_cookies`, `update`, `get_by` | |
| `CookiesMC`, `CookiesProofs` | hosts and cookies, theorems | extend `Cookies` |

### Scheduler

Variables carry the code's names where there is one. `wait[u]` says in which
call a uthread has yielded; `armed[u]` are the watchers of that call still
started and `stale[u]` those that an earlier `receive` left started
(`session.lua:112-125` returns without `destroy_recv_watcher`). `"freed"` in
`armed[u]` says that `clean()` of the user has destroyed them while `u` waits.

Actions and code: `Callback`, `StaleCallback` are the C callbacks, all of which
only call `plan_resume`; `Sigint` and `VisitSession` are `cb_sigint`,
`Launcher:shut_down` and one round of `Manager:shut_down`'s loop over `pairs`;
`BeginPass` is `cb_prepare`; `Resume`, `ReceiveMore`, `ResumeAsserts`,
`StopUthread`, `SkipAbsent`, `EndPass` are the iterations of
`resume_active_sessions` by what the resumed call does first; `Await`, `Spawn`,
`Parallel`, `Cooperate`, `NextPhase`, `StopLoop`, `Finish` and `Fail` are what a
script does until its next yield. A script is any sequence of those: user
scenarios are arbitrary Lua.

Several orders of the code are kept: a timer's callback comes before any io callback
of the same poll (libev), `SIGINT`'s before both; `accept` asserts its descriptors
before it looks at the flag, `send` that it was given neither a timeout nor the
table of a left-over receive watcher (a plan's `params` tell these apart);
`tick_sleep` is the only call that catches STOP, and it leaves its timer started. A
call whose watchers were freed under it destroys them again: the outcome is
undefined and both going on and aborting are steps.

The history variable `yielded` (uthreads that yielded once) is used only by
`StrandedJoinWasInstant`, and `cut_short` (a `parallel` came back because of a
left-over watcher) only by `ParallelWaitsForAll`: a user must not run its
`clean()` while functions of its `parallel` wait, for it destroys their watchers.

### SendLoop and ByteStream

`SendLoop` has the position of the C loop (`total_sent`) and of the Lua loop
(`pos`), the length the C function returns when the kernel would block, both
watchers and their planned resume. `bare` is a call of `mistress.send` without a
coroutine id, as in `init.lua:120`, which asserts instead of yielding. Bytes are
numbered over the connection's life, so that `wire` shows order, loss and
duplication. `cleans` tells a uthread with a `clean()` of its own from a function of
a `parallel`, whose `clean` is empty: STOP leaves its watchers started, and they
keep planning it (`SkipStopped`), until its caller ends (`CallerCleans`). Hence
`NoWatcherLeft` speaks of a `send` that returns or goes on, not of one that STOP
unwinds. `ByteStream` is the promise: an abstract sender that appends to the
wire in order and completes a message only when the whole of it is there.

### HttpSession

The uthreads are the functions of one `parallel` call of one user; they share
the pool and the finalizers. The kernel gives `socket()` the lowest unused
descriptor, and watchers stay bound to a descriptor's number, as libev's do.
`asked[f]` records whose requests on a connection are unanswered, so that a
response has an owner. `left` are the receive watchers that nobody destroyed.
`misfired` is a history variable: one of them has planned a resume.

`ServerMoves` is everything a server may do: accept or refuse, answer and keep
the connection or not, answer what does not parse, close, reset, or stay silent.
`CbConnect` and `CbRecv` are the callbacks; with several watchers on a
descriptor the oldest comes first, and what it reads the others miss (`EAGAIN`).
`ConnectReturns` runs from `connect`'s yield to `receive`'s yield, one piece of
code without a yield in between; `ResponseArrives` and `ResponseFails` are the
two ends of `http`. `ConnectConfused` is `connect` resumed with something that
is not its result; `CallGetsItsOwn` says that only a watcher that was left behind
can bring that about.

### HttpParser and RecvWatcher

The stream is a sequence of *pieces* between which it may be cut: the first byte of
a status line, its rest, a header field, the empty line, a chunk-size line, a byte
of body, the line end of a chunk. `Execute` takes one piece and yields the parser's
new state and the callbacks it calls, in the parser's order, which matters: it is
strict about a stray line end, and starts a new message in the buffer that ended the
last one. `RecvWatcher` has the callbacks as changes of the Lua stack (`OnHeader`,
`OnHeadersComplete`, ... move keys and tables up and down as `lua_rawset` and
`lua_pushvalue` do), because `cb_recv` finds what it calls by counting from the top:
a header cut by a packet leaves two values too many and `pcall` calls a table
(`CallsPlanResume`), and a gzip field in a trailer is set two values below a result
that is on top, into a string (`ParseGzipTrailer`). `CbRecv` chooses where the
stream is cut; `ParsePiece` and `CbRecvEnd` are the rest of the callback;
`ResumeMore`, `ResumeDone` and `ResumeFailed` are the rounds of `receive`'s loop.
The timer's callback may precede `cb_recv` in a poll: its plan wins, the response is
parsed all the same. The answering server and one that speaks unasked, or closes
short, are actions.

### Launcher and LoadTest

`pc` follows `Launcher:run`: `phase`, the `while` head (`loop`), `tick_sleep`
(`sleep`), the send of a report (`send` if it blocks), `ticked` with its tests,
`finished`. Time is counted in whole seconds; since every sleep ends a little
late, a comparison with exactly a whole number may go either way (`MayTick` and
`MayLeave` overlap). Users are counted: registered by a tick they sleep for less
than a second (`asleep`) and then run (`awake`) as long as they like. Events are
numbered in the order of `add`, so that `reports` shows which of them a report
held, and `lost` which ones `reset` erased after a blocked send. Rates are
integers; `Round` and `RoundDown` are `round` and what `range` makes of a
fraction, `Share` is the division in `HTTPHandler.lua:55-71`.

`LoadTest` is the promise: users are launched in the phases only, and the test
ends when all have ended or its time is up.

### Cluster and TestRun

`mgr` is the main uthread of the manager, `talk[w]` the `parallel` function for
worker `w`, `wrk[w]` the worker process. A connection is two streams that keep
their order and ends that are closed separately (`link`: `open`, `half`,
`closed`); closing is seen after what was sent before it. A worker may be left
over from an earlier test (`Init`), may fail at any step, and its host may die
without closing anything (`LoseHost`). `faults` is a history variable that names
what went wrong outside of the manager's logic; properties that say "only if
something failed" read it.

`TestRun` is the promise: success only after every worker's test came to its own
end.

### Cookies

One cookie name (names do not interact), hosts as sequences of labels, paths as
sequences of the parts at which a prefix may end, times as numbers. `Response`
brings the `Set-Cookie` headers, `SetCookie` is one round of the loop over them,
which an error in any of them ends, with the process; nothing else of the user runs
before the loop has ended, but the clock may. `Request` sends what `get_by` finds
and removes what has expired. `latest` and `past` are history variables: what was
set, and with which expiry before.

### Faulty variants

Next to some definitions stands a faulty variant, named for its fault
(`ResetMarksOnly`, `CleanAlways`, `MarkBoth`, ...). No specification uses
them: `PROJECT.json` pairs each property with the variant that breaks it.

## 3. Runs

| Run | Instance | Question | Result |
|---|---|---|---|
| `scheduler_safety` | worker, 4 uthreads, `parallel` of up to 2, `OneLeftOver` | are queue, marks, counters and watchers consistent, is any wakeup lost, does an interrupted uthread run on, does `parallel` wait for all? | passes, 5.9 million states |
| `scheduler_liveness` | worker, 3 uthreads, `parallel` of up to 1 | do registered uthreads run and timed calls return? | passes |
| `send_loop` | 2 messages of up to 4 bytes | every byte once, in order; no watcher left; ends | passes, 7.9 thousand states |
| `http_session` | 2 uthreads, 2 descriptors, 3 calls | is the pool sound, does every call come back, and with its own result? | passes, 176 thousand states |
| `recv_watcher` | 2 calls, 12 kinds of response, 1 unasked, packets of up to 7 pieces | is every response returned whole and in order; what ends the process? | passes, 278 thousand states |
| `launcher` | 2 workers' share of a flat phase, a ramp and a ramp of equal ends, with a limit of 2 s or none | are users, events and reports exact, rates in range, the limit kept; does a test end? | passes, 233 thousand states |
| `cluster` | 3 workers | does the manager end rightly, and with it the workers? | passes |
| `cookies` | 3 hosts, 2 paths, 7 cookies, 2 responses of up to 2 headers, 3 ticks | which cookies does a request carry? | passes, 418 thousand states |
| `planned_is_resumed` | manager process, 3 uthreads | is a uthread resumed by its own plan? | refuted |
| `interrupt_crash` | worker, 3 uthreads | does an interrupt end without a failed assertion? | refuted |
| `own_response` | as `http_session` | is a response given to its own request? | refuted |
| `no_stat_server` | 3 workers | does a run without a statistics server fail only if something failed around it? | refuted |

What the runs' properties say is stated above each of them in its module.

**Bounds.** Four uthreads are the Acceptor, a handler, the launcher and a user,
or a user's handler-side script with two parallel functions beside the Acceptor;
two functions are the fewest for which a counter can be decreased without
reaching zero. `OneLeftOver` allows any
left-over watchers while at most three uthreads are registered, and one among
four; one is enough to disturb every later call of its uthread. At most one
left-over receive per uthread is kept. Two messages of four bytes contain a first
message cut in up to four places and a second that starts from its end. In
`HttpSession` two uthreads and two descriptors with three calls are the fewest
for which a descriptor is closed by one uthread and reused by the other while the
first one asks over another connection, which is what `own_response` needs.

`RecvWatcherMC` has a response of every framing (length, chunks, end of stream,
interim, 304 with a length, 204 with a body, upgrade, gzip in a trailer, stray and
broken bytes); with a `Chunk` of seven pieces a packet may hold all of one and the
start of the next, and a response of fourteen pieces never comes in one. Two calls
show what the first leaves to the second. In `LauncherMC` a rate of 3 does not
divide by the two workers, flat or as a ramp of equal ends, which is rounded
otherwise, and the ramp has a step in the middle; a `MaxBlock` of one second (the
code's is 15) lets a blocked send skip a tick, and `MaxStep` bounds how long users
outlast the phases. In `Cluster` three workers are the fewest for which one can
finish, one fail and one run on. `CookiesMC` has cookies of a host, a domain, a path
and a top-level domain, with and without expiry; two responses of two headers let a
cookie be set, replaced and removed, and three ticks let it expire.

`MaxId`, `MaxFuns`, `MaxLen`, `MaxMessages`, `MaxFd`, `MaxCalls`, `MaxLength`,
`MaxRequests`, `MaxExtra`, `MaxBlock`, `MaxStep`, `MaxHeaders`, `MaxResponses`
and `MaxTime` are the only bounds.

**Deadlock** is not checked: uthreads may all have ended, the process may have
exited, a connection or a server may stay idle, a worker that nobody contacts
waits for ever, and bounded tests come to their bound. What must not stop is stated
as liveness.

**Fairness.** The loop is one thread that never sleeps while something is
planned, hence weak fairness of the pass and of the step that begins it (this
also says that a script reaches its next yield). libev runs an expired timer in
the poll that finds it expired, whatever else is ready, hence strong fairness of
timers: other steps may disable them between two polls, by being in a pass. No
fairness is assumed of io watchers, peers, servers or interrupts: the liveness
properties hold because every wait but `accept`, the handler's `receive` and
`parallel` has a timer. In `RecvWatcher` likewise: the callback and the resumed
loop go on, an armed timer fires, servers owe nothing. In `Launcher` the launcher
goes on, sleeps end, and a send ends or fails by its timeout; users need not end,
hence the premise of `TestEnds`. In `Cluster` the manager goes on as long as it
can (a connect or an answer that does not come times out), and so does a worker
up to its test; that a test ends is the premise of `ManagerEnds`.

**What the refuted properties show.**

- `PlannedIsResumed`: `cooperate` plans its own uthread during the pass in which
  its mark is still set; the plan is dropped as a "late resume" and the uthread
  never runs again. The same befalls a parent whose functions all end within the
  pass that called `parallel`. `StrandedJoinWasInstant`, which holds, says that
  this is the only way in which a join is stranded: one yield in one of the
  functions saves it.
- `InterruptIsGraceful`: the Acceptor is resumed by `shut_down` without
  descriptors and its assertion ends the worker with a failure, so that the
  finishing phase of the launcher does not take place.
- `OwnResponse`: a receive watcher that outlived its call reads the first
  response on the reused descriptor and hands it to its own uthread.
  `FreeConnsQuiet`, which holds, says that without such a watcher no response is
  ever left on a pooled connection.
- `CleanRunSucceeds`: `readme.md:54` offers `no_stat_server = true` instead of a
  statistics server, but `_test_id` is set only by `register_test` with one, and
  the path `/start/..` of the first worker that is reached raises on nil. With
  a server, `FailureHasCause` holds.

**What passes with a premise.** Some properties hold only around a defect of the
code, and name it. `EventsAccounted` allows for events erased by the reset after a
blocked send; `ReceivedInOrder` asks for responses that are framed as they say
(`Framed`): an announced length is that of the body (the answer to HEAD, or a 304
with a length, takes the next response for its body), chunks have their sizes,
nothing follows the trailer, and a body without either lasts until the stream ends;
`CrashHasCause` lists the packets that end the process; `FreshIsSent` leaves out the
cookie that is refreshed with the expiry it had, which the code removes;
`ParallelWaitsForAll` leaves out a `parallel` that an interrupt or a left-over
watcher cuts short; `ManagerEnds` leaves out the host that dies silently;
`FreeConnsQuiet` and `CallGetsItsOwn` end where a left-over watcher meddles.

## 4. Proofs

| Module | Theorem | Says `Spec =>` |
|---|---|---|
| `SchedulerProofs` | `TypeCorrect`, `QueueCorrect` | `[]TypeOK`, `[]QueueMatchesIds` |
| `SchedulerWakeProofs` | `WaitersCorrect`, `FlaggedCorrect` | `[]WaitersAreWoken`, `[]FlaggedEnd` |
| | `JoinCountersCorrect`, `ParallelCorrect`, `StrandedCorrect` | `[]JoinCounters`, `[]ParallelWaitsForAll`, `[]StrandedJoinWasInstant` |
| `SendLoopProofs` | `TypeCorrect`, `PositionCorrect`, `NoWatcherLeftCorrect` | `[]TypeOK`, `[]PositionMatchesWire`, `[]NoWatcherLeft` |
| | `ImplementsByteStream` | `StreamSpec` |
| `HttpSessionProofs` | `TypeCorrect`, `ExclusiveCorrect`, `DescriptorsCorrect` | `[]TypeOK`, `[]ConnectionsExclusive`, `[]NoDescriptorLost` |
| | `CounterCorrect`, `FreeConnsCorrect` | `[]ConnCounter`, `[]FreeConnsQuiet` |
| | `OwnResultsCorrect` | `[]CallGetsItsOwn` |
| | `LeftWatchersAreTheCause` | `[](~misfired => OwnResponse)` |
| `RecvWatcherProofs` | `CrashCorrect`, `OrderCorrect` | `[]CrashHasCause`, `[]ReceivedInOrder` |
| `LauncherProofs` | `TypeCorrect`, `RampCorrect`, `LimitCorrect`, `SharesCorrect` | `[]TypeOK`, `[]RampInRange`, `[]LimitHonoured`, `[]SharesAddUp` |
| | `EventsCorrect`, `ReportsCorrect` | `[]EventsAccounted`, `[]ReportsInStep` |
| | `LoadTestCorrect` | `ImplementsLoadTest` |
| `ClusterProofs` | `TypeCorrect`, `CountCorrect`, `OrphansCorrect`, `CauseCorrect` | `[]TypeOK`, `[]CountsUnfinished`, `[]OrphansHaveLostManager`, `[]FailureHasCause` |
| | `TestRunCorrect` | `ImplementsTestRun` |
| `CookiesProofs` | `SentCorrect`, `FreshCorrect` | `[]SentIsLatest`, `[]FreshIsSent` |

They hold for every value of the constants. The assumptions are the named
`ASSUME`s of the modules, which TLC evaluates on every run: the bounds are natural
numbers, `Worker` is Boolean, `Workers` is finite and not empty, `Nobody` is no
uthread, hosts are sequences of labels and cookies records of their parts, a script
is a sequence of phases of which none has a rate below one user per worker
(`HTTPHandler.lua` exits on others) unless both are 0. `NamedByPlace`, of the pieces
of a response, is a convention of the naming rather than a restriction: whatever
bytes follow the start of a status line are either the rest of one (`line`) or what
the parser refuses there (`junk`), and likewise in a header; without it the name
`byte` could stand for something inside a header, and `Unexpectable` would have to
list it.

Where an invariant had to be strengthened, TLC checked the strengthened one first on
the instance of the component's run (`SendLoop`'s `TypeOK`, which is not a property
of its run, included; `WakeInv` with `MaxId` 4 in a worker and with 3 in both kinds
of process, that of `RecvWatcher` also with packets of 16 pieces).

*Scheduler, the queue.* `QueueMatchesIds` is not inductive alone: `RegisterAndPlan`
appends new ids without testing the marks, as `register` and `plan_resume` do,
and keeps the queue free of duplicates only because no id above `next_id` is in
it. The invariant `Inv` adds `OnlyRegistered`: whoever can be planned, by a
watcher, by the shutdown loop or as a parent, is registered already. Two lemmas
state what the two ways of planning do to the queue; one lemma per action (or
group of actions that leave the queue alone) carries `Inv` over.

*Scheduler, wakeups.* An entry of the queue stands for a resume only until the pass
has come to it, so `WakeInv` tells `Pending` from `Passed`, and the proofs see a
step as a `QueueStep`: so many entries passed, these ids appended with this
parameter. `Wakes` says which watcher or plan each kind of wait has: an io watcher
outlives its callbacks, a timer does not, and leaves a plan. For `parallel`,
`JoinCounters` needs that the functions of a call are registered together under an
id nobody else names (`Fresh`), and counts them with the library's facts on finite
sets. `StrandedJoinWasInstant` is the hardest: while the parent's mark is set its
plan is dropped, and that a function which has yielded saves it rests on
`PassedParents`: once the pass has come to the parent, a function of it that has
yielded has had its turn in this pass, and ends in a later one, which begins with
the marks cleared. `ParallelWaitsForAll` needs the converse, that a parent's entry
without a watcher's parameter comes from its last function or from `shut_down`
(`JoinsPlanned`), and `FlaggedEnd` that what `shut_down` plans stays pending up to
the pass that ends it (`Stops`). The launcher, alone, takes its flag back, hence
`NoLauncherJoins`.

*SendLoop.* `PositionMatchesWire` is inductive with `TypeOK`; the refinement
uses that the wire is always `1..base+total_sent` in order, so that a piece
appended from `total_sent` continues it. Every step of `SendLoop` is then a
`Begin`, `Deliver`, `Complete` or `Break` of `ByteStream`, or changes none of
its variables.

*HttpSession.* Who owns which descriptor (`Owners`) is stated without `Alive`, since
the death of the process changes nothing of it; that a callback disturbs no
owner needs `Turns`: a uthread is planned once, and a watcher of the present call
belongs to the call's own descriptor. `Answers` says that a response is there only
for a request. With these the first four invariants hold whatever left-over
watchers do. The rest holds up to the first time one of them fires: `Undisturbed` says
that a pooled connection owes nothing, and that who is planned with a response has
read its own, so that `FreeConnsQuiet` follows, and `OwnResponse`, which
`own_response` refutes, has no cause but those watchers. `Fitting` adds which kinds of
result may be planned for whom, which `CallGetsItsOwn` needs: a callback plans for the
call its uthread waits in, and a uthread that moves to another call has nothing planned.

*RecvWatcher.* `ExecuteShape` sums up a piece: refused, beginning a response, a
status line, a field, the end of a header, or the continuation of a body or trailer,
each with the callbacks it calls. `StackShape` gives the number of Lua values in
each parser state: three inside of a header, one elsewhere, more only after a stray
line end, which `on_message_begin` takes for a response. After a response the same
buffer can only start another one (`AfterResponse`), and a header that is refused has a
piece in the buffer that does not belong there (`Header`), which is where
`NamedByPlace` is used. Between two packets `receive` waits outside of headers only
(`Plans`), so that a header a packet ends in is one that it begins: `CutHeader`.

*RecvWatcher, the order.* `ReceivedInOrder` relates what `receive` returned to
histories of the server, with a packet's cut anywhere between them. `Order` reads
these as one stream: the k-th response begins after `starts[k]` pieces, `w` of which
have left the wire, and the buffer and the wire are the stream from there
(`Offsets`, `Stream`). `Parsed` says up to which piece of which response the parser
has come, `Progress` what holds there:

- before a response (`AtStart`), all is empty; up to two pieces of its header may be
  lost, in the packet that ended the one before, after which the parser refuses the
  rest (`FromStart`), so that `receive` fails and returns nothing wrong;
- inside of it (`Inside`), the parser's flags, status and length are those of the
  header so far (`InHeaderOf`), or the bytes it waits for are those that come
  (`InBodyOf`), and what `receive` has, its locals and the table on the stack
  together (`Got`), is the response up to this piece;
- after it (`AtEnd`), `Got` says all of the response, and the next one can only
  begin in the buffer (`AfterStep`: a field of it ends the process);
- a response that lasts until the stream ends is never returned (`Endless`).

One lemma per state of the parser takes a piece (`LineStep`, `FieldStep`, `EndStep`,
`IdentityStep`, `ChunkStep`, `DataStep`, `TrailerStep`), and one per action carries
`Order` over. A body is compared place by place: `BytesUpTo`, a cardinality, says which
byte of the body a piece is, so that the induction is along the behaviour and not
over the response. Only that a header has a *first* empty line (`EndFacts`) needs an
induction over numbers, and has it from the library's `WFMin`, which takes a relation
and no operator. The proof is for every set of responses, and the first `Framed`,
which asked for the length only, was too weak for that: chunks of other sizes than
announced, bytes after a response that has no body and a response that begins
inside of another are excluded by the present one. TLC checked `Order` on the run's
instance and on one with twelve such responses.

*Launcher.* `RampInRange` needs that the steps of a phase do not outrun its clock
(`Pacing`: every tick takes a second at least), and that a rounded ramp lies between
its rounded ends (`RampBounds`): the ramp is monotone in the step, rounding is
monotone and exact at whole numbers, all by elementary facts on `\div`.
`SharesAddUp` bounds the two roundings, of the ends and of the ramp, which together
are less than the user per worker that the property allows (`RampShares`).
`LimitHonoured` needs `Limiting` (steps against the clock of the test) and
`Reporting` (reports against steps). The refinement needs `Users`: the counter that
`MustFinish` reads is that of the running users, and none is asleep when it is read.
The events need `Buffered`: the buffer is in order and younger than whatever was
reported or lost, and what a blocked send is sending is still in front of it.

*Cluster.* What the manager may conclude from an answer depends on which answers
can be under way. `Conversation` says it for every pair of how far the manager's
function and the worker are: nothing before the request, `200` after it, `200`
and `finished` at most, and nothing once the end was heard. `Counting` ties
`workers_left` to the set of workers not heard to finish, so that the last
`finished` leaves the set empty and each worker is at its own end, which is the
refinement's only step that is not immediate. `Causes` follows each end back to
what caused it: a connection is half closed under a running manager only by a
worker that ended, and one that ended without having sent `finished` put its fault
into `faults`. One lemma per group of actions carries the three over; each
worker's part is split into the worker that moved and the others.

*Cookies.* `KeptIsLatest` is the invariant: what the jar holds is the last cookie set,
and the last one is held if it outlasts its predecessors (`UpdateKeeps`: the
predecessor that it meets is among them, so `Removes` is false). The rest is that
`get_by`'s masks are the host and its ends of two labels or more (`MasksAreFor`).

**Checked by TLC only.** Liveness (`RegisteredRun`, `TimedCallsReturn`,
`BlockedSendEnds`, `CallsReturn`, `TimedReceiveReturns`, `NoStrandedTest`,
`ManagerEnds`, `TestEnds`) is out of the prover's reach, fairness and `ENABLED` with
it. Every invariant of a passing run is the property of a theorem, and so is every
action property and refinement.

## 5. Not modelled

- zlib conversions, request formatting, logging, option parsing, ssh start of
  the workers and the build scripts have no state to check.
- libev and LuaJIT are third-party, as are dkjson and inspect, and they are most
  of the repository's lines. The models contain what `main.c` relies on: timers
  before io in a poll, the oldest watcher of a descriptor first, watchers bound
  to a descriptor's number, one callback at a time. Of http_parser the response
  states are modelled, since what the callbacks do depends on them; requests
  (which the handlers of the workers parse), URLs and pausing are not.
- `HttpSession` leaves out interrupts (in `Scheduler`), a request cut by a full
  socket (in `SendLoop`), responses in several packets (in `RecvWatcher`), more
  than one host, and watchers left by *other* users of the process, which reach
  a connection in the same way. The address of a freed watcher is never reused
  in `Scheduler`.
- `RecvWatcher` cuts a header between fields only: a packet that ends anywhere
  inside a header ends the process, so nothing is seen of it afterwards.
  `do_fetch_body = false` and `gunzip` are left out.
- `Launcher` leaves out rates given as functions, and interrupts: an interrupted
  worker always ends in the assertion of `accept` (`interrupt_crash`) before the
  launcher looks at its flag. Connections are counted in `HttpSession`
  (`ConnCounter`).
- `Cluster` has one test, a script that fits into the socket buffer (a larger
  one fails the bare send: fault `socket`), and a test as a single state.
- `Cookies` leaves out the syntax of headers and dates; a value is cut at its
  second `=`, and an empty or quoted value, an unreadable date or an unknown
  attribute (`Secure` among them) ends the process, as in the code. A host owes
  one response at a time.

## 6. Plan

What is left, in order:

1. The acceptor's descriptors and their handlers, one by one.
2. SIGINT before a launcher registered its `shut_down` (`main.c:103`): a property,
   once the repository says what should happen instead.
