---------------------------- MODULE ClusterProofs ----------------------------
(* Theorems about Cluster, for every finite set of workers. *)
EXTENDS Cluster, FiniteSetTheorems, SequenceTheorems, TLAPS

Early == {"connect_stat", "start_workers", "register"}
Unheard == {w \in Workers : talk[w] # "over"}

\* Which answers are under way, by how far both ends have come.
Unasked(w) ==
    talk[w] \in {"none", "connecting"} =>
        /\ wrk[w] \in {"off", "booting", "listening", "error", "lost"}
        /\ answers[w] = <<>> /\ w \notin start /\ link[w] = "none"

Asked(w) ==
    talk[w] = "starting" =>
        /\ wrk[w] \notin {"off", "booting"}
        /\ \/ answers[w] = <<>> /\ wrk[w] \notin {"waiting", "testing", "finished"}
           \/ answers[w] = <<"200">> /\ wrk[w] \notin {"listening", "finished", "lost"}
           \/ answers[w] = <<"200", "finished">> /\ wrk[w] = "finished"

Started(w) ==
    talk[w] = "running" =>
        /\ wrk[w] \notin {"off", "booting", "listening"}
        /\ \/ answers[w] = <<>> /\ wrk[w] # "finished"
           \/ answers[w] = <<"finished">> /\ wrk[w] = "finished"

Heard(w) == talk[w] = "over" => wrk[w] = "finished" /\ answers[w] = <<>>

Conversation(w) == Unasked(w) /\ Asked(w) /\ Started(w) /\ Heard(w)

\* What the manager has come to.
Counting ==
    /\ mgr \in Early => /\ workers_left = 0
                        /\ \A w \in Workers : talk[w] \in {"none", "connecting"}
    /\ mgr = "parallel" => test_id = stat_server
    /\ mgr = "parallel" \/ (mgr \in ManagerEnded /\ workers_left > 0)
       => workers_left = Cardinality(Unheard)
    /\ mgr = "done" => Finished = Workers

\* Whom an end of a worker or of a connection is due to.
Causes ==
    /\ \A w \in Workers :
        /\ wrk[w] \in {"error", "lost"} => ~ManagerRuns \/ faults # {}
        /\ wrk[w] = "orphaned" => mgr = "failed"
        /\ link[w] = "half" /\ Alive(w) => ~ManagerRuns
    /\ mgr = "failed" /\ stat_server => faults # {}

Inv == TypeOK /\ (\A w \in Workers : Conversation(w)) /\ Counting /\ Causes

-----------------------------------------------------------------------------
LEMMA AnswerFacts ==
    /\ Append(<<>>, "200") = <<"200">>
    /\ Append(<<>>, "finished") = <<"finished">>
    /\ Append(<<"200">>, "finished") = <<"200", "finished">>
    /\ Tail(<<"200">>) = <<>> /\ Tail(<<"finished">>) = <<>>
    /\ Tail(<<"200", "finished">>) = <<"finished">>
    /\ Len(<<"200">>) = 1 /\ Len(<<"finished">>) = 1
    /\ Len(<<"200", "finished">>) = 2 /\ Len(<<>>) = 0
    /\ <<"200">> # <<"finished">>
    /\ <<>> \in Seq(Messages) /\ <<"200">> \in Seq(Messages)
    /\ <<"finished">> \in Seq(Messages) /\ <<"200", "finished">> \in Seq(Messages)
<1>1. Append(<<>>, "200") = <<"200">>
  OBVIOUS
<1>2. Append(<<>>, "finished") = <<"finished">>
  OBVIOUS
<1>3. Append(<<"200">>, "finished") = <<"200", "finished">>
  <2> DEFINE s == Append(<<"200">>, "finished")
  <2>1. <<"200">> \in Seq(Messages) /\ "finished" \in Messages
    BY DEF Messages
  <2>2. Len(<<"200">>) = 1
    OBVIOUS
  <2>3. (<<"200">>)[1] = "200"
    OBVIOUS
  <2>4. s \in Seq(Messages)
    BY <2>1, AppendProperties
  <2>5. Len(s) = 2
    BY <2>1, <2>2, AppendProperties
  <2>6. s[1] = "200"
    BY <2>1, <2>2, <2>3, AppendProperties
  <2>7. s[2] = "finished"
    BY <2>1, <2>2, AppendProperties
  <2>8. <<"200", "finished">> \in Seq(Messages)
    BY DEF Messages
  <2>9. Len(<<"200", "finished">>) = 2
    OBVIOUS
  <2> HIDE DEF s
  <2>10. s = <<"200", "finished">>
    BY <2>4, <2>5, <2>6, <2>7, <2>8, <2>9
  <2> QED BY <2>10 DEF s
<1>4. Tail(<<"200">>) = <<>> /\ Tail(<<"finished">>) = <<>>
  OBVIOUS
<1>5. Tail(<<"200", "finished">>) = <<"finished">>
  OBVIOUS
<1>6. /\ Len(<<"200">>) = 1 /\ Len(<<"finished">>) = 1
      /\ Len(<<"200", "finished">>) = 2 /\ Len(<<>>) = 0
  OBVIOUS
<1>7. <<"200">> # <<"finished">>
  OBVIOUS
<1>8. /\ <<>> \in Seq(Messages) /\ <<"200">> \in Seq(Messages)
      /\ <<"finished">> \in Seq(Messages)
      /\ <<"200", "finished">> \in Seq(Messages)
  BY DEF Messages
<1> QED BY <1>1, <1>2, <1>3, <1>4, <1>5, <1>6, <1>7, <1>8

\* What a parallel() function's end does to the number of the others.
LEMMA UnheardFacts ==
    /\ IsFiniteSet(Unheard)
    /\ Cardinality(Unheard) \in Nat
    /\ Cardinality(Unheard) <= Cardinality(Workers)
    /\ \A w \in Unheard : Cardinality(Unheard \ {w}) = Cardinality(Unheard) - 1
    /\ \A w \in Unheard : Cardinality(Unheard) = 1 => Unheard = {w}
<1>1. IsFiniteSet(Unheard) /\ Cardinality(Unheard) <= Cardinality(Workers)
  BY WorkersAssumption, FS_Subset DEF Unheard
<1>2. Cardinality(Unheard) \in Nat
  BY <1>1, FS_CardinalityType
<1>3. \A w \in Unheard : Cardinality(Unheard \ {w}) = Cardinality(Unheard) - 1
  BY <1>1, FS_RemoveElement
<1>4. ASSUME NEW w \in Unheard, Cardinality(Unheard) = 1
      PROVE  Unheard = {w}
  BY <1>1, <1>4, FS_Singleton
<1> QED BY <1>1, <1>2, <1>3, <1>4

LEMMA InitInv == ASSUME Init PROVE Inv
<1>1. Cardinality(Workers) \in Nat
  BY WorkersAssumption, FS_CardinalityType
<1>2. TypeOK
  <2>1. mgr \in ManagerStates /\ talk \in [Workers -> Talks]
    BY DEF Init, ManagerStates, Talks
  <2>2. workers_left \in 0..Cardinality(Workers)
    BY <1>1 DEF Init
  <2>3. wrk \in [Workers -> WorkerStates] /\ link \in [Workers -> Links]
    BY DEF Init, WorkerStates, Links
  <2>4. answers \in [Workers -> Seq(Messages)]
    BY DEF Init
  <2>5. /\ test_id \in BOOLEAN /\ stat_server \in BOOLEAN
        /\ script_ok \in BOOLEAN
    BY DEF Init
  <2>6. start \in SUBSET Workers /\ faults \in SUBSET Faults
    BY DEF Init
  <2> QED BY <2>1, <2>2, <2>3, <2>4, <2>5, <2>6 DEF TypeOK
<1>3. \A w \in Workers : Conversation(w)
  BY DEF Init, Conversation, Unasked, Asked, Started, Heard
<1>4. Counting /\ Causes
  BY DEF Init, Counting, Causes, Early, ManagerEnded, ManagerRuns, Alive
<1> QED BY <1>2, <1>3, <1>4 DEF Inv

-----------------------------------------------------------------------------
(* Every step keeps the invariant. *)

\* The end of the manager disturbs nothing but what its outcome must have for
\* a cause.
LEMMA ManagerFailsInv ==
    ASSUME Inv, NEW fault \in SUBSET Faults, ManagerFails(fault), ManagerRuns,
           stat_server => faults \cup fault # {}
    PROVE  Inv'
<1> USE DEF ManagerFails, EndManager, talkVars, scriptVars
<1>1. /\ mgr' = "failed" /\ UNCHANGED <<talk, workers_left, wrk, stat_server,
                                        answers, start>>
      /\ link' = [v \in Workers |-> Closed(link[v])]
      /\ faults' = faults \cup fault
  OBVIOUS
<1>2. TypeOK'
  <2>1. link' \in [Workers -> Links]
    BY <1>1 DEF Inv, TypeOK, Closed, Links
  <2> QED BY <1>1, <2>1 DEF Inv, TypeOK, ManagerStates, ManagerEnded
<1>3. ASSUME NEW v \in Workers PROVE Conversation(v)'
  <2>1. link[v] = "none" => link'[v] = "none"
    BY <1>1 DEF Closed
  <2> QED BY <1>1, <2>1 DEF Inv, Conversation, Unasked, Asked, Started, Heard
<1>4. Counting'
  <2>1. Unheard' = Unheard
    BY <1>1 DEF Unheard
  <2>2. mgr' = "parallel" \/ (mgr' \in ManagerEnded /\ workers_left' > 0)
        => workers_left' = Cardinality(Unheard')
    <3>1. CASE mgr = "parallel"
      BY <1>1, <2>1, <3>1 DEF Inv, Counting
    <3>2. CASE mgr # "parallel"
      BY <1>1, <3>2 DEF Inv, Counting, TypeOK, ManagerStates, ManagerRuns, Early
    <3> QED BY <3>1, <3>2
  <2> QED BY <1>1, <2>2 DEF Counting, Early
<1>5. Causes'
  BY <1>1 DEF Inv, Causes, ManagerRuns, ManagerEnded
<1> QED BY <1>2, <1>3, <1>4, <1>5 DEF Inv

\* A step that only moves the manager before its first connection.
LEMMA BeforeParallelInv ==
    ASSUME Inv, ConnectToStatServer \/ WorkersStarted \/ RegisterTest
    PROVE  Inv'
<1>1. CASE ConnectToStatServer
  <2>1. CASE stat_server /\ ManagerFails({"stat"})
    BY <1>1, <2>1, ManagerFailsInv
       DEF ConnectToStatServer, ManagerRuns, ManagerEnded, Faults
  <2>2. CASE /\ mgr = "connect_stat" /\ mgr' = "start_workers"
             /\ UNCHANGED <<talkVars, test_id, wrk, scriptVars, netVars, faults>>
    BY <2>2 DEF Inv, TypeOK, ManagerStates, Conversation, Unasked, Asked, Started,
       Heard, Counting, Causes, Early, ManagerEnded, ManagerRuns, Unheard, Finished,
       Alive, talkVars, scriptVars, netVars
  <2> QED BY <1>1, <2>1, <2>2 DEF ConnectToStatServer
<1>2. CASE WorkersStarted
  BY <1>2 DEF WorkersStarted, Inv, TypeOK, ManagerStates, Conversation, Unasked,
     Asked, Started, Heard, Counting, Causes, Early, ManagerEnded, ManagerRuns,
     Unheard, Finished, Alive, talkVars, scriptVars, netVars
<1>3. CASE RegisterTest
  <2>1. CASE ManagerFails({IF stat_server THEN "stat" ELSE "host"})
    BY <1>3, <2>1, ManagerFailsInv
       DEF RegisterTest, ManagerRuns, ManagerEnded, Faults
  <2>2. CASE /\ mgr = "register" /\ mgr' = "parallel"
             /\ test_id' = stat_server /\ workers_left' = Cardinality(Workers)
             /\ UNCHANGED <<talk, wrk, scriptVars, netVars, faults>>
    <3> USE <2>2 DEF scriptVars, netVars
    <3>1. Cardinality(Workers) \in Nat
      BY WorkersAssumption, FS_CardinalityType
    <3>2. TypeOK'
      BY <3>1 DEF Inv, TypeOK, ManagerStates
    <3>3. \A v \in Workers : Conversation(v)'
      BY DEF Inv, Conversation, Unasked, Asked, Started, Heard
    <3>4. Unheard' = Workers
      BY DEF Inv, Counting, Early, Unheard
    <3>5. Counting'
      BY <3>4 DEF Counting, Early, ManagerEnded
    <3>6. Causes'
      BY DEF Inv, Causes, ManagerRuns, ManagerEnded, Alive
    <3> QED BY <3>2, <3>3, <3>5, <3>6 DEF Inv
  <2> QED BY <1>3, <2>1, <2>2 DEF RegisterTest
<1> QED BY <1>1, <1>2, <1>3

LEMMA StartWorkerInv ==
    ASSUME Inv, NEW w \in Workers, StartWorker(w) PROVE Inv'
<1>1. CASE ManagerFails({"ssh"})
  BY <1>1, ManagerFailsInv DEF StartWorker, ManagerRuns, ManagerEnded, Faults
<1>2. CASE /\ talk' = [talk EXCEPT ![w] = "connecting"]
           /\ wrk' = [wrk EXCEPT ![w] = IF @ = "off" THEN "booting" ELSE @]
           /\ UNCHANGED <<mgr, workers_left, test_id, scriptVars, netVars, faults>>
  <2> USE <1>2 DEF scriptVars, netVars
  <2>1. mgr = "start_workers" /\ talk[w] = "none"
    BY DEF StartWorker
  <2>2. TypeOK'
    BY DEF Inv, TypeOK, Talks, WorkerStates
  <2>3. ASSUME NEW v \in Workers PROVE Conversation(v)'
    <3>1. CASE v = w
      BY <2>1, <3>1 DEF Inv, TypeOK, Conversation, Unasked, Asked, Started, Heard
    <3>2. CASE v # w
      BY <3>2 DEF Inv, TypeOK, Conversation, Unasked, Asked, Started, Heard
    <3> QED BY <3>1, <3>2
  <2>4. Counting'
    BY <2>1 DEF Inv, TypeOK, Counting, Early, ManagerEnded
  <2>5. Causes'
    BY <2>1 DEF Inv, TypeOK, Causes, ManagerRuns, ManagerEnded, Alive
  <2> QED BY <2>2, <2>3, <2>4, <2>5 DEF Inv
<1> QED BY <1>1, <1>2 DEF StartWorker

LEMMA ConnectToWorkerInv ==
    ASSUME Inv, NEW w \in Workers, ConnectToWorker(w) \/ ConnectFails(w)
    PROVE  Inv'
<1>1. mgr = "parallel" /\ talk[w] = "connecting" /\ ManagerRuns
  BY DEF ConnectToWorker, ConnectFails, Talking, ManagerRuns, ManagerEnded
<1>2. CASE ~test_id /\ ManagerFails({})
  BY <1>1, <1>2, ManagerFailsInv DEF Inv, Counting
<1>3. CASE ManagerFails({"socket"}) \/ ManagerFails({"slow"})
  BY <1>1, <1>3, ManagerFailsInv DEF Faults
<1>4. CASE wrk[w] \in WorkerEnded /\ ManagerFails({})
  <2>1. faults # {}
    BY <1>1, <1>4 DEF Inv, Conversation, Unasked, Causes, WorkerEnded
  <2> QED BY <1>1, <1>4, <2>1, ManagerFailsInv
<1>5. CASE /\ Alive(w) /\ test_id
           /\ talk' = [talk EXCEPT ![w] = "starting"]
           /\ link' = [link EXCEPT ![w] = "open"]
           /\ start' = start \cup {w}
           /\ UNCHANGED <<mgr, workers_left, test_id, wrk, scriptVars, answers,
                          faults>>
  <2> USE <1>5 DEF scriptVars
  <2>1. TypeOK'
    BY DEF Inv, TypeOK, Talks, Links
  <2>2. ASSUME NEW v \in Workers PROVE Conversation(v)'
    <3>1. CASE v = w
      BY <1>1, <3>1 DEF Inv, TypeOK, Conversation, Unasked, Asked, Started, Heard,
         Alive
    <3>2. CASE v # w
      BY <3>2 DEF Inv, TypeOK, Conversation, Unasked, Asked, Started, Heard
    <3> QED BY <3>1, <3>2
  <2>3. Unheard' = Unheard
    BY <1>1 DEF Inv, TypeOK, Unheard
  <2>4. Counting'
    BY <1>1, <2>3 DEF Inv, Counting, Early, ManagerEnded
  <2>5. Causes'
    BY <1>1 DEF Inv, TypeOK, Causes, ManagerRuns, ManagerEnded, Alive
  <2> QED BY <2>1, <2>2, <2>4, <2>5 DEF Inv
<1> QED BY <1>2, <1>3, <1>4, <1>5 DEF ConnectToWorker, ConnectFails

LEMMA ReceiveStartedInv ==
    ASSUME Inv, NEW w \in Workers, ReceiveStarted(w) \/ AnswerTimeout(w)
    PROVE  Inv'
<1>1. mgr = "parallel" /\ talk[w] = "starting" /\ ManagerRuns
  BY DEF ReceiveStarted, AnswerTimeout, Talking, ManagerRuns, ManagerEnded
<1>2. CASE ManagerFails({"slow"}) \/ ManagerFails({"merged"})
  BY <1>1, <1>2, ManagerFailsInv DEF Faults
<1>3. CASE /\ answers[w] # <<>>
           /\ talk' = [talk EXCEPT ![w] = "running"]
           /\ answers' = [answers EXCEPT ![w] = Tail(@)]
           /\ UNCHANGED <<mgr, workers_left, test_id, wrk, scriptVars, link,
                          start, faults>>
  <2> USE <1>3 DEF scriptVars
  <2>1. \/ answers[w] = <<"200">> /\ wrk[w] \notin {"listening", "finished", "lost"}
        \/ answers[w] = <<"200", "finished">> /\ wrk[w] = "finished"
    BY <1>1 DEF Inv, Conversation, Asked
  <2>2. wrk[w] \notin {"off", "booting", "listening"}
    BY <1>1, <2>1 DEF Inv, Conversation, Asked
  <2>3. \/ Tail(answers[w]) = <<>> /\ wrk[w] # "finished"
        \/ Tail(answers[w]) = <<"finished">> /\ wrk[w] = "finished"
    BY <2>1, AnswerFacts
  <2>4. Tail(answers[w]) \in Seq(Messages)
    BY <2>3, AnswerFacts
  <2>5. TypeOK'
    BY <2>4 DEF Inv, TypeOK, Talks
  <2>6. ASSUME NEW v \in Workers PROVE Conversation(v)'
    <3>1. CASE v = w
      BY <2>2, <2>3, <3>1 DEF Inv, TypeOK, Conversation, Unasked, Asked, Started,
         Heard
    <3>2. CASE v # w
      BY <3>2 DEF Inv, TypeOK, Conversation, Unasked, Asked, Started, Heard
    <3> QED BY <3>1, <3>2
  <2>7. Unheard' = Unheard
    BY <1>1 DEF Inv, TypeOK, Unheard
  <2>8. Counting'
    BY <1>1, <2>7 DEF Inv, Counting, Early, ManagerEnded
  <2>9. Causes'
    BY <1>1 DEF Inv, Causes, ManagerRuns, ManagerEnded, Alive
  <2> QED BY <2>5, <2>6, <2>8, <2>9 DEF Inv
<1> QED BY <1>2, <1>3 DEF ReceiveStarted, AnswerTimeout

\* The last 'finished': everybody else has been heard, so everybody finished.
LEMMA LastIsLast ==
    ASSUME Inv, NEW w \in Workers, mgr = "parallel", talk[w] = "running",
           answers[w] # <<>>, workers_left = 1
    PROVE  Finished = Workers
<1>1. Unheard = {w}
  BY UnheardFacts DEF Inv, Counting, Unheard
<1>2. ASSUME NEW v \in Workers PROVE wrk[v] = "finished"
  <2>1. CASE v = w
    BY <2>1 DEF Inv, Conversation, Started
  <2>2. CASE v # w
    BY <1>1, <2>2 DEF Inv, Conversation, Heard, Unheard
  <2> QED BY <2>1, <2>2
<1> QED BY <1>2 DEF Finished

LEMMA ReceiveFinishedInv ==
    ASSUME Inv, NEW w \in Workers, ReceiveFinished(w) PROVE Inv'
<1>1. /\ mgr = "parallel" /\ talk[w] = "running" /\ answers[w] # <<>>
      /\ talk' = [talk EXCEPT ![w] = "over"]
      /\ workers_left' = workers_left - 1
      /\ answers' = [answers EXCEPT ![w] = Tail(@)]
      /\ UNCHANGED <<test_id, wrk, stat_server, script_ok, start, faults>>
  BY DEF ReceiveFinished, Talking, Left, scriptVars
<1>2. \/ workers_left = 1 /\ mgr' = "done"
         /\ link' = [v \in Workers |-> Closed(link[v])]
      \/ workers_left # 1 /\ UNCHANGED <<mgr, link>>
  BY DEF ReceiveFinished, IsLast
<1>3. answers[w] = <<"finished">> /\ wrk[w] = "finished"
  BY <1>1 DEF Inv, Conversation, Started
<1>4. Tail(answers[w]) = <<>>
  BY <1>3, AnswerFacts
<1>5. /\ w \in Unheard /\ workers_left = Cardinality(Unheard)
      /\ Cardinality(Unheard \ {w}) = workers_left - 1
      /\ workers_left \in Nat
  BY <1>1, UnheardFacts DEF Inv, Counting, Unheard
<1>6. Unheard' = Unheard \ {w}
  BY <1>1 DEF Inv, TypeOK, Unheard
<1>7. workers_left' = Cardinality(Unheard') /\ workers_left' \in Nat
  <2>1. workers_left - 1 \in Nat
    BY <1>5, FS_CardinalityType, FS_EmptySet, FS_RemoveElement, UnheardFacts
  <2> QED BY <1>1, <1>5, <1>6, <2>1
<1>8. link' \in [Workers -> Links]
  BY <1>2 DEF Inv, TypeOK, Closed, Links
<1>9. TypeOK'
  <2>1. workers_left' \in 0..Cardinality(Workers)
    BY <1>1, <1>7, WorkersAssumption, FS_CardinalityType DEF Inv, TypeOK
  <2>2. talk' \in [Workers -> Talks] /\ answers' \in [Workers -> Seq(Messages)]
    BY <1>1, <1>4 DEF Inv, TypeOK, Talks
  <2>3. mgr' \in ManagerStates
    BY <1>2 DEF Inv, TypeOK, ManagerStates, ManagerEnded
  <2> QED BY <1>1, <1>8, <2>1, <2>2, <2>3 DEF Inv, TypeOK
<1>10. ASSUME NEW v \in Workers PROVE Conversation(v)'
  <2>1. CASE v = w
    BY <1>1, <1>3, <1>4, <2>1
       DEF Inv, TypeOK, Conversation, Unasked, Asked, Started, Heard
  <2>2. CASE v # w
    <3>1. link[v] = "none" => link'[v] = "none"
      BY <1>2 DEF Closed
    <3> QED BY <1>1, <2>2, <3>1
            DEF Inv, TypeOK, Conversation, Unasked, Asked, Started, Heard
  <2> QED BY <2>1, <2>2
<1>11. Counting'
  <2>1. mgr' = "done" => Finished' = Workers
    BY <1>1, <1>2, LastIsLast DEF Finished
  <2> QED BY <1>1, <1>2, <1>7, <2>1 DEF Inv, Counting, Early
<1>12. Causes'
  BY <1>1, <1>2 DEF Inv, Causes, ManagerRuns, ManagerEnded, Alive
<1> QED BY <1>9, <1>10, <1>11, <1>12 DEF Inv

\* Whoever is waited for and ended had a cause.
LEMMA WorkerGoneInv ==
    ASSUME Inv, NEW w \in Workers, WorkerGone(w) PROVE Inv'
<1>1. /\ mgr = "parallel" /\ ManagerRuns /\ talk[w] \in {"starting", "running"}
      /\ answers[w] = <<>> /\ link[w] = "half" /\ ManagerFails({})
  BY DEF WorkerGone, Talking, AllHeard, ManagerRuns, ManagerEnded
<1>2. ~Alive(w)
  BY <1>1 DEF Inv, Causes
<1>3. wrk[w] \in {"error", "lost", "orphaned"}
  BY <1>1, <1>2, AnswerFacts
     DEF Inv, TypeOK, WorkerStates, WorkerEnded, Alive, Conversation, Asked, Started
<1>4. faults # {}
  BY <1>1, <1>3 DEF Inv, Causes
<1> QED BY <1>1, <1>4, ManagerFailsInv

\* A step of one worker leaves the others and the manager alone.
LEMMA WorkerStepInv ==
    ASSUME Inv, NEW w \in Workers,
           UNCHANGED <<mgr, talk, workers_left, test_id, stat_server, script_ok>>,
           wrk' = [wrk EXCEPT ![w] = wrk'[w]], wrk'[w] \in WorkerStates,
           link' = [link EXCEPT ![w] = link'[w]], link'[w] \in Links,
           answers' = [answers EXCEPT ![w] = answers'[w]],
           answers'[w] \in Seq(Messages),
           start' \in {start, start \ {w}},
           faults \subseteq faults', faults' \subseteq Faults,
           wrk[w] = "finished" => wrk'[w] = "finished",
           wrk'[w] \in {"error", "lost"} => ~ManagerRuns \/ faults' # {},
           wrk'[w] = "orphaned" => mgr = "failed",
           link'[w] = "half" /\ Alive(w)' => ~ManagerRuns,
           Conversation(w)'
    PROVE  Inv'
<1>1. TypeOK'
  BY DEF Inv, TypeOK
<1>2. ASSUME NEW v \in Workers PROVE Conversation(v)'
  <2>1. CASE v # w
    BY <2>1 DEF Inv, TypeOK, Conversation, Unasked, Asked, Started, Heard
  <2> QED BY <2>1
<1>3. Counting'
  <2>1. Unheard' = Unheard
    BY DEF Unheard
  <2>2. Finished = Workers => Finished' = Workers
    BY DEF Inv, TypeOK, Finished
  <2> QED BY <2>1, <2>2 DEF Inv, Counting
<1>4. Causes'
  <2>1. ASSUME NEW v \in Workers
        PROVE  /\ wrk'[v] \in {"error", "lost"} => ~ManagerRuns' \/ faults' # {}
               /\ wrk'[v] = "orphaned" => mgr' = "failed"
               /\ link'[v] = "half" /\ Alive(v)' => ~ManagerRuns'
    <3>1. CASE v = w
      BY <3>1 DEF ManagerRuns
    <3>2. CASE v # w
      BY <3>2 DEF Inv, TypeOK, Causes, ManagerRuns, Alive
    <3> QED BY <3>1, <3>2
  <2>2. mgr' = "failed" /\ stat_server' => faults' # {}
    BY DEF Inv, Causes
  <2> QED BY <2>1, <2>2 DEF Causes
<1> QED BY <1>1, <1>2, <1>3, <1>4 DEF Inv

\* Closing an end of a connection.
LEMMA ClosedFacts ==
    ASSUME NEW l \in Links
    PROVE  Closed(l) \in Links /\ (Closed(l) = "none" <=> l = "none")
BY DEF Closed, Links

\* Which worker fails: one that boots, or one that was asked.
LEMMA WorkerFailsInv ==
    ASSUME Inv, NEW w \in Workers, NEW fault \in Faults, WorkerFails(w, fault),
           wrk[w] \in {"booting", "waiting", "testing"}
    PROVE  Inv'
<1>1. /\ wrk' = [wrk EXCEPT ![w] = "error"]
      /\ link' = [link EXCEPT ![w] = Closed(@)]
      /\ faults' = faults \cup {fault}
      /\ UNCHANGED <<mgr, talk, workers_left, test_id, stat_server, script_ok,
                     start, answers>>
  BY DEF WorkerFails, talkVars, scriptVars
<1>2. /\ wrk'[w] = "error" /\ link'[w] = Closed(link[w])
      /\ answers'[w] = answers[w]
  BY <1>1 DEF Inv, TypeOK
<1>3. link'[w] \in Links /\ (link'[w] = "none" <=> link[w] = "none")
  BY <1>2, ClosedFacts DEF Inv, TypeOK
<1>4. answers[w] \in Seq(Messages) /\ answers' = [answers EXCEPT ![w] = answers'[w]]
  BY <1>1 DEF Inv, TypeOK
<1>5. Conversation(w)'
  BY <1>1, <1>2, <1>3, AnswerFacts
     DEF Inv, TypeOK, Conversation, Unasked, Asked, Started, Heard
<1>6. faults' # {} /\ faults \subseteq faults' /\ faults' \subseteq Faults
  BY <1>1 DEF Inv, TypeOK
<1>7. "error" \in WorkerStates /\ ~Alive(w)'
  BY <1>2 DEF WorkerStates, WorkerEnded, Alive
<1> QED BY <1>1, <1>2, <1>3, <1>4, <1>5, <1>6, <1>7, WorkerStepInv

LEMMA BootInv ==
    ASSUME Inv, NEW w \in Workers, Boot(w) \/ StartTest(w) \/ TestFails(w)
    PROVE  Inv'
<1>1. CASE WorkerFails(w, "worker")
  BY <1>1, WorkerFailsInv DEF Boot, StartTest, TestFails, Faults
<1>2. CASE /\ wrk[w] = "booting" /\ wrk' = [wrk EXCEPT ![w] = "listening"]
           /\ UNCHANGED <<mgr, talkVars, test_id, scriptVars, netVars, faults>>
  <2> USE <1>2 DEF talkVars, scriptVars, netVars
  <2>1. wrk'[w] = "listening" /\ "listening" \in WorkerStates
    BY DEF Inv, TypeOK, WorkerStates
  <2>2. talk[w] \in {"none", "connecting"}
    BY DEF Inv, TypeOK, Talks, Conversation, Asked, Started, Heard
  <2>3. Conversation(w)' /\ link[w] = "none"
    BY <2>1, <2>2 DEF Inv, Conversation, Unasked, Asked, Started, Heard
  <2>4. /\ link' = [link EXCEPT ![w] = link'[w]] /\ link'[w] \in Links
        /\ answers' = [answers EXCEPT ![w] = answers'[w]]
        /\ answers'[w] \in Seq(Messages) /\ faults \subseteq Faults
    BY DEF Inv, TypeOK
  <2> QED BY <2>1, <2>3, <2>4, WorkerStepInv
<1>3. CASE StartTest(w)
  <2> USE <1>3 DEF StartTest, talkVars, scriptVars, netVars
  <2>1. wrk'[w] = "testing" /\ "testing" \in WorkerStates /\ wrk[w] = "waiting"
    BY DEF Inv, TypeOK, WorkerStates
  <2>2. Conversation(w)'
    BY <2>1 DEF Inv, Conversation, Unasked, Asked, Started, Heard
  <2>3. link'[w] = "half" => ~ManagerRuns
    BY DEF Inv, Causes, Alive
  <2>4. /\ link' = [link EXCEPT ![w] = link'[w]] /\ link'[w] \in Links
        /\ answers' = [answers EXCEPT ![w] = answers'[w]]
        /\ answers'[w] \in Seq(Messages) /\ faults \subseteq Faults
    BY DEF Inv, TypeOK
  <2> QED BY <2>1, <2>2, <2>3, <2>4, WorkerStepInv
<1> QED BY <1>1, <1>2, <1>3 DEF Boot, TestFails

LEMMA HandleStartInv ==
    ASSUME Inv, NEW w \in Workers, HandleStart(w) PROVE Inv'
<1>1. /\ wrk[w] = "listening" /\ w \in start /\ start' = start \ {w}
      /\ UNCHANGED <<mgr, talk, workers_left, test_id, stat_server, script_ok>>
  BY DEF HandleStart, talkVars, scriptVars
<1>2. talk[w] = "starting" /\ answers[w] = <<>>
  BY <1>1, AnswerFacts
     DEF Inv, TypeOK, Talks, Conversation, Unasked, Asked, Started, Heard
<1>3. Closed(link[w]) \in Links /\ (link[w] = "half" => ~ManagerRuns)
  BY <1>1, ClosedFacts DEF Inv, TypeOK, Causes, Alive
<1>4. {"waiting", "error"} \subseteq WorkerStates /\ "script" \in Faults
  BY DEF WorkerStates, WorkerEnded, Faults
<1>5. CASE /\ answers' = [answers EXCEPT ![w] = Append(@, "200")]
           /\ wrk' = [wrk EXCEPT ![w] = "waiting"] /\ UNCHANGED <<link, faults>>
  <2>1. wrk'[w] = "waiting" /\ answers'[w] = <<"200">> /\ link'[w] = link[w]
    BY <1>2, <1>5, AnswerFacts DEF Inv, TypeOK
  <2>2. Conversation(w)'
    BY <1>1, <1>2, <2>1 DEF Conversation, Unasked, Asked, Started, Heard
  <2>3. /\ wrk' = [wrk EXCEPT ![w] = wrk'[w]]
        /\ link' = [link EXCEPT ![w] = link'[w]] /\ link'[w] \in Links
        /\ answers' = [answers EXCEPT ![w] = answers'[w]]
        /\ faults \subseteq faults' /\ faults' \subseteq Faults
    BY <1>5, <2>1 DEF Inv, TypeOK
  <2> QED BY <1>1, <1>3, <1>4, <2>1, <2>2, <2>3, AnswerFacts, WorkerStepInv
<1>6. CASE /\ answers' = [answers EXCEPT ![w] = Append(@, "200")]
           /\ wrk' = [wrk EXCEPT ![w] = "error"]
           /\ link' = [link EXCEPT ![w] = Closed(@)]
           /\ faults' = faults \cup {"script"}
  <2>1. wrk'[w] = "error" /\ answers'[w] = <<"200">> /\ link'[w] = Closed(link[w])
    BY <1>2, <1>6, AnswerFacts DEF Inv, TypeOK
  <2>2. Conversation(w)' /\ ~Alive(w)'
    BY <1>1, <1>2, <2>1 DEF Conversation, Unasked, Asked, Started, Heard, Alive
  <2>3. /\ wrk' = [wrk EXCEPT ![w] = wrk'[w]]
        /\ link' = [link EXCEPT ![w] = link'[w]]
        /\ answers' = [answers EXCEPT ![w] = answers'[w]]
        /\ faults \subseteq faults' /\ faults' \subseteq Faults /\ faults' # {}
    BY <1>4, <1>6, <2>1 DEF Inv, TypeOK
  <2> QED BY <1>1, <1>3, <1>4, <2>1, <2>2, <2>3, AnswerFacts, WorkerStepInv
<1>7. CASE /\ link[w] = "half" /\ wrk' = [wrk EXCEPT ![w] = "error"]
           /\ link' = [link EXCEPT ![w] = Closed(@)] /\ UNCHANGED <<answers, faults>>
  <2>1. wrk'[w] = "error" /\ answers'[w] = <<>> /\ link'[w] = Closed(link[w])
    BY <1>2, <1>7 DEF Inv, TypeOK
  <2>2. Conversation(w)' /\ ~Alive(w)'
    BY <1>1, <1>2, <2>1 DEF Conversation, Unasked, Asked, Started, Heard, Alive
  <2>3. /\ wrk' = [wrk EXCEPT ![w] = wrk'[w]]
        /\ link' = [link EXCEPT ![w] = link'[w]]
        /\ answers' = [answers EXCEPT ![w] = answers'[w]]
        /\ faults \subseteq faults' /\ faults' \subseteq Faults
    BY <1>7, <2>1 DEF Inv, TypeOK
  <2> QED BY <1>1, <1>3, <1>4, <1>7, <2>1, <2>2, <2>3, AnswerFacts, WorkerStepInv
<1> QED BY <1>5, <1>6, <1>7 DEF HandleStart, Answer

LEMMA FinishTestInv ==
    ASSUME Inv, NEW w \in Workers, FinishTest(w) PROVE Inv'
<1>1. /\ wrk[w] = "testing" /\ link' = [link EXCEPT ![w] = Closed(@)]
      /\ UNCHANGED <<mgr, talk, workers_left, test_id, stat_server, script_ok,
                     start, faults>>
  BY DEF FinishTest, talkVars, scriptVars
<1>2. \/ talk[w] = "starting" /\ answers[w] = <<"200">>
      \/ talk[w] = "running" /\ answers[w] = <<>>
  BY <1>1, AnswerFacts
     DEF Inv, TypeOK, Talks, Conversation, Unasked, Asked, Started, Heard
<1>3. /\ link'[w] = Closed(link[w]) /\ link'[w] \in Links
      /\ link' = [link EXCEPT ![w] = link'[w]]
      /\ link[w] = "half" => ~ManagerRuns
  BY <1>1, ClosedFacts DEF Inv, TypeOK, Causes, Alive
<1>4. {"finished", "error"} \subseteq WorkerStates
  BY DEF WorkerStates, WorkerEnded
<1>5. faults \subseteq faults' /\ faults' \subseteq Faults
  BY <1>1 DEF Inv, TypeOK
<1>6. CASE /\ wrk' = [wrk EXCEPT ![w] = "finished"]
           /\ answers' = [answers EXCEPT ![w] = Append(@, "finished")]
  <2>1. wrk'[w] = "finished" /\ answers'[w] = Append(answers[w], "finished")
    BY <1>6 DEF Inv, TypeOK
  <2>2. \/ talk'[w] = "starting" /\ answers'[w] = <<"200", "finished">>
        \/ talk'[w] = "running" /\ answers'[w] = <<"finished">>
    BY <1>1, <1>2, <2>1, AnswerFacts
  <2>3. Conversation(w)' /\ ~Alive(w)' /\ answers'[w] \in Seq(Messages)
    BY <2>1, <2>2, AnswerFacts
       DEF Conversation, Unasked, Asked, Started, Heard, Alive
  <2>4. /\ wrk' = [wrk EXCEPT ![w] = wrk'[w]]
        /\ answers' = [answers EXCEPT ![w] = answers'[w]]
    BY <1>6, <2>1 DEF Inv, TypeOK
  <2> QED BY <1>1, <1>3, <1>4, <1>5, <2>1, <2>3, <2>4, WorkerStepInv
<1>7. CASE /\ link[w] = "half" /\ wrk' = [wrk EXCEPT ![w] = "error"]
           /\ UNCHANGED answers
  <2>1. wrk'[w] = "error" /\ wrk' = [wrk EXCEPT ![w] = wrk'[w]]
    BY <1>7 DEF Inv, TypeOK
  <2>2. /\ answers'[w] \in Seq(Messages)
        /\ answers' = [answers EXCEPT ![w] = answers'[w]]
    BY <1>7 DEF Inv, TypeOK
  <2>3. Conversation(w)' /\ ~Alive(w)'
    BY <1>1, <1>2, <1>7, <2>1
       DEF Conversation, Unasked, Asked, Started, Heard, Alive
  <2> QED BY <1>1, <1>3, <1>4, <1>5, <1>7, <2>1, <2>2, <2>3, WorkerStepInv
<1> QED BY <1>6, <1>7 DEF FinishTest, Answer

\* A worker that ended quietly: had the manager succeeded, it would have
\* finished.
LEMMA ManagerGoneInv ==
    ASSUME Inv, NEW w \in Workers, ManagerGone(w) PROVE Inv'
<1>1. /\ wrk[w] \in {"listening", "testing"} /\ link[w] = "half"
      /\ wrk' = [wrk EXCEPT ![w] = "orphaned"]
      /\ link' = [link EXCEPT ![w] = "closed"]
      /\ UNCHANGED <<mgr, talk, workers_left, test_id, stat_server, script_ok,
                     start, answers, faults>>
  BY DEF ManagerGone, Reads, talkVars, scriptVars
<1>2. mgr = "failed"
  <2>1. ~ManagerRuns
    BY <1>1 DEF Inv, Causes, Alive
  <2>2. mgr # "done"
    BY <1>1 DEF Inv, Counting, Finished
  <2> QED BY <2>1, <2>2 DEF ManagerRuns, ManagerEnded
<1>3. /\ wrk'[w] = "orphaned" /\ link'[w] = "closed"
      /\ wrk' = [wrk EXCEPT ![w] = wrk'[w]]
      /\ link' = [link EXCEPT ![w] = link'[w]]
      /\ answers' = [answers EXCEPT ![w] = answers'[w]]
      /\ answers'[w] \in Seq(Messages) /\ faults \subseteq Faults
  BY <1>1 DEF Inv, TypeOK
<1>4. Conversation(w)'
  BY <1>1, <1>3, AnswerFacts
     DEF Inv, TypeOK, Conversation, Unasked, Asked, Started, Heard
<1>5. "orphaned" \in WorkerStates /\ "closed" \in Links /\ ~Alive(w)'
  BY <1>3 DEF WorkerStates, WorkerEnded, Links, Alive
<1> QED BY <1>1, <1>2, <1>3, <1>4, <1>5, WorkerStepInv

LEMMA LoseHostInv ==
    ASSUME Inv, NEW w \in Workers, LoseHost(w) PROVE Inv'
<1>1. /\ Alive(w) /\ wrk' = [wrk EXCEPT ![w] = "lost"]
      /\ answers' = [answers EXCEPT ![w] = <<>>]
      /\ start' = start \ {w} /\ faults' = faults \cup {"host"}
      /\ UNCHANGED <<mgr, talk, workers_left, test_id, stat_server, script_ok, link>>
  BY DEF LoseHost, talkVars, scriptVars
<1>2. /\ wrk'[w] = "lost" /\ answers'[w] = <<>>
      /\ wrk' = [wrk EXCEPT ![w] = wrk'[w]]
      /\ link' = [link EXCEPT ![w] = link'[w]] /\ link'[w] \in Links
      /\ answers' = [answers EXCEPT ![w] = answers'[w]]
  BY <1>1 DEF Inv, TypeOK
<1>3. faults \subseteq faults' /\ faults' \subseteq Faults /\ faults' # {}
  BY <1>1 DEF Inv, TypeOK, Faults
<1>4. Conversation(w)' /\ ~Alive(w)'
  BY <1>1, <1>2 DEF Inv, Conversation, Unasked, Asked, Started, Heard, Alive
<1>5. "lost" \in WorkerStates /\ wrk[w] # "finished"
  BY <1>1 DEF WorkerStates, WorkerEnded, Alive
<1> QED BY <1>1, <1>2, <1>3, <1>4, <1>5, AnswerFacts, WorkerStepInv

-----------------------------------------------------------------------------
(* The theorems. *)

\* Inv is an invariant: one case for each action.
THEOREM InvCorrect == Spec => []Inv
<1>1. Init => Inv
  BY InitInv
<1>2. ASSUME Inv, [Next]_vars PROVE Inv'
  <2>1. CASE Next
    <3>1. CASE Manager
      <4>1. CASE ConnectToStatServer \/ WorkersStarted \/ RegisterTest
        BY <1>2, <4>1, BeforeParallelInv
      <4>2. ASSUME NEW w \in Workers,
                   \/ StartWorker(w) \/ ConnectToWorker(w) \/ ConnectFails(w)
                   \/ AnswerTimeout(w) \/ ReceiveStarted(w)
                   \/ ReceiveFinished(w) \/ WorkerGone(w)
            PROVE  Inv'
        BY <1>2, <4>2, StartWorkerInv, ConnectToWorkerInv, ReceiveStartedInv,
           ReceiveFinishedInv, WorkerGoneInv
      <4> QED BY <3>1, <4>1, <4>2 DEF Manager
    <3>2. CASE Interrupt
      BY <1>2, <3>2, ManagerFailsInv DEF Interrupt, Faults
    <3>3. ASSUME NEW w \in Workers, Worker(w) \/ LoseHost(w) PROVE Inv'
      BY <1>2, <3>3, BootInv, HandleStartInv, FinishTestInv, ManagerGoneInv, LoseHostInv
         DEF Worker
    <3> QED BY <2>1, <3>1, <3>2, <3>3 DEF Next
  <2>2. CASE UNCHANGED vars
    <3>1. UNCHANGED <<mgr, talk, workers_left, test_id, wrk, stat_server, script_ok,
                      link, start, answers, faults>>
      BY <2>2 DEF vars, talkVars, netVars, scriptVars
    <3> QED BY <1>2, <3>1 DEF Inv, TypeOK, Conversation, Unasked, Asked, Started, Heard,
                    Counting, Unheard, Finished, Causes, ManagerRuns, Alive
  <2> QED BY <1>2, <2>1, <2>2
<1> QED BY <1>1, <1>2, PTL DEF Spec

\* Every variable keeps to its type, the counter among 0..Cardinality(Workers):
\* no 'finished' is counted twice.
THEOREM TypeCorrect == Spec => []TypeOK
<1>1. Inv => TypeOK
  BY DEF Inv
<1> QED BY <1>1, InvCorrect, PTL

\* on_worker_finished's workers_left is the number of workers that have not
\* been heard to finish.
THEOREM CountCorrect == Spec => []CountsUnfinished
<1>1. Inv => CountsUnfinished
  BY DEF Inv, TypeOK, Counting, CountsUnfinished, Unheard
<1> QED BY <1>1, InvCorrect, PTL

\* A worker ends in the middle of its test without a word only under a manager
\* that failed.
THEOREM OrphansCorrect == Spec => []OrphansHaveLostManager
<1>1. Inv => OrphansHaveLostManager
  BY DEF Inv, Causes, OrphansHaveLostManager
<1> QED BY <1>1, InvCorrect, PTL

\* No order of answers, ends and closes makes a run fail that has a statistics
\* server and around which nothing failed.
THEOREM CauseCorrect == Spec => []FailureHasCause
<1>1. Inv => FailureHasCause
  BY DEF Inv, Causes, FailureHasCause
<1> QED BY <1>1, InvCorrect, PTL

LEMMA FailsImplements ==
    ASSUME NEW fault, ManagerRuns, ManagerFails(fault) PROVE Test!Fail
<1>1. mgr' = "failed" /\ wrk' = wrk
  BY DEF ManagerFails, EndManager
<1> QED BY <1>1 DEF Test!Fail, outcome, Finished, ManagerRuns, ManagerEnded

\* run_manager ends with success only after every worker's test came to its
\* own end: each step is one of TestRun's, or leaves its variables alone.
THEOREM TestRunCorrect == Spec => ImplementsTestRun
<1>1. Init => Test!Init
  BY DEF Init, Test!Init, outcome, Finished, ManagerRuns, ManagerEnded
<1>2. ASSUME Inv, [Next]_vars PROVE [Test!Next]_Test!vars
  <2> DEFINE Quiet == UNCHANGED <<outcome, Finished>>
  <2> SUFFICES Test!Next \/ Quiet
    BY DEF Test!vars
  <2>1. ASSUME NEW fault, ManagerFails(fault), ManagerRuns PROVE Test!Next
    BY <2>1, FailsImplements DEF Test!Next
  <2>2. ASSUME ManagerRuns, ManagerRuns', UNCHANGED wrk PROVE Quiet
    BY <2>2 DEF outcome, Finished
  <2>3. ASSUME NEW w \in Workers, UNCHANGED mgr, wrk[w] # "finished",
               NEW s, s # "finished", wrk' = [wrk EXCEPT ![w] = s]
        PROVE  Quiet
    <3>1. Finished' = Finished
      BY <1>2, <2>3 DEF Inv, TypeOK, Finished
    <3> QED BY <2>3, <3>1 DEF outcome, ManagerRuns
  <2>4. CASE ConnectToStatServer \/ WorkersStarted \/ RegisterTest
    BY <2>1, <2>2, <2>4 DEF ConnectToStatServer, WorkersStarted, RegisterTest,
       ManagerRuns, ManagerEnded
  <2>5. ASSUME NEW w \in Workers, StartWorker(w) PROVE Test!Next \/ Quiet
    <3>1. CASE ManagerFails({"ssh"})
      BY <2>1, <2>5, <3>1 DEF StartWorker, ManagerRuns, ManagerEnded
    <3>2. CASE /\ wrk' = [wrk EXCEPT ![w] = IF @ = "off" THEN "booting" ELSE @]
               /\ UNCHANGED mgr
      <4>1. Finished' = Finished
        BY <1>2, <3>2 DEF Inv, TypeOK, Finished
      <4> QED BY <3>2, <4>1 DEF outcome, ManagerRuns
    <3> QED BY <2>5, <3>1, <3>2 DEF StartWorker
  <2>6. ASSUME NEW w \in Workers,
               \/ ConnectToWorker(w) \/ ConnectFails(w) \/ AnswerTimeout(w)
               \/ ReceiveStarted(w) \/ WorkerGone(w)
        PROVE  Test!Next \/ Quiet
    <3>1. ManagerRuns
      BY <2>6 DEF ConnectToWorker, ConnectFails, AnswerTimeout, ReceiveStarted,
         WorkerGone, Talking, ManagerRuns, ManagerEnded
    <3> QED BY <2>1, <2>2, <2>6, <3>1 DEF ConnectToWorker, ConnectFails,
            AnswerTimeout, ReceiveStarted, WorkerGone, ManagerRuns
  <2>7. ASSUME NEW w \in Workers, ReceiveFinished(w) PROVE Test!Next \/ Quiet
    <3>1. /\ mgr = "parallel" /\ ManagerRuns /\ wrk' = wrk
          /\ talk[w] = "running" /\ answers[w] # <<>>
      BY <2>7 DEF ReceiveFinished, Talking, ManagerRuns, ManagerEnded
    <3>2. CASE workers_left = 1
      <4>1. mgr' = "done"
        BY <2>7, <3>2 DEF ReceiveFinished, IsLast
      <4>2. Finished = Workers
        BY <1>2, <3>1, <3>2, LastIsLast
      <4> QED BY <3>1, <4>1, <4>2
              DEF Test!Next, Test!Succeed, outcome, Finished, ManagerRuns, ManagerEnded
    <3>3. CASE workers_left # 1
      BY <2>2, <2>7, <3>1, <3>3 DEF ReceiveFinished, IsLast, ManagerRuns
    <3> QED BY <3>2, <3>3
  <2>8. ASSUME NEW w \in Workers,
               \/ Boot(w) \/ HandleStart(w) \/ StartTest(w) \/ TestFails(w)
               \/ ManagerGone(w) \/ LoseHost(w)
        PROVE  Quiet
    BY <2>3, <2>8 DEF Boot, HandleStart, StartTest, TestFails, ManagerGone,
       LoseHost, WorkerFails, Reads, Alive
  <2>9. ASSUME NEW w \in Workers, FinishTest(w) PROVE Test!Next \/ Quiet
    <3>1. CASE wrk' = [wrk EXCEPT ![w] = "finished"]
      <4>1. Finished' = Finished \cup {w} /\ mgr' = mgr
        BY <1>2, <2>9, <3>1 DEF FinishTest, Inv, TypeOK, Finished
      <4> QED BY <4>1 DEF Test!Next, Test!Finish, outcome, ManagerRuns
    <3>2. CASE wrk' = [wrk EXCEPT ![w] = "error"]
      BY <2>3, <2>9, <3>2 DEF FinishTest
    <3> QED BY <2>9, <3>1, <3>2 DEF FinishTest
  <2>10. CASE Interrupt
    BY <2>1, <2>10 DEF Interrupt
  <2>11. CASE UNCHANGED vars
    BY <2>11 DEF vars, outcome, Finished, ManagerRuns
  <2> QED BY <1>2, <2>4, <2>5, <2>6, <2>7, <2>8, <2>9, <2>10, <2>11
          DEF Next, Manager, Worker
<1> QED BY <1>1, <1>2, InvCorrect, PTL DEF Spec, ImplementsTestRun, Test!Spec
=============================================================================
