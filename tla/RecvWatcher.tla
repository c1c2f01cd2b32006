----------------------------- MODULE RecvWatcher -----------------------------
(***************************************************************************)
(* One user's calls of Session:receive on one keep-alive connection: the   *)
(* watcher and its timer, cb_recv with the parser and the callbacks that   *)
(* build the result on the Lua stack (main.c), and the loop of receive     *)
(* that joins the results of several packets (session.lua).                *)
(* The server answers each request with one of Responses, may send one     *)
(* nobody asked for, and may close; the stream is cut into packets at any  *)
(* place.                                                                  *)
(***************************************************************************)
EXTENDS HttpParser, SequencesExt

CONSTANTS
    Responses,    \* what the server answers: sequences of pieces
    Unasked,      \* what it may send beyond: the final response after a 1xx,
                  \* a 408 on an idle connection
    Chunk,        \* CHUNK: pieces that one recv() takes at most
    MaxRequests,  \* bound: calls of receive()
    MaxExtra      \* bound: responses that nobody asked for

\* Pieces are named by where they stand: what a broken status line or header
\* goes on with is junk, a stray line end, or the start of something else.
Anywhere == {"begin", "stray", "junk"}
NamedByPlace(s) ==
    \A i \in 1..(Len(s) - 1) :
        /\ s[i].k = "begin" => s[i + 1].k \in {"line"} \cup Anywhere
        /\ s[i].k \in {"line", "field"}
           => s[i + 1].k \in {"field", "end"} \cup Anywhere

ASSUME ResponsesAssumption ==
    \A m \in Responses \cup Unasked :
        /\ m \in Seq(Pieces) /\ NamedByPlace(m)
        /\ Len(m) > 1 /\ m[1] \in Begins /\ m[2] \in Lines
ASSUME ChunkAssumption == Chunk \in Nat \ {0}
ASSUME BoundsAssumption == MaxRequests \in Nat /\ MaxExtra \in Nat

VARIABLES
    wire,       \* pieces on their way to the client
    sent,       \* history: the responses sent
    closed,     \* the server closed the connection
    hp,         \* Recv_watcher.parser
    got_response,
    timer,      \* the watcher's timer is started
    buffer,     \* what recv() got
    pos,        \* pieces of it that the parser took
    stack,      \* Lua values that cb_recv left above the session id
    plan,       \* what the session is planned to be resumed with
    acc,        \* locals of receive()
    pc,         \* "idle", "yielded", "parsing", "planned", or how it ended
    requests,   \* receive() calls made
    returned    \* history: what receive() returned with success

netVars == <<wire, sent, closed>>
parseVars == <<hp, got_response, buffer, pos, stack>>
luaVars == <<acc, requests, returned>>
vars == <<netVars, parseVars, timer, plan, pc, luaVars>>

-----------------------------------------------------------------------------
(* Lua values: tables, with the keys that are set, and the string key.      *)

\* keys is the set of those of "headers", "body", "is_done", "is_keepalive",
\* "is_gzipped" and "parse_failed" that are set.
Table == [keys |-> {}, list |-> <<>>, headers |-> <<>>, body |-> <<>>,
          status_code |-> "200"]
\* The literal "headers", where a table is expected: a value of its own.
KeyHeaders == [Table EXCEPT !.keys = {"headers"}]

\* plan is NoPlan, "timeout", "closed", "failed" or "result".
NoPlan == "none"

\* The value on top, changed.
SetTop(s, v) == [s EXCEPT ![Len(s)] = v]

-----------------------------------------------------------------------------
(* The callbacks, each a change of the stack.                               *)

OnMessageBegin(s) ==
    IF got_response THEN s ELSE s \o <<KeyHeaders, Table>>

\* on_header_field and on_header_value: two entries of the table on top; the
\* result is two values below it while a header lasts (SetsInName).
OnHeader(s, f) ==
    LET t == SetTop(s, [Last(s) EXCEPT !.list = Append(@, f)])
    IN  IF f = "gzip"
        THEN [t EXCEPT ![Len(s) - 2].keys = @ \cup {"is_gzipped"}]
        ELSE t

\* Faulty variant: the key stays.
OnHeadersCompleteKeeps(s, p) ==
    SetTop(SubSeq(s, 1, Len(s) - 1),
           [Last(s) EXCEPT !.keys = {"headers"}, !.headers = Last(s).list])

\* rawset pops the key and the table into what is below them.
OnHeadersComplete(s, p) ==
    LET below == SubSeq(s, 1, Len(s) - 2)
        keepalive == IF ShouldKeepAlive(p) THEN {"is_keepalive"} ELSE {}
    IN  SetTop(below,
               [Last(below) EXCEPT !.headers = Last(s).list,
                                   !.keys = @ \cup {"headers"} \cup keepalive,
                                   !.status_code = p.status_code])

\* on_body, and a faulty variant that keeps the last piece only.
OnBodyReplaces(s, t) ==
    SetTop(s, [Last(s) EXCEPT !.body = <<t>>, !.keys = @ \cup {"body"}])
OnBody(s, t) ==
    SetTop(s, [Last(s) EXCEPT !.body = Append(@, t),
                              !.keys = @ \cup {"body"}])

OnMessageComplete(s) ==
    SetTop(s, [Last(s) EXCEPT !.keys = @ \cup {"is_done"}])

Called(call, s, p, t) ==
    CASE call = "message_begin" -> OnMessageBegin(s)
      [] call = "header" -> OnHeader(s, t.f)
      [] call = "headers_complete" -> OnHeadersComplete(s, p)
      [] call = "body" -> OnBody(s, t)
      [] call = "message_complete" -> OnMessageComplete(s)

\* A piece calls at most two callbacks.
CalledAll(calls, s, p, t) ==
    CASE Len(calls) = 0 -> s
      [] Len(calls) = 1 -> Called(calls[1], s, p, t)
      [] Len(calls) = 2 -> Called(calls[2], Called(calls[1], s, p, t), p, t)

\* "parsed unexpected new response": the callbacks that exit once a response
\* was parsed in the buffer.
Unexpected(calls) ==
    \E i \in DOMAIN calls :
        got_response /\ calls[i] \in {"header", "headers_complete", "body"}

\* In a trailer the result is the table on top, and what is two values below it
\* is not a table but the name that cb_recv gives to plan_resume: lua_rawset
\* writes into a string.
SetsInName(calls, t) ==
    calls = <<"header">> /\ t.f = "gzip" /\ Len(stack) <= 2

-----------------------------------------------------------------------------
(* receive()                                                                *)

Accumulators == [headers |-> <<>>, body |-> <<>>, status_code |-> "200",
                 keys |-> {}]

Receive ==
    /\ pc = "idle"
    /\ requests < MaxRequests
    /\ requests' = requests + 1
    /\ acc' = Accumulators
    /\ hp' = ParserInit
    /\ timer' \in BOOLEAN
    /\ pc' = "yielded"
    /\ UNCHANGED <<netVars, got_response, buffer, pos, stack, plan, returned>>

\* One round of receive()'s loop, with the result table r.
Accumulate(r) ==
    [headers |-> IF "headers" \in r.keys THEN r.headers ELSE acc.headers,
     status_code |-> IF "headers" \in r.keys THEN r.status_code
                                             ELSE acc.status_code,
     body |-> acc.body \o r.body,
     keys |-> acc.keys \cup (r.keys \cap {"is_keepalive", "is_gzipped"})]

\* receive() raises no error here; http() closes the connection after a
\* failed call, and after a response that does not keep it.
ResumeFailed ==
    /\ pc \in {"yielded", "planned"}
    /\ plan \in {"timeout", "closed", "failed"}
    /\ pc' = "gone"
    /\ plan' = NoPlan
    /\ timer' = FALSE
    /\ UNCHANGED <<netVars, parseVars, luaVars>>

ResumeMore ==
    /\ pc = "planned" /\ plan = "result"
    /\ "is_done" \notin stack[1].keys
    /\ acc' = Accumulate(stack[1])
    /\ stack' = <<>>
    /\ pc' = "yielded"
    /\ plan' = NoPlan
    /\ UNCHANGED <<netVars, hp, got_response, buffer, pos, timer, requests,
                   returned>>

ResumeDone ==
    /\ pc = "planned" /\ plan = "result"
    /\ "is_done" \in stack[1].keys
    /\ LET got == Accumulate(stack[1])
       IN  /\ returned' = Append(returned, got)
           /\ pc' = IF "is_keepalive" \in got.keys THEN "idle" ELSE "gone"
    /\ acc' = Accumulators
    /\ stack' = <<>>
    /\ plan' = NoPlan
    /\ timer' = FALSE
    /\ UNCHANGED <<netVars, hp, got_response, buffer, pos, requests>>

-----------------------------------------------------------------------------
(* The event loop.  In one poll the timer's callback runs before cb_recv.   *)

\* plan_resume: the first plan of a poll counts, not the last.
LastPlan(new) == new
PlanOr(new) == IF plan = NoPlan THEN new ELSE plan

RecvTimeout ==
    /\ pc = "yielded" /\ timer
    /\ timer' = FALSE
    /\ plan' = PlanOr("timeout")
    /\ UNCHANGED <<netVars, parseVars, pc, luaVars>>

\* cb_recv with data: a new result table on the stack.
CbRecv(n) ==
    /\ pc = "yielded"
    /\ n \in 1..Len(wire) /\ n <= Chunk
    /\ buffer' = SubSeq(wire, 1, n)
    /\ wire' = SubSeq(wire, n + 1, Len(wire))
    /\ pos' = 0
    /\ got_response' = FALSE
    /\ stack' = <<Table>>
    /\ pc' = "parsing"
    /\ UNCHANGED <<sent, closed, hp, timer, plan, luaVars>>

\* cb_recv without data: the stream's end, or an error.
CbRecvNothing ==
    /\ pc = "yielded"
    /\ wire = <<>> /\ closed
    /\ plan' = PlanOr("closed")
    /\ pc' = "planned"
    /\ UNCHANGED <<netVars, parseVars, timer, luaVars>>

Parsing == /\ pc = "parsing" /\ pos < Len(buffer)
           /\ ~hp.failed /\ hp.state # "upgraded"

Crash == /\ pc' = "crashed"
         /\ UNCHANGED <<netVars, parseVars, timer, plan, luaVars>>

\* http_parser_execute takes the next piece.
ParsePiece ==
    /\ Parsing
    /\ LET t == buffer[pos + 1]
           r == Execute(hp, t)
       IN  /\ ~Unexpected(r.calls) /\ ~SetsInName(r.calls, t)
           /\ stack' = CalledAll(r.calls, stack, hp, t)
           /\ hp' = r.parser
           /\ got_response' = (got_response
                               \/ \E i \in DOMAIN r.calls :
                                      r.calls[i] = "message_complete")
           /\ pos' = IF r.parser.failed THEN pos ELSE pos + 1
    /\ UNCHANGED <<netVars, buffer, timer, plan, pc, luaVars>>

ParseUnexpected ==
    /\ Parsing
    /\ Unexpected(Execute(hp, buffer[pos + 1]).calls)
    /\ Crash

ParseGzipTrailer ==
    /\ Parsing
    /\ LET t == buffer[pos + 1] IN SetsInName(Execute(hp, t).calls, t)
    /\ Crash

\* The callee of pcall(arg_num = 3) is plan_resume if the result table is the
\* only value above the session id.
CallsPlanResume == Len(stack) = 1

\* The end of cb_recv.
CbRecvEnd ==
    /\ pc = "parsing"
    /\ ~Parsing
    /\ IF hp.state = "upgraded" \/ ~CallsPlanResume
       THEN Crash
       ELSE /\ plan' = PlanOr(IF hp.failed THEN "failed" ELSE "result")
            /\ pc' = "planned"
            /\ UNCHANGED <<netVars, parseVars, timer, luaVars>>

-----------------------------------------------------------------------------
(* The server                                                               *)

Send(m) == /\ ~closed
           /\ wire' = wire \o m
           /\ sent' = Append(sent, m)
           /\ UNCHANGED <<closed, parseVars, timer, plan, pc, luaVars>>

Answer(m) == Len(sent) < requests /\ Send(m)

SendUnasked(m) ==
    /\ requests > 0
    /\ Len(sent) >= requests /\ Len(sent) < requests + MaxExtra
    /\ Send(m)

\* The stream ends, maybe short of what was sent.
ServerCloses ==
    /\ ~closed
    /\ closed' = TRUE
    /\ \E n \in 0..Len(wire) : wire' = SubSeq(wire, 1, n)
    /\ UNCHANGED <<sent, parseVars, timer, plan, pc, luaVars>>

-----------------------------------------------------------------------------
Init ==
    /\ wire = <<>> /\ sent = <<>> /\ closed = FALSE
    /\ hp = ParserInit /\ got_response = FALSE
    /\ buffer = <<>> /\ pos = 0 /\ stack = <<>>
    /\ timer = FALSE /\ plan = NoPlan /\ pc = "idle"
    /\ acc = Accumulators /\ requests = 0 /\ returned = <<>>

Poll == \/ \E n \in 1..Chunk : CbRecv(n)
        \/ CbRecvNothing
        \/ ParsePiece \/ ParseUnexpected \/ ParseGzipTrailer \/ CbRecvEnd

Resume == ResumeFailed \/ ResumeMore \/ ResumeDone

Server == \/ \E m \in Responses : Answer(m)
          \/ \E m \in Unasked : SendUnasked(m)
          \/ ServerCloses

Next == Receive \/ Poll \/ RecvTimeout \/ Resume \/ Server

Spec == Init /\ [][Next]_vars

\* The loop goes on, and a started timer expires; the server owes nothing.
Fairness == WF_vars(Poll) /\ WF_vars(Resume) /\ SF_vars(RecvTimeout)

FairSpec == Spec /\ Fairness

-----------------------------------------------------------------------------
(* Properties *)

\* What a response says: its fields, its status and the bytes of its body,
\* which are counted up to the n-th piece of it.
EndOf(m) == CHOOSE i \in DOMAIN m : /\ m[i].k = "end"
                                    /\ \A j \in 1..(i - 1) : m[j].k # "end"
FieldsOf(m) == [i \in 1..(EndOf(m) - 3) |-> m[i + 2].f]
IsByte(t) == t.k = "byte"
BytesUpTo(m, n) == Cardinality({i \in 1..n : IsByte(m[i])})

\* A field of the header.
HasField(m, i, f) == m[i].k = "field" /\ m[i].f = f
Heads(m) == 3..(EndOf(m) - 1)
Tails(m) == (EndOf(m) + 1)..Len(m)

\* The announced length is that of the body, which is not so for the answer
\* to HEAD, nor for 304 with a Content-Length; a body that has none is there
\* only if it may last until the end of the stream.
FramedBody(m) ==
    /\ \A i \in Tails(m) : IsByte(m[i])
    /\ \A i \in Heads(m) :
           HasField(m, i, "length") => m[i].n = Len(m) - EndOf(m)
    /\ Tails(m) # {} /\ m[2].code # "200"
           => \E i \in Heads(m) : HasField(m, i, "length")

\* A chunk has the size that is announced, and nothing follows the trailer.
FramedChunks(m) ==
    \A i \in Tails(m) :
        /\ m[i].k = "size" => /\ i + m[i].n <= Len(m)
                              /\ \A j \in 1..m[i].n : IsByte(m[i + j])
        /\ m[i].k = "end" => i = Len(m)

\* The response is there as a whole, as one, and as long as it says.
Framed(m) ==
    /\ \E i \in DOMAIN m : m[i].k = "end"
    /\ \A i \in DOMAIN m : /\ m[i].k # "stray"
                           /\ m[i].k = "begin" => i = 1
    /\ IF \E i \in Heads(m) : HasField(m, i, "chunked")
       THEN FramedChunks(m)
       ELSE FramedBody(m)

Says(r, m) ==
    /\ r.headers = FieldsOf(m)
    /\ r.status_code = m[2].code
    /\ Len(r.body) = BytesUpTo(m, Len(m))
    /\ \A i \in DOMAIN m : IsByte(m[i]) => r.body[BytesUpTo(m, i)] = m[i]
    /\ "is_gzipped" \in r.keys <=> \E i \in Heads(m) : HasField(m, i, "gzip")

\* However the stream is cut into packets and the body into chunks, the k-th
\* receive() that succeeds returns the k-th response of the stream, whole:
\* its header, its status and its body, nothing of any other; and a connection
\* that is kept for the next request holds nothing of the responses returned.
ReceivedInOrder ==
    /\ \A i \in DOMAIN returned :
          (\A j \in 1..i : j <= Len(sent) => Framed(sent[j]))
          => i <= Len(sent) /\ Says(returned[i], sent[i])
    /\ /\ pc = "idle" /\ Len(sent) = Len(returned)
       /\ \A j \in DOMAIN sent : Framed(sent[j])
       => wire = <<>>

CutHeader == \E i \in DOMAIN buffer :
                 /\ buffer[i].k = "begin"
                 /\ \A j \in i..Len(buffer) : buffer[j].k # "end"
SecondResponse == \E i \in DOMAIN buffer : i > 1 /\ buffer[i].k = "begin"
Unexpectable == \E i \in DOMAIN buffer :
                    \/ buffer[i].k \in {"stray", "junk"}
                    \/ buffer[i].k = "field" /\ buffer[i].f = "upgrade"
GzipTrailer == /\ pos < Len(buffer) /\ HasField(buffer, pos + 1, "gzip")
               /\ "trailing" \in hp.flags

\* The process survives every packet but these: one that ends inside a
\* header, one that holds the start of a second response, one with a stray
\* line end, a byte no header may hold or an Upgrade field, and one that
\* brings the value gzip in a chunked trailer.  From every other packet the
\* callbacks leave the Lua stack as cb_recv's pcall needs it.
CrashHasCause ==
    pc = "crashed" => \/ CutHeader \/ SecondResponse \/ Unexpectable
                      \/ GzipTrailer

\* A receive() with a timeout comes back whatever the server does, also when
\* its timer fires in the poll that brings another part of the response.
TimedReceiveReturns ==
    pc = "yielded" /\ timer ~> pc \in {"idle", "gone", "crashed"}
=============================================================================
