-------------------------- MODULE RecvWatcherProofs --------------------------
(***************************************************************************)
(* Theorems of RecvWatcher, for every set of responses, every way to cut   *)
(* their stream and any number of calls of receive(): which packets can    *)
(* end the process, and that the k-th call that succeeds returns the k-th  *)
(* response.                                                               *)
(***************************************************************************)
EXTENDS RecvWatcher, SequenceTheorems, FiniteSetTheorems, NaturalsInduction,
        WellFoundedInduction, TLAPS

States == {"start_res", "dead", "res_line", "header_field_start",
           "body_identity", "body_identity_eof", "chunk_size_start",
           "chunk_data", "chunk_data_almost_done", "upgraded"}
Parsers == [state : States, flags : SUBSET Flags, minor : {0, 1},
            content_length : Int, status_code : Codes, failed : BOOLEAN]

Keys == {"headers", "body", "is_done", "is_keepalive", "is_gzipped",
         "parse_failed"}
Tables == [keys : SUBSET Keys, list : Seq(Fields), headers : Seq(Fields),
           body : Seq(Pieces), status_code : Codes]

\* The parser is between on_message_begin and on_headers_complete.
InHead(p) == \/ p.state = "res_line"
             \/ p.state = "header_field_start" /\ "trailing" \notin p.flags

Types ==
    /\ wire \in Seq(Pieces) /\ NamedByPlace(wire)
    /\ buffer \in Seq(Pieces) /\ NamedByPlace(buffer)
    /\ pos \in 0..Len(buffer)
    /\ hp \in Parsers
    /\ got_response \in BOOLEAN
    /\ stack \in Seq(Tables)

\* receive() waits for more between headers only, and every wait of it ends
\* with the first plan.
Plans ==
    /\ pc = "idle" => plan = NoPlan
    /\ pc \in {"yielded", "parsing"} => plan \in {NoPlan, "timeout"}
    /\ pc = "yielded" =>
           ~hp.failed /\ hp.state # "upgraded" /\ ~InHead(hp)
    /\ pc = "planned" /\ plan = "result" =>
           /\ ~hp.failed /\ hp.state # "upgraded"
           /\ InHead(hp) => "is_done" \in stack[1].keys

\* The stack has two values more inside of a header, up to the end of a
\* response; stray line ends add to it.
StackShape ==
    /\ Len(stack) >= (IF InHead(hp) /\ ~got_response THEN 3 ELSE 1)
    /\ \/ Len(stack) = (IF InHead(hp) /\ ~got_response THEN 3 ELSE 1)
       \/ \E i \in DOMAIN buffer : buffer[i].k = "stray"
    /\ got_response => "is_done" \in Last(stack).keys

\* What a buffer that is parsed up to pos holds.
Header ==
    /\ hp.state = "res_line" => hp.flags = {}
    /\ InHead(hp) => pos > 0
    /\ InHead(hp) /\ ~got_response =>
           \E i \in 1..pos : /\ buffer[i].k = "begin"
                             /\ \A j \in i..pos : buffer[j].k # "end"
    /\ InHead(hp) /\ ~hp.failed =>
           buffer[pos].k \in (IF hp.state = "res_line" THEN {"begin"}
                                                       ELSE {"line", "field"})
    /\ InHead(hp) /\ hp.failed => SecondResponse \/ Unexpectable
    /\ InHead(hp) /\ "upgrade" \in hp.flags => Unexpectable
    /\ hp.state = "upgraded" => Unexpectable

\* After a response, the same buffer can only start another one.
AfterResponse ==
    got_response =>
        /\ pos > 0
        /\ \/ hp.state \in {"start_res", "dead", "upgraded"}
           \/ InHead(hp) /\ SecondResponse

Inv ==
    /\ Types /\ Plans
    /\ pc = "parsing" => StackShape /\ Header /\ AfterResponse
    /\ CrashHasCause

-----------------------------------------------------------------------------
(* What a piece does to the parser. *)

\* The parser refuses the piece; inside of a header it stood there for nothing
\* that belongs there.
Refused(p, t, r) ==
    /\ r.calls = <<>> /\ r.parser.failed /\ r.parser.state = p.state
    /\ InHead(r.parser) <=> InHead(p)
    /\ InHead(p) => r.parser.flags = p.flags
    /\ p.state = "res_line" => t.k # "line"
    /\ p.state = "header_field_start" => t.k \notin {"field", "end"}

\* A response begins, or a line end stands before it.
Began(p, t, r) ==
    /\ p.state = "start_res" /\ ~r.parser.failed
    /\ r.calls = <<"message_begin">> /\ r.parser.flags = {}
    /\ \/ t.k = "begin" /\ r.parser.state = "res_line"
       \/ t.k = "stray" /\ r.parser.state = "start_res"

Lined(p, t, r) ==
    /\ p.state = "res_line" /\ t.k = "line" /\ ~r.parser.failed
    /\ r.calls = <<>> /\ r.parser.flags = p.flags
    /\ r.parser.state = "header_field_start"

Fielded(p, t, r) ==
    /\ p.state = "header_field_start" /\ t.k = "field" /\ ~r.parser.failed
    /\ r.calls = <<"header">> /\ r.parser.state = p.state
    /\ r.parser.flags = p.flags \cup FieldFlags(t.f)
    /\ t.f \in Fields

\* The header ends, and with it the response if it has no body.
Ended(p, t, r) ==
    /\ p.state = "header_field_start" /\ "trailing" \notin p.flags
    /\ t.k = "end" /\ ~r.parser.failed /\ ~InHead(r.parser)
    /\ r.parser.state = "upgraded" => "upgrade" \in p.flags
    /\ \/ r.calls = <<"headers_complete">> /\ r.parser.state # "upgraded"
       \/ /\ r.calls = <<"headers_complete", "message_complete">>
          /\ r.parser.state \in {"start_res", "dead", "upgraded"}

\* A body or a trailer goes on or ends.
Continued(p, t, r) ==
    /\ p.state # "start_res" /\ ~InHead(p) /\ ~r.parser.failed
    /\ ~InHead(r.parser) /\ r.parser.state # "upgraded"
    /\ \/ r.calls = <<>> /\ (p.state = "dead" => r.parser.state = "dead")
       \/ r.calls = <<"body">> /\ p.state # "dead"
       \/ /\ r.calls \in {<<"body", "message_complete">>,
                           <<"message_complete">>}
          /\ p.state # "dead" /\ r.parser.state \in {"start_res", "dead"}

LEMMA PieceKinds ==
    ASSUME NEW t \in Pieces
    PROVE  /\ t.k = "line" => t.code \in Codes /\ t.minor \in {0, 1}
           /\ t.k = "field" => t.f \in Fields /\ t.n \in Int
           /\ t.k = "size" => t.n \in Int
<1> QED BY DEF Pieces, Begins, Lines, Headers, Ends, Sizes, Bytes, ChunkEnds,
              Strays, Junk

LEMMA AppendPair ==
    ASSUME NEW a, NEW b
    PROVE  Append(<<a>>, b) = <<a, b>>
<1>1. <<a>> \in Seq({a, b}) /\ <<a, b>> \in Seq({a, b}) /\ b \in {a, b}
  OBVIOUS
<1>2. /\ Append(<<a>>, b) \in Seq({a, b}) /\ Len(Append(<<a>>, b)) = 2
      /\ Append(<<a>>, b)[1] = a /\ Append(<<a>>, b)[2] = b
  BY <1>1
<1>3. Len(<<a, b>>) = 2 /\ <<a, b>>[1] = a /\ <<a, b>>[2] = b
  BY <1>1
<1>4. \A i \in 1..2 : Append(<<a>>, b)[i] = <<a, b>>[i]
  BY <1>2, <1>3
<1> QED BY <1>1, <1>2, <1>3, <1>4, SeqEqual

LEMMA ResultShape ==
    ASSUME NEW p, NEW calls
    PROVE  Result(p, calls).parser = p /\ Result(p, calls).calls = calls
<1> QED BY DEF Result

LEMMA FailedShape ==
    ASSUME NEW p \in Parsers
    PROVE  /\ Failed(p).parser \in Parsers /\ Failed(p).calls = <<>>
           /\ Failed(p).parser.failed
           /\ Failed(p).parser.state = p.state
           /\ Failed(p).parser.flags = p.flags
           /\ InHead(Failed(p).parser) <=> InHead(p)
<1> DEFINE q == [p EXCEPT !.failed = TRUE]
<1>1. q \in Parsers /\ q.failed /\ q.state = p.state /\ q.flags = p.flags
  BY DEF Parsers
<1> HIDE DEF q
<1>2. Failed(p).parser = q /\ Failed(p).calls = <<>>
  BY ResultShape DEF Failed, Quiet, q
<1> QED BY <1>1, <1>2 DEF InHead

LEMMA CompleteShape ==
    ASSUME NEW p \in Parsers, ~p.failed, NEW calls
    PROVE  /\ Complete(p, calls).parser \in Parsers
           /\ Complete(p, calls).parser.state \in {"start_res", "dead"}
           /\ ~Complete(p, calls).parser.failed
           /\ Complete(p, calls).calls = Append(calls, "message_complete")
<1> QED BY DEF Complete, Result, Parsers, States

LEMMA StartShape ==
    ASSUME NEW p \in Parsers, NEW t \in Pieces, ~p.failed,
           p.state \in {"start_res", "dead", "res_line"}, NEW r,
           r = Execute(p, t)
    PROVE  /\ r.parser \in Parsers
           /\ \/ Refused(p, t, r) \/ Began(p, t, r) \/ Lined(p, t, r)
              \/ Continued(p, t, r)
<1>1. CASE p.state = "dead"
  <2>1. r = InDead(p, t)
    BY <1>1 DEF Execute
  <2>2. CASE t.k = "stray"
    BY <1>1, <2>1, <2>2 DEF InDead, Quiet, Result, Continued, InHead
  <2>3. CASE t.k # "stray"
    BY <1>1, <2>1, <2>3, FailedShape DEF InDead, Refused, InHead
  <2> QED BY <2>2, <2>3
<1>2. CASE p.state = "start_res"
  <2> DEFINE q == [p EXCEPT !.flags = {}, !.content_length = NoLength]
             b == [q EXCEPT !.state = "res_line"]
  <2>1. /\ q \in Parsers /\ ~q.failed /\ q.state = p.state /\ q.flags = {}
    <3>1. NoLength \in Int /\ {} \in SUBSET Flags
      BY DEF NoLength
    <3> HIDE DEF NoLength
    <3> QED BY <3>1 DEF Parsers
  <2>2. r = CASE t.k = "begin" -> Result(b, <<"message_begin">>)
              [] t.k = "stray" -> Result(q, <<"message_begin">>)
              [] OTHER -> Failed(q)
    BY <1>2 DEF Execute, InStart
  <2> HIDE DEF q
  <2>3. /\ b \in Parsers /\ ~b.failed /\ b.state = "res_line" /\ b.flags = {}
    BY <2>1 DEF Parsers, States
  <2> HIDE DEF b
  <2>4. CASE t.k = "begin"
    <3>1. r.parser = b /\ r.calls = <<"message_begin">>
      BY <2>2, <2>4, ResultShape
    <3> QED BY <1>2, <2>3, <2>4, <3>1 DEF Began
  <2>5. CASE t.k = "stray"
    <3>1. r.parser = q /\ r.calls = <<"message_begin">>
      BY <2>2, <2>5, ResultShape
    <3> QED BY <1>2, <2>1, <2>5, <3>1 DEF Began
  <2>6. CASE t.k \notin {"begin", "stray"}
    <3>1. r = Failed(q)
      BY <2>2, <2>6
    <3> QED BY <1>2, <2>1, <3>1, FailedShape DEF Refused, InHead
  <2> QED BY <2>4, <2>5, <2>6
<1>3. CASE p.state = "res_line"
  <2>1. r = InLine(p, t)
    BY <1>3 DEF Execute
  <2>2. CASE t.k = "line"
    <3> DEFINE q == [p EXCEPT !.status_code = t.code, !.minor = t.minor,
                              !.state = "header_field_start"]
    <3>1. /\ q \in Parsers /\ ~q.failed /\ q.state = "header_field_start"
          /\ q.flags = p.flags
      BY <2>2, PieceKinds DEF Parsers, States
    <3>2. r.parser = q /\ r.calls = <<>>
      BY <2>1, <2>2, ResultShape DEF InLine, Quiet
    <3> QED BY <1>3, <2>2, <3>1, <3>2 DEF Lined
  <2>3. CASE t.k # "line"
    BY <1>3, <2>1, <2>3, FailedShape DEF InLine, Refused
  <2> QED BY <2>2, <2>3
<1> QED BY <1>1, <1>2, <1>3

LEMMA HeaderShape ==
    ASSUME NEW p \in Parsers, NEW t \in Pieces, ~p.failed,
           p.state = "header_field_start", NEW r, r = Execute(p, t)
    PROVE  /\ r.parser \in Parsers
           /\ \/ Refused(p, t, r) \/ Fielded(p, t, r) \/ Ended(p, t, r)
              \/ Continued(p, t, r)
<1>1. r = InHeader(p, t)
  BY DEF Execute
<1>2. CASE t.k = "field"
  <2> DEFINE fl == p.flags \cup FieldFlags(t.f)
             c == IF t.f = "length" THEN t.n ELSE p.content_length
             q == [p EXCEPT !.flags = fl, !.content_length = c]
  <2>1. t.f \in Fields /\ t.n \in Int
    BY <1>2, PieceKinds
  <2>2. fl \in SUBSET Flags /\ c \in Int
    BY <2>1 DEF FieldFlags, Parsers
  <2>3. r = Result(q, <<"header">>)
    BY <1>1, <1>2 DEF InHeader, Field
  <2> HIDE DEF fl, c
  <2>4. q \in Parsers /\ ~q.failed /\ q.state = p.state /\ q.flags = fl
    BY <2>2 DEF Parsers
  <2> HIDE DEF q
  <2>5. r.parser = q /\ r.calls = <<"header">>
    BY <2>3, ResultShape
  <2>6. Fielded(p, t, r)
    BY <1>2, <2>1, <2>4, <2>5 DEF Fielded, fl
  <2> QED BY <2>4, <2>5, <2>6
<1>3. CASE t.k = "end"
  <2> DEFINE done == <<"headers_complete">>
             Into(state) == Result([p EXCEPT !.state = state], done)
  <2>1. r = HeadersDone(p)
    BY <1>1, <1>3 DEF InHeader
  <2>2. Append(done, "message_complete")
            = <<"headers_complete", "message_complete">>
    BY AppendPair
  <2>3. Append(<<>>, "message_complete") = <<"message_complete">>
    BY AppendProperties
  <2>4. ASSUME NEW state \in States
        PROVE  /\ [p EXCEPT !.state = state] \in Parsers
               /\ [p EXCEPT !.state = state].state = state
               /\ ~[p EXCEPT !.state = state].failed
    BY DEF Parsers
  <2>5. CASE "trailing" \in p.flags
    <3>1. r = Complete(p, <<>>)
      BY <2>1, <2>5 DEF HeadersDone
    <3> QED BY <2>3, <2>5, <3>1, CompleteShape DEF Continued, InHead
  <2>6. CASE "trailing" \notin p.flags /\ "upgrade" \in p.flags
    <3>1. r = Result([p EXCEPT !.state = "upgraded"],
                     <<"headers_complete", "message_complete">>)
      BY <2>1, <2>2, <2>6 DEF HeadersDone
    <3>2. /\ r.parser = [p EXCEPT !.state = "upgraded"]
          /\ r.calls = <<"headers_complete", "message_complete">>
      BY <2>2, <3>1, ResultShape
    <3> QED BY <1>3, <2>4, <2>6, <3>2 DEF Ended, InHead, States
  <2>7. CASE /\ "trailing" \notin p.flags /\ "upgrade" \notin p.flags
             /\ \E state \in {"chunk_size_start", "body_identity",
                               "body_identity_eof"} : r = Into(state)
    <3>1. PICK state \in {"chunk_size_start", "body_identity",
                          "body_identity_eof"} : r = Into(state)
      BY <2>7
    <3>2. r.parser = [p EXCEPT !.state = state] /\ r.calls = done
      BY <3>1, ResultShape
    <3> DEFINE q == [p EXCEPT !.state = state]
    <3>3. q \in Parsers /\ q.state = state /\ ~q.failed
      BY <2>4 DEF States
    <3>4. r.parser = q /\ r.calls = <<"headers_complete">>
      BY <3>2
    <3> HIDE DEF q
    <3> QED BY <1>3, <2>7, <3>3, <3>4 DEF Ended, InHead
  <2>8. CASE /\ "trailing" \notin p.flags /\ "upgrade" \notin p.flags
             /\ r = Complete(p, done)
    BY <1>3, <2>2, <2>8, CompleteShape DEF Ended, InHead
  <2> QED BY <2>1, <2>5, <2>6, <2>7, <2>8 DEF HeadersDone
<1>4. CASE t.k \notin {"field", "end"}
  <2>1. r = Failed(p)
    BY <1>1, <1>4 DEF InHeader
  <2> QED BY <1>4, <2>1, FailedShape DEF Refused
<1> QED BY <1>2, <1>3, <1>4

LEMMA BodyShape ==
    ASSUME NEW p \in Parsers, NEW t \in Pieces, ~p.failed,
           p.state \in {"body_identity", "body_identity_eof",
                        "chunk_size_start", "chunk_data",
                        "chunk_data_almost_done"},
           NEW r, r = Execute(p, t)
    PROVE  /\ r.parser \in Parsers
           /\ Refused(p, t, r) \/ Continued(p, t, r)
<1>1. CASE p.state = "body_identity"
  <2> DEFINE c == p.content_length - 1
             q == [p EXCEPT !.content_length = c]
  <2>1. r = IF q.content_length = 0 THEN Complete(q, <<"body">>)
                                    ELSE Result(q, <<"body">>)
    BY <1>1 DEF Execute, InBody
  <2>2. q \in Parsers /\ ~q.failed /\ q.state = p.state
    <3>1. c \in Int
      BY DEF Parsers
    <3> HIDE DEF c
    <3> QED BY <3>1 DEF Parsers
  <2>3. Append(<<"body">>, "message_complete") = <<"body", "message_complete">>
    BY AppendPair
  <2> HIDE DEF q
  <2>4. CASE r = Complete(q, <<"body">>)
    BY <1>1, <2>2, <2>3, <2>4, CompleteShape DEF Continued, InHead
  <2>5. CASE r = Result(q, <<"body">>)
    BY <1>1, <2>2, <2>5 DEF Result, Continued, InHead
  <2> QED BY <2>1, <2>4, <2>5
<1>2. CASE p.state = "body_identity_eof"
  BY <1>2 DEF Execute, Result, Continued, InHead
<1>3. CASE p.state = "chunk_size_start"
  <2>1. r = InChunkSize(p, t)
    BY <1>3 DEF Execute
  <2>2. CASE t.k # "size"
    BY <1>3, <2>1, <2>2, FailedShape DEF InChunkSize, Refused
  <2>3. CASE t.k = "size" /\ t.n = 0
    <3> DEFINE fl == p.flags \cup {"trailing"}
               q == [p EXCEPT !.content_length = 0, !.flags = fl,
                              !.state = "header_field_start"]
    <3>1. fl \in SUBSET Flags /\ "trailing" \in fl
      BY DEF Flags, Parsers
    <3>2. r = Result(q, <<>>)
      BY <2>1, <2>3 DEF InChunkSize, Quiet
    <3> HIDE DEF fl
    <3>3. q \in Parsers /\ ~q.failed /\ q.state = "header_field_start"
          /\ q.flags = fl
      <4>1. "header_field_start" \in States /\ 0 \in Int
        BY DEF States
      <4> QED BY <3>1, <4>1 DEF Parsers
    <3> HIDE DEF q
    <3>4. r.parser = q /\ r.calls = <<>>
      BY <3>2, ResultShape
    <3> QED BY <1>3, <3>1, <3>3, <3>4 DEF Continued, InHead
  <2>4. CASE t.k = "size" /\ t.n # 0
    <3> DEFINE q == [p EXCEPT !.content_length = t.n, !.state = "chunk_data"]
    <3>1. r = Result(q, <<>>)
      BY <2>1, <2>4 DEF InChunkSize, Quiet
    <3>2. q \in Parsers /\ ~q.failed /\ q.state = "chunk_data"
      BY <2>4, PieceKinds DEF Parsers, States
    <3> HIDE DEF q
    <3>3. r.parser = q /\ r.calls = <<>>
      BY <3>1, ResultShape
    <3> QED BY <1>3, <3>2, <3>3 DEF Continued, InHead
  <2> QED BY <2>2, <2>3, <2>4
<1>4. CASE p.state = "chunk_data"
  <2> DEFINE c == p.content_length - 1
             n == IF p.content_length = 1 THEN "chunk_data_almost_done"
                                          ELSE p.state
             q == [p EXCEPT !.content_length = c, !.state = n]
  <2>1. r = Result(q, <<"body">>)
    BY <1>4 DEF Execute, InChunkData
  <2>2. c \in Int /\ n \in {"chunk_data", "chunk_data_almost_done"}
    BY <1>4 DEF Parsers
  <2> HIDE DEF c, n
  <2>3. q \in Parsers /\ ~q.failed /\ q.state = n
    BY <2>2 DEF Parsers, States
  <2> HIDE DEF q
  <2>4. r.parser = q /\ r.calls = <<"body">>
    BY <2>1, ResultShape
  <2> QED BY <1>4, <2>2, <2>3, <2>4 DEF Continued, InHead
<1>5. CASE p.state = "chunk_data_almost_done"
  <2>1. r = InChunkEnd(p, t)
    BY <1>5 DEF Execute
  <2>2. CASE t.k = "crlf"
    <3> DEFINE q == [p EXCEPT !.state = "chunk_size_start"]
    <3>1. q \in Parsers /\ ~q.failed /\ q.state = "chunk_size_start"
      BY DEF Parsers, States
    <3>2. r.parser = q /\ r.calls = <<>>
      BY <2>1, <2>2, ResultShape DEF InChunkEnd, Quiet
    <3> QED BY <1>5, <3>1, <3>2 DEF Continued, InHead
  <2>3. CASE t.k # "crlf"
    BY <1>5, <2>1, <2>3, FailedShape DEF InChunkEnd, Refused
  <2> QED BY <2>2, <2>3
<1> QED BY <1>1, <1>2, <1>3, <1>4, <1>5

LEMMA ExecuteShape ==
    ASSUME NEW p \in Parsers, NEW t \in Pieces, ~p.failed,
           p.state # "upgraded", NEW r, r = Execute(p, t)
    PROVE  /\ r.parser \in Parsers
           /\ \/ Refused(p, t, r) \/ Began(p, t, r) \/ Lined(p, t, r)
              \/ Fielded(p, t, r) \/ Ended(p, t, r) \/ Continued(p, t, r)
<1>1. p.state \in States
  BY DEF Parsers
<1>2. CASE p.state \in {"start_res", "dead", "res_line"}
  BY <1>2, StartShape
<1>3. CASE p.state = "header_field_start"
  BY <1>3, HeaderShape
<1>4. CASE p.state \in {"body_identity", "body_identity_eof",
                        "chunk_size_start", "chunk_data",
                        "chunk_data_almost_done"}
  BY <1>4, BodyShape
<1> QED BY <1>1, <1>2, <1>3, <1>4 DEF States

-----------------------------------------------------------------------------
(* What the callbacks do to the stack. *)

LEMMA TableTypes ==
    /\ Table \in Tables /\ KeyHeaders \in Tables
    /\ \A v \in Tables, K \in SUBSET Keys :
           [v EXCEPT !.keys = @ \cup K] \in Tables
<1>1. Table \in Tables
  BY DEF Table, Tables, Keys, Codes
<1>2. KeyHeaders \in Tables
  BY <1>1 DEF KeyHeaders, Tables, Keys
<1>3. ASSUME NEW v \in Tables, NEW K \in SUBSET Keys
      PROVE  [v EXCEPT !.keys = @ \cup K] \in Tables
  BY DEF Tables
<1> QED BY <1>1, <1>2, <1>3

\* A table with one more header, with one more piece of body, and with its
\* header set.
LEMMA TableChanges ==
    ASSUME NEW v \in Tables
    PROVE  /\ \A f \in Fields : [v EXCEPT !.list = Append(@, f)] \in Tables
           /\ \A t \in Pieces :
                  [v EXCEPT !.body = Append(@, t), !.keys = @ \cup {"body"}]
                      \in Tables
           /\ \A h \in Seq(Fields), K \in SUBSET Keys, c \in Codes :
                  [v EXCEPT !.headers = h, !.keys = @ \cup K,
                            !.status_code = c] \in Tables
<1>1. /\ v.keys \in SUBSET Keys /\ v.list \in Seq(Fields)
      /\ v.headers \in Seq(Fields) /\ v.body \in Seq(Pieces)
  BY DEF Tables
<1>2. ASSUME NEW f \in Fields PROVE [v EXCEPT !.list = Append(@, f)] \in Tables
  <2> DEFINE l == Append(v.list, f)
  <2>1. l \in Seq(Fields)
    BY <1>1
  <2> HIDE DEF l
  <2>2. [v EXCEPT !.list = l] \in Tables
    BY <2>1 DEF Tables
  <2> QED BY <2>2 DEF l
<1>3. ASSUME NEW t \in Pieces
      PROVE  [v EXCEPT !.body = Append(@, t), !.keys = @ \cup {"body"}]
                 \in Tables
  <2> DEFINE l == Append(v.body, t)
             K == v.keys \cup {"body"}
  <2>1. l \in Seq(Pieces) /\ K \in SUBSET Keys
    BY <1>1 DEF Keys
  <2> HIDE DEF l, K
  <2>2. [v EXCEPT !.body = l, !.keys = K] \in Tables
    BY <2>1 DEF Tables
  <2> QED BY <2>2 DEF l, K
<1>4. ASSUME NEW h \in Seq(Fields), NEW K \in SUBSET Keys, NEW c \in Codes
      PROVE  [v EXCEPT !.headers = h, !.keys = @ \cup K, !.status_code = c]
                 \in Tables
  BY DEF Tables
<1> QED BY <1>2, <1>3, <1>4

LEMMA LastType ==
    ASSUME NEW s \in Seq(Tables), Len(s) >= 1
    PROVE  Last(s) \in Tables
<1> QED BY DEF Last

LEMMA SetTopShape ==
    ASSUME NEW s \in Seq(Tables), Len(s) >= 1, NEW v \in Tables
    PROVE  /\ SetTop(s, v) \in Seq(Tables)
           /\ Len(SetTop(s, v)) = Len(s)
           /\ Last(SetTop(s, v)) = v
<1>1. Len(s) \in 1..Len(s)
  OBVIOUS
<1> QED BY <1>1 DEF SetTop, Last

LEMMA BeginShape ==
    ASSUME NEW s \in Seq(Tables), got_response \in BOOLEAN
    PROVE  /\ OnMessageBegin(s) \in Seq(Tables)
           /\ got_response => OnMessageBegin(s) = s
           /\ ~got_response => Len(OnMessageBegin(s)) = Len(s) + 2
<1>1. CASE got_response
  BY <1>1 DEF OnMessageBegin
<1>2. CASE ~got_response
  <2>1. /\ <<KeyHeaders, Table>> \in Seq(Tables)
        /\ Len(<<KeyHeaders, Table>>) = 2
    BY TableTypes
  <2> HIDE DEF KeyHeaders, Table
  <2>2. OnMessageBegin(s) = s \o <<KeyHeaders, Table>>
    BY <1>2 DEF OnMessageBegin
  <2> QED BY <1>2, <2>1, <2>2, ConcatProperties
<1> QED BY <1>1, <1>2

\* Below the bottom of the stack there is no table to change.
LEMMA ShortField ==
    ASSUME NEW s \in Seq(Tables), Len(s) \in 1..2, NEW f \in Fields,
           NEW v \in Tables, v = [Last(s) EXCEPT !.list = Append(@, f)]
    PROVE  OnHeader(s, f) = SetTop(s, v)
<1> DEFINE t == SetTop(s, v)
<1>1. OnHeader(s, f)
          = IF f = "gzip"
            THEN [t EXCEPT ![Len(s) - 2].keys = @ \cup {"is_gzipped"}]
            ELSE t
  BY DEF OnHeader
<1>2. t \in Seq(Tables) /\ Len(t) = Len(s)
  <2>1. Len(s) >= 1
    OBVIOUS
  <2> QED BY <2>1, SetTopShape
<1> HIDE DEF t
<1>3. Len(s) - 2 \notin DOMAIN t
  <2>1. DOMAIN t = 1..Len(s)
    BY <1>2
  <2>2. PICK n \in 1..2 : n = Len(s)
    OBVIOUS
  <2>3. n - 2 \notin 1..n
    OBVIOUS
  <2> QED BY <2>1, <2>2, <2>3
<1>4. t = [j \in DOMAIN t |-> t[j]]
  BY <1>2
<1>5. ASSUME NEW i, i \notin DOMAIN t, NEW z
      PROVE  [t EXCEPT ![i] = z] = t
  BY <1>4, <1>5
<1>6. [t EXCEPT ![Len(s) - 2].keys = @ \cup {"is_gzipped"}] = t
  BY <1>3, <1>5
<1> QED BY <1>1, <1>6 DEF t

LEMMA FieldShape ==
    ASSUME NEW s \in Seq(Tables), Len(s) >= 1, NEW f \in Fields
    PROVE  OnHeader(s, f) \in Seq(Tables) /\ Len(OnHeader(s, f)) = Len(s)
<1> DEFINE v == [Last(s) EXCEPT !.list = Append(@, f)]
           t == SetTop(s, v)
<1>1. Last(s) \in Tables
  BY LastType
<1>2. v \in Tables
  BY <1>1, TableChanges
<1> HIDE DEF v
<1>3. t \in Seq(Tables) /\ Len(t) = Len(s)
  BY <1>2, SetTopShape
<1> HIDE DEF t
<1>4. CASE f = "gzip" /\ Len(s) > 2
  <2>1. OnHeader(s, f)
            = [t EXCEPT ![Len(s) - 2].keys = @ \cup {"is_gzipped"}]
    BY <1>4 DEF OnHeader, t, v
  <2> DEFINE w == [t[Len(s) - 2] EXCEPT !.keys = @ \cup {"is_gzipped"}]
  <2>2. Len(s) - 2 \in 1..Len(t) /\ t[Len(s) - 2] \in Tables
    BY <1>3, <1>4
  <2>3. {"is_gzipped"} \in SUBSET Keys
    BY DEF Keys
  <2>4. w \in Tables
    BY <2>2, <2>3, TableTypes
  <2>5. OnHeader(s, f) = [t EXCEPT ![Len(s) - 2] = w]
    BY <2>1
  <2> HIDE DEF w
  <2> QED BY <1>3, <2>2, <2>4, <2>5
<1>5. CASE f # "gzip"
  BY <1>3, <1>5 DEF OnHeader, t, v
<1>6. CASE Len(s) \in 1..2
  <2>1. OnHeader(s, f) = t
    BY <1>2, <1>6, ShortField DEF t, v
  <2> QED BY <1>3, <2>1
<1>7. Len(s) \in 1..2 \/ Len(s) > 2
  <2>1. PICK n \in Nat : n = Len(s)
    OBVIOUS
  <2>2. n \in 1..2 \/ n > 2
    BY <2>1
  <2> QED BY <2>1, <2>2
<1> QED BY <1>4, <1>5, <1>6, <1>7

LEMMA HeadersShape ==
    ASSUME NEW s \in Seq(Tables), Len(s) >= 3, NEW p \in Parsers
    PROVE  /\ OnHeadersComplete(s, p) \in Seq(Tables)
           /\ Len(OnHeadersComplete(s, p)) = Len(s) - 2
<1> DEFINE below == SubSeq(s, 1, Len(s) - 2)
           keepalive == IF ShouldKeepAlive(p) THEN {"is_keepalive"} ELSE {}
           K == {"headers"} \cup keepalive
           v == [Last(below) EXCEPT !.headers = Last(s).list,
                                    !.keys = @ \cup {"headers"} \cup keepalive,
                                    !.status_code = p.status_code]
<1>1. below \in Seq(Tables) /\ Len(below) = Len(s) - 2 /\ Len(below) >= 1
  BY SubSeqProperties
<1>2. OnHeadersComplete(s, p) = SetTop(below, v)
  BY DEF OnHeadersComplete
<1>3. K \in SUBSET Keys
  BY DEF Keys
<1> HIDE DEF below, keepalive
<1>4. Last(below) \in Tables
  BY <1>1, LastType
<1>5. Last(s).list \in Seq(Fields) /\ p.status_code \in Codes
  <2>1. Last(s) \in Tables
    BY LastType
  <2>2. \A w \in Tables : w.list \in Seq(Fields)
    BY DEF Tables
  <2> QED BY <2>1, <2>2 DEF Parsers
<1>6. v = [Last(below) EXCEPT !.headers = Last(s).list, !.keys = @ \cup K,
                              !.status_code = p.status_code]
  OBVIOUS
<1> HIDE DEF K
<1>7. v \in Tables
  BY <1>3, <1>4, <1>5, <1>6, TableChanges
<1> HIDE DEF v
<1> QED BY <1>1, <1>2, <1>7, SetTopShape

LEMMA BodyPieceShape ==
    ASSUME NEW s \in Seq(Tables), Len(s) >= 1, NEW t \in Pieces
    PROVE  OnBody(s, t) \in Seq(Tables) /\ Len(OnBody(s, t)) = Len(s)
<1> DEFINE v == [Last(s) EXCEPT !.body = Append(@, t),
                                !.keys = @ \cup {"body"}]
<1>1. Last(s) \in Tables
  BY LastType
<1>2. v \in Tables
  BY <1>1, TableChanges
<1> HIDE DEF v
<1> QED BY <1>2, SetTopShape DEF OnBody, v

LEMMA DoneShape ==
    ASSUME NEW s \in Seq(Tables), Len(s) >= 1
    PROVE  /\ OnMessageComplete(s) \in Seq(Tables)
           /\ Len(OnMessageComplete(s)) = Len(s)
           /\ "is_done" \in Last(OnMessageComplete(s)).keys
<1> DEFINE v == [Last(s) EXCEPT !.keys = @ \cup {"is_done"}]
<1>1. Last(s) \in Tables
  BY LastType
<1>2. {"is_done"} \in SUBSET Keys
  BY DEF Keys
<1>3. v \in Tables /\ "is_done" \in v.keys
  BY <1>1, <1>2 DEF Tables
<1> HIDE DEF v
<1> QED BY <1>3, SetTopShape DEF OnMessageComplete, v

LEMMA CallsShape ==
    ASSUME NEW s, NEW p, NEW t
    PROVE  /\ CalledAll(<<>>, s, p, t) = s
           /\ CalledAll(<<"message_begin">>, s, p, t) = OnMessageBegin(s)
           /\ CalledAll(<<"header">>, s, p, t) = OnHeader(s, t.f)
           /\ CalledAll(<<"headers_complete">>, s, p, t)
                  = OnHeadersComplete(s, p)
           /\ CalledAll(<<"headers_complete", "message_complete">>, s, p, t)
                  = OnMessageComplete(OnHeadersComplete(s, p))
           /\ CalledAll(<<"body">>, s, p, t) = OnBody(s, t)
           /\ CalledAll(<<"body", "message_complete">>, s, p, t)
                  = OnMessageComplete(OnBody(s, t))
           /\ CalledAll(<<"message_complete">>, s, p, t) = OnMessageComplete(s)
<1>1. CalledAll(<<>>, s, p, t) = s
  BY DEF CalledAll
<1>2. ASSUME NEW c PROVE CalledAll(<<c>>, s, p, t) = Called(c, s, p, t)
  BY DEF CalledAll
<1>3. ASSUME NEW c, NEW d
      PROVE  CalledAll(<<c, d>>, s, p, t) = Called(d, Called(c, s, p, t), p, t)
  BY DEF CalledAll
<1>4. ASSUME NEW z
      PROVE  /\ Called("message_begin", z, p, t) = OnMessageBegin(z)
             /\ Called("header", z, p, t) = OnHeader(z, t.f)
             /\ Called("headers_complete", z, p, t) = OnHeadersComplete(z, p)
             /\ Called("body", z, p, t) = OnBody(z, t)
             /\ Called("message_complete", z, p, t) = OnMessageComplete(z)
  BY DEF Called
<1> QED BY <1>1, <1>2, <1>3, <1>4

-----------------------------------------------------------------------------
(* A piece is parsed. *)

\* What holds while cb_recv parses.
ParseInv == Types /\ StackShape /\ Header /\ AfterResponse

\* A piece taken, or refused, and no call that ends the process.
Taken(t, r) ==
    /\ t \in Pieces /\ pos + 1 \in DOMAIN buffer /\ t = buffer[pos + 1]
    /\ ~hp.failed /\ hp.state # "upgraded"
    /\ pos \in Nat /\ r.parser \in Parsers
    /\ ~Unexpected(r.calls)
    /\ stack' = CalledAll(r.calls, stack, hp, t)
    /\ hp' = r.parser
    /\ got_response' = (got_response
                         \/ \E i \in DOMAIN r.calls :
                                r.calls[i] = "message_complete")
    /\ pos' = IF r.parser.failed THEN pos ELSE pos + 1
    /\ UNCHANGED <<wire, buffer>>

LEMMA TakenTypes ==
    ASSUME ParseInv, NEW t, NEW r, Taken(t, r), stack' \in Seq(Tables)
    PROVE  Types' /\ got_response' \in BOOLEAN
<1>1. pos' \in 0..Len(buffer)
  <2>1. DOMAIN buffer = 1..Len(buffer) /\ Len(buffer) \in Nat
    BY DEF ParseInv, Types
  <2>2. pos + 1 \in 1..Len(buffer) /\ pos \in 0..Len(buffer)
    BY <2>1 DEF Taken, ParseInv, Types
  <2> QED BY <2>1, <2>2 DEF Taken
<1>2. got_response' \in BOOLEAN /\ hp' \in Parsers
  BY DEF Taken
<1> QED BY <1>1, <1>2 DEF Taken, ParseInv, Types, NamedByPlace

\* The causes are in the buffer, which parsing leaves as it is.
LEMMA CausesStay ==
    ASSUME buffer' = buffer
    PROVE  /\ SecondResponse' = SecondResponse
           /\ Unexpectable' = Unexpectable
           /\ CutHeader' = CutHeader
           /\ UNCHANGED <<hp, pos>> => GzipTrailer' = GzipTrailer
<1> QED BY DEF SecondResponse, Unexpectable, CutHeader, GzipTrailer

\* Outside of the header nothing is called after a response.
LEMMA RestAfterResponse ==
    ASSUME ParseInv, got_response, hp.state # "upgraded"
    PROVE  \/ hp.state \in {"start_res", "dead"}
           \/ InHead(hp) /\ SecondResponse
<1> QED BY DEF ParseInv, AfterResponse

LEMMA RefusedKeeps ==
    ASSUME ParseInv, NEW t, NEW r, Taken(t, r), Refused(hp, t, r)
    PROVE  ParseInv'
<1>1. /\ stack' = stack /\ got_response' = got_response /\ pos' = pos
      /\ hp'.failed /\ hp'.state = hp.state /\ buffer' = buffer
      /\ InHead(hp') <=> InHead(hp)
      /\ InHead(hp) => hp'.flags = hp.flags
  BY CallsShape DEF Taken, Refused, ParseInv, Types
<1>2. Types'
  BY <1>1, TakenTypes DEF ParseInv, Types
<1>3. StackShape'
  BY <1>1 DEF ParseInv, StackShape
<1>4. InHead(hp) => SecondResponse \/ Unexpectable
  <2>1. SUFFICES ASSUME InHead(hp) PROVE SecondResponse \/ Unexpectable
    OBVIOUS
  <2>2. /\ pos > 0 /\ pos \in Nat
        /\ buffer[pos].k \in (IF hp.state = "res_line" THEN {"begin"}
                                                      ELSE {"line", "field"})
    BY <2>1 DEF ParseInv, Header, Taken
  <2>3. /\ pos + 1 \in DOMAIN buffer /\ DOMAIN buffer = 1..Len(buffer)
        /\ Len(buffer) \in Nat /\ t = buffer[pos + 1]
    BY DEF Taken, ParseInv, Types
  <2>4. pos \in 1..(Len(buffer) - 1)
    BY <2>2, <2>3
  <2>5. /\ buffer[pos].k = "begin" => t.k \in {"line"} \cup Anywhere
        /\ buffer[pos].k \in {"line", "field"}
           => t.k \in {"field", "end"} \cup Anywhere
    BY <2>3, <2>4 DEF ParseInv, Types, NamedByPlace
  <2>6. t.k \in Anywhere
    BY <2>1, <2>2, <2>5 DEF Refused, InHead
  <2>7. CASE t.k = "begin"
    BY <2>2, <2>3, <2>7 DEF SecondResponse
  <2>8. CASE t.k \in {"stray", "junk"}
    BY <2>3, <2>8 DEF Unexpectable
  <2> QED BY <2>6, <2>7, <2>8 DEF Anywhere
<1>5. Header'
  <2>1. hp.state = "res_line" => InHead(hp)
    BY DEF InHead
  <2>2. hp'.state # "upgraded"
    BY <1>1 DEF Taken
  <2> QED BY <1>1, <1>4, <2>1, <2>2, CausesStay DEF ParseInv, Header
<1>6. AfterResponse'
  BY <1>1, CausesStay DEF ParseInv, AfterResponse
<1> QED BY <1>2, <1>3, <1>5, <1>6 DEF ParseInv

LEMMA BeganKeeps ==
    ASSUME ParseInv, NEW t, NEW r, Taken(t, r), Began(hp, t, r)
    PROVE  ParseInv'
<1>1. /\ stack' = OnMessageBegin(stack) /\ got_response' = got_response
      /\ pos' = pos + 1 /\ buffer' = buffer /\ pos \in Nat
      /\ ~hp'.failed /\ hp'.flags = {} /\ hp.state = "start_res"
      /\ ~InHead(hp)
  <2>1. /\ r.calls = <<"message_begin">> /\ hp.state = "start_res"
        /\ hp' = r.parser /\ ~r.parser.failed /\ r.parser.flags = {}
    BY DEF Taken, Began
  <2>2. ~\E i \in DOMAIN r.calls : r.calls[i] = "message_complete"
    BY <2>1
  <2>3. got_response' = got_response
    BY <2>2 DEF Taken, ParseInv, Types
  <2> QED BY <2>1, <2>3, CallsShape DEF Taken, InHead
<1>2. /\ stack' \in Seq(Tables)
      /\ got_response => stack' = stack
      /\ ~got_response => Len(stack') = Len(stack) + 2
  BY <1>1, BeginShape DEF ParseInv, Types
<1>3. Types'
  BY <1>2, TakenTypes
<1>4. Len(stack) \in Nat /\ got_response \in BOOLEAN
  BY DEF ParseInv, Types
<1>5. /\ pos + 1 \in DOMAIN buffer /\ DOMAIN buffer = 1..Len(buffer)
      /\ t = buffer[pos + 1] /\ Len(buffer) \in Nat
  BY DEF Taken, ParseInv, Types
<1>6. CASE t.k = "begin" /\ hp'.state = "res_line"
  <2>1. InHead(hp')
    BY <1>6 DEF InHead
  <2>2. StackShape'
    <3>1. CASE got_response
      BY <1>1, <1>2, <2>1, <3>1 DEF ParseInv, StackShape
    <3>2. CASE ~got_response
      <4>1. /\ Len(stack) >= 1
            /\ \/ Len(stack) = 1
               \/ \E i \in DOMAIN buffer : buffer[i].k = "stray"
        BY <1>1, <3>2 DEF ParseInv, StackShape
      <4>2. Len(stack) \in Nat /\ Len(stack) >= 1
        BY <1>4, <4>1
      <4>3. Len(stack') = Len(stack) + 2
        BY <1>2, <3>2
      <4>4. Len(stack') >= 3 /\ (Len(stack) = 1 => Len(stack') = 3)
        <5>1. PICK a, b : a = Len(stack) /\ b = Len(stack')
          OBVIOUS
        <5>2. a \in Nat /\ a >= 1 /\ b = a + 2
          BY <4>2, <4>3, <5>1
        <5>3. b >= 3 /\ (a = 1 => b = 3)
          BY <5>2
        <5> QED BY <5>1, <5>3
      <4>5. InHead(hp') /\ ~got_response' /\ buffer' = buffer
        BY <1>1, <2>1, <3>2
      <4> QED BY <4>1, <4>4, <4>5 DEF StackShape
    <3> QED BY <3>1, <3>2
  <2>3. /\ pos + 1 \in 1..(pos + 1)
        /\ \A j \in (pos + 1)..(pos + 1) : buffer[j].k # "end"
    BY <1>1, <1>5, <1>6
  <2>4. Header'
    BY <1>1, <1>5, <1>6, <2>3, CausesStay DEF Header
  <2>5. got_response => SecondResponse
    BY <1>1, <1>5, <1>6 DEF ParseInv, AfterResponse, SecondResponse
  <2>6. AfterResponse'
    BY <1>1, <2>1, <2>5, CausesStay DEF AfterResponse
  <2> QED BY <1>3, <2>2, <2>4, <2>6 DEF ParseInv
<1>7. CASE t.k = "stray" /\ hp'.state = "start_res"
  <2>1. ~InHead(hp')
    BY <1>7 DEF InHead
  <2>2. \E i \in DOMAIN buffer : buffer[i].k = "stray"
    BY <1>5, <1>7
  <2>3. StackShape'
    BY <1>1, <1>2, <1>4, <2>1, <2>2 DEF ParseInv, StackShape
  <2>4. Header'
    BY <1>7, <2>1 DEF Header
  <2>5. AfterResponse'
    BY <1>1, <1>7 DEF AfterResponse
  <2> QED BY <1>3, <2>3, <2>4, <2>5 DEF ParseInv
<1> QED BY <1>6, <1>7 DEF Began, Taken

LEMMA LinedKeeps ==
    ASSUME ParseInv, NEW t, NEW r, Taken(t, r), Lined(hp, t, r)
    PROVE  ParseInv'
<1>1. /\ stack' = stack /\ got_response' = got_response
      /\ pos' = pos + 1 /\ buffer' = buffer /\ pos \in Nat
      /\ ~hp'.failed /\ hp'.flags = hp.flags
      /\ hp.state = "res_line" /\ hp'.state = "header_field_start"
  BY CallsShape DEF Taken, Lined, ParseInv, Types
<1>2. Types'
  BY <1>1, TakenTypes DEF ParseInv, Types
<1>3. hp.flags = {} /\ InHead(hp) /\ InHead(hp')
  BY <1>1 DEF ParseInv, Header, InHead
<1>4. StackShape'
  BY <1>1, <1>3 DEF ParseInv, StackShape
<1>5. t = buffer[pos + 1] /\ t.k = "line"
  BY DEF Taken, Lined
<1>6. ASSUME ~got_response
      PROVE  \E i \in 1..(pos + 1) :
                 /\ buffer[i].k = "begin"
                 /\ \A j \in i..(pos + 1) : buffer[j].k # "end"
  <2>1. PICK i \in 1..pos : /\ buffer[i].k = "begin"
                            /\ \A j \in i..pos : buffer[j].k # "end"
    BY <1>3, <1>6 DEF ParseInv, Header
  <2>2. \A j \in i..(pos + 1) : j \in i..pos \/ j = pos + 1
    BY <1>1
  <2> QED BY <1>1, <1>5, <2>1, <2>2
<1>7. Header'
  BY <1>1, <1>3, <1>5, <1>6 DEF Header
<1>8. AfterResponse'
  BY <1>1, <1>3, CausesStay DEF ParseInv, AfterResponse
<1> QED BY <1>2, <1>4, <1>7, <1>8 DEF ParseInv

LEMMA FieldedKeeps ==
    ASSUME ParseInv, NEW t, NEW r, Taken(t, r), Fielded(hp, t, r)
    PROVE  ParseInv'
<1>1. /\ r.calls = <<"header">> /\ t.f \in Fields /\ t.k = "field"
      /\ hp' = r.parser /\ ~hp'.failed
      /\ hp'.flags = hp.flags \cup FieldFlags(t.f)
      /\ hp.state = "header_field_start" /\ hp'.state = hp.state
      /\ pos' = pos + 1 /\ buffer' = buffer /\ pos \in Nat
      /\ stack' = OnHeader(stack, t.f)
  BY CallsShape DEF Taken, Fielded
<1>2. ~got_response
  <2>1. 1 \in DOMAIN r.calls /\ r.calls[1] = "header"
    BY <1>1
  <2> QED BY <2>1 DEF Taken, Unexpected
<1>3. ~got_response'
  <2>1. ~\E i \in DOMAIN r.calls : r.calls[i] = "message_complete"
    BY <1>1
  <2> QED BY <1>2, <2>1 DEF Taken
<1>4. Len(stack) >= 1 /\ stack \in Seq(Tables)
  BY DEF ParseInv, StackShape, Types
<1>5. stack' \in Seq(Tables) /\ Len(stack') = Len(stack)
  BY <1>1, <1>4, FieldShape
<1>6. Types'
  BY <1>5, TakenTypes
<1>7. FieldFlags(t.f) \subseteq {t.f} /\ t.f # "trailing"
  BY <1>1 DEF FieldFlags, Fields
<1>8. InHead(hp') <=> InHead(hp)
  BY <1>1, <1>7 DEF InHead
<1>9. StackShape'
  BY <1>1, <1>2, <1>3, <1>5, <1>8 DEF ParseInv, StackShape
<1>10. t = buffer[pos + 1] /\ pos + 1 \in DOMAIN buffer
  BY DEF Taken
<1>11. ASSUME InHead(hp)
       PROVE  \E i \in 1..(pos + 1) :
                  /\ buffer[i].k = "begin"
                  /\ \A j \in i..(pos + 1) : buffer[j].k # "end"
  <2>1. PICK i \in 1..pos : /\ buffer[i].k = "begin"
                            /\ \A j \in i..pos : buffer[j].k # "end"
    BY <1>2, <1>11 DEF ParseInv, Header
  <2>2. \A j \in i..(pos + 1) : j \in i..pos \/ j = pos + 1
    BY <1>1
  <2> QED BY <1>1, <1>10, <2>1, <2>2
<1>12. InHead(hp) /\ "upgrade" \in hp'.flags => Unexpectable
  <2>1. CASE "upgrade" \in hp.flags
    BY <2>1 DEF ParseInv, Header
  <2>2. CASE t.f = "upgrade"
    BY <1>1, <1>10, <2>2 DEF Unexpectable
  <2> QED BY <1>1, <1>7, <2>1, <2>2
<1>13. Header'
  BY <1>1, <1>8, <1>10, <1>11, <1>12, CausesStay DEF Header
<1>14. AfterResponse'
  BY <1>3 DEF AfterResponse
<1> QED BY <1>6, <1>9, <1>13, <1>14 DEF ParseInv

LEMMA EndedKeeps ==
    ASSUME ParseInv, NEW t, NEW r, Taken(t, r), Ended(hp, t, r)
    PROVE  ParseInv'
<1>1. /\ hp' = r.parser /\ ~hp'.failed /\ ~InHead(hp') /\ InHead(hp)
      /\ hp'.state = "upgraded" => "upgrade" \in hp.flags
      /\ pos' = pos + 1 /\ buffer' = buffer /\ pos \in Nat
  BY DEF Taken, Ended, InHead
<1>2. 1 \in DOMAIN r.calls /\ r.calls[1] = "headers_complete"
  BY DEF Ended
<1>3. ~got_response
  BY <1>2 DEF Taken, Unexpected
<1>4. Len(stack) >= 3 /\ stack \in Seq(Tables) /\ hp \in Parsers
  BY <1>1, <1>3 DEF ParseInv, StackShape, Types
<1> DEFINE below == OnHeadersComplete(stack, hp)
<1>5. below \in Seq(Tables) /\ Len(below) = Len(stack) - 2 /\ Len(below) >= 1
  BY <1>4, HeadersShape
<1> HIDE DEF below
<1>6. /\ stack' \in Seq(Tables) /\ Len(stack') = Len(stack) - 2
      /\ got_response' => /\ "is_done" \in Last(stack').keys
                          /\ hp'.state \in {"start_res", "dead", "upgraded"}
  <2>1. CASE r.calls = <<"headers_complete">>
    <3>1. ~\E i \in DOMAIN r.calls : r.calls[i] = "message_complete"
      BY <2>1
    <3>2. ~got_response'
      BY <1>3, <3>1 DEF Taken
    <3>3. stack' = below
      BY <2>1, CallsShape DEF Taken, below
    <3> QED BY <1>5, <3>2, <3>3
  <2>2. CASE r.calls = <<"headers_complete", "message_complete">>
    <3>1. stack' = OnMessageComplete(below)
      BY <2>2, CallsShape DEF Taken, below
    <3>2. hp'.state \in {"start_res", "dead", "upgraded"}
      BY <1>1, <2>2 DEF Ended
    <3> QED BY <1>5, <3>1, <3>2, DoneShape
  <2> QED BY <2>1, <2>2 DEF Ended
<1>7. Types' /\ got_response' \in BOOLEAN
  BY <1>6, TakenTypes
<1>8. StackShape'
  BY <1>1, <1>3, <1>4, <1>6 DEF ParseInv, StackShape
<1>9. Header'
  <2>1. hp'.state # "res_line"
    BY <1>1 DEF InHead
  <2> QED BY <1>1, <2>1, CausesStay DEF ParseInv, Header
<1>10. AfterResponse'
  BY <1>1, <1>6 DEF AfterResponse
<1> QED BY <1>7, <1>8, <1>9, <1>10 DEF ParseInv

LEMMA ContinuedKeeps ==
    ASSUME ParseInv, NEW t, NEW r, Taken(t, r), Continued(hp, t, r)
    PROVE  ParseInv'
<1>1. /\ hp' = r.parser /\ ~hp'.failed /\ ~InHead(hp') /\ ~InHead(hp)
      /\ hp'.state # "upgraded" /\ hp.state # "start_res"
      /\ pos' = pos + 1 /\ buffer' = buffer /\ pos \in Nat
      /\ t \in Pieces /\ hp.state # "upgraded"
  BY DEF Taken, Continued
<1>2. got_response => hp.state = "dead"
  BY <1>1, RestAfterResponse
<1>3. Len(stack) >= 1 /\ stack \in Seq(Tables) /\ got_response \in BOOLEAN
  BY DEF ParseInv, StackShape, Types
<1>4. /\ stack' \in Seq(Tables) /\ Len(stack') = Len(stack)
      /\ got_response' => /\ "is_done" \in Last(stack').keys
                          /\ hp'.state \in {"start_res", "dead"}
  <2>1. CASE r.calls = <<>> /\ (hp.state = "dead" => hp'.state = "dead")
    <3>1. ~\E i \in DOMAIN r.calls : r.calls[i] = "message_complete"
      BY <2>1
    <3>2. got_response' <=> got_response
      BY <3>1 DEF Taken
    <3>3. stack' = stack
      BY <2>1, CallsShape DEF Taken
    <3> QED BY <1>2, <1>3, <2>1, <3>2, <3>3 DEF ParseInv, StackShape
  <2>2. CASE r.calls = <<"body">> /\ hp.state # "dead"
    <3>1. ~\E i \in DOMAIN r.calls : r.calls[i] = "message_complete"
      BY <2>2
    <3>2. ~got_response'
      BY <1>2, <2>2, <3>1 DEF Taken
    <3>3. stack' = OnBody(stack, t)
      BY <2>2, CallsShape DEF Taken
    <3> QED BY <1>1, <1>3, <3>2, <3>3, BodyPieceShape
  <2>3. CASE r.calls = <<"body", "message_complete">>
             /\ hp'.state \in {"start_res", "dead"}
    <3>1. stack' = OnMessageComplete(OnBody(stack, t))
      BY <2>3, CallsShape DEF Taken
    <3>2. OnBody(stack, t) \in Seq(Tables) /\ Len(OnBody(stack, t)) = Len(stack)
      BY <1>1, <1>3, BodyPieceShape
    <3> QED BY <1>3, <2>3, <3>1, <3>2, DoneShape
  <2>4. CASE r.calls = <<"message_complete">>
             /\ hp'.state \in {"start_res", "dead"}
    <3>1. stack' = OnMessageComplete(stack)
      BY <2>4, CallsShape DEF Taken
    <3> QED BY <1>3, <2>4, <3>1, DoneShape
  <2> QED BY <1>1, <2>1, <2>2, <2>3, <2>4 DEF Continued
<1>5. Types' /\ got_response' \in BOOLEAN
  BY <1>4, TakenTypes
<1>6. StackShape'
  BY <1>1, <1>3, <1>4 DEF ParseInv, StackShape
<1>7. Header'
  <2>1. hp'.state # "res_line"
    BY <1>1 DEF InHead
  <2> QED BY <1>1, <2>1 DEF Header
<1>8. AfterResponse'
  BY <1>1, <1>4 DEF AfterResponse
<1> QED BY <1>5, <1>6, <1>7, <1>8 DEF ParseInv

-----------------------------------------------------------------------------
(* The steps *)

LEMMA PieceFacts ==
    ASSUME ParseInv, Parsing
    PROVE  /\ pos + 1 \in DOMAIN buffer /\ buffer[pos + 1] \in Pieces
           /\ pos \in Nat /\ hp \in Parsers
           /\ ~hp.failed /\ hp.state # "upgraded"
<1>1. /\ DOMAIN buffer = 1..Len(buffer) /\ Len(buffer) \in Nat
      /\ pos \in 0..Len(buffer) /\ pos < Len(buffer)
      /\ \A i \in 1..Len(buffer) : buffer[i] \in Pieces
  BY DEF ParseInv, Types, Parsing
<1>2. pos + 1 \in 1..Len(buffer)
  BY <1>1
<1> QED BY <1>1, <1>2 DEF ParseInv, Types, Parsing

LEMMA ParsePieceKeeps ==
    ASSUME ParseInv, ParsePiece
    PROVE  ParseInv'
<1> DEFINE t == buffer[pos + 1]
           r == Execute(hp, t)
<1>1. t \in Pieces /\ hp \in Parsers /\ ~hp.failed /\ hp.state # "upgraded"
  BY PieceFacts DEF ParsePiece
<1>2. PICK u \in Pieces : u = t
  BY <1>1
<1>3. PICK q : q = Execute(hp, u)
  OBVIOUS
<1>4. /\ q.parser \in Parsers
      /\ \/ Refused(hp, u, q) \/ Began(hp, u, q) \/ Lined(hp, u, q)
         \/ Fielded(hp, u, q) \/ Ended(hp, u, q) \/ Continued(hp, u, q)
  BY <1>1, <1>3, ExecuteShape
<1>5. Taken(u, q)
  BY <1>2, <1>3, <1>4, PieceFacts DEF ParsePiece, Taken, netVars
<1> QED BY <1>4, <1>5, RefusedKeeps, BeganKeeps, LinedKeeps, FieldedKeeps,
           EndedKeeps, ContinuedKeeps

\* cb_recv exits on a callback that follows a response: another one begins.
LEMMA UnexpectedHasCause ==
    ASSUME ParseInv, ParseUnexpected
    PROVE  SecondResponse
<1> DEFINE t == buffer[pos + 1]
<1>1. t \in Pieces /\ hp \in Parsers /\ ~hp.failed /\ hp.state # "upgraded"
  BY PieceFacts DEF ParseUnexpected
<1>2. PICK u \in Pieces : u = t
  BY <1>1
<1>3. PICK q : q = Execute(hp, u)
  OBVIOUS
<1>4. \/ Refused(hp, u, q) \/ Began(hp, u, q) \/ Lined(hp, u, q)
      \/ Fielded(hp, u, q) \/ Ended(hp, u, q) \/ Continued(hp, u, q)
  BY <1>1, <1>3, ExecuteShape
<1>5. /\ got_response
      /\ \E i \in DOMAIN q.calls :
             q.calls[i] \in {"header", "headers_complete", "body"}
  BY <1>2, <1>3 DEF ParseUnexpected, Unexpected
<1>6. ASSUME hp.state \in {"start_res", "dead"} PROVE FALSE
  <2>1. q.calls \in {<<>>, <<"message_begin">>}
    BY <1>4, <1>6 DEF Refused, Began, Lined, Fielded, Ended, Continued
  <2> QED BY <1>5, <2>1
<1> QED BY <1>1, <1>5, <1>6, RestAfterResponse

\* With less than three values on the stack no header is being parsed: a field
\* is one of a trailer, or of another response.
LEMMA GzipTrailerHasCause ==
    ASSUME ParseInv, ParseGzipTrailer
    PROVE  SecondResponse \/ GzipTrailer
<1> DEFINE t == buffer[pos + 1]
<1>1. t \in Pieces /\ hp \in Parsers /\ ~hp.failed /\ hp.state # "upgraded"
  BY PieceFacts DEF ParseGzipTrailer
<1>2. PICK u \in Pieces : u = t
  BY <1>1
<1>3. PICK q : q = Execute(hp, u)
  OBVIOUS
<1>4. \/ Refused(hp, u, q) \/ Began(hp, u, q) \/ Lined(hp, u, q)
      \/ Fielded(hp, u, q) \/ Ended(hp, u, q) \/ Continued(hp, u, q)
  BY <1>1, <1>3, ExecuteShape
<1>5. q.calls = <<"header">> /\ u.f = "gzip" /\ Len(stack) <= 2
  BY <1>2, <1>3 DEF ParseGzipTrailer, SetsInName
<1>6. u.k = "field" /\ hp.state = "header_field_start"
  BY <1>4, <1>5 DEF Refused, Began, Lined, Fielded, Ended, Continued
<1>7. CASE "trailing" \in hp.flags
  BY <1>2, <1>5, <1>6, <1>7
     DEF GzipTrailer, HasField, ParseGzipTrailer, Parsing
<1>8. CASE "trailing" \notin hp.flags
  <2>1. InHead(hp)
    BY <1>6, <1>8 DEF InHead
  <2>2. got_response
    <3>1. Len(stack) \in Nat
      BY DEF ParseInv, Types
    <3> QED BY <1>5, <2>1, <3>1 DEF ParseInv, StackShape
  <2> QED BY <1>1, <1>6, <2>2, RestAfterResponse
<1> QED BY <1>7, <1>8

\* The end of cb_recv: it cannot find plan_resume if the header is cut, and
\* for the other causes.
LEMMA EndHasCause ==
    ASSUME ParseInv, pc = "parsing", ~Parsing,
           hp.state = "upgraded" \/ ~CallsPlanResume
    PROVE  CutHeader \/ SecondResponse \/ Unexpectable
<1>1. /\ pos \in 0..Len(buffer) /\ DOMAIN buffer = 1..Len(buffer)
      /\ Len(buffer) \in Nat /\ Len(stack) \in Nat
  BY DEF ParseInv, Types
<1>2. CASE hp.state = "upgraded"
  BY <1>2 DEF ParseInv, Header
<1>3. CASE \E i \in DOMAIN buffer : buffer[i].k = "stray"
  BY <1>3 DEF Unexpectable
<1>4. CASE /\ hp.state # "upgraded"
           /\ ~\E i \in DOMAIN buffer : buffer[i].k = "stray"
  <2>1. InHead(hp) /\ ~got_response
    BY <1>1, <1>4 DEF ParseInv, StackShape, CallsPlanResume
  <2>2. CASE hp.failed
    BY <2>1, <2>2 DEF ParseInv, Header
  <2>3. CASE ~hp.failed
    <3>1. pos = Len(buffer)
      <4>1. ~(pos < Len(buffer))
        BY <1>4, <2>3 DEF Parsing
      <4>2. pos \in 0..Len(buffer) /\ Len(buffer) \in Nat
        BY <1>1
      <4> QED BY <4>1, <4>2
    <3>2. PICK i \in 1..pos : /\ buffer[i].k = "begin"
                              /\ \A j \in i..pos : buffer[j].k # "end"
      BY <2>1 DEF ParseInv, Header
    <3> QED BY <1>1, <3>1, <3>2 DEF CutHeader
  <2> QED BY <2>2, <2>3
<1> QED BY <1>2, <1>3, <1>4

\* A result that receive() asks more of ends between headers.
LEMMA EndPlans ==
    ASSUME ParseInv, Plans, CbRecvEnd, pc' = "planned"
    PROVE  Plans'
<1>1. /\ pc = "parsing" /\ CallsPlanResume /\ hp.state # "upgraded"
      /\ plan' = PlanOr(IF hp.failed THEN "failed" ELSE "result")
      /\ UNCHANGED <<hp, stack>>
  BY DEF CbRecvEnd, Crash, parseVars
<1>2. ASSUME plan' = "result"
      PROVE  ~hp.failed
  BY <1>1, <1>2 DEF PlanOr, Plans, NoPlan
<1>3. ASSUME InHead(hp), ~hp.failed
      PROVE  "is_done" \in stack[1].keys
  <2>1. Len(stack) = 1
    BY <1>1 DEF CallsPlanResume
  <2>2. got_response
    BY <1>3, <2>1 DEF ParseInv, StackShape
  <2>3. Last(stack) = stack[1]
    BY <2>1 DEF Last
  <2> QED BY <2>2, <2>3 DEF ParseInv, StackShape
<1> QED BY <1>1, <1>2, <1>3 DEF Plans

\* recv() cuts the stream between two pieces.
LEMMA CutNamed ==
    ASSUME NEW s \in Seq(Pieces), NamedByPlace(s), NEW m \in Nat, NEW n \in Nat,
           1 <= m, n <= Len(s)
    PROVE  /\ SubSeq(s, m, n) \in Seq(Pieces) /\ NamedByPlace(SubSeq(s, m, n))
<1>1. /\ SubSeq(s, m, n) \in Seq(Pieces)
      /\ Len(SubSeq(s, m, n)) = IF m <= n THEN n - m + 1 ELSE 0
      /\ \A i \in 1..(n - m + 1) : SubSeq(s, m, n)[i] = s[m + i - 1]
  <2>1. \A i \in m..n : s[i] \in Pieces
    BY ElementOfSeq
  <2> QED BY <2>1, SubSeqProperties
<1>2. ASSUME NEW i \in 1..(Len(SubSeq(s, m, n)) - 1)
      PROVE  /\ m + i - 1 \in 1..(Len(s) - 1)
             /\ SubSeq(s, m, n)[i] = s[m + i - 1]
             /\ SubSeq(s, m, n)[i + 1] = s[m + i - 1 + 1]
  BY <1>1
<1> QED BY <1>1, <1>2 DEF NamedByPlace

LEMMA JoinedNamed ==
    ASSUME NEW s \in Seq(Pieces), NamedByPlace(s),
           NEW m \in Responses \cup Unasked
    PROVE  s \o m \in Seq(Pieces) /\ NamedByPlace(s \o m)
<1>1. /\ m \in Seq(Pieces) /\ NamedByPlace(m) /\ Len(m) > 1 /\ m[1].k = "begin"
  BY ResponsesAssumption DEF Begins
<1>2. /\ s \o m \in Seq(Pieces) /\ Len(s \o m) = Len(s) + Len(m)
      /\ \A i \in 1..Len(s) : (s \o m)[i] = s[i]
      /\ \A i \in 1..Len(m) : (s \o m)[Len(s) + i] = m[i]
      /\ Len(s) \in Nat /\ Len(m) \in Nat
  BY <1>1, ConcatProperties
<1>3. ASSUME NEW i \in 1..(Len(s \o m) - 1)
      PROVE  /\ (s \o m)[i].k = "begin"
                => (s \o m)[i + 1].k \in {"line"} \cup Anywhere
             /\ (s \o m)[i].k \in {"line", "field"}
                => (s \o m)[i + 1].k \in {"field", "end"} \cup Anywhere
  <2>1. CASE i < Len(s)
    <3>1. /\ i \in 1..(Len(s) - 1) /\ i \in 1..Len(s) /\ i + 1 \in 1..Len(s)
      BY <1>2, <2>1
    <3> QED BY <1>2, <3>1 DEF NamedByPlace
  <2>2. CASE i = Len(s)
    <3>1. 1 \in 1..Len(m) /\ i + 1 = Len(s) + 1
      BY <1>1, <1>2, <2>2
    <3>2. (s \o m)[i + 1] = m[1]
      BY <1>2, <3>1
    <3> QED BY <1>1, <3>2 DEF Anywhere
  <2>3. CASE i > Len(s)
    <3>1. PICK j \in 1..(Len(m) - 1) : i = Len(s) + j
      <4>1. i - Len(s) \in 1..(Len(m) - 1) /\ i = Len(s) + (i - Len(s))
        BY <1>2, <2>3
      <4> QED BY <4>1
    <3>2. j \in 1..Len(m) /\ j + 1 \in 1..Len(m) /\ i + 1 = Len(s) + (j + 1)
      BY <1>2, <3>1
    <3>3. (s \o m)[i] = m[j] /\ (s \o m)[i + 1] = m[j + 1]
      BY <1>2, <3>1, <3>2
    <3> QED BY <1>1, <3>3 DEF NamedByPlace
  <2> QED BY <1>2, <2>1, <2>2, <2>3
<1> QED BY <1>2, <1>3 DEF NamedByPlace

-----------------------------------------------------------------------------
(* The invariant *)

LEMMA InitInv ==
    ASSUME Init
    PROVE  Inv
<1>1. ParserInit \in Parsers
  BY DEF ParserInit, Parsers, States, Codes, NoLength
<1>2. /\ <<>> \in Seq(Pieces) /\ <<>> \in Seq(Tables) /\ NamedByPlace(<<>>)
      /\ 0 \in 0..Len(<<>>)
  BY DEF NamedByPlace
<1>3. Types
  BY <1>1, <1>2 DEF Init, Types
<1>4. Plans /\ CrashHasCause /\ pc # "parsing"
  BY DEF Init, Plans, CrashHasCause
<1> QED BY <1>3, <1>4 DEF Inv

LEMMA ReceiveKeeps ==
    ASSUME Inv, Receive
    PROVE  Inv'
<1>1. /\ hp' = ParserInit /\ pc = "idle" /\ pc' = "yielded" /\ plan' = plan
      /\ UNCHANGED <<wire, buffer, pos, got_response, stack>>
  BY DEF Receive, netVars
<1>2. /\ ParserInit \in Parsers /\ ~ParserInit.failed
      /\ ParserInit.state = "start_res"
  BY DEF ParserInit, Parsers, States, Codes, NoLength
<1>3. Types'
  BY <1>1, <1>2 DEF Inv, Types, NamedByPlace
<1>4. Plans'
  BY <1>1, <1>2 DEF Inv, Plans, InHead
<1> QED BY <1>1, <1>3, <1>4 DEF Inv, CrashHasCause

LEMMA CbRecvKeeps ==
    ASSUME Inv, NEW n \in 1..Chunk, CbRecv(n)
    PROVE  Inv'
<1>1. /\ pc = "yielded" /\ pc' = "parsing" /\ n \in Nat /\ 1 <= n
      /\ n <= Len(wire) /\ Len(wire) \in Nat /\ wire \in Seq(Pieces)
      /\ buffer' = SubSeq(wire, 1, n)
      /\ wire' = SubSeq(wire, n + 1, Len(wire))
      /\ pos' = 0 /\ got_response' = FALSE /\ stack' = <<Table>>
      /\ UNCHANGED <<hp, plan>>
  BY DEF CbRecv, Inv, Types
<1>2. /\ buffer' \in Seq(Pieces) /\ NamedByPlace(buffer)'
      /\ Len(buffer') \in Nat
  BY <1>1, CutNamed DEF Inv, Types, NamedByPlace
<1>3. wire' \in Seq(Pieces) /\ NamedByPlace(wire)'
  <2>1. n + 1 \in Nat /\ 1 <= n + 1 /\ Len(wire) <= Len(wire)
    BY <1>1
  <2>2. /\ SubSeq(wire, n + 1, Len(wire)) \in Seq(Pieces)
        /\ NamedByPlace(SubSeq(wire, n + 1, Len(wire)))
    BY <1>1, <2>1, CutNamed DEF Inv, Types
  <2> QED BY <1>1, <2>2 DEF NamedByPlace
<1>4. stack' \in Seq(Tables) /\ Len(stack') = 1
  BY <1>1, TableTypes
<1>5. Types'
  <2>1. pos' \in 0..Len(buffer')
    BY <1>1, <1>2
  <2>2. got_response' \in BOOLEAN
    BY <1>1
  <2>3. hp' \in Parsers
    BY <1>1 DEF Inv, Types
  <2> QED BY <1>2, <1>3, <1>4, <2>1, <2>2, <2>3 DEF Types
<1>6. ~InHead(hp) /\ hp.state # "upgraded" /\ hp.state # "res_line"
  BY <1>1 DEF Inv, Plans, InHead
<1>7. StackShape' /\ Header' /\ AfterResponse'
  BY <1>1, <1>4, <1>6 DEF StackShape, Header, AfterResponse
<1>8. Plans'
  BY <1>1 DEF Inv, Plans
<1> QED BY <1>1, <1>5, <1>7, <1>8 DEF Inv, CrashHasCause

\* Steps that touch neither what was received nor the parser.
LEMMA QuietKeeps ==
    ASSUME Inv, UNCHANGED parseVars, wire' \in Seq(Pieces), NamedByPlace(wire)',
           pc' # "crashed", pc' # "parsing" \/ pc = "parsing", Plans'
    PROVE  Inv'
<1>1. UNCHANGED <<hp, got_response, buffer, pos, stack>>
  BY DEF parseVars
<1>2. Types'
  BY <1>1 DEF Inv, Types, NamedByPlace
<1>3. pc = "parsing" => StackShape' /\ Header' /\ AfterResponse'
  BY <1>1, CausesStay DEF Inv, StackShape, Header, AfterResponse
<1> QED BY <1>2, <1>3 DEF Inv, CrashHasCause

LEMMA WaitKeeps ==
    ASSUME Inv, CbRecvNothing \/ RecvTimeout \/ ResumeFailed
    PROVE  Inv'
<1>1. /\ UNCHANGED parseVars /\ wire' = wire /\ pc' # "crashed"
      /\ pc' # "parsing"
  BY DEF CbRecvNothing, RecvTimeout, ResumeFailed, netVars
<1>2. wire' \in Seq(Pieces) /\ NamedByPlace(wire)'
  BY <1>1 DEF Inv, Types, NamedByPlace
<1>3. UNCHANGED <<hp, stack>>
  BY <1>1 DEF parseVars
<1>4. Plans'
  <2>1. CASE CbRecvNothing
    BY <1>3, <2>1 DEF CbRecvNothing, PlanOr, Inv, Plans, NoPlan
  <2>2. CASE RecvTimeout
    BY <1>3, <2>2 DEF RecvTimeout, PlanOr, Inv, Plans, NoPlan
  <2>3. CASE ResumeFailed
    BY <1>3, <2>3 DEF ResumeFailed, Plans, NoPlan
  <2> QED BY <2>1, <2>2, <2>3
<1> QED BY <1>1, <1>2, <1>4, QuietKeeps

LEMMA ResumeKeeps ==
    ASSUME Inv, ResumeMore \/ ResumeDone
    PROVE  Inv'
<1>1. /\ pc = "planned" /\ plan = "result" /\ plan' = NoPlan
      /\ pc' \in {"yielded", "idle", "gone"} /\ stack' = <<>>
      /\ UNCHANGED <<wire, hp, got_response, buffer, pos>>
      /\ pc' = "yielded" => "is_done" \notin stack[1].keys
  BY DEF ResumeMore, ResumeDone, netVars
<1>2. Types'
  BY <1>1 DEF Inv, Types, NamedByPlace
<1>3. Plans'
  BY <1>1 DEF Inv, Plans, NoPlan
<1> QED BY <1>1, <1>2, <1>3 DEF Inv, CrashHasCause

LEMMA ServerKeeps ==
    ASSUME Inv, Server
    PROVE  Inv'
<1>1. UNCHANGED parseVars /\ UNCHANGED <<pc, plan>>
  BY DEF Server, Answer, SendUnasked, Send, ServerCloses
<1>2. wire' \in Seq(Pieces) /\ NamedByPlace(wire)'
  <2>1. CASE \E m \in Responses \cup Unasked : wire' = wire \o m
    <3>1. PICK m \in Responses \cup Unasked : wire' = wire \o m
      BY <2>1
    <3> QED BY <3>1, JoinedNamed DEF Inv, Types, NamedByPlace
  <2>2. CASE \E n \in 0..Len(wire) : wire' = SubSeq(wire, 1, n)
    <3>1. PICK n \in 0..Len(wire) : wire' = SubSeq(wire, 1, n)
      BY <2>2
    <3>2. n \in Nat /\ n <= Len(wire) /\ 1 \in Nat
      BY DEF Inv, Types
    <3>3. /\ SubSeq(wire, 1, n) \in Seq(Pieces)
          /\ NamedByPlace(SubSeq(wire, 1, n))
      BY <3>2, CutNamed DEF Inv, Types
    <3> QED BY <3>1, <3>3 DEF NamedByPlace
  <2> QED BY <2>1, <2>2 DEF Server, Answer, SendUnasked, Send, ServerCloses
<1>3. Plans'
  BY <1>1 DEF Inv, Plans, parseVars
<1>4. CASE pc # "crashed"
  BY <1>1, <1>2, <1>3, <1>4, QuietKeeps
<1>5. CASE pc = "crashed"
  <2>1. UNCHANGED <<hp, got_response, buffer, pos, stack>>
    BY <1>1 DEF parseVars
  <2>2. Types'
    BY <1>2, <2>1 DEF Inv, Types, NamedByPlace
  <2> QED BY <1>1, <1>3, <1>5, <2>1, <2>2, CausesStay DEF Inv, CrashHasCause
<1> QED BY <1>4, <1>5

LEMMA CrashKeeps ==
    ASSUME Inv, Crash,
           CutHeader \/ SecondResponse \/ Unexpectable \/ GzipTrailer
    PROVE  Inv'
<1>1. /\ pc' = "crashed"
      /\ UNCHANGED <<wire, hp, got_response, buffer, pos, stack, plan>>
  BY DEF Crash, netVars, parseVars
<1>2. Types'
  BY <1>1 DEF Inv, Types, NamedByPlace
<1>3. Plans'
  BY <1>1 DEF Plans
<1> QED BY <1>1, <1>2, <1>3, CausesStay DEF Inv, CrashHasCause

LEMMA ParseKeeps ==
    ASSUME Inv,
           ParsePiece \/ ParseUnexpected \/ ParseGzipTrailer \/ CbRecvEnd
    PROVE  Inv'
<1>1. pc = "parsing" /\ ParseInv
  BY DEF ParsePiece, ParseUnexpected, ParseGzipTrailer, CbRecvEnd, Parsing,
         Inv, ParseInv
<1>2. CASE ParsePiece
  <2>1. ParseInv' /\ UNCHANGED <<pc, plan>>
    BY <1>1, <1>2, ParsePieceKeeps DEF ParsePiece
  <2>2. Plans'
    BY <1>1, <2>1 DEF Inv, Plans
  <2> QED BY <1>1, <2>1, <2>2 DEF Inv, ParseInv, CrashHasCause
<1>3. CASE ParseUnexpected
  BY <1>1, <1>3, UnexpectedHasCause, CrashKeeps DEF ParseUnexpected
<1>4. CASE CbRecvEnd
  <2>1. CASE hp.state = "upgraded" \/ ~CallsPlanResume
    <3>1. Crash /\ ~Parsing
      BY <1>4, <2>1 DEF CbRecvEnd
    <3> QED BY <1>1, <2>1, <3>1, EndHasCause, CrashKeeps
  <2>2. CASE ~(hp.state = "upgraded" \/ ~CallsPlanResume)
    <3>1. pc' = "planned" /\ UNCHANGED <<netVars, parseVars>>
      BY <1>4, <2>2 DEF CbRecvEnd
    <3>2. Plans'
      BY <1>1, <1>4, <3>1, EndPlans DEF Inv
    <3>3. wire' \in Seq(Pieces) /\ NamedByPlace(wire)'
      BY <3>1 DEF Inv, Types, NamedByPlace, netVars
    <3> QED BY <3>1, <3>2, <3>3, QuietKeeps
  <2> QED BY <2>1, <2>2
<1>5. CASE ParseGzipTrailer
  BY <1>1, <1>5, GzipTrailerHasCause, CrashKeeps DEF ParseGzipTrailer
<1> QED BY <1>2, <1>3, <1>4, <1>5

LEMMA NextInv ==
    ASSUME Inv, [Next]_vars
    PROVE  Inv'
<1>1. CASE Receive
  BY <1>1, ReceiveKeeps
<1>2. CASE Poll
  BY <1>2, CbRecvKeeps, WaitKeeps, ParseKeeps DEF Poll
<1>3. CASE RecvTimeout \/ Resume
  BY <1>3, WaitKeeps, ResumeKeeps DEF Resume
<1>4. CASE Server
  BY <1>4, ServerKeeps
<1>5. CASE UNCHANGED vars
  <2>1. /\ UNCHANGED <<wire, hp, got_response, buffer, pos, stack, plan, pc>>
    BY <1>5 DEF vars, netVars, parseVars
  <2>2. Types'
    BY <2>1 DEF Inv, Types, NamedByPlace
  <2>3. Plans'
    BY <2>1 DEF Inv, Plans
  <2>4. pc = "parsing" => StackShape' /\ Header' /\ AfterResponse'
    BY <2>1, CausesStay DEF Inv, StackShape, Header, AfterResponse
  <2> QED BY <2>1, <2>2, <2>3, <2>4, CausesStay DEF Inv, CrashHasCause
<1> QED BY <1>1, <1>2, <1>3, <1>4, <1>5 DEF Next

\* Nothing a server sends ends the process but a packet that ends inside a
\* header, one that holds the start of a second response, one with a stray
\* line end, a byte that no header may hold or an Upgrade field, and one with
\* the value gzip in a chunked trailer: after every other, whatever the
\* callbacks of main.c push, pop and set, cb_recv finds plan_resume.
THEOREM CrashCorrect == Spec => []CrashHasCause
<1>1. Init => Inv
  BY InitInv
<1>2. Inv /\ [Next]_vars => Inv'
  BY NextInv
<1>3. Inv => CrashHasCause
  BY DEF Inv
<1> QED BY <1>1, <1>2, <1>3, PTL DEF Spec

-----------------------------------------------------------------------------
(* The order of the responses: what is sent, taken and parsed.              *)

\* The k-th response begins after starts[k] pieces of the stream, of which w
\* have left the wire.
Offsets(starts) ==
    /\ starts \in [1..(Len(sent) + 1) -> Nat] /\ starts[1] = 0
    /\ \A i \in 1..Len(sent) : starts[i + 1] = starts[i] + Len(sent[i])
    /\ \A i, j \in 1..(Len(sent) + 1) : i <= j => starts[i] <= starts[j]

Stream(starts, w) ==
    /\ w \in Nat /\ Len(buffer) <= w
    /\ w + Len(wire) <= starts[Len(sent) + 1]
    /\ closed \/ w + Len(wire) = starts[Len(sent) + 1]
    /\ \A i \in 1..Len(sent) : \A n \in 1..Len(sent[i]) :
           /\ \A j \in 1..Len(wire) :
                  starts[i] + n = w + j => wire[j] = sent[i][n]
           /\ \A j \in 1..Len(buffer) :
                  starts[i] + n = w - Len(buffer) + j => buffer[j] = sent[i][n]

\* The parser has taken all up to the n-th piece of the k-th response.
Parsed(starts, w, k, n) ==
    /\ k \in 1..(Len(sent) + 1) /\ n \in Nat
    /\ w - Len(buffer) + pos = starts[k] + n
    /\ n > 0 => k <= Len(sent) /\ n <= Len(sent[k])

\* The parser after n pieces of m, inside of its header and after that.
InHeaderOf(p, m, n) ==
    \/ /\ n = 1 /\ p.state = "res_line" /\ p.flags = {}
       /\ p.content_length = NoLength
    \/ /\ n >= 2 /\ n < EndOf(m) /\ p.state = "header_field_start"
       /\ \A i \in 3..n : m[i].k = "field"
       /\ \A f \in Flags : f \in p.flags <=> \E i \in 3..n : HasField(m, i, f)
       /\ \/ /\ p.content_length = NoLength
             /\ ~\E i \in 3..n : HasField(m, i, "length")
          \/ \E i \in 3..n : /\ HasField(m, i, "length")
                             /\ m[i].n = p.content_length
       /\ p.status_code = m[2].code

IsChunked(m) == \E i \in Heads(m) : HasField(m, i, "chunked")

InBodyOf(p, m, n) ==
    /\ n >= EndOf(m)
    /\ \/ /\ p.state = "body_identity" /\ ~IsChunked(m)
          /\ p.content_length = Len(m) - n /\ n < Len(m)
       \/ /\ p.state \in {"chunk_size_start", "chunk_data_almost_done"}
          /\ "trailing" \notin p.flags /\ IsChunked(m)
       \/ /\ p.state = "chunk_data" /\ "trailing" \notin p.flags /\ IsChunked(m)
          /\ p.content_length > 0 /\ n + p.content_length <= Len(m)
          /\ \A j \in 1..p.content_length : IsByte(m[n + j])
       \/ /\ p.state = "header_field_start" /\ "trailing" \in p.flags
          /\ IsChunked(m)

\* What receive() has of the response: its locals, and the table it is to get.
Busy == pc \in {"parsing", "planned"}
Got == Accumulate(IF Busy THEN stack[1] ELSE Table)

HasBody(b, m, n) ==
    /\ Len(b) = BytesUpTo(m, n)
    /\ \A i \in 1..n : IsByte(m[i]) => b[BytesUpTo(m, i)] = m[i]
HasGzip(K, m, n) ==
    "is_gzipped" \in K
        <=> \E i \in 3..n : i < EndOf(m) /\ HasField(m, i, "gzip")
HasHeader(r, m) == r.headers = FieldsOf(m) /\ r.status_code = m[2].code

ListOf(l, m, n) == /\ Len(l) = IF n >= 2 THEN n - 2 ELSE 0
                   /\ \A i \in 3..n : l[i - 2] = m[i].f

\* Nothing of the response is parsed; the begin of its header may be lost,
\* with the packet in which the one before ended.
AtStart(n) ==
    /\ n <= 2 /\ acc = Accumulators
    /\ pc # "idle" => hp.state = "start_res"
    /\ Busy => ~got_response /\ stack = <<Table>>

Inside(m, n) ==
    /\ 1 <= n /\ n <= Len(m) /\ pc # "idle"
    /\ HasBody(Got.body, m, n) /\ HasGzip(Got.keys, m, n)
    /\ Busy => ~got_response /\ "is_done" \notin stack[1].keys
    /\ \/ /\ InHeaderOf(hp, m, n) /\ Busy
          /\ Len(stack) = 3 /\ ListOf(stack[3].list, m, n)
       \/ /\ InBodyOf(hp, m, n) /\ HasHeader(Got, m)
          /\ Busy => Len(stack) = 1

\* The response is parsed, and maybe the begin of the next one, n pieces that
\* the callbacks leave alone.
AtEnd(m, n) ==
    /\ Busy /\ got_response
    /\ Len(stack) = 1 /\ "is_done" \in stack[1].keys
    /\ Says(Got, m)
    /\ \/ n = 0 /\ hp.state \in {"start_res", "dead"}
       \/ n = 1 /\ hp.state = "res_line" /\ hp.flags = {}
       \/ n = 2 /\ hp.state = "header_field_start" /\ hp.flags = {}

\* The response will have no end.
Endless ==
    /\ hp.state \in {"body_identity_eof", "upgraded"} /\ pc # "idle"
    /\ Busy /\ hp.state # "upgraded" =>
           /\ ~got_response
           /\ Len(stack) = 1 /\ "is_done" \notin stack[1].keys

Clean(k) == \A j \in 1..k : j <= Len(sent) => Framed(sent[j])

\* The states from which receive() may still succeed.
Going == \/ pc = "idle"
         \/ pc \in {"yielded", "parsing"} /\ ~hp.failed
         \/ pc = "planned" /\ plan = "result"

Progress(starts, w, k) ==
    \/ \E n \in Nat : Parsed(starts, w, k, n) /\ AtStart(n)
    \/ /\ k <= Len(sent)
       /\ \E n \in Nat : Parsed(starts, w, k, n) /\ Inside(sent[k], n)
    \/ /\ k <= Len(sent)
       /\ \E n \in Nat : Parsed(starts, w, k + 1, n) /\ AtEnd(sent[k], n)
    \/ Endless

Returned ==
    \A i \in 1..Len(returned) :
        Clean(i) => i <= Len(sent) /\ Says(returned[i], sent[i])

Gathered == [headers : Seq(Fields), body : Seq(Pieces), status_code : Codes,
             keys : SUBSET Keys]

OrderTypes ==
    /\ sent \in Seq(Responses \cup Unasked)
    /\ acc \in Gathered /\ returned \in Seq(Gathered)

OrderInv(starts, w) ==
    /\ Offsets(starts) /\ Stream(starts, w)
    /\ Going /\ pc # "parsing" => pos = Len(buffer)
    /\ \A k : Going /\ k = Len(returned) + 1 /\ Clean(k)
                 => Progress(starts, w, k)

\* cb_recv hands over one value.
OneResult == pc = "planned" /\ plan = "result" => Len(stack) = 1

Order == /\ OrderTypes /\ OneResult /\ Returned
         /\ \E starts, w : OrderInv(starts, w)

-----------------------------------------------------------------------------
(* Facts on responses *)

LEMMA ResponseFacts ==
    ASSUME NEW m \in Responses \cup Unasked
    PROVE  /\ m \in Seq(Pieces) /\ Len(m) \in Nat /\ Len(m) > 1
           /\ DOMAIN m = 1..Len(m)
           /\ \A i \in 1..Len(m) : m[i] \in Pieces
           /\ m[1].k = "begin" /\ m[2].k = "line" /\ m[2].code \in Codes
<1>1. m \in Seq(Pieces) /\ Len(m) > 1 /\ m[1] \in Begins /\ m[2] \in Lines
  BY ResponsesAssumption
<1> QED BY <1>1 DEF Begins, Lines

\* The library's well-founded order of Nat, as a relation.
LEMMA LessIsWellFounded ==
    \E R : /\ IsWellFoundedOn(R, Nat)
           /\ \A x, y \in Nat : <<x, y>> \in R <=> x < y
<1> DEFINE R == OpToRel(<, Nat)
<1>1. IsWellFoundedOn(R, Nat)
  BY NatLessThanWellFounded, Zenon
<1>2. R = {ss \in Nat \X Nat : ss[1] < ss[2]}
  BY DEF OpToRel
<1> HIDE DEF R
<1>3. ASSUME NEW x \in Nat, NEW y \in Nat
      PROVE  <<x, y>> \in R <=> x < y
  BY <1>2
<1> QED BY <1>1, <1>3

LEMMA Least ==
    ASSUME NEW T \in SUBSET Nat, T # {}
    PROVE  \E x \in T : \A y \in T : x <= y
<1>1. PICK R : /\ IsWellFoundedOn(R, Nat)
               /\ \A x, y \in Nat : <<x, y>> \in R <=> x < y
  BY LessIsWellFounded
<1>2. IsWellFoundedOn(R, Nat) /\ T \subseteq Nat
  BY <1>1
<1>3. PICK x \in T : \A y \in T : <<y, x>> \notin R
  BY <1>2, WFMin, Zenon
<1>4. ASSUME NEW y \in T PROVE x <= y
  <2>1. x \in Nat /\ y \in Nat
    BY <1>2
  <2>2. ~(y < x)
    BY <1>1, <1>3, <2>1
  <2> QED BY <2>1, <2>2
<1> QED BY <1>4

\* The end of the header exists, for its positions have a first one.
LEMMA EndFacts ==
    ASSUME NEW m \in Responses \cup Unasked, Framed(m)
    PROVE  /\ EndOf(m) \in 3..Len(m) /\ m[EndOf(m)].k = "end"
           /\ \A j \in 1..(EndOf(m) - 1) : m[j].k # "end"
<1> DEFINE E == {i \in 1..Len(m) : m[i].k = "end"}
           First(i) == m[i].k = "end" /\ \A j \in 1..(i - 1) : m[j].k # "end"
<1>1. /\ DOMAIN m = 1..Len(m) /\ Len(m) \in Nat /\ Len(m) > 1
      /\ m[1].k = "begin" /\ m[2].k = "line"
  BY ResponseFacts
<1>2. E \in SUBSET Nat /\ E # {}
  BY <1>1 DEF Framed
<1>3. PICK e \in E : \A j \in E : e <= j
  BY <1>2, Least
<1>4. First(e) /\ e \in DOMAIN m
  BY <1>1, <1>3
<1>5. First(EndOf(m)) /\ EndOf(m) \in DOMAIN m
  BY <1>4 DEF EndOf
<1>6. EndOf(m) # 1 /\ EndOf(m) # 2
  BY <1>1, <1>5
<1> QED BY <1>1, <1>5, <1>6

\* One more piece is one more byte, if it is one.
LEMMA CountFacts ==
    ASSUME NEW m
    PROVE  /\ BytesUpTo(m, 0) = 0
           /\ \A n \in Nat :
                  /\ BytesUpTo(m, n) \in Nat
                  /\ BytesUpTo(m, n + 1) = IF IsByte(m[n + 1])
                                           THEN BytesUpTo(m, n) + 1
                                           ELSE BytesUpTo(m, n)
                  /\ \A i \in 1..n : IsByte(m[i]) =>
                         BytesUpTo(m, i) \in 1..BytesUpTo(m, n)
<1> DEFINE B(n) == {i \in 1..n : IsByte(m[i])}
<1>1. ASSUME NEW n \in Nat PROVE IsFiniteSet(B(n))
  <2>1. IsFiniteSet(1..n) /\ B(n) \in SUBSET (1..n)
    BY FS_Interval
  <2> QED BY <2>1, FS_Subset
<1>2. BytesUpTo(m, 0) = 0
  <2>1. B(0) = {}
    OBVIOUS
  <2> QED BY <2>1, FS_EmptySet DEF BytesUpTo
<1>3. ASSUME NEW n \in Nat
      PROVE  /\ BytesUpTo(m, n) \in Nat
             /\ BytesUpTo(m, n + 1) = IF IsByte(m[n + 1])
                                      THEN BytesUpTo(m, n) + 1
                                      ELSE BytesUpTo(m, n)
  <2>1. IsFiniteSet(B(n)) /\ Cardinality(B(n)) \in Nat
    BY <1>1, FS_CardinalityType
  <2>2. n + 1 \notin B(n)
    OBVIOUS
  <2>3. CASE IsByte(m[n + 1])
    <3>1. B(n + 1) = B(n) \cup {n + 1}
      BY <2>3
    <3>2. Cardinality(B(n) \cup {n + 1}) = Cardinality(B(n)) + 1
      BY <2>1, <2>2, FS_AddElement
    <3> QED BY <2>1, <2>3, <3>1, <3>2 DEF BytesUpTo
  <2>4. CASE ~IsByte(m[n + 1])
    <3>1. B(n + 1) = B(n)
      BY <2>4
    <3> QED BY <2>1, <2>4, <3>1 DEF BytesUpTo
  <2> QED BY <2>3, <2>4
<1>4. ASSUME NEW n \in Nat, NEW i \in 1..n, IsByte(m[i])
      PROVE  BytesUpTo(m, i) \in 1..BytesUpTo(m, n)
  <2>1. IsFiniteSet(B(n)) /\ B(i) \in SUBSET B(n) /\ IsFiniteSet(B(i))
    BY <1>1
  <2>2. Cardinality(B(i)) <= Cardinality(B(n))
    BY <2>1, FS_Subset
  <2>3. Cardinality(B(i)) # 0
    <3>1. i \in B(i)
      BY <1>4
    <3> QED BY <2>1, <3>1, FS_EmptySet
  <2>4. Cardinality(B(i)) \in Nat /\ Cardinality(B(n)) \in Nat
    BY <2>1, FS_CardinalityType
  <2> QED BY <2>2, <2>3, <2>4 DEF BytesUpTo
<1> QED BY <1>2, <1>3, <1>4

\* A body that grows with the response.
LEMMA BodyGrows ==
    ASSUME NEW m, NEW n \in Nat, NEW b \in Seq(Pieces), HasBody(b, m, n)
    PROVE  /\ ~IsByte(m[n + 1]) => HasBody(b, m, n + 1)
           /\ IsByte(m[n + 1]) /\ m[n + 1] \in Pieces
                  => HasBody(Append(b, m[n + 1]), m, n + 1)
<1>1. /\ Len(b) = BytesUpTo(m, n) /\ BytesUpTo(m, n) \in Nat
      /\ \A i \in 1..n : IsByte(m[i]) =>
             /\ b[BytesUpTo(m, i)] = m[i]
             /\ BytesUpTo(m, i) \in 1..Len(b)
  BY CountFacts DEF HasBody
<1>2. \A i \in 1..(n + 1) : i \in 1..n \/ i = n + 1
  OBVIOUS
<1>3. CASE ~IsByte(m[n + 1])
  BY <1>1, <1>2, <1>3, CountFacts DEF HasBody
<1>4. CASE IsByte(m[n + 1]) /\ m[n + 1] \in Pieces
  <2> DEFINE c == Append(b, m[n + 1])
  <2>1. /\ Len(c) = Len(b) + 1 /\ c[Len(b) + 1] = m[n + 1]
        /\ \A j \in 1..Len(b) : c[j] = b[j]
    BY <1>4, AppendProperties
  <2>2. BytesUpTo(m, n + 1) = Len(b) + 1
    BY <1>1, <1>4, CountFacts
  <2> HIDE DEF c
  <2>3. \A i \in 1..(n + 1) : IsByte(m[i]) => c[BytesUpTo(m, i)] = m[i]
    BY <1>1, <1>2, <2>1, <2>2
  <2> QED BY <1>4, <2>1, <2>2, <2>3 DEF HasBody, c
<1> QED BY <1>3, <1>4

-----------------------------------------------------------------------------
(* The stream *)

LEMMA SentFacts ==
    ASSUME OrderTypes
    PROVE  /\ Len(sent) \in Nat
           /\ \A i \in 1..Len(sent) : /\ sent[i] \in Responses \cup Unasked
                                      /\ Len(sent[i]) \in Nat
                                      /\ Len(sent[i]) > 1
<1>1. /\ Len(sent) \in Nat
      /\ \A i \in 1..Len(sent) : sent[i] \in Responses \cup Unasked
  BY DEF OrderTypes
<1> QED BY <1>1, ResponseFacts

\* The piece that follows the n-th of a response: its next one, or the first
\* of the next response.
LEMMA NextPiece ==
    ASSUME OrderTypes, Types, NEW starts, NEW w \in Nat, Offsets(starts),
           Stream(starts, w), NEW k \in Nat, NEW n \in Nat,
           Parsed(starts, w, k, n), pos < Len(buffer)
    PROVE  /\ k \in 1..Len(sent)
           /\ n < Len(sent[k]) => buffer[pos + 1] = sent[k][n + 1]
           /\ n >= Len(sent[k]) =>
                  /\ k + 1 \in 1..Len(sent) /\ n = Len(sent[k])
                  /\ buffer[pos + 1] = sent[k + 1][1]
                  /\ w - Len(buffer) + pos = starts[k + 1]
<1> DEFINE N == Len(sent)
           B == Len(buffer)
           S(i) == starts[i]
<1>1. N \in Nat /\ B \in Nat /\ Len(wire) \in Nat /\ pos \in Nat
  BY SentFacts DEF Types
<1>2. pos < B /\ pos + 1 \in 1..B
  BY <1>1
<1>3. \A i \in 1..(N + 1) : S(i) \in Nat
  BY <1>1 DEF Offsets
<1>4. w + Len(wire) <= S(N + 1) /\ S(N + 1) \in Nat
  BY <1>1, <1>3 DEF Stream
<1>5. k \in 1..(N + 1) /\ w - B + pos = S(k) + n /\ S(k) \in Nat
  BY <1>3 DEF Parsed
<1>6. w - B + pos < S(N + 1)
  <2> HIDE DEF S, N, B
  <2> QED BY <1>1, <1>2, <1>4
<1>7. k \in 1..N
  <2> HIDE DEF S, N, B
  <2>1. ASSUME k = N + 1 PROVE FALSE
    <3>1. S(N + 1) + n = w - B + pos
      BY <1>5, <2>1
    <3> QED BY <1>1, <1>4, <1>6, <3>1
  <2> QED BY <1>1, <1>5, <2>1
<1>8. Len(sent[k]) \in Nat /\ Len(sent[k]) > 1 /\ n <= Len(sent[k])
  <2>1. Len(sent[k]) \in Nat /\ Len(sent[k]) > 1
    BY <1>7, SentFacts
  <2> QED BY <2>1 DEF Parsed
<1>9. ASSUME NEW i \in 1..N, NEW j \in 1..Len(sent[i]),
             S(i) + j = w - B + (pos + 1)
      PROVE  buffer[pos + 1] = sent[i][j]
  BY <1>2, <1>9 DEF Stream
<1>10. CASE n < Len(sent[k])
  <2>1. n + 1 \in 1..Len(sent[k])
    BY <1>8, <1>10
  <2>2. S(k) + (n + 1) = w - B + (pos + 1)
    <3>1. w - B + pos = S(k) + n /\ S(k) \in Nat
      BY <1>5
    <3> HIDE DEF S, N, B
    <3> QED BY <1>1, <3>1
  <2>3. buffer[pos + 1] = sent[k][n + 1]
    BY <1>7, <1>9, <2>1, <2>2
  <2> QED BY <1>7, <1>8, <1>10, <2>3
<1>11. CASE n = Len(sent[k])
  <2>1. S(k + 1) = S(k) + n
    BY <1>7, <1>11 DEF Offsets
  <2>2. w - B + pos = S(k + 1)
    BY <1>5, <2>1
  <2>3. k + 1 \in 1..N
    <3> HIDE DEF S, N, B
    <3>1. k + 1 # N + 1
      BY <1>1, <1>4, <1>6, <2>2
    <3> QED BY <1>1, <1>7, <3>1
  <2>4. 1 \in 1..Len(sent[k + 1]) /\ S(k + 1) \in Nat
    <3>1. Len(sent[k + 1]) \in Nat /\ Len(sent[k + 1]) > 1
      BY <2>3, SentFacts
    <3>2. S(k + 1) \in Nat
      BY <1>1, <1>3, <2>3
    <3> QED BY <3>1, <3>2
  <2>5. S(k + 1) + 1 = w - B + (pos + 1)
    <3> HIDE DEF S, N, B
    <3> QED BY <1>1, <2>2, <2>4
  <2>6. buffer[pos + 1] = sent[k + 1][1]
    BY <1>9, <2>3, <2>4, <2>5
  <2> QED BY <1>7, <1>11, <2>2, <2>3, <2>6
<1>12. n < Len(sent[k]) \/ n = Len(sent[k])
  BY <1>8
<1> QED BY <1>8, <1>10, <1>11, <1>12

\* recv() takes n pieces off the wire; the buffer's last ones were parsed.
LEMMA TakeKeeps ==
    ASSUME OrderTypes, Types, NEW starts, NEW w \in Nat, Offsets(starts),
           Stream(starts, w), NEW n \in Nat, 1 <= n, CbRecv(n),
           pos = Len(buffer)
    PROVE  /\ Offsets(starts)' /\ Stream(starts, w + n)'
           /\ \A k, i : Parsed(starts, w, k, i) => Parsed(starts, w + n, k, i)'
<1>1. /\ buffer' = SubSeq(wire, 1, n) /\ wire' = SubSeq(wire, n + 1, Len(wire))
      /\ pos' = 0 /\ sent' = sent /\ closed' = closed
      /\ n \in 1..Len(wire)
  BY DEF CbRecv
<1>2. /\ Len(wire) \in Nat /\ n <= Len(wire) /\ Len(buffer) \in Nat
      /\ \A j \in 1..Len(wire) : wire[j] \in Pieces
  BY <1>1 DEF Types
<1>3. /\ Len(buffer') = n /\ \A j \in 1..n : buffer'[j] = wire[j]
  <2>1. \A j \in 1..n : wire[j] \in Pieces
    BY <1>2
  <2>2. /\ Len(SubSeq(wire, 1, n)) = n
        /\ \A j \in 1..n : SubSeq(wire, 1, n)[j] = wire[j]
    BY <2>1, SubSeqProperties
  <2> QED BY <1>1, <2>2
<1>4. /\ Len(wire') = Len(wire) - n
      /\ \A j \in 1..(Len(wire) - n) : wire'[j] = wire[n + j]
  <2>1. \A j \in (n + 1)..Len(wire) : wire[j] \in Pieces
    BY <1>2
  <2> DEFINE s == SubSeq(wire, n + 1, Len(wire))
  <2>2. /\ Len(s) = IF n + 1 <= Len(wire) THEN Len(wire) - (n + 1) + 1 ELSE 0
        /\ \A j \in 1..(Len(wire) - (n + 1) + 1) : s[j] = wire[n + 1 + j - 1]
    BY <1>2, <2>1, SubSeqProperties
  <2>3. Len(s) = Len(wire) - n
    BY <1>2, <2>2
  <2>4. ASSUME NEW j \in 1..(Len(wire) - n) PROVE s[j] = wire[n + j]
    <3>1. /\ j \in 1..(Len(wire) - (n + 1) + 1) /\ n + 1 + j - 1 = n + j
      BY <1>2
    <3> QED BY <2>2, <3>1
  <2> QED BY <1>1, <2>3, <2>4
<1>5. Offsets(starts)'
  BY <1>1 DEF Offsets
<1>6. ASSUME NEW i \in 1..Len(sent), NEW l \in 1..Len(sent[i])
      PROVE  /\ \A j \in 1..Len(wire') :
                    starts[i] + l = w + n + j => wire'[j] = sent[i][l]
             /\ \A j \in 1..Len(buffer') :
                    starts[i] + l = w + n - Len(buffer') + j
                        => buffer'[j] = sent[i][l]
  <2>1. ASSUME NEW j \in 1..Len(wire), starts[i] + l = w + j
        PROVE  wire[j] = sent[i][l]
    BY <2>1 DEF Stream
  <2>2. ASSUME NEW j \in 1..Len(wire'), starts[i] + l = w + n + j
        PROVE  wire'[j] = sent[i][l]
    <3>1. j \in 1..(Len(wire) - n)
      BY <1>4
    <3>2. n + j \in 1..Len(wire) /\ w + n + j = w + (n + j)
      BY <1>2, <3>1
    <3>3. wire[n + j] = sent[i][l]
      BY <2>1, <2>2, <3>2
    <3> QED BY <1>4, <3>1, <3>3
  <2>3. ASSUME NEW j \in 1..Len(buffer'),
               starts[i] + l = w + n - Len(buffer') + j
        PROVE  buffer'[j] = sent[i][l]
    <3>1. j \in 1..n
      BY <1>3
    <3>2. j \in 1..Len(wire) /\ w + n - n + j = w + j
      BY <1>2, <3>1
    <3>3. wire[j] = sent[i][l]
      BY <1>3, <2>1, <2>3, <3>2
    <3> QED BY <1>3, <3>1, <3>3
  <2> QED BY <2>2, <2>3
<1>7. Stream(starts, w + n)'
  <2>1. w + n \in Nat /\ Len(buffer') <= w + n
    BY <1>3
  <2>2. w + n + Len(wire') = w + Len(wire)
    BY <1>2, <1>4
  <2>3. /\ w + Len(wire) <= starts[Len(sent) + 1]
        /\ closed \/ w + Len(wire) = starts[Len(sent) + 1]
    BY DEF Stream
  <2>4. sent' = sent /\ closed' = closed
    BY <1>1
  <2> QED BY <1>6, <2>1, <2>2, <2>3, <2>4 DEF Stream
<1>8. ASSUME NEW k, NEW i, Parsed(starts, w, k, i)
      PROVE  Parsed(starts, w + n, k, i)'
  <2>1. w + n - Len(buffer') + pos' = w - Len(buffer) + pos
    BY <1>1, <1>2, <1>3
  <2>2. sent' = sent
    BY <1>1
  <2> QED BY <1>8, <2>1, <2>2 DEF Parsed
<1> QED BY <1>5, <1>7, <1>8

\* The server appends a response, of which nothing is taken yet.
LEMMA SendKeeps ==
    ASSUME OrderTypes, Types, NEW starts, NEW w, Offsets(starts),
           Stream(starts, w), NEW m \in Responses \cup Unasked, Send(m)
    PROVE  /\ OrderTypes' /\ Len(sent') = Len(sent) + 1
           /\ \A i \in 1..Len(sent) : sent'[i] = sent[i]
           /\ \E f : /\ Offsets(f)' /\ Stream(f, w)'
                     /\ \A k, i : Parsed(starts, w, k, i) => Parsed(f, w, k, i)'
<1> DEFINE N == Len(sent)
           g == [i \in 1..(N + 2) |->
                    IF i = N + 2 THEN starts[N + 1] + Len(m) ELSE starts[i]]
<1>1. /\ ~closed /\ wire' = wire \o m /\ sent' = Append(sent, m)
      /\ UNCHANGED <<closed, buffer, pos, acc, returned>>
  BY DEF Send, parseVars, luaVars
<1>2. /\ N \in Nat /\ sent \in Seq(Responses \cup Unasked)
      /\ \A i \in 1..N : Len(sent[i]) \in Nat
      /\ m \in Seq(Pieces) /\ Len(m) \in Nat /\ Len(m) > 1
      /\ wire \in Seq(Pieces) /\ Len(wire) \in Nat /\ Len(buffer) \in Nat
      /\ w \in Nat
  BY SentFacts, ResponseFacts DEF OrderTypes, Types, Stream
<1>3. /\ sent' \in Seq(Responses \cup Unasked) /\ Len(sent') = N + 1
      /\ \A i \in 1..N : sent'[i] = sent[i]
      /\ sent'[N + 1] = m
  BY <1>1, <1>2, AppendProperties
<1>4. /\ Len(wire') = Len(wire) + Len(m)
      /\ \A j \in 1..Len(wire) : wire'[j] = wire[j]
      /\ \A j \in 1..Len(m) : wire'[Len(wire) + j] = m[j]
  BY <1>1, <1>2, ConcatProperties
<1> HIDE DEF N
<1>5. /\ starts \in [1..(N + 1) -> Nat] /\ starts[1] = 0
      /\ \A i \in 1..N : starts[i + 1] = starts[i] + Len(sent[i])
      /\ \A i, j \in 1..(N + 1) : i <= j => starts[i] <= starts[j]
      /\ w + Len(wire) = starts[N + 1] /\ Len(buffer) <= w
  BY <1>1 DEF Offsets, Stream, N
<1>6. PICK f :
             /\ f \in [1..(N + 2) -> Nat]
             /\ \A i \in 1..(N + 1) : f[i] = starts[i]
             /\ f[N + 2] = starts[N + 1] + Len(m)
  <2>1. /\ g \in [1..(N + 2) -> Nat]
        /\ \A i \in 1..(N + 1) : g[i] = starts[i]
        /\ g[N + 2] = starts[N + 1] + Len(m)
    BY <1>2, <1>5
  <2> QED BY <2>1
<1> HIDE DEF g
<1>7. Offsets(f)'
  <2>1. f \in [1..(Len(sent') + 1) -> Nat] /\ f[1] = 0
    BY <1>2, <1>3, <1>5, <1>6
  <2>2. ASSUME NEW i \in 1..Len(sent')
        PROVE  f[i + 1] = f[i] + Len(sent'[i])
    <3>1. i \in 1..N \/ i = N + 1
      BY <1>2, <1>3
    <3>2. CASE i \in 1..N
      <4>1. /\ i \in 1..(N + 1) /\ i + 1 \in 1..(N + 1)
            /\ sent'[i] = sent[i]
        BY <1>2, <1>3, <3>2
      <4>2. f[i] = starts[i] /\ f[i + 1] = starts[i + 1]
        BY <1>6, <4>1
      <4> QED BY <1>5, <3>2, <4>1, <4>2
    <3>3. CASE i = N + 1
      <4>1. i + 1 = N + 2 /\ i \in 1..(N + 1)
        BY <1>2, <3>3
      <4> QED BY <1>3, <1>6, <3>3, <4>1
    <3> QED BY <3>1, <3>2, <3>3
  <2>3. ASSUME NEW i \in 1..(Len(sent') + 1), NEW j \in 1..(Len(sent') + 1),
               i <= j
        PROVE  f[i] <= f[j]
    <3>1. /\ i \in 1..(N + 1) \/ i = N + 2
          /\ j \in 1..(N + 1) \/ j = N + 2
          /\ N + 1 \in 1..(N + 1)
      <4>1. N \in Nat /\ Len(sent') = N + 1
        BY <1>2, <1>3
      <4> QED BY <4>1
    <3>2. CASE j \in 1..(N + 1)
      <4>1. i \in 1..(N + 1)
        BY <1>2, <2>3, <3>1, <3>2
      <4>2. f[i] = starts[i] /\ f[j] = starts[j]
        BY <1>6, <3>2, <4>1
      <4> QED BY <1>5, <2>3, <3>2, <4>1, <4>2
    <3>3. CASE i \in 1..(N + 1) /\ j = N + 2
      <4>1. starts[i] <= starts[N + 1]
        BY <1>2, <1>5, <3>1, <3>3
      <4> QED BY <1>2, <1>5, <1>6, <3>1, <3>3, <4>1
    <3>4. CASE i = N + 2 /\ j = N + 2
      BY <1>2, <1>5, <1>6, <3>1, <3>4
    <3>5. N \in Nat
      BY <1>2
    <3>6. i = N + 2 => j = N + 2
      BY <2>3, <3>1, <3>5
    <3> QED BY <3>1, <3>2, <3>3, <3>4, <3>6
  <2>4. \A i, j \in 1..(Len(sent') + 1) : i <= j => f[i] <= f[j]
    BY <2>3
  <2> QED BY <2>1, <2>2, <2>4 DEF Offsets
<1>8. ASSUME NEW i \in 1..Len(sent'), NEW l \in 1..Len(sent'[i])
      PROVE  /\ \A j \in 1..Len(wire') :
                    f[i] + l = w + j => wire'[j] = sent'[i][l]
             /\ \A j \in 1..Len(buffer) :
                    f[i] + l = w - Len(buffer) + j => buffer[j] = sent'[i][l]
  <2>1. i \in 1..N \/ i = N + 1
    BY <1>2, <1>3
  <2>2. CASE i \in 1..N
    <3>1. /\ sent'[i] = sent[i] /\ f[i] = starts[i] /\ f[i] \in Nat
          /\ l \in 1..Len(sent[i]) /\ Len(sent[i]) \in Nat
      BY <1>2, <1>3, <1>5, <1>6, <2>2
    <3>2. starts[i] + l <= w + Len(wire)
      <4>1. i + 1 \in 1..(N + 1) /\ N + 1 \in 1..(N + 1) /\ i + 1 <= N + 1
        BY <1>2, <2>2
      <4>2. starts[i + 1] <= starts[N + 1] /\ starts[i + 1] \in Nat
        BY <1>5, <4>1
      <4>3. starts[i + 1] = starts[i] + Len(sent[i]) /\ starts[i] \in Nat
        BY <1>5, <2>2, <3>1
      <4>4. w + Len(wire) = starts[N + 1] /\ w \in Nat /\ Len(wire) \in Nat
        BY <1>2, <1>5
      <4>5. l \in Nat /\ l <= Len(sent[i]) /\ Len(sent[i]) \in Nat
        BY <3>1
      <4> QED BY <4>2, <4>3, <4>4, <4>5, Z3
    <3>3. /\ \A j \in 1..Len(wire) :
                 starts[i] + l = w + j => wire[j] = sent[i][l]
          /\ \A j \in 1..Len(buffer) :
                 starts[i] + l = w - Len(buffer) + j => buffer[j] = sent[i][l]
      BY <2>2, <3>1 DEF Stream, N
    <3>4. ASSUME NEW j \in 1..Len(wire'), f[i] + l = w + j
          PROVE  wire'[j] = sent'[i][l]
      <4>1. j \in 1..Len(wire)
        BY <1>2, <1>4, <3>1, <3>2, <3>4
      <4> QED BY <1>4, <3>1, <3>3, <3>4, <4>1
    <3> QED BY <3>1, <3>3, <3>4
  <2>3. CASE i = N + 1
    <3>1. /\ sent'[i] = m /\ f[i] = w + Len(wire) /\ l \in 1..Len(m)
      BY <1>2, <1>3, <1>5, <1>6, <2>3
    <3>2. ASSUME NEW j \in 1..Len(wire'), f[i] + l = w + j
          PROVE  wire'[j] = sent'[i][l]
      <4>1. j = Len(wire) + l
        <5>1. /\ w \in Nat /\ Len(wire) \in Nat /\ l \in Nat
              /\ Len(wire') \in Nat /\ j \in 1..Len(wire')
          BY <1>2, <1>4, <3>1
        <5>2. w + Len(wire) + l = w + j
          BY <3>1, <3>2
        <5>3. Len(wire) + l = j
          BY <5>1, <5>2, Z3
        <5> QED BY <5>3
      <4> QED BY <1>4, <3>1, <4>1
    <3>3. \A j \in 1..Len(buffer) : f[i] + l # w - Len(buffer) + j
      <4>1. /\ w \in Nat /\ Len(wire) \in Nat /\ l \in Nat /\ l >= 1
            /\ Len(buffer) \in Nat
        BY <1>2, <3>1
      <4>2. \A j \in 1..Len(buffer) : w + Len(wire) + l > w - Len(buffer) + j
        BY <4>1
      <4>3. f[i] + l = w + Len(wire) + l
        BY <3>1
      <4> QED BY <4>1, <4>2, <4>3
    <3> QED BY <3>2, <3>3
  <2> QED BY <2>1, <2>2, <2>3
<1>9. Stream(f, w)'
  <2>1. w + Len(wire') = f[Len(sent') + 1]
    BY <1>2, <1>3, <1>4, <1>5, <1>6
  <2>2. f[Len(sent') + 1] \in Nat
    BY <1>2, <1>3, <1>6
  <2>3. w \in Nat /\ Len(buffer') <= w /\ buffer' = buffer
    BY <1>1, <1>2, <1>5
  <2>4. w + Len(wire') <= f[Len(sent') + 1]
    BY <2>1, <2>2
  <2>5. ASSUME NEW i \in 1..Len(sent'), NEW l \in 1..Len(sent'[i])
        PROVE  /\ \A j \in 1..Len(wire') :
                      f[i] + l = w + j => wire'[j] = sent'[i][l]
               /\ \A j \in 1..Len(buffer') :
                      f[i] + l = w - Len(buffer') + j
                          => buffer'[j] = sent'[i][l]
    BY <1>8, <2>3
  <2> QED BY <2>1, <2>3, <2>4, <2>5 DEF Stream
<1>10. ASSUME NEW k, NEW i, Parsed(starts, w, k, i) PROVE Parsed(f, w, k, i)'
  <2>1. /\ k \in 1..(N + 1) /\ i \in Nat
        /\ w - Len(buffer) + pos = starts[k] + i
        /\ i > 0 => k <= N /\ i <= Len(sent[k])
    BY <1>10 DEF Parsed, N
  <2>2. N \in Nat /\ Len(sent') = N + 1
    BY <1>2, <1>3
  <2>3. k \in 1..(Len(sent') + 1)
    BY <2>1, <2>2
  <2>4. w - Len(buffer') + pos' = f[k] + i
    <3>1. f[k] = starts[k]
      BY <1>6, <2>1
    <3> QED BY <1>1, <2>1, <3>1
  <2>5. ASSUME i > 0 PROVE k <= Len(sent') /\ i <= Len(sent'[k])
    <3>1. k \in 1..N
      BY <2>1, <2>2, <2>5
    <3>2. sent'[k] = sent[k]
      BY <1>3, <3>1
    <3> QED BY <2>1, <2>2, <2>5, <3>1, <3>2
  <2> QED BY <2>1, <2>3, <2>4, <2>5 DEF Parsed
<1>11. OrderTypes'
  BY <1>1, <1>3 DEF OrderTypes
<1> QED BY <1>3, <1>7, <1>9, <1>10, <1>11 DEF N

LEMMA CloseKeeps ==
    ASSUME OrderTypes, Types, NEW starts, NEW w, Offsets(starts),
           Stream(starts, w), ServerCloses
    PROVE  Offsets(starts)' /\ Stream(starts, w)'
<1>1. PICK n \in 0..Len(wire) : wire' = SubSeq(wire, 1, n)
  BY DEF ServerCloses
<1>2. /\ closed' /\ UNCHANGED <<sent, buffer, pos>>
      /\ wire \in Seq(Pieces) /\ Len(wire) \in Nat /\ n \in Nat /\ w \in Nat
      /\ starts[Len(sent) + 1] \in Nat
  BY SentFacts DEF ServerCloses, parseVars, Types, Stream, Offsets
<1>3. Len(wire') = n /\ \A j \in 1..n : wire'[j] = wire[j]
  <2>1. \A j \in 1..n : wire[j] \in Pieces
    BY <1>2
  <2> QED BY <1>1, <1>2, <2>1, SubSeqProperties
<1>4. Offsets(starts)'
  BY <1>2 DEF Offsets
<1>5. w + Len(wire') <= starts[Len(sent) + 1]
  BY <1>2, <1>3 DEF Stream
<1>6. \A j \in 1..Len(wire') : j \in 1..Len(wire) /\ wire'[j] = wire[j]
  BY <1>2, <1>3
<1>7. ASSUME NEW i \in 1..Len(sent'), NEW l \in 1..Len(sent'[i])
      PROVE  /\ \A j \in 1..Len(wire') :
                    starts[i] + l = w + j => wire'[j] = sent'[i][l]
             /\ \A j \in 1..Len(buffer') :
                    starts[i] + l = w - Len(buffer') + j
                        => buffer'[j] = sent'[i][l]
  <2>1. sent' = sent /\ buffer' = buffer
    BY <1>2
  <2>2. /\ \A j \in 1..Len(wire) :
               starts[i] + l = w + j => wire[j] = sent[i][l]
        /\ \A j \in 1..Len(buffer) :
               starts[i] + l = w - Len(buffer) + j => buffer[j] = sent[i][l]
    BY <2>1 DEF Stream
  <2> QED BY <1>6, <2>1, <2>2
<1>8. Stream(starts, w)'
  <2>1. w \in Nat /\ Len(buffer') <= w
    BY <1>2 DEF Stream
  <2>2. w + Len(wire') <= starts[Len(sent') + 1] /\ closed'
    BY <1>2, <1>5
  <2> QED BY <1>7, <2>1, <2>2 DEF Stream
<1> QED BY <1>4, <1>8

-----------------------------------------------------------------------------
(* What one piece does to the parser, and what it calls. *)

LEMMA StartPiece ==
    ASSUME NEW p \in Parsers, NEW t \in Pieces, p.state = "start_res"
    PROVE  /\ t.k = "begin" =>
                  /\ Execute(p, t).calls = <<"message_begin">>
                  /\ Execute(p, t).parser.state = "res_line"
                  /\ Execute(p, t).parser.flags = {}
                  /\ Execute(p, t).parser.content_length = NoLength
           /\ t.k \notin {"begin", "stray"} => Execute(p, t).parser.failed
<1> DEFINE q == [p EXCEPT !.flags = {}, !.content_length = NoLength]
           b == [q EXCEPT !.state = "res_line"]
<1>1. Execute(p, t) =
          CASE t.k = "begin" -> Result(b, <<"message_begin">>)
            [] t.k = "stray" -> Result(q, <<"message_begin">>)
            [] OTHER -> Failed(q)
  BY DEF Execute, InStart
<1>2. /\ b.state = "res_line" /\ b.flags = {}
      /\ b.content_length = NoLength
  BY DEF Parsers
<1>3. Failed(q).parser.failed
  BY DEF Failed, Quiet, Result, Parsers
<1> HIDE DEF b, q
<1>4. t.k = "begin" => Execute(p, t) = Result(b, <<"message_begin">>)
  BY <1>1
<1>5. t.k \notin {"begin", "stray"} => Execute(p, t) = Failed(q)
  BY <1>1
<1> QED BY <1>2, <1>3, <1>4, <1>5, ResultShape

LEMMA DeadPiece ==
    ASSUME NEW p \in Parsers, NEW t \in Pieces, p.state = "dead",
           t.k # "stray"
    PROVE  Execute(p, t).parser.failed
<1>1. Execute(p, t) = Failed(p)
  BY DEF Execute, InDead
<1> QED BY <1>1, FailedShape

LEMMA LinePiece ==
    ASSUME NEW p \in Parsers, NEW t \in Pieces, p.state = "res_line",
           t.k = "line"
    PROVE  /\ Execute(p, t).calls = <<>>
           /\ Execute(p, t).parser.state = "header_field_start"
           /\ Execute(p, t).parser.flags = p.flags
           /\ Execute(p, t).parser.content_length = p.content_length
           /\ Execute(p, t).parser.status_code = t.code
<1> DEFINE q == [p EXCEPT !.status_code = t.code, !.minor = t.minor,
                          !.state = "header_field_start"]
<1>1. Execute(p, t) = Result(q, <<>>)
  BY DEF Execute, InLine, Quiet
<1>2. /\ q.state = "header_field_start" /\ q.flags = p.flags
      /\ q.content_length = p.content_length /\ q.status_code = t.code
  BY DEF Parsers
<1> HIDE DEF q
<1> QED BY <1>1, <1>2, ResultShape

\* A field, in the header and in the trailer.
LEMMA FieldPiece ==
    ASSUME NEW p \in Parsers, NEW t \in Pieces, p.state = "header_field_start",
           t.k = "field"
    PROVE  /\ Execute(p, t).calls = <<"header">>
           /\ Execute(p, t).parser.state = "header_field_start"
           /\ Execute(p, t).parser.flags = p.flags \cup FieldFlags(t.f)
           /\ Execute(p, t).parser.content_length
                  = IF t.f = "length" THEN t.n ELSE p.content_length
           /\ Execute(p, t).parser.status_code = p.status_code
<1> DEFINE fl == p.flags \cup FieldFlags(t.f)
           c == IF t.f = "length" THEN t.n ELSE p.content_length
           q == [p EXCEPT !.flags = fl, !.content_length = c]
<1>1. Execute(p, t) = Result(q, <<"header">>)
  BY DEF Execute, InHeader, Field
<1> HIDE DEF fl, c
<1>2. /\ q.state = "header_field_start" /\ q.flags = fl
      /\ q.content_length = c /\ q.status_code = p.status_code
  BY DEF Parsers
<1> HIDE DEF q
<1> QED BY <1>1, <1>2, ResultShape DEF fl, c

LEMMA HeaderOther ==
    ASSUME NEW p \in Parsers, NEW t \in Pieces, p.state = "header_field_start",
           t.k \notin {"field", "end"}
    PROVE  Execute(p, t).parser.failed
<1>1. Execute(p, t) = Failed(p)
  BY DEF Execute, InHeader
<1> QED BY <1>1, FailedShape

\* Where the end of a header leads.
LEMMA EndPiece ==
    ASSUME NEW p \in Parsers, NEW t \in Pieces, p.state = "header_field_start",
           t.k = "end", "trailing" \notin p.flags, NEW r, r = Execute(p, t)
    PROVE  \/ r.parser.state = "upgraded"
           \/ /\ r.calls = <<"headers_complete">>
              /\ r.parser.state = "chunk_size_start" /\ "chunked" \in p.flags
              /\ r.parser.flags = p.flags
           \/ /\ r.calls = <<"headers_complete">>
              /\ r.parser.state = "body_identity" /\ "chunked" \notin p.flags
              /\ r.parser.content_length = p.content_length
              /\ p.content_length > 0
           \/ /\ r.calls = <<"headers_complete">>
              /\ r.parser.state = "body_identity_eof"
           \/ /\ r.calls = <<"headers_complete", "message_complete">>
              /\ r.parser.state \in {"start_res", "dead"}
              /\ "chunked" \notin p.flags /\ ~(p.content_length > 0)
              /\ p.content_length = NoLength => p.status_code # "200"
<1> DEFINE done == <<"headers_complete">>
           I(state) == [p EXCEPT !.state = state]
<1>1. r = HeadersDone(p)
  BY DEF Execute, InHeader
<1>2. ASSUME NEW state
      PROVE  /\ I(state).state = state /\ I(state).flags = p.flags
             /\ I(state).content_length = p.content_length
  BY DEF Parsers
<1>3. ASSUME NEW state, r = Result(I(state), done)
      PROVE  /\ r.parser.state = state /\ r.calls = <<"headers_complete">>
             /\ r.parser.flags = p.flags
             /\ r.parser.content_length = p.content_length
  <2>1. r.parser = I(state) /\ r.calls = done
    BY <1>3, ResultShape
  <2> QED BY <1>2, <2>1
<1>4. CASE "upgrade" \in p.flags
  <2>1. r = Result(I("upgraded"), Append(done, "message_complete"))
    BY <1>1, <1>4 DEF HeadersDone
  <2>2. r.parser = I("upgraded")
    BY <2>1, ResultShape
  <2> QED BY <1>2, <2>2
<1>5. CASE "upgrade" \notin p.flags /\ "chunked" \in p.flags
  <2>1. r = Result(I("chunk_size_start"), done)
    BY <1>1, <1>5 DEF HeadersDone
  <2> QED BY <1>3, <1>5, <2>1
<1>6. CASE /\ "upgrade" \notin p.flags /\ "chunked" \notin p.flags
           /\ p.content_length > 0
  <2>1. r = Result(I("body_identity"), done)
    BY <1>1, <1>6 DEF HeadersDone
  <2> QED BY <1>3, <1>6, <2>1
<1>7. CASE /\ "upgrade" \notin p.flags /\ "chunked" \notin p.flags
           /\ ~(p.content_length > 0)
  <2>1. CASE NeedsEof(p)
    <3>1. r = Result(I("body_identity_eof"), done)
      BY <1>1, <1>7, <2>1 DEF HeadersDone
    <3> QED BY <1>3, <3>1
  <2>2. CASE ~NeedsEof(p)
    <3>1. r = Complete(p, done)
      BY <1>1, <1>7, <2>2 DEF HeadersDone
    <3>2. /\ r.parser.state \in {"start_res", "dead"}
          /\ r.calls = Append(done, "message_complete")
      BY <3>1 DEF Complete, Result, Parsers
    <3>3. p.content_length = NoLength => p.status_code # "200"
      BY <1>7, <2>2 DEF NeedsEof
    <3> QED BY <1>7, <3>2, <3>3, AppendPair
  <2> QED BY <2>1, <2>2
<1> QED BY <1>4, <1>5, <1>6, <1>7

LEMMA TrailerEnd ==
    ASSUME NEW p \in Parsers, NEW t \in Pieces, p.state = "header_field_start",
           t.k = "end", "trailing" \in p.flags
    PROVE  /\ Execute(p, t).calls = <<"message_complete">>
           /\ Execute(p, t).parser.state \in {"start_res", "dead"}
<1>1. Execute(p, t) = Complete(p, <<>>)
  BY DEF Execute, InHeader, HeadersDone
<1>2. Append(<<>>, "message_complete") = <<"message_complete">>
  BY AppendProperties
<1> QED BY <1>1, <1>2 DEF Complete, Result, Parsers

\* A byte of a body whose length is known.
LEMMA BodyPiece ==
    ASSUME NEW p \in Parsers, NEW t \in Pieces, p.state = "body_identity"
    PROVE  IF p.content_length = 1
           THEN /\ Execute(p, t).calls = <<"body", "message_complete">>
                /\ Execute(p, t).parser.state \in {"start_res", "dead"}
           ELSE /\ Execute(p, t).calls = <<"body">>
                /\ Execute(p, t).parser.state = "body_identity"
                /\ Execute(p, t).parser.content_length = p.content_length - 1
<1> DEFINE c == p.content_length - 1
           q == [p EXCEPT !.content_length = c]
<1>1. Execute(p, t) = IF q.content_length = 0 THEN Complete(q, <<"body">>)
                                              ELSE Result(q, <<"body">>)
  BY DEF Execute, InBody
<1>2. p.content_length \in Int
  BY DEF Parsers
<1>3. c = 0 <=> p.content_length = 1
  BY <1>2
<1> HIDE DEF c
<1>4. q.content_length = c /\ q.state = "body_identity" /\ q \in [
          state : States, flags : SUBSET Flags, minor : {0, 1},
          content_length : {c}, status_code : Codes, failed : BOOLEAN]
  BY DEF Parsers
<1> HIDE DEF q
<1>5. CASE c = 0
  <2>1. Execute(p, t) = Complete(q, <<"body">>)
    BY <1>1, <1>4, <1>5
  <2>2. /\ Complete(q, <<"body">>).parser.state \in {"start_res", "dead"}
        /\ Complete(q, <<"body">>).calls
               = Append(<<"body">>, "message_complete")
    BY <1>4 DEF Complete, Result
  <2> QED BY <1>3, <1>5, <2>1, <2>2, AppendPair
<1>6. CASE c # 0
  BY <1>1, <1>3, <1>4, <1>6, ResultShape DEF c
<1> QED BY <1>5, <1>6

LEMMA EofPiece ==
    ASSUME NEW p \in Parsers, NEW t \in Pieces, p.state = "body_identity_eof"
    PROVE  Execute(p, t).calls = <<"body">> /\ Execute(p, t).parser = p
<1> QED BY ResultShape DEF Execute

LEMMA SizePiece ==
    ASSUME NEW p \in Parsers, NEW t \in Pieces, p.state = "chunk_size_start"
    PROVE  /\ t.k # "size" => Execute(p, t).parser.failed
           /\ t.k = "size" => Execute(p, t).calls = <<>>
           /\ t.k = "size" /\ t.n = 0 =>
                  /\ Execute(p, t).parser.state = "header_field_start"
                  /\ "trailing" \in Execute(p, t).parser.flags
           /\ t.k = "size" /\ t.n # 0 =>
                  /\ Execute(p, t).parser.state = "chunk_data"
                  /\ Execute(p, t).parser.flags = p.flags
                  /\ Execute(p, t).parser.content_length = t.n
<1> DEFINE a == [p EXCEPT !.content_length = 0, !.flags = @ \cup {"trailing"},
                          !.state = "header_field_start"]
           b == [p EXCEPT !.content_length = t.n, !.state = "chunk_data"]
<1>1. Execute(p, t) = IF t.k # "size" THEN Failed(p)
                      ELSE IF t.n = 0 THEN Result(a, <<>>) ELSE Result(b, <<>>)
  BY DEF Execute, InChunkSize, Quiet
<1>2. a.state = "header_field_start" /\ "trailing" \in a.flags
  BY DEF Parsers
<1>3. b.state = "chunk_data" /\ b.flags = p.flags /\ b.content_length = t.n
  BY DEF Parsers
<1> HIDE DEF a, b
<1> QED BY <1>1, <1>2, <1>3, ResultShape, FailedShape

LEMMA DataPiece ==
    ASSUME NEW p \in Parsers, NEW t \in Pieces, p.state = "chunk_data"
    PROVE  /\ Execute(p, t).calls = <<"body">>
           /\ Execute(p, t).parser.flags = p.flags
           /\ Execute(p, t).parser.content_length = p.content_length - 1
           /\ Execute(p, t).parser.state
                  = IF p.content_length = 1 THEN "chunk_data_almost_done"
                                            ELSE "chunk_data"
<1> DEFINE c == p.content_length - 1
           n == IF p.content_length = 1 THEN "chunk_data_almost_done"
                                        ELSE p.state
           q == [p EXCEPT !.content_length = c, !.state = n]
<1>1. Execute(p, t) = Result(q, <<"body">>)
  BY DEF Execute, InChunkData
<1> HIDE DEF c, n
<1>2. q.content_length = c /\ q.state = n /\ q.flags = p.flags
  BY DEF Parsers
<1> HIDE DEF q
<1> QED BY <1>1, <1>2, ResultShape DEF c, n

LEMMA CrlfPiece ==
    ASSUME NEW p \in Parsers, NEW t \in Pieces,
           p.state = "chunk_data_almost_done"
    PROVE  /\ t.k # "crlf" => Execute(p, t).parser.failed
           /\ t.k = "crlf" =>
                  /\ Execute(p, t).calls = <<>>
                  /\ Execute(p, t).parser.state = "chunk_size_start"
                  /\ Execute(p, t).parser.flags = p.flags
<1> DEFINE q == [p EXCEPT !.state = "chunk_size_start"]
<1>1. Execute(p, t) = IF t.k = "crlf" THEN Result(q, <<>>) ELSE Failed(p)
  BY DEF Execute, InChunkEnd, Quiet
<1>2. q.state = "chunk_size_start" /\ q.flags = p.flags
  BY DEF Parsers
<1> HIDE DEF q
<1> QED BY <1>1, <1>2, ResultShape, FailedShape

-----------------------------------------------------------------------------
(* What the callbacks do to the result table, below the header's two. *)

LEMMA Changed ==
    ASSUME NEW s \in Seq(Tables), NEW i \in 1..Len(s), NEW v \in Tables
    PROVE  /\ [s EXCEPT ![i] = v] \in Seq(Tables)
           /\ Len([s EXCEPT ![i] = v]) = Len(s)
           /\ [s EXCEPT ![i] = v][i] = v
           /\ \A j \in 1..Len(s) : j # i => [s EXCEPT ![i] = v][j] = s[j]
<1> QED BY ExceptSeq

\* A table with one more field, and with one more byte.
LEMMA Listed ==
    ASSUME NEW u \in Tables, NEW f \in Fields, NEW v,
           v = [u EXCEPT !.list = Append(@, f)]
    PROVE  /\ v \in Tables /\ v.list = Append(u.list, f) /\ v.keys = u.keys
           /\ v.headers = u.headers /\ v.body = u.body
           /\ v.status_code = u.status_code
<1>1. v \in Tables
  <2>1. [u EXCEPT !.list = Append(@, f)] \in Tables
    BY TableChanges, Zenon
  <2> QED BY <2>1
<1> QED BY <1>1 DEF Tables

LEMMA Bodied ==
    ASSUME NEW u \in Tables, NEW t \in Pieces, NEW v,
           v = [u EXCEPT !.body = Append(@, t), !.keys = @ \cup {"body"}]
    PROVE  /\ v \in Tables /\ v.body = Append(u.body, t)
           /\ v.keys = u.keys \cup {"body"}
           /\ v.headers = u.headers /\ v.status_code = u.status_code
<1>1. v \in Tables
  <2>1. [u EXCEPT !.body = Append(@, t), !.keys = @ \cup {"body"}] \in Tables
    BY TableChanges, Zenon
  <2> QED BY <2>1
<1> QED BY <1>1 DEF Tables

LEMMA TopOfOne ==
    ASSUME NEW s \in Seq(Tables), Len(s) = 1, NEW v \in Tables
    PROVE  /\ s[1] \in Tables /\ Last(s) = s[1]
           /\ SetTop(s, v) \in Seq(Tables) /\ Len(SetTop(s, v)) = 1
           /\ SetTop(s, v)[1] = v
<1>1. 1 \in 1..Len(s)
  OBVIOUS
<1>2. s[1] \in Tables
  BY <1>1, ElementOfSeq
<1>3. Last(s) = s[1] /\ SetTop(s, v) = [s EXCEPT ![1] = v]
  BY DEF SetTop, Last
<1>4. /\ [s EXCEPT ![1] = v] \in Seq(Tables) /\ Len([s EXCEPT ![1] = v]) = 1
      /\ [s EXCEPT ![1] = v][1] = v
  BY <1>1, ExceptSeq
<1> QED BY <1>2, <1>3, <1>4

LEMMA TopOfThree ==
    ASSUME NEW s \in Seq(Tables), Len(s) = 3, NEW v \in Tables
    PROVE  /\ s[1] \in Tables /\ s[3] \in Tables /\ Last(s) = s[3]
           /\ SetTop(s, v) \in Seq(Tables) /\ Len(SetTop(s, v)) = 3
           /\ SetTop(s, v)[3] = v /\ SetTop(s, v)[1] = s[1]
<1>1. 1 \in 1..Len(s) /\ 3 \in 1..Len(s)
  OBVIOUS
<1>2. s[1] \in Tables /\ s[3] \in Tables
  BY <1>1, ElementOfSeq
<1>3. SetTop(s, v) = [s EXCEPT ![3] = v] /\ Last(s) = s[3]
  BY DEF SetTop, Last
<1>4. PICK i \in 1..Len(s) : i = 3
  BY <1>1
<1>5. /\ [s EXCEPT ![i] = v] \in Seq(Tables)
      /\ Len([s EXCEPT ![i] = v]) = Len(s) /\ [s EXCEPT ![i] = v][i] = v
      /\ \A j \in 1..Len(s) : j # i => [s EXCEPT ![i] = v][j] = s[j]
  BY Changed
<1> QED BY <1>1, <1>2, <1>3, <1>4, <1>5

LEMMA BeginCall ==
    ASSUME NEW s \in Seq(Tables), Len(s) = 1, ~got_response
    PROVE  /\ OnMessageBegin(s) \in Seq(Tables) /\ Len(OnMessageBegin(s)) = 3
           /\ OnMessageBegin(s)[1] = s[1] /\ OnMessageBegin(s)[3] = Table
<1>1. /\ <<KeyHeaders, Table>> \in Seq(Tables)
      /\ Len(<<KeyHeaders, Table>>) = 2 /\ <<KeyHeaders, Table>>[2] = Table
  BY TableTypes
<1> HIDE DEF KeyHeaders, Table
<1>2. OnMessageBegin(s) = s \o <<KeyHeaders, Table>>
  BY DEF OnMessageBegin
<1> QED BY <1>1, <1>2, ConcatProperties

\* A field of the header is listed above, gzip is also noted below.
LEMMA HeaderCall ==
    ASSUME NEW s \in Seq(Tables), Len(s) = 3, NEW f \in Fields
    PROVE  /\ OnHeader(s, f) \in Seq(Tables) /\ Len(OnHeader(s, f)) = 3
           /\ OnHeader(s, f)[3].list = Append(s[3].list, f)
           /\ OnHeader(s, f)[1].keys
                  = s[1].keys \cup (IF f = "gzip" THEN {"is_gzipped"} ELSE {})
           /\ OnHeader(s, f)[1].headers = s[1].headers
           /\ OnHeader(s, f)[1].status_code = s[1].status_code
           /\ OnHeader(s, f)[1].body = s[1].body
<1> DEFINE v == [s[3] EXCEPT !.list = Append(@, f)]
           t == SetTop(s, v)
           w == [s[1] EXCEPT !.keys = @ \cup {"is_gzipped"}]
<1>1. s[1] \in Tables /\ s[3] \in Tables /\ Last(s) = s[3]
  BY TopOfThree, TableTypes
<1>2. v \in Tables /\ v.list = Append(s[3].list, f)
  BY <1>1, Listed, Zenon
<1>3. /\ w.keys = s[1].keys \cup {"is_gzipped"} /\ w.headers = s[1].headers
      /\ w.status_code = s[1].status_code /\ w.body = s[1].body
      /\ w \in Tables
  <2>1. {"is_gzipped"} \in SUBSET Keys
    BY DEF Keys
  <2>2. w \in Tables
    BY <1>1, <2>1, TableTypes
  <2> QED BY <1>1, <2>2 DEF Tables
<1>4. OnHeader(s, f) = IF f = "gzip" THEN [t EXCEPT ![1].keys = @ \cup {"is_gzipped"}]
                                     ELSE t
  BY <1>1 DEF OnHeader
<1> HIDE DEF v
<1>5. /\ t \in Seq(Tables) /\ Len(t) = 3 /\ t[3] = v /\ t[1] = s[1]
  BY <1>2, TopOfThree
<1> HIDE DEF t
<1>6. [t EXCEPT ![1].keys = @ \cup {"is_gzipped"}] = [t EXCEPT ![1] = w]
  BY <1>5
<1> HIDE DEF w
<1>7. CASE f = "gzip"
  <2>1. OnHeader(s, f) = [t EXCEPT ![1] = w]
    BY <1>4, <1>6, <1>7
  <2>2. /\ OnHeader(s, f) \in Seq(Tables) /\ Len(OnHeader(s, f)) = 3
        /\ OnHeader(s, f)[1] = w /\ OnHeader(s, f)[3] = v
    <3>1. 1 \in 1..Len(t)
      BY <1>5
    <3>2. 3 \in 1..Len(t)
      BY <1>5
    <3>3. /\ [t EXCEPT ![1] = w] \in Seq(Tables)
          /\ Len([t EXCEPT ![1] = w]) = Len(t)
          /\ [t EXCEPT ![1] = w][1] = w /\ [t EXCEPT ![1] = w][3] = t[3]
      BY <1>3, <1>5, <3>1, <3>2, Changed
    <3> QED BY <1>5, <2>1, <3>3
  <2> QED BY <1>2, <1>3, <1>7, <2>2
<1>8. CASE f # "gzip"
  BY <1>2, <1>4, <1>5, <1>8
<1> QED BY <1>7, <1>8

\* What receive() looks at.
SameContent(a, b) == /\ a.headers = b.headers /\ a.body = b.body
                     /\ a.status_code = b.status_code
                     /\ \A k \in Keys \ {"is_done"} :
                            k \in a.keys <=> k \in b.keys

\* A field of the trailer goes into a list that nobody reads.
LEMMA TrailerCall ==
    ASSUME NEW s \in Seq(Tables), Len(s) = 1, NEW f \in Fields
    PROVE  /\ OnHeader(s, f) \in Seq(Tables) /\ Len(OnHeader(s, f)) = 1
           /\ SameContent(OnHeader(s, f)[1], s[1])
           /\ OnHeader(s, f)[1].keys = s[1].keys
<1>1. PICK u : u = s[1]
  OBVIOUS
<1>2. u \in Tables /\ Last(s) = u
  <2>1. 1 \in 1..Len(s)
    OBVIOUS
  <2> QED BY <1>1, <2>1, ElementOfSeq DEF Last
<1>3. PICK v : v = [u EXCEPT !.list = Append(@, f)]
  OBVIOUS
<1>4. /\ v \in Tables /\ v.keys = u.keys /\ v.headers = u.headers
      /\ v.body = u.body /\ v.status_code = u.status_code
  BY <1>2, <1>3, Listed
<1>5. OnHeader(s, f) = SetTop(s, v)
  BY <1>2, <1>3, <1>4, ShortField
<1>6. OnHeader(s, f) \in Seq(Tables) /\ Len(OnHeader(s, f)) = 1
      /\ OnHeader(s, f)[1] = v
  BY <1>4, <1>5, TopOfOne
<1> QED BY <1>1, <1>4, <1>6 DEF SameContent

LEMMA CompleteCall ==
    ASSUME NEW s \in Seq(Tables), Len(s) = 3, NEW p \in Parsers,
           NEW o, o = OnHeadersComplete(s, p)
    PROVE  /\ o \in Seq(Tables) /\ Len(o) = 1
           /\ o[1].headers = s[3].list /\ o[1].status_code = p.status_code
           /\ o[1].body = s[1].body /\ "headers" \in o[1].keys
           /\ "is_gzipped" \in o[1].keys <=> "is_gzipped" \in s[1].keys
           /\ "is_done" \in o[1].keys <=> "is_done" \in s[1].keys
<1> DEFINE below == SubSeq(s, 1, Len(s) - 2)
           keepalive == IF ShouldKeepAlive(p) THEN {"is_keepalive"} ELSE {}
           v == [Last(below) EXCEPT !.headers = Last(s).list,
                                    !.keys = @ \cup {"headers"} \cup keepalive,
                                    !.status_code = p.status_code]
<1>1. /\ below \in Seq(Tables) /\ Len(below) = 1 /\ below[1] = s[1]
  <2>1. \A i \in 1..1 : s[i] \in Tables
    OBVIOUS
  <2>2. Len(s) - 2 = 1
    OBVIOUS
  <2> QED BY <2>1, <2>2, SubSeqProperties
<1>2. o = SetTop(below, v)
  BY DEF OnHeadersComplete
<1> HIDE DEF below
<1>3. /\ Last(below) = s[1] /\ Last(s) = s[3] /\ s[1] \in Tables
      /\ s[3] \in Tables
  BY <1>1, TopOfOne, TopOfThree, TableTypes
<1>4. keepalive \subseteq {"is_keepalive"}
  OBVIOUS
<1> HIDE DEF keepalive
<1> DEFINE u == [s[1] EXCEPT !.headers = s[3].list,
                             !.keys = @ \cup {"headers"} \cup keepalive,
                             !.status_code = p.status_code]
<1>5. v = u
  BY <1>3
<1> HIDE DEF v
<1>6. /\ u.headers = s[3].list /\ u.status_code = p.status_code
      /\ u.body = s[1].body /\ u.keys = s[1].keys \cup {"headers"} \cup keepalive
  BY <1>3 DEF Tables
<1>7. u \in Tables
  <2> DEFINE K == s[1].keys \cup {"headers"} \cup keepalive
  <2>1. K \in SUBSET Keys
    BY <1>3, <1>4 DEF Keys, Tables
  <2> HIDE DEF K
  <2>2. s[3].list \in Seq(Fields) /\ p.status_code \in Codes
    BY <1>3 DEF Tables, Parsers
  <2>3. [s[1] EXCEPT !.headers = s[3].list, !.keys = K,
                     !.status_code = p.status_code] \in Tables
    BY <1>3, <2>1, <2>2 DEF Tables
  <2> QED BY <2>3 DEF K
<1> HIDE DEF u
<1>8. o \in Seq(Tables) /\ Len(o) = 1 /\ o[1] = u
  BY <1>1, <1>2, <1>5, <1>7, TopOfOne
<1> QED BY <1>4, <1>6, <1>8

LEMMA BodyCall ==
    ASSUME NEW s \in Seq(Tables), Len(s) = 1, NEW t \in Pieces
    PROVE  /\ OnBody(s, t) \in Seq(Tables) /\ Len(OnBody(s, t)) = 1
           /\ OnBody(s, t)[1].body = Append(s[1].body, t)
           /\ OnBody(s, t)[1].keys = s[1].keys \cup {"body"}
           /\ OnBody(s, t)[1].headers = s[1].headers
           /\ OnBody(s, t)[1].status_code = s[1].status_code
<1> DEFINE v == [s[1] EXCEPT !.body = Append(@, t), !.keys = @ \cup {"body"}]
<1>1. s[1] \in Tables /\ Last(s) = s[1]
  BY TopOfOne, TableTypes
<1>2. /\ v \in Tables /\ v.keys = s[1].keys \cup {"body"}
      /\ v.headers = s[1].headers /\ v.status_code = s[1].status_code
      /\ v.body = Append(s[1].body, t)
  <2>1. ASSUME NEW u \in Tables, NEW x,
               x = [u EXCEPT !.body = Append(@, t), !.keys = @ \cup {"body"}]
        PROVE  /\ x \in Tables /\ x.body = Append(u.body, t)
               /\ x.keys = u.keys \cup {"body"}
               /\ x.headers = u.headers /\ x.status_code = u.status_code
    BY <2>1, Bodied, Zenon
  <2>2. PICK u \in Tables : u = s[1]
    BY <1>1
  <2>3. v = [u EXCEPT !.body = Append(@, t), !.keys = @ \cup {"body"}]
    BY <2>2
  <2> HIDE DEF v
  <2>4. /\ v \in Tables /\ v.body = Append(u.body, t)
        /\ v.keys = u.keys \cup {"body"}
        /\ v.headers = u.headers /\ v.status_code = u.status_code
    BY <2>1, <2>3, Zenon
  <2> QED BY <2>2, <2>4
<1>3. OnBody(s, t) = SetTop(s, v)
  BY <1>1 DEF OnBody
<1> HIDE DEF v
<1>4. OnBody(s, t) \in Seq(Tables) /\ Len(OnBody(s, t)) = 1
      /\ OnBody(s, t)[1] = v
  BY <1>2, <1>3, TopOfOne
<1> QED BY <1>2, <1>4

LEMMA DoneCall ==
    ASSUME NEW s \in Seq(Tables), Len(s) = 1
    PROVE  /\ OnMessageComplete(s) \in Seq(Tables)
           /\ Len(OnMessageComplete(s)) = 1
           /\ "is_done" \in OnMessageComplete(s)[1].keys
           /\ SameContent(OnMessageComplete(s)[1], s[1])
<1> DEFINE v == [s[1] EXCEPT !.keys = @ \cup {"is_done"}]
<1>1. s[1] \in Tables /\ Last(s) = s[1]
  BY TopOfOne, TableTypes
<1>2. {"is_done"} \in SUBSET Keys
  BY DEF Keys
<1>3. v \in Tables
  BY <1>1, <1>2, TableTypes
<1>4. /\ v.keys = s[1].keys \cup {"is_done"} /\ v.headers = s[1].headers
      /\ v.body = s[1].body /\ v.status_code = s[1].status_code
  BY <1>1 DEF Tables
<1>5. OnMessageComplete(s) = SetTop(s, v)
  BY <1>1 DEF OnMessageComplete
<1> HIDE DEF v
<1>6. /\ OnMessageComplete(s) \in Seq(Tables) /\ Len(OnMessageComplete(s)) = 1
      /\ OnMessageComplete(s)[1] = v
  BY <1>3, <1>5, TopOfOne
<1> QED BY <1>4, <1>6 DEF SameContent

-----------------------------------------------------------------------------
(* What receive() has of a response, as a piece is added to it. *)

LEMMA GotNow ==
    ASSUME pc = "parsing"
    PROVE  Busy /\ Got = Accumulate(stack[1])
<1> QED BY DEF Busy, Got

LEMMA GotNext ==
    ASSUME pc' = "parsing", acc' = acc
    PROVE  Busy' /\ Got' = Accumulate(stack'[1])
<1> QED BY DEF Busy, Got, Accumulate

LEMMA AccumulateFields ==
    ASSUME NEW T
    PROVE  /\ Accumulate(T).headers
                  = IF "headers" \in T.keys THEN T.headers ELSE acc.headers
           /\ Accumulate(T).status_code
                  = IF "headers" \in T.keys THEN T.status_code
                                            ELSE acc.status_code
           /\ Accumulate(T).body = acc.body \o T.body
           /\ \A k \in {"is_keepalive", "is_gzipped"} :
                  k \in Accumulate(T).keys <=> k \in acc.keys \/ k \in T.keys
<1> QED BY DEF Accumulate

LEMMA ConcatAppend ==
    ASSUME NEW S, NEW s \in Seq(S), NEW t \in Seq(S), NEW e \in S
    PROVE  s \o Append(t, e) = Append(s \o t, e)
<1> DEFINE a == Append(t, e)
           b == s \o t
           c == Append(b, e)
<1>1. /\ a \in Seq(S) /\ Len(a) = Len(t) + 1 /\ a[Len(t) + 1] = e
      /\ \A i \in 1..Len(t) : a[i] = t[i]
  BY AppendProperties
<1>2. /\ b \in Seq(S) /\ Len(b) = Len(s) + Len(t)
      /\ \A i \in 1..(Len(s) + Len(t)) :
             b[i] = IF i <= Len(s) THEN s[i] ELSE t[i - Len(s)]
  BY ConcatProperties
<1>3. Len(s) \in Nat /\ Len(t) \in Nat
  OBVIOUS
<1> HIDE DEF a, b
<1>4. /\ c \in Seq(S) /\ Len(c) = Len(b) + 1 /\ c[Len(b) + 1] = e
      /\ \A i \in 1..Len(b) : c[i] = b[i]
  <2>1. b \in Seq(S) /\ e \in S
    BY <1>2
  <2> QED BY <2>1, AppendProperties
<1> HIDE DEF c
<1>5. /\ s \o a \in Seq(S) /\ Len(s \o a) = Len(s) + Len(a)
      /\ \A i \in 1..(Len(s) + Len(a)) :
             (s \o a)[i] = IF i <= Len(s) THEN s[i] ELSE a[i - Len(s)]
  BY <1>1, ConcatProperties
<1>6. Len(s \o a) = Len(c)
  BY <1>1, <1>2, <1>3, <1>4, <1>5
<1>7. ASSUME NEW i \in 1..Len(s \o a) PROVE (s \o a)[i] = c[i]
  <2>1. i \in 1..(Len(s) + Len(t) + 1) /\ i \in 1..(Len(s) + Len(a))
    BY <1>1, <1>3, <1>5
  <2>2. CASE i <= Len(s)
    <3>1. i \in 1..(Len(s) + Len(t)) /\ i \in 1..Len(b)
      BY <1>2, <1>3, <2>1, <2>2
    <3> QED BY <1>2, <1>4, <1>5, <2>1, <2>2, <3>1
  <2>3. CASE i > Len(s) /\ i <= Len(s) + Len(t)
    <3>1. i \in 1..(Len(s) + Len(t)) /\ i \in 1..Len(b)
      BY <1>2, <1>3, <2>1, <2>3
    <3>2. ~(i <= Len(s)) /\ i - Len(s) \in 1..Len(t)
      BY <1>3, <2>1, <2>3
    <3> QED BY <1>1, <1>2, <1>4, <1>5, <2>1, <3>1, <3>2
  <2>4. CASE i = Len(s) + Len(t) + 1
    <3>1. ~(i <= Len(s)) /\ i - Len(s) = Len(t) + 1 /\ i = Len(b) + 1
      BY <1>2, <1>3, <2>4
    <3> QED BY <1>1, <1>4, <1>5, <2>1, <3>1
  <2> QED BY <1>3, <2>1, <2>2, <2>3, <2>4
<1>8. s \o a = c
  BY <1>4, <1>5, <1>6, <1>7, SeqEqual
<1> QED BY <1>8 DEF a, b, c

\* One more piece of m: b has what a had, and the piece if it is a byte.
OneMore(a, b, m, n) ==
    b.body = IF IsByte(m[n + 1]) THEN Append(a.body, m[n + 1]) ELSE a.body

LEMMA BodyStep ==
    ASSUME OrderTypes, NEW m \in Responses \cup Unasked, NEW n \in Nat,
           n < Len(m), NEW a \in Tables, NEW b \in Tables,
           HasBody(Accumulate(a).body, m, n), OneMore(a, b, m, n)
    PROVE  HasBody(Accumulate(b).body, m, n + 1)
<1>1. m[n + 1] \in Pieces
  <2>1. n + 1 \in 1..Len(m)
    BY ResponseFacts
  <2> QED BY <2>1, ResponseFacts
<1>2. acc.body \in Seq(Pieces) /\ a.body \in Seq(Pieces)
  BY DEF OrderTypes, Gathered, Tables
<1> DEFINE c == acc.body \o a.body
<1>3. /\ Accumulate(a).body = c /\ Accumulate(b).body = acc.body \o b.body
      /\ c \in Seq(Pieces)
  BY <1>2, AccumulateFields, ConcatProperties
<1>4. acc.body \o Append(a.body, m[n + 1]) = Append(c, m[n + 1])
  <2>1. ASSUME NEW s \in Seq(Pieces), NEW t \in Seq(Pieces), NEW e \in Pieces
        PROVE  s \o Append(t, e) = Append(s \o t, e)
    BY ConcatAppend
  <2> QED BY <1>1, <1>2, <2>1, Zenon
<1> HIDE DEF c
<1>5. HasBody(c, m, n)
  BY <1>3
<1>6. CASE IsByte(m[n + 1])
  <2>1. HasBody(Append(c, m[n + 1]), m, n + 1)
    BY <1>1, <1>3, <1>5, <1>6, BodyGrows
  <2>2. Accumulate(b).body = Append(c, m[n + 1])
    BY <1>3, <1>4, <1>6 DEF OneMore
  <2> QED BY <2>1, <2>2
<1>7. CASE ~IsByte(m[n + 1])
  <2>1. HasBody(c, m, n + 1)
    BY <1>3, <1>5, <1>7, BodyGrows
  <2>2. Accumulate(b).body = c
    BY <1>3, <1>7 DEF OneMore, c
  <2> QED BY <2>1, <2>2
<1> QED BY <1>6, <1>7

\* The key is_gzipped, when it is set with the field that says so.
LEMMA GzipStep ==
    ASSUME NEW m, NEW n \in Nat, NEW a, NEW b, EndOf(m) \in Nat,
           HasGzip(Accumulate(a).keys, m, n),
           "is_gzipped" \in b.keys <=>
               \/ "is_gzipped" \in a.keys
               \/ /\ n + 1 >= 3 /\ n + 1 < EndOf(m)
                  /\ HasField(m, n + 1, "gzip")
    PROVE  HasGzip(Accumulate(b).keys, m, n + 1)
<1>1. \A i \in 3..(n + 1) : i \in 3..n \/ i = n + 1
  OBVIOUS
<1>2. \A i \in 3..n : i \in 3..(n + 1)
  OBVIOUS
<1>3. n + 1 >= 3 => n + 1 \in 3..(n + 1)
  OBVIOUS
<1> DEFINE Z(i) == i < EndOf(m) /\ HasField(m, i, "gzip")
<1>4. (\E i \in 3..(n + 1) : Z(i)) <=> (\E i \in 3..n : Z(i)) \/ (n + 1 >= 3 /\ Z(n + 1))
  <2> HIDE DEF Z
  <2> QED BY <1>1, <1>2, <1>3
<1>5. "is_gzipped" \in acc.keys \/ "is_gzipped" \in a.keys
          <=> \E i \in 3..n : Z(i)
  BY AccumulateFields DEF HasGzip
<1>6. "is_gzipped" \in Accumulate(b).keys
          <=> "is_gzipped" \in acc.keys \/ "is_gzipped" \in b.keys
  BY AccumulateFields
<1>7. "is_gzipped" \in b.keys
          <=> "is_gzipped" \in a.keys \/ (n + 1 >= 3 /\ Z(n + 1))
  OBVIOUS
<1>8. "is_gzipped" \in Accumulate(b).keys <=> \E i \in 3..(n + 1) : Z(i)
  <2> HIDE DEF Z
  <2> QED BY <1>4, <1>5, <1>6, <1>7
<1> QED BY <1>8 DEF HasGzip

LEMMA SaysFrom ==
    ASSUME NEW m \in Responses \cup Unasked, Framed(m), NEW r,
           HasHeader(r, m), HasBody(r.body, m, Len(m)),
           HasGzip(r.keys, m, Len(m))
    PROVE  Says(r, m)
<1>1. DOMAIN m = 1..Len(m) /\ Len(m) \in Nat /\ EndOf(m) \in 3..Len(m)
  BY ResponseFacts, EndFacts
<1>2. \A i : i \in Heads(m) <=> i \in 3..Len(m) /\ i < EndOf(m)
  BY <1>1 DEF Heads
<1>3. "is_gzipped" \in r.keys <=> \E i \in Heads(m) : HasField(m, i, "gzip")
  BY <1>2 DEF HasGzip
<1> QED BY <1>1, <1>3 DEF Says, HasHeader, HasBody

\* The list of a header that ends is that of all of its fields.
LEMMA ListGrows ==
    ASSUME NEW m, NEW n \in Nat, n >= 2, NEW l \in Seq(Fields),
           ListOf(l, m, n), m[n + 1].f \in Fields
    PROVE  ListOf(Append(l, m[n + 1].f), m, n + 1)
<1> DEFINE c == Append(l, m[n + 1].f)
<1>1. Len(l) = n - 2 /\ \A i \in 3..n : l[i - 2] = m[i].f
  BY DEF ListOf
<1>2. /\ Len(c) = n - 1 /\ c[n - 1] = m[n + 1].f
      /\ \A i \in 1..(n - 2) : c[i] = l[i]
  BY <1>1, AppendProperties
<1> HIDE DEF c
<1>3. ASSUME NEW i \in 3..(n + 1) PROVE c[i - 2] = m[i].f
  <2>1. CASE i = n + 1
    BY <1>2, <2>1
  <2>2. CASE i # n + 1
    <3>1. i \in 3..n /\ i - 2 \in 1..(n - 2)
      BY <2>2
    <3> QED BY <1>1, <1>2, <3>1
  <2> QED BY <2>1, <2>2
<1> QED BY <1>2, <1>3 DEF ListOf, c

LEMMA ListDone ==
    ASSUME NEW m \in Responses \cup Unasked, NEW n \in Nat, n >= 2,
           n + 1 = EndOf(m), n < Len(m), NEW l \in Seq(Fields), ListOf(l, m, n),
           \A i \in 3..n : m[i].k = "field"
    PROVE  l = FieldsOf(m)
<1>1. Len(l) = n - 2 /\ \A i \in 3..n : l[i - 2] = m[i].f
  BY DEF ListOf
<1>2. FieldsOf(m) = [i \in 1..(n - 2) |-> m[i + 2].f]
  <2>1. EndOf(m) - 3 = n - 2
    BY Z3
  <2> QED BY <2>1 DEF FieldsOf
<1>3. ASSUME NEW i \in 1..(n - 2)
      PROVE  /\ m[i + 2].f \in Fields /\ l[i] = m[i + 2].f
  <2>1. i + 2 \in 3..n /\ (i + 2) - 2 = i
    OBVIOUS
  <2>2. i + 2 \in 1..Len(m)
    BY <2>1, ResponseFacts
  <2>3. m[i + 2] \in Pieces /\ m[i + 2].k = "field"
    BY <2>1, <2>2, ResponseFacts
  <2> QED BY <1>1, <2>1, <2>3, PieceKinds
<1> DEFINE g == [i \in 1..(n - 2) |-> m[i + 2].f]
<1>4. g \in Seq(Fields) /\ Len(g) = n - 2 /\ \A i \in 1..(n - 2) : g[i] = l[i]
  <2>1. \A i \in 1..(n - 2) : m[i + 2].f \in Fields
    BY <1>3
  <2>2. g \in [1..(n - 2) -> Fields] /\ n - 2 \in Nat
    BY <2>1
  <2>3. \A i \in 1..(n - 2) : g[i] = l[i]
    BY <1>3
  <2> HIDE DEF g
  <2> QED BY <2>2, <2>3
<1> HIDE DEF g
<1>5. l = g
  BY <1>1, <1>4, SeqEqual
<1> QED BY <1>2, <1>5 DEF g

-----------------------------------------------------------------------------
(* A piece of a response is taken. *)

\* The result table a has the first n pieces of m; and the header, too.
Holds(a, m, n) == /\ HasBody(Accumulate(a).body, m, n)
                  /\ HasGzip(Accumulate(a).keys, m, n)
Told(a, m, n) == Holds(a, m, n) /\ HasHeader(Accumulate(a), m)

LEMMA HoldsNext ==
    ASSUME OrderTypes, NEW m \in Responses \cup Unasked, Framed(m),
           NEW n \in Nat, n < Len(m), NEW a \in Tables, NEW b \in Tables,
           Holds(a, m, n), OneMore(a, b, m, n),
           "is_gzipped" \in b.keys <=>
               \/ "is_gzipped" \in a.keys
               \/ /\ n + 1 >= 3 /\ n + 1 < EndOf(m)
                  /\ HasField(m, n + 1, "gzip")
    PROVE  Holds(b, m, n + 1)
<1>1. HasBody(Accumulate(b).body, m, n + 1)
  BY BodyStep DEF Holds
<1>2. EndOf(m) \in Nat
  BY EndFacts
<1>3. HasGzip(Accumulate(b).keys, m, n + 1)
  BY <1>2, GzipStep DEF Holds
<1> QED BY <1>1, <1>3 DEF Holds

LEMMA ToldNext ==
    ASSUME OrderTypes, NEW m \in Responses \cup Unasked, Framed(m),
           NEW n \in Nat, n < Len(m), n >= EndOf(m),
           NEW a \in Tables, NEW b \in Tables,
           Told(a, m, n), OneMore(a, b, m, n),
           b.headers = a.headers, b.status_code = a.status_code,
           "headers" \in b.keys <=> "headers" \in a.keys,
           "is_gzipped" \in b.keys <=> "is_gzipped" \in a.keys
    PROVE  Told(b, m, n + 1)
<1>1. ~(n + 1 < EndOf(m))
  <2>1. EndOf(m) \in Nat
    BY EndFacts
  <2> QED BY <2>1
<1>2. Holds(b, m, n + 1)
  BY <1>1, HoldsNext DEF Told
<1>3. HasHeader(Accumulate(b), m)
  BY AccumulateFields DEF Told, HasHeader
<1> QED BY <1>2, <1>3 DEF Told

LEMMA InsideNext ==
    ASSUME NEW m, NEW n \in Nat, n < Len(m), pc' = "parsing", acc' = acc,
           Told(stack'[1], m, n + 1), InBodyOf(hp', m, n + 1),
           ~got_response', Len(stack') = 1, "is_done" \notin stack'[1].keys,
           Len(m) \in Nat
    PROVE  Inside(m, n + 1)'
<1>1. 1 <= n + 1 /\ n + 1 <= Len(m)
  OBVIOUS
<1>2. Got' = Accumulate(stack'[1])
  BY GotNext
<1> QED BY <1>1, <1>2 DEF Inside, InBodyOf, Told, Holds

LEMMA EndNext ==
    ASSUME NEW m \in Responses \cup Unasked, Framed(m),
           pc' = "parsing", acc' = acc, Told(stack'[1], m, Len(m)),
           got_response', Len(stack') = 1, "is_done" \in stack'[1].keys,
           hp'.state \in {"start_res", "dead"}
    PROVE  AtEnd(m, 0)'
<1>1. Busy' /\ Got' = Accumulate(stack'[1])
  BY GotNext
<1>2. Says(Accumulate(stack'[1]), m)
  BY SaysFrom DEF Told, Holds
<1> QED BY <1>1, <1>2 DEF AtEnd

Done(calls) == \E i \in DOMAIN calls : calls[i] = "message_complete"

LEMMA DoneFacts ==
    /\ ~Done(<<>>) /\ ~Done(<<"message_begin">>) /\ ~Done(<<"header">>)
    /\ ~Done(<<"headers_complete">>) /\ ~Done(<<"body">>)
    /\ Done(<<"message_complete">>) /\ Done(<<"body", "message_complete">>)
    /\ Done(<<"headers_complete", "message_complete">>)
<1>1. \A c : DOMAIN <<c>> = 1..1 /\ <<c>>[1] = c
  OBVIOUS
<1>2. \A c, d : 2 \in DOMAIN <<c, d>> /\ <<c, d>>[2] = d
  OBVIOUS
<1> QED BY <1>1, <1>2 DEF Done

\* A step of the parser that it goes on after.
Took(t, r) ==
    /\ pc = "parsing" /\ pc' = "parsing" /\ acc' = acc
    /\ t \in Pieces /\ hp \in Parsers /\ ~hp.failed /\ stack \in Seq(Tables)
    /\ r = Execute(hp, t) /\ ~r.parser.failed /\ ~Unexpected(r.calls)
    /\ stack' = CalledAll(r.calls, stack, hp, t)
    /\ hp' = r.parser
    /\ got_response' = (got_response \/ Done(r.calls))

LEMMA TookCalls ==
    ASSUME NEW t, NEW r, Took(t, r), ~got_response
    PROVE  /\ r.calls = <<>> => stack' = stack /\ ~got_response'
           /\ r.calls = <<"message_begin">> =>
                  stack' = OnMessageBegin(stack) /\ ~got_response'
           /\ r.calls = <<"header">> =>
                  stack' = OnHeader(stack, t.f) /\ ~got_response'
           /\ r.calls = <<"headers_complete">> =>
                  stack' = OnHeadersComplete(stack, hp) /\ ~got_response'
           /\ r.calls = <<"headers_complete", "message_complete">> =>
                  /\ stack' = OnMessageComplete(OnHeadersComplete(stack, hp))
                  /\ got_response'
           /\ r.calls = <<"body">> => stack' = OnBody(stack, t) /\ ~got_response'
           /\ r.calls = <<"body", "message_complete">> =>
                  /\ stack' = OnMessageComplete(OnBody(stack, t))
                  /\ got_response'
           /\ r.calls = <<"message_complete">> =>
                  stack' = OnMessageComplete(stack) /\ got_response'
<1>1. stack' = CalledAll(r.calls, stack, hp, t)
  BY DEF Took
<1>2. got_response' <=> Done(r.calls)
  BY DEF Took
<1>3. ASSUME NEW c, r.calls = c
      PROVE  /\ stack' = CalledAll(c, stack, hp, t)
             /\ got_response' <=> Done(c)
  BY <1>1, <1>2, <1>3
<1>4. ASSUME r.calls = <<>>
      PROVE  stack' = stack /\ ~got_response'
  BY <1>3, <1>4, CallsShape, DoneFacts
<1>5. ASSUME r.calls = <<"message_begin">>
      PROVE  stack' = OnMessageBegin(stack) /\ ~got_response'
  BY <1>3, <1>5, CallsShape, DoneFacts
<1>6. ASSUME r.calls = <<"header">>
      PROVE  stack' = OnHeader(stack, t.f) /\ ~got_response'
  BY <1>3, <1>6, CallsShape, DoneFacts
<1>7. ASSUME r.calls = <<"headers_complete">>
      PROVE  stack' = OnHeadersComplete(stack, hp) /\ ~got_response'
  BY <1>3, <1>7, CallsShape, DoneFacts
<1>8. ASSUME r.calls = <<"headers_complete", "message_complete">>
      PROVE  stack' = OnMessageComplete(OnHeadersComplete(stack, hp)) /\ got_response'
  BY <1>3, <1>8, CallsShape, DoneFacts
<1>9. ASSUME r.calls = <<"body">>
      PROVE  stack' = OnBody(stack, t) /\ ~got_response'
  BY <1>3, <1>9, CallsShape, DoneFacts
<1>10. ASSUME r.calls = <<"body", "message_complete">>
      PROVE  stack' = OnMessageComplete(OnBody(stack, t)) /\ got_response'
  BY <1>3, <1>10, CallsShape, DoneFacts
<1>11. ASSUME r.calls = <<"message_complete">>
      PROVE  stack' = OnMessageComplete(stack) /\ got_response'
  BY <1>3, <1>11, CallsShape, DoneFacts
<1> QED BY <1>4, <1>5, <1>6, <1>7, <1>8, <1>9, <1>10, <1>11

LEMMA FromStart ==
    ASSUME OrderTypes, NEW m \in Responses \cup Unasked, Framed(m),
           NEW n \in Nat, AtStart(n), NEW t, t = m[n + 1], NEW r, Took(t, r)
    PROVE  n = 0 /\ Inside(m, 1)'
<1>1. /\ hp.state = "start_res" /\ ~got_response /\ stack = <<Table>>
      /\ acc = Accumulators /\ n <= 2
  BY DEF AtStart, Took, Busy
<1>2. m[1].k = "begin" /\ m[2].k = "line" /\ Len(m) \in Nat
  BY ResponseFacts
<1>3. EndOf(m) \in 3..Len(m)
  BY EndFacts
<1>4. m[3].k \notin {"begin", "stray"}
  BY <1>2, <1>3, ResponseFacts DEF Framed
<1>5. n = 0
  <2>1. n = 1 \/ n = 2 => t.k \notin {"begin", "stray"}
    BY <1>2, <1>4
  <2>2. ~(n = 1 \/ n = 2)
    BY <1>1, <2>1, StartPiece DEF Took
  <2> QED BY <1>1, <2>2
<1>6. t.k = "begin"
  BY <1>2, <1>5
<1>7. /\ r.calls = <<"message_begin">> /\ r.parser.state = "res_line"
      /\ r.parser.flags = {} /\ r.parser.content_length = NoLength
  BY <1>1, <1>6, StartPiece DEF Took
<1>8. stack' = OnMessageBegin(stack) /\ ~got_response'
  BY <1>1, <1>7, TookCalls
<1>9. Len(stack') = 3 /\ stack'[1] = Table /\ stack'[3] = Table
  <2>1. Len(stack) = 1 /\ stack[1] = Table
    BY <1>1
  <2> QED BY <1>1, <1>8, <2>1, BeginCall DEF Took
<1>10. Busy' /\ Got' = Accumulate(Table)
  BY <1>9, GotNext DEF Took
<1>11. Accumulate(Table).body = <<>> /\ "is_gzipped" \notin Accumulate(Table).keys
  <2>1. acc.body = <<>> /\ acc.keys = {} /\ Table.body = <<>> /\ Table.keys = {}
    BY <1>1 DEF Accumulators, Table
  <2> QED BY <2>1, AccumulateFields
<1>12. HasBody(<<>>, m, 1)
  <2>1. BytesUpTo(m, 0 + 1) = 0
    <3>1. ~IsByte(m[0 + 1])
      BY <1>2 DEF IsByte
    <3> QED BY <3>1, CountFacts
  <2>2. \A i \in 1..1 : ~IsByte(m[i])
    BY <1>2 DEF IsByte
  <2> QED BY <2>1, <2>2 DEF HasBody
<1>13. InHeaderOf(hp', m, 1)
  BY <1>7 DEF InHeaderOf, Took
<1>14. ListOf(stack'[3].list, m, 1)
  BY <1>9 DEF ListOf, Table
<1>15. HasGzip(Got'.keys, m, 1)
  BY <1>10, <1>11 DEF HasGzip
<1>16. "is_done" \notin stack'[1].keys
  BY <1>9 DEF Table
<1>17. 1 <= 1 /\ 1 <= Len(m) /\ pc' # "idle"
  BY <1>3 DEF Took
<1> QED BY <1>5, <1>8, <1>9, <1>10, <1>11, <1>12, <1>13, <1>14, <1>15, <1>16,
           <1>17 DEF Inside, InHeaderOf

LEMMA InsideFacts ==
    ASSUME NEW m, NEW n, Inside(m, n), pc = "parsing"
    PROVE  /\ 1 <= n /\ n <= Len(m) /\ ~got_response
           /\ "is_done" \notin stack[1].keys /\ Holds(stack[1], m, n)
           /\ \/ /\ InHeaderOf(hp, m, n) /\ Len(stack) = 3
                 /\ ListOf(stack[3].list, m, n)
              \/ /\ InBodyOf(hp, m, n) /\ Len(stack) = 1
                 /\ Told(stack[1], m, n)
<1>1. Busy /\ Got = Accumulate(stack[1])
  BY GotNow
<1> QED BY <1>1 DEF Inside, Holds, Told

\* The step keeps to the header.
LEMMA HeadNext ==
    ASSUME NEW m, NEW n \in Nat, n < Len(m), Len(m) \in Nat,
           pc' = "parsing", acc' = acc,
           Holds(stack'[1], m, n + 1), InHeaderOf(hp', m, n + 1),
           ~got_response', Len(stack') = 3, "is_done" \notin stack'[1].keys,
           ListOf(stack'[3].list, m, n + 1)
    PROVE  Inside(m, n + 1)'
<1>1. 1 <= n + 1 /\ n + 1 <= Len(m)
  OBVIOUS
<1>2. Busy' /\ Got' = Accumulate(stack'[1])
  BY GotNext
<1>3. InHeaderOf(hp, m, n + 1)'
  BY DEF InHeaderOf
<1>4. ListOf(stack[3].list, m, n + 1)'
  BY DEF ListOf
<1>5. HasBody(Got.body, m, n + 1)' /\ HasGzip(Got.keys, m, n + 1)'
  BY <1>2 DEF Holds
<1> QED BY <1>1, <1>2, <1>3, <1>4, <1>5 DEF Inside

LEMMA LineStep ==
    ASSUME OrderTypes, NEW m \in Responses \cup Unasked, Framed(m),
           NEW n \in Nat, Inside(m, n), hp.state = "res_line",
           n < Len(m), NEW t, t = m[n + 1], NEW r, Took(t, r)
    PROVE  Inside(m, n + 1)'
<1>1. /\ ~got_response /\ "is_done" \notin stack[1].keys
      /\ Holds(stack[1], m, n) /\ InHeaderOf(hp, m, n) /\ Len(stack) = 3
      /\ ListOf(stack[3].list, m, n)
  BY InsideFacts DEF InBodyOf, Took
<1>2. n = 1 /\ hp.flags = {} /\ hp.content_length = NoLength
  BY <1>1 DEF InHeaderOf
<1>3. m[2].k = "line" /\ Len(m) \in Nat /\ EndOf(m) \in 3..Len(m)
  BY ResponseFacts, EndFacts
<1>4. t.k = "line" /\ t = m[2]
  BY <1>2, <1>3
<1>5. /\ r.calls = <<>> /\ hp'.state = "header_field_start"
      /\ hp'.flags = {} /\ hp'.content_length = NoLength
      /\ hp'.status_code = m[2].code
  BY <1>2, <1>4, LinePiece DEF Took
<1>6. stack' = stack /\ ~got_response'
  BY <1>1, <1>5, TookCalls
<1>7. Holds(stack[1], m, n + 1)
  <2>1. stack[1] \in Tables
    BY <1>1, TopOfThree, TableTypes DEF Took
  <2>2. OneMore(stack[1], stack[1], m, n)
    BY <1>2, <1>3 DEF OneMore, IsByte
  <2>3. ~(n + 1 >= 3)
    BY <1>2
  <2> QED BY <1>1, <2>1, <2>2, <2>3, HoldsNext
<1>8. InHeaderOf(hp', m, 2)
  <2>1. 2 >= 2 /\ 2 < EndOf(m) /\ 3..2 = {}
    BY <1>3
  <2> QED BY <1>5, <2>1 DEF InHeaderOf
<1>9. ListOf(stack[3].list, m, 2)
  BY <1>1, <1>2 DEF ListOf
<1>10. n + 1 = 2
  BY <1>2
<1> QED BY <1>1, <1>3, <1>6, <1>7, <1>8, <1>9, <1>10, HeadNext DEF Took

\* The flags and the length of the header, with one more field.
LEMMA FieldsGrow ==
    ASSUME NEW m \in Responses \cup Unasked, Framed(m), NEW n \in Nat,
           NEW p, p.state = "header_field_start", InHeaderOf(p, m, n),
           n + 1 < EndOf(m), m[n + 1].k = "field", NEW q,
           q.state = "header_field_start",
           q.flags = p.flags \cup FieldFlags(m[n + 1].f),
           q.content_length = IF m[n + 1].f = "length" THEN m[n + 1].n
                                                       ELSE p.content_length,
           q.status_code = p.status_code
    PROVE  InHeaderOf(q, m, n + 1)
<1>1. /\ n >= 2 /\ \A i \in 3..n : m[i].k = "field"
      /\ \A f \in Flags : f \in p.flags <=> \E i \in 3..n : HasField(m, i, f)
      /\ p.status_code = m[2].code
  BY DEF InHeaderOf
<1>2. \/ /\ p.content_length = NoLength
         /\ ~\E i \in 3..n : HasField(m, i, "length")
      \/ \E i \in 3..n : /\ HasField(m, i, "length")
                         /\ m[i].n = p.content_length
  BY DEF InHeaderOf
<1>3. /\ \A i \in 3..(n + 1) : i \in 3..n \/ i = n + 1
      /\ \A i \in 3..n : i \in 3..(n + 1)
      /\ n + 1 \in 3..(n + 1)
  BY <1>1
<1>4. \A i \in 3..(n + 1) : m[i].k = "field"
  BY <1>1, <1>3
<1>5. ASSUME NEW f \in Flags
      PROVE  f \in q.flags <=> \E i \in 3..(n + 1) : HasField(m, i, f)
  <2>1. f \in q.flags <=> f \in p.flags \/ f = m[n + 1].f
    BY DEF FieldFlags
  <2>2. f = m[n + 1].f <=> HasField(m, n + 1, f)
    BY DEF HasField
  <2> QED BY <1>1, <1>3, <2>1, <2>2
<1>6. \/ /\ q.content_length = NoLength
         /\ ~\E i \in 3..(n + 1) : HasField(m, i, "length")
      \/ \E i \in 3..(n + 1) : /\ HasField(m, i, "length")
                               /\ m[i].n = q.content_length
  <2>1. CASE m[n + 1].f = "length"
    BY <1>3, <2>1 DEF HasField
  <2>2. CASE m[n + 1].f # "length"
    <3>1. ~HasField(m, n + 1, "length") /\ q.content_length = p.content_length
      BY <2>2 DEF HasField
    <3> QED BY <1>2, <1>3, <3>1
  <2> QED BY <2>1, <2>2
<1>7. n + 1 >= 2
  BY <1>1
<1> QED BY <1>1, <1>4, <1>5, <1>6, <1>7 DEF InHeaderOf

LEMMA FieldStep ==
    ASSUME OrderTypes, NEW m \in Responses \cup Unasked, Framed(m),
           NEW n \in Nat, Inside(m, n), InHeaderOf(hp, m, n),
           hp.state = "header_field_start",
           n < Len(m), NEW t, t = m[n + 1], t.k = "field", NEW r, Took(t, r),
           Len(stack) = 3
    PROVE  Inside(m, n + 1)'
<1>1. /\ ~got_response /\ "is_done" \notin stack[1].keys
      /\ Holds(stack[1], m, n) /\ ListOf(stack[3].list, m, n)
  BY InsideFacts DEF Took
<1>2. n >= 2 /\ n < EndOf(m)
  BY DEF InHeaderOf
<1>3. /\ Len(m) \in Nat /\ EndOf(m) \in 3..Len(m) /\ m[EndOf(m)].k = "end"
  BY ResponseFacts, EndFacts
<1>4. n + 1 < EndOf(m)
  <2>1. n + 1 # EndOf(m)
    BY <1>3
  <2> QED BY <1>2, <1>3, <2>1
<1>5. t \in Pieces /\ t.f \in Fields
  BY PieceKinds DEF Took
<1>6. /\ r.calls = <<"header">> /\ hp'.state = "header_field_start"
      /\ hp'.flags = hp.flags \cup FieldFlags(t.f)
      /\ hp'.content_length = IF t.f = "length" THEN t.n ELSE hp.content_length
      /\ hp'.status_code = hp.status_code
  BY FieldPiece DEF Took
<1>7. InHeaderOf(hp', m, n + 1)
  BY <1>4, <1>6, FieldsGrow
<1>8. stack' = OnHeader(stack, t.f) /\ ~got_response'
  BY <1>1, <1>6, TookCalls
<1>9. /\ stack' \in Seq(Tables) /\ Len(stack') = 3
      /\ stack'[3].list = Append(stack[3].list, t.f)
      /\ stack'[1].keys
             = stack[1].keys \cup (IF t.f = "gzip" THEN {"is_gzipped"} ELSE {})
      /\ stack'[1].body = stack[1].body
  BY <1>5, <1>8, HeaderCall DEF Took
<1>10. /\ stack[1] \in Tables /\ stack[3] \in Tables /\ stack'[1] \in Tables
       /\ stack[3].list \in Seq(Fields)
  <2>1. stack[1] \in Tables /\ stack[3] \in Tables
    BY TableTypes, TopOfThree DEF Took
  <2>2. stack'[1] \in Tables
    BY <1>9, TableTypes, TopOfThree
  <2> QED BY <2>1, <2>2 DEF Tables
<1>11. "is_done" \notin stack'[1].keys
  BY <1>1, <1>9
<1>12. ListOf(stack'[3].list, m, n + 1)
  BY <1>1, <1>2, <1>5, <1>9, <1>10, ListGrows
<1>13. Holds(stack'[1], m, n + 1)
  <2>1. OneMore(stack[1], stack'[1], m, n)
    BY <1>9 DEF OneMore, IsByte
  <2>2. n + 1 >= 3 /\ n + 1 < EndOf(m)
    BY <1>2, <1>4
  <2>3. HasField(m, n + 1, "gzip") <=> t.f = "gzip"
    BY DEF HasField
  <2> QED BY <1>1, <1>9, <1>10, <2>1, <2>2, <2>3, HoldsNext
<1> QED BY <1>3, <1>7, <1>8, <1>9, <1>11, <1>12, <1>13, HeadNext DEF Took

\* Where a piece of a response may lead.
Onward(m, n) == \/ Inside(m, n + 1)'
                \/ n + 1 = Len(m) /\ AtEnd(m, 0)'
                \/ Endless'

LEMMA LengthIs ==
    ASSUME NEW m \in Responses \cup Unasked, Framed(m), ~IsChunked(m),
           NEW n \in Nat, n + 1 = EndOf(m), NEW p,
           p.state = "header_field_start", InHeaderOf(p, m, n)
    PROVE  \/ p.content_length = Len(m) - EndOf(m)
           \/ /\ p.content_length = NoLength
              /\ m[2].code # "200" => Len(m) = EndOf(m)
<1>1. EndOf(m) \in 3..Len(m) /\ Len(m) \in Nat
  BY EndFacts, ResponseFacts
<1>2. FramedBody(m)
  BY DEF Framed, IsChunked
<1>3. \A i : i \in Heads(m) <=> i \in 3..n
  <2>1. EndOf(m) - 1 = n
    BY <1>1
  <2> QED BY <2>1 DEF Heads
<1>4. CASE \E i \in 3..n : /\ HasField(m, i, "length")
                           /\ m[i].n = p.content_length
  <2>1. PICK i \in 3..n : /\ HasField(m, i, "length")
                          /\ m[i].n = p.content_length
    BY <1>4
  <2>2. m[i].n = Len(m) - EndOf(m)
    BY <1>2, <1>3, <2>1 DEF FramedBody
  <2> QED BY <2>1, <2>2
<1>5. CASE /\ p.content_length = NoLength
           /\ ~\E i \in 3..n : HasField(m, i, "length")
  <2>1. ASSUME m[2].code # "200" PROVE Len(m) = EndOf(m)
    <3>1. ~\E i \in Heads(m) : HasField(m, i, "length")
      BY <1>3, <1>5
    <3>2. Tails(m) = {}
      BY <1>2, <2>1, <3>1 DEF FramedBody
    <3>3. ~(EndOf(m) + 1 \in (EndOf(m) + 1)..Len(m))
      BY <3>2 DEF Tails
    <3> QED BY <1>1, <3>3
  <2> QED BY <1>5, <2>1
<1> QED BY <1>4, <1>5 DEF InHeaderOf

LEMMA SameTold ==
    ASSUME NEW a, NEW b, SameContent(b, a), NEW m, NEW n, Told(a, m, n)
    PROVE  Told(b, m, n)
<1>1. /\ b.headers = a.headers /\ b.status_code = a.status_code
      /\ b.body = a.body
  BY DEF SameContent
<1>2. /\ "headers" \in b.keys <=> "headers" \in a.keys
      /\ "is_gzipped" \in b.keys <=> "is_gzipped" \in a.keys
  BY DEF SameContent, Keys
<1>3. /\ Accumulate(b).headers = Accumulate(a).headers
      /\ Accumulate(b).status_code = Accumulate(a).status_code
      /\ Accumulate(b).body = Accumulate(a).body
      /\ "is_gzipped" \in Accumulate(b).keys
             <=> "is_gzipped" \in Accumulate(a).keys
  BY <1>1, <1>2, AccumulateFields
<1> QED BY <1>3 DEF Told, Holds, HasHeader, HasGzip

\* The end of the header.
LEMMA EndStep ==
    ASSUME OrderTypes, NEW m \in Responses \cup Unasked, Framed(m),
           NEW n \in Nat, Inside(m, n), InHeaderOf(hp, m, n),
           hp.state = "header_field_start",
           n < Len(m), NEW t, t = m[n + 1], t.k = "end", NEW r, Took(t, r),
           Len(stack) = 3
    PROVE  Onward(m, n)
<1>1. /\ ~got_response /\ "is_done" \notin stack[1].keys
      /\ Holds(stack[1], m, n) /\ ListOf(stack[3].list, m, n)
  BY InsideFacts DEF Took
<1>2. /\ n >= 2 /\ n < EndOf(m) /\ \A i \in 3..n : m[i].k = "field"
      /\ \A f \in Flags : f \in hp.flags <=> \E i \in 3..n : HasField(m, i, f)
      /\ hp.status_code = m[2].code
  BY DEF InHeaderOf
<1>3. /\ Len(m) \in Nat /\ EndOf(m) \in 3..Len(m)
      /\ \A j \in 1..(EndOf(m) - 1) : m[j].k # "end"
  BY ResponseFacts, EndFacts
<1>4. n + 1 = EndOf(m)
  <2>1. ~(n + 1 \in 1..(EndOf(m) - 1))
    BY <1>3
  <2> QED BY <1>2, <1>3, <2>1
<1>5. \A i : i \in Heads(m) <=> i \in 3..n
  <2>1. EndOf(m) - 1 = n
    BY <1>4
  <2> QED BY <2>1 DEF Heads
<1>6. "trailing" \notin hp.flags
  <2>1. ASSUME NEW i \in 3..n PROVE ~HasField(m, i, "trailing")
    <3>1. i \in 1..Len(m)
      BY <1>3
    <3>2. m[i].f \in Fields
      BY <1>2, <3>1, ResponseFacts, PieceKinds
    <3> QED BY <3>2 DEF HasField, Fields
  <2>2. "trailing" \in Flags
    BY DEF Flags
  <2> QED BY <1>2, <2>1, <2>2
<1>7. "chunked" \in hp.flags <=> IsChunked(m)
  <2>1. "chunked" \in Flags
    BY DEF Flags
  <2> QED BY <1>2, <1>5, <2>1 DEF IsChunked
<1>8. /\ stack \in Seq(Tables) /\ hp \in Parsers /\ t \in Pieces
      /\ r = Execute(hp, t) /\ hp' = r.parser
      /\ pc' = "parsing" /\ acc' = acc
  BY DEF Took
<1> DEFINE o == OnHeadersComplete(stack, hp)
<1>9. /\ o \in Seq(Tables) /\ Len(o) = 1
      /\ o[1].headers = stack[3].list /\ o[1].status_code = m[2].code
      /\ o[1].body = stack[1].body /\ "headers" \in o[1].keys
      /\ "is_gzipped" \in o[1].keys <=> "is_gzipped" \in stack[1].keys
      /\ "is_done" \notin o[1].keys
  BY <1>1, <1>2, <1>8, CompleteCall
<1> HIDE DEF o
<1>10. /\ stack[1] \in Tables /\ stack[3] \in Tables /\ o[1] \in Tables
       /\ stack[3].list \in Seq(Fields)
  <2>1. stack[1] \in Tables /\ stack[3] \in Tables
    BY <1>8, TableTypes, TopOfThree
  <2>2. o[1] \in Tables
    BY <1>9, TableTypes, TopOfOne
  <2> QED BY <2>1, <2>2 DEF Tables
<1>11. Told(o[1], m, n + 1)
  <2>1. OneMore(stack[1], o[1], m, n)
    BY <1>9 DEF OneMore, IsByte
  <2>2. ~(n + 1 < EndOf(m))
    BY <1>4
  <2>3. Holds(o[1], m, n + 1)
    BY <1>1, <1>9, <1>10, <2>1, <2>2, HoldsNext
  <2>4. stack[3].list = FieldsOf(m)
    BY <1>1, <1>2, <1>4, <1>10, ListDone
  <2>5. HasHeader(Accumulate(o[1]), m)
    BY <1>9, <2>4, AccumulateFields DEF HasHeader
  <2> QED BY <2>3, <2>5 DEF Told
<1>12. CASE r.parser.state = "upgraded"
  BY <1>8, <1>12 DEF Onward, Endless
<1>13. CASE /\ r.calls = <<"headers_complete">>
            /\ InBodyOf(hp', m, n + 1)
  <2>1. stack' = o /\ ~got_response'
    BY <1>1, <1>13, TookCalls DEF o
  <2> QED BY <1>3, <1>8, <1>9, <1>11, <1>13, <2>1, InsideNext DEF Onward
<1>14. CASE /\ r.calls = <<"headers_complete">>
            /\ r.parser.state = "body_identity_eof"
  <2>1. stack' = o /\ ~got_response'
    BY <1>1, <1>14, TookCalls DEF o
  <2> QED BY <1>8, <1>9, <1>14, <2>1 DEF Onward, Endless
<1>15. CASE /\ r.calls = <<"headers_complete", "message_complete">>
            /\ r.parser.state \in {"start_res", "dead"}
            /\ n + 1 = Len(m)
  <2>1. stack' = OnMessageComplete(o) /\ got_response'
    BY <1>1, <1>15, TookCalls DEF o
  <2>2. /\ Len(stack') = 1 /\ "is_done" \in stack'[1].keys
        /\ SameContent(stack'[1], o[1])
    BY <1>9, <2>1, DoneCall
  <2>3. Told(stack'[1], m, Len(m))
    BY <1>11, <1>15, <2>2, SameTold
  <2> QED BY <1>8, <1>15, <2>1, <2>2, <2>3, EndNext DEF Onward
<1>16. ASSUME r.parser.state = "chunk_size_start", "chunked" \in hp.flags,
              r.parser.flags = hp.flags
       PROVE  InBodyOf(hp', m, n + 1)
  BY <1>4, <1>6, <1>7, <1>8, <1>16 DEF InBodyOf
<1>17. ASSUME "chunked" \notin hp.flags
       PROVE  \/ hp.content_length = Len(m) - (n + 1)
              \/ /\ hp.content_length = NoLength
                 /\ m[2].code # "200" => Len(m) = n + 1
  BY <1>4, <1>7, <1>17, LengthIs
<1>18. ASSUME r.parser.state = "body_identity", "chunked" \notin hp.flags,
              r.parser.content_length = hp.content_length,
              hp.content_length > 0
       PROVE  InBodyOf(hp', m, n + 1)
  <2>1. hp.content_length = Len(m) - (n + 1)
    BY <1>17, <1>18 DEF NoLength
  <2>2. n + 1 < Len(m)
    BY <1>3, <1>18, <2>1
  <2> QED BY <1>4, <1>7, <1>8, <1>18, <2>1, <2>2 DEF InBodyOf
<1>19. ASSUME "chunked" \notin hp.flags, ~(hp.content_length > 0),
              hp.content_length = NoLength => hp.status_code # "200"
       PROVE  n + 1 = Len(m)
  <2>1. CASE hp.content_length = NoLength
    <3>1. NoLength \notin Nat
      BY DEF NoLength
    <3>2. m[2].code # "200"
      BY <1>2, <1>19, <2>1
    <3>3. Len(m) - (n + 1) \in Nat
      BY <1>3, <1>4
    <3>4. hp.content_length # Len(m) - (n + 1)
      BY <2>1, <3>1, <3>3
    <3> QED BY <1>17, <1>19, <3>2, <3>4
  <2>2. CASE hp.content_length # NoLength
    <3>1. ~(Len(m) - (n + 1) > 0)
      BY <1>17, <1>19, <2>2
    <3> QED BY <1>3, <1>4, <3>1
  <2> QED BY <2>1, <2>2
<1> QED BY <1>6, <1>8, <1>12, <1>13, <1>14, <1>15, <1>16, <1>18, <1>19,
           EndPiece

\* A byte of the body.
LEMMA ByteTaken ==
    ASSUME OrderTypes, NEW m \in Responses \cup Unasked, Framed(m),
           NEW n \in Nat, n < Len(m), n >= EndOf(m), Told(stack[1], m, n),
           stack \in Seq(Tables), Len(stack) = 1,
           NEW t \in Pieces, t = m[n + 1], IsByte(t), NEW o, o = OnBody(stack, t)
    PROVE  /\ o \in Seq(Tables) /\ Len(o) = 1 /\ Told(o[1], m, n + 1)
           /\ "is_done" \in o[1].keys <=> "is_done" \in stack[1].keys
<1>1. /\ o \in Seq(Tables) /\ Len(o) = 1
      /\ o[1].body = Append(stack[1].body, t)
      /\ o[1].keys = stack[1].keys \cup {"body"}
      /\ o[1].headers = stack[1].headers
      /\ o[1].status_code = stack[1].status_code
  BY BodyCall
<1>2. stack[1] \in Tables /\ o[1] \in Tables
  BY <1>1, TableTypes, TopOfOne
<1>3. OneMore(stack[1], o[1], m, n)
  BY <1>1 DEF OneMore
<1>4. Told(o[1], m, n + 1)
  BY <1>1, <1>2, <1>3, ToldNext
<1> QED BY <1>1, <1>4

LEMMA IdentityStep ==
    ASSUME OrderTypes, NEW m \in Responses \cup Unasked, Framed(m),
           NEW n \in Nat, Inside(m, n), InBodyOf(hp, m, n),
           hp.state = "body_identity",
           n < Len(m), NEW t, t = m[n + 1], NEW r, Took(t, r)
    PROVE  Onward(m, n)
<1>1. /\ ~got_response /\ "is_done" \notin stack[1].keys
      /\ Told(stack[1], m, n) /\ Len(stack) = 1
  BY InsideFacts DEF InHeaderOf, Took
<1>2. /\ n >= EndOf(m) /\ ~IsChunked(m) /\ hp.content_length = Len(m) - n
  BY DEF InBodyOf
<1>3. Len(m) \in Nat /\ EndOf(m) \in 3..Len(m)
  BY EndFacts, ResponseFacts
<1>4. IsByte(t)
  <2>1. n + 1 \in Tails(m)
    BY <1>2, <1>3 DEF Tails
  <2> QED BY <1>2, <2>1 DEF Framed, FramedBody, IsChunked
<1>5. /\ stack \in Seq(Tables) /\ hp \in Parsers /\ t \in Pieces
      /\ r = Execute(hp, t) /\ hp' = r.parser
      /\ pc' = "parsing" /\ acc' = acc
  BY DEF Took
<1> DEFINE o == OnBody(stack, t)
<1>6. /\ o \in Seq(Tables) /\ Len(o) = 1 /\ Told(o[1], m, n + 1)
      /\ "is_done" \notin o[1].keys
  BY <1>1, <1>2, <1>4, <1>5, ByteTaken
<1> HIDE DEF o
<1>7. CASE hp.content_length = 1
  <2>1. n + 1 = Len(m)
    BY <1>2, <1>3, <1>7
  <2>2. /\ r.calls = <<"body", "message_complete">>
        /\ hp'.state \in {"start_res", "dead"}
    BY <1>5, <1>7, BodyPiece
  <2>3. stack' = OnMessageComplete(o) /\ got_response'
    BY <1>1, <2>2, TookCalls DEF o
  <2>4. /\ Len(stack') = 1 /\ "is_done" \in stack'[1].keys
        /\ SameContent(stack'[1], o[1])
    BY <1>6, <2>3, DoneCall
  <2>5. Told(stack'[1], m, Len(m))
    BY <1>6, <2>1, <2>4, SameTold
  <2> QED BY <1>5, <2>1, <2>2, <2>3, <2>4, <2>5, EndNext DEF Onward
<1>8. CASE hp.content_length # 1
  <2>1. /\ r.calls = <<"body">> /\ hp'.state = "body_identity"
        /\ hp'.content_length = hp.content_length - 1
    BY <1>5, <1>8, BodyPiece
  <2>2. stack' = o /\ ~got_response'
    BY <1>1, <2>1, TookCalls DEF o
  <2>3. n + 1 < Len(m) /\ n + 1 >= EndOf(m) /\ hp'.content_length = Len(m) - (n + 1)
    BY <1>2, <1>3, <1>8, <2>1
  <2>4. InBodyOf(hp', m, n + 1)
    BY <1>2, <2>1, <2>3 DEF InBodyOf
  <2> QED BY <1>3, <1>5, <1>6, <2>2, <2>4, InsideNext DEF Onward
<1> QED BY <1>7, <1>8

\* A piece of a body in chunks that is none of its bytes.
LEMMA QuietPiece ==
    ASSUME OrderTypes, NEW m \in Responses \cup Unasked, Framed(m),
           NEW n \in Nat, n < Len(m), n >= EndOf(m),
           NEW a \in Tables, NEW b \in Tables, Told(a, m, n),
           ~IsByte(m[n + 1]), SameContent(b, a)
    PROVE  Told(b, m, n + 1)
<1>1. /\ b.headers = a.headers /\ b.status_code = a.status_code
      /\ b.body = a.body
  BY DEF SameContent
<1>2. /\ "headers" \in b.keys <=> "headers" \in a.keys
      /\ "is_gzipped" \in b.keys <=> "is_gzipped" \in a.keys
  BY DEF SameContent, Keys
<1>3. OneMore(a, b, m, n)
  BY <1>1 DEF OneMore
<1> QED BY <1>1, <1>2, <1>3, ToldNext

LEMMA ItsOwnContent ==
    ASSUME NEW a
    PROVE  SameContent(a, a)
<1> QED BY DEF SameContent

LEMMA ChunkStep ==
    ASSUME OrderTypes, NEW m \in Responses \cup Unasked, Framed(m),
           NEW n \in Nat, Inside(m, n), InBodyOf(hp, m, n),
           hp.state \in {"chunk_size_start", "chunk_data_almost_done"},
           n < Len(m), NEW t, t = m[n + 1], NEW r, Took(t, r)
    PROVE  Onward(m, n)
<1>1. /\ ~got_response /\ "is_done" \notin stack[1].keys
      /\ Told(stack[1], m, n) /\ Len(stack) = 1
  BY InsideFacts DEF InHeaderOf, Took
<1>2. n >= EndOf(m) /\ IsChunked(m) /\ "trailing" \notin hp.flags
  BY DEF InBodyOf
<1>3. Len(m) \in Nat /\ EndOf(m) \in 3..Len(m) /\ n + 1 >= EndOf(m)
  BY <1>2, EndFacts, ResponseFacts
<1>4. /\ stack \in Seq(Tables) /\ hp \in Parsers /\ t \in Pieces
      /\ r = Execute(hp, t) /\ hp' = r.parser /\ ~r.parser.failed
      /\ pc' = "parsing" /\ acc' = acc
  BY DEF Took
<1>5. FramedChunks(m) /\ n + 1 \in Tails(m)
  <2>1. n + 1 \in Tails(m)
    BY <1>2, <1>3 DEF Tails
  <2> QED BY <1>2, <2>1 DEF Framed, IsChunked
<1>6. ASSUME r.calls = <<>>, ~IsByte(t), InBodyOf(hp', m, n + 1)
      PROVE  Onward(m, n)
  <2>1. stack' = stack /\ ~got_response'
    BY <1>1, <1>6, TookCalls
  <2>2. stack[1] \in Tables
    BY <1>1, <1>4, TableTypes, TopOfOne
  <2>3. Told(stack[1], m, n + 1)
    BY <1>1, <1>2, <1>6, <2>2, QuietPiece, ItsOwnContent
  <2> QED BY <1>1, <1>3, <1>4, <1>6, <2>1, <2>3, InsideNext DEF Onward
<1>7. CASE hp.state = "chunk_size_start" /\ t.k = "size" /\ t.n = 0
  <2>1. /\ r.calls = <<>> /\ hp'.state = "header_field_start"
        /\ "trailing" \in hp'.flags
    BY <1>4, <1>7, SizePiece
  <2>2. ~IsByte(t)
    BY <1>7 DEF IsByte
  <2>3. InBodyOf(hp', m, n + 1)
    BY <1>2, <1>3, <2>1 DEF InBodyOf
  <2> QED BY <1>6, <2>1, <2>2, <2>3
<1>8. CASE hp.state = "chunk_size_start" /\ t.k = "size" /\ t.n # 0
  <2>1. /\ r.calls = <<>> /\ hp'.state = "chunk_data"
        /\ hp'.flags = hp.flags /\ hp'.content_length = t.n
    BY <1>4, <1>8, SizePiece
  <2>2. ~IsByte(t)
    BY <1>8 DEF IsByte
  <2>3. /\ n + 1 + t.n <= Len(m)
        /\ \A j \in 1..t.n : IsByte(m[n + 1 + j])
    BY <1>5, <1>8 DEF FramedChunks
  <2>4. t.n > 0
    <3>1. t.n \in Nat
      BY <1>4, <1>8, MaxLengthAssumption
         DEF Pieces, Begins, Lines, Headers, Ends, Sizes, Bytes, ChunkEnds,
             Strays, Junk
    <3> QED BY <1>8, <3>1
  <2>5. InBodyOf(hp', m, n + 1)
    BY <1>2, <1>3, <2>1, <2>3, <2>4 DEF InBodyOf
  <2> QED BY <1>6, <2>1, <2>2, <2>5
<1>9. CASE hp.state = "chunk_data_almost_done" /\ t.k = "crlf"
  <2>1. /\ r.calls = <<>> /\ hp'.state = "chunk_size_start"
        /\ hp'.flags = hp.flags
    BY <1>4, <1>9, CrlfPiece
  <2>2. ~IsByte(t)
    BY <1>9 DEF IsByte
  <2>3. InBodyOf(hp', m, n + 1)
    BY <1>2, <1>3, <2>1 DEF InBodyOf
  <2> QED BY <1>6, <2>1, <2>2, <2>3
<1>10. CASE hp.state = "chunk_size_start" /\ t.k # "size"
  BY <1>4, <1>10, SizePiece
<1>11. CASE hp.state = "chunk_data_almost_done" /\ t.k # "crlf"
  BY <1>4, <1>11, CrlfPiece
<1> QED BY <1>7, <1>8, <1>9, <1>10, <1>11

LEMMA DataStep ==
    ASSUME OrderTypes, NEW m \in Responses \cup Unasked, Framed(m),
           NEW n \in Nat, Inside(m, n), InBodyOf(hp, m, n),
           hp.state = "chunk_data",
           n < Len(m), NEW t, t = m[n + 1], NEW r, Took(t, r)
    PROVE  Onward(m, n)
<1>1. /\ ~got_response /\ "is_done" \notin stack[1].keys
      /\ Told(stack[1], m, n) /\ Len(stack) = 1
  BY InsideFacts DEF InHeaderOf, Took
<1> DEFINE c == hp.content_length
<1>2. /\ n >= EndOf(m) /\ IsChunked(m) /\ "trailing" \notin hp.flags
      /\ c > 0 /\ n + c <= Len(m) /\ \A j \in 1..c : IsByte(m[n + j])
  BY DEF InBodyOf
<1>3. /\ Len(m) \in Nat /\ EndOf(m) \in 3..Len(m)
  BY EndFacts, ResponseFacts
<1>4. /\ stack \in Seq(Tables) /\ hp \in Parsers /\ t \in Pieces
      /\ r = Execute(hp, t) /\ hp' = r.parser
      /\ pc' = "parsing" /\ acc' = acc
  BY DEF Took
<1>5. c \in Int
  BY <1>4 DEF Parsers
<1>6. IsByte(t)
  <2>1. 1 \in 1..c
    BY <1>2, <1>5
  <2> QED BY <1>2, <2>1
<1>7. /\ r.calls = <<"body">> /\ hp'.flags = hp.flags
      /\ hp'.content_length = c - 1
      /\ hp'.state = IF c = 1 THEN "chunk_data_almost_done" ELSE "chunk_data"
  BY <1>4, DataPiece
<1>8. stack' = OnBody(stack, t) /\ ~got_response'
  BY <1>1, <1>7, TookCalls
<1>9. /\ Len(stack') = 1 /\ Told(stack'[1], m, n + 1)
      /\ "is_done" \notin stack'[1].keys
  BY <1>1, <1>2, <1>4, <1>6, <1>8, ByteTaken
<1> HIDE DEF c
<1>10. InBodyOf(hp', m, n + 1)
  <2>1. n + 1 >= EndOf(m)
    BY <1>2, <1>3
  <2>2. CASE c = 1
    BY <1>2, <1>7, <2>1, <2>2 DEF InBodyOf
  <2>3. CASE c # 1
    <3>1. c - 1 > 0 /\ n + 1 + (c - 1) <= Len(m)
      BY <1>2, <1>3, <1>5, <2>3
    <3>2. ASSUME NEW j \in 1..(c - 1) PROVE IsByte(m[n + 1 + j])
      <4>1. j + 1 \in 1..c /\ n + (j + 1) = n + 1 + j
        BY <1>5
      <4> QED BY <1>2, <4>1
    <3> QED BY <1>2, <1>7, <2>1, <2>3, <3>1, <3>2 DEF InBodyOf
  <2> QED BY <2>2, <2>3
<1> QED BY <1>3, <1>4, <1>8, <1>9, <1>10, InsideNext DEF Onward

LEMMA TrailerStep ==
    ASSUME OrderTypes, NEW m \in Responses \cup Unasked, Framed(m),
           NEW n \in Nat, Inside(m, n), InBodyOf(hp, m, n),
           hp.state = "header_field_start",
           n < Len(m), NEW t, t = m[n + 1], NEW r, Took(t, r),
           Len(stack) = 1
    PROVE  Onward(m, n)
<1>1. /\ ~got_response /\ "is_done" \notin stack[1].keys
      /\ Told(stack[1], m, n)
  BY InsideFacts DEF Took
<1>2. n >= EndOf(m) /\ IsChunked(m) /\ "trailing" \in hp.flags
  BY DEF InBodyOf
<1>3. Len(m) \in Nat /\ EndOf(m) \in 3..Len(m) /\ n + 1 >= EndOf(m)
  BY <1>2, EndFacts, ResponseFacts
<1>4. /\ stack \in Seq(Tables) /\ hp \in Parsers /\ t \in Pieces
      /\ r = Execute(hp, t) /\ hp' = r.parser /\ ~r.parser.failed
      /\ pc' = "parsing" /\ acc' = acc
  BY DEF Took
<1>5. stack[1] \in Tables
  BY <1>4, TableTypes, TopOfOne
<1>6. CASE t.k = "field"
  <2>1. /\ r.calls = <<"header">> /\ hp'.state = "header_field_start"
        /\ hp'.flags = hp.flags \cup FieldFlags(t.f)
    BY <1>4, <1>6, FieldPiece
  <2>2. stack' = OnHeader(stack, t.f) /\ ~got_response'
    BY <1>1, <2>1, TookCalls
  <2>3. t.f \in Fields
    BY <1>4, <1>6, PieceKinds
  <2>4. /\ stack' \in Seq(Tables) /\ Len(stack') = 1
        /\ SameContent(stack'[1], stack[1])
        /\ stack'[1].keys = stack[1].keys
    BY <1>4, <2>2, <2>3, TrailerCall
  <2>5. ~IsByte(m[n + 1]) /\ stack'[1] \in Tables
    BY <1>6, <2>4, TableTypes, TopOfOne DEF IsByte
  <2>6. Told(stack'[1], m, n + 1)
    BY <1>1, <1>2, <1>5, <2>4, <2>5, QuietPiece
  <2>7. InBodyOf(hp', m, n + 1)
    BY <1>2, <1>3, <2>1 DEF InBodyOf
  <2> QED BY <1>1, <1>3, <1>4, <2>2, <2>4, <2>6, <2>7, InsideNext DEF Onward
<1>7. CASE t.k = "end"
  <2>1. /\ r.calls = <<"message_complete">>
        /\ hp'.state \in {"start_res", "dead"}
    BY <1>2, <1>4, <1>7, TrailerEnd
  <2>2. stack' = OnMessageComplete(stack) /\ got_response'
    BY <1>1, <2>1, TookCalls
  <2>3. /\ stack' \in Seq(Tables) /\ Len(stack') = 1
        /\ "is_done" \in stack'[1].keys /\ SameContent(stack'[1], stack[1])
    BY <1>4, <2>2, DoneCall
  <2>4. n + 1 = Len(m)
    <3>1. n + 1 \in Tails(m)
      BY <1>2, <1>3 DEF Tails
    <3>2. FramedChunks(m)
      BY <1>2 DEF Framed, IsChunked
    <3> QED BY <1>7, <3>1, <3>2 DEF FramedChunks
  <2>5. ~IsByte(m[n + 1]) /\ stack'[1] \in Tables
    BY <1>7, <2>3, TableTypes, TopOfOne DEF IsByte
  <2>6. Told(stack'[1], m, Len(m))
    BY <1>1, <1>2, <1>5, <2>3, <2>4, <2>5, QuietPiece
  <2> QED BY <1>4, <2>1, <2>2, <2>3, <2>4, <2>6, EndNext DEF Onward
<1>8. CASE t.k \notin {"field", "end"}
  BY <1>4, <1>8, HeaderOther
<1> QED BY <1>6, <1>7, <1>8

LEMMA InsideStep ==
    ASSUME OrderTypes, NEW m \in Responses \cup Unasked, Framed(m),
           NEW n \in Nat, Inside(m, n), n < Len(m),
           NEW t, t = m[n + 1], NEW r, Took(t, r)
    PROVE  Onward(m, n)
<1>1. CASE InHeaderOf(hp, m, n) /\ Len(stack) = 3
  <2>1. CASE hp.state = "res_line"
    BY <2>1, LineStep DEF Onward
  <2>2. CASE hp.state = "header_field_start"
    <3>1. CASE t.k = "field"
      BY <1>1, <2>2, <3>1, FieldStep DEF Onward
    <3>2. CASE t.k = "end"
      BY <1>1, <2>2, <3>2, EndStep
    <3>3. CASE t.k \notin {"field", "end"}
      BY <2>2, <3>3, HeaderOther DEF Took
    <3> QED BY <3>1, <3>2, <3>3
  <2> QED BY <1>1, <2>1, <2>2 DEF InHeaderOf
<1>2. CASE InBodyOf(hp, m, n) /\ Len(stack) = 1
  <2>1. CASE hp.state = "body_identity"
    BY <1>2, <2>1, IdentityStep
  <2>2. CASE hp.state \in {"chunk_size_start", "chunk_data_almost_done"}
    BY <1>2, <2>2, ChunkStep
  <2>3. CASE hp.state = "chunk_data"
    BY <1>2, <2>3, DataStep
  <2>4. CASE hp.state = "header_field_start"
    BY <1>2, <2>4, TrailerStep
  <2> QED BY <1>2, <2>1, <2>2, <2>3, <2>4 DEF InBodyOf
<1> QED BY <1>1, <1>2, InsideFacts DEF Took

\* A framed response is done with its last piece: no other begins inside.
LEMMA NoneBegins ==
    ASSUME NEW m \in Responses \cup Unasked, Framed(m), NEW n \in Nat,
           Inside(m, n), n >= Len(m), NEW t, t.k = "begin", NEW r, Took(t, r)
    PROVE  FALSE
<1>1. Len(m) \in Nat /\ Len(m) > 1 /\ EndOf(m) \in 3..Len(m)
  BY ResponseFacts, EndFacts
<1>2. ~InHeaderOf(hp, m, n)
  BY <1>1 DEF InHeaderOf
<1>3. InBodyOf(hp, m, n)
  BY <1>2, InsideFacts DEF Took
<1>4. hp \in Parsers /\ t \in Pieces /\ r = Execute(hp, t) /\ ~r.parser.failed
  BY DEF Took
<1>5. CASE hp.state = "body_identity"
  BY <1>1, <1>3, <1>5 DEF InBodyOf
<1>6. CASE hp.state = "chunk_size_start"
  BY <1>4, <1>6, SizePiece
<1>7. CASE hp.state = "chunk_data_almost_done"
  BY <1>4, <1>7, CrlfPiece
<1>8. CASE hp.state = "chunk_data"
  <2>1. hp.content_length > 0 /\ n + hp.content_length <= Len(m)
    BY <1>3, <1>8 DEF InBodyOf
  <2>2. hp.content_length \in Int
    BY <1>4 DEF Parsers
  <2> QED BY <1>1, <2>1, <2>2
<1>9. CASE hp.state = "header_field_start"
  BY <1>4, <1>9, HeaderOther
<1> QED BY <1>3, <1>5, <1>6, <1>7, <1>8, <1>9 DEF InBodyOf

\* After the response, the parser gets no further than into the header of the
\* next one.
LEMMA AfterStep ==
    ASSUME NEW m, NEW n \in Nat, AtEnd(m, n), NEW t, NEW r, Took(t, r),
           n = 0 => t.k = "begin", n = 1 => t.k = "line"
    PROVE  n <= 1 /\ AtEnd(m, n + 1)'
<1>1. /\ got_response /\ Len(stack) = 1 /\ "is_done" \in stack[1].keys
      /\ Says(Got, m)
  BY DEF AtEnd
<1>2. /\ stack \in Seq(Tables) /\ hp \in Parsers /\ t \in Pieces
      /\ r = Execute(hp, t) /\ hp' = r.parser /\ ~r.parser.failed
      /\ pc = "parsing" /\ pc' = "parsing" /\ acc' = acc
      /\ ~Unexpected(r.calls)
      /\ stack' = CalledAll(r.calls, stack, hp, t)
  BY DEF Took
<1>3. ASSUME r.calls = <<>> \/ r.calls = <<"message_begin">>
      PROVE  stack' = stack
  <2>1. stack' = stack \/ stack' = OnMessageBegin(stack)
    BY <1>2, <1>3, CallsShape
  <2> QED BY <1>1, <2>1 DEF OnMessageBegin
<1>4. ASSUME stack' = stack
      PROVE  /\ Busy' /\ got_response'
             /\ Len(stack') = 1 /\ "is_done" \in stack'[1].keys
             /\ Says(Got', m)
  <2>1. Got' = Got /\ Busy'
    BY <1>2, <1>4, GotNow, GotNext
  <2>2. got_response'
    BY <1>1 DEF Took
  <2> QED BY <1>1, <1>4, <2>1, <2>2
<1>5. CASE n = 0 /\ hp.state = "start_res"
  <2>1. /\ r.calls = <<"message_begin">> /\ hp'.state = "res_line"
        /\ hp'.flags = {}
    BY <1>2, <1>5, StartPiece
  <2> QED BY <1>3, <1>4, <1>5, <2>1 DEF AtEnd
<1>6. CASE n = 0 /\ hp.state = "dead"
  BY <1>2, <1>6, DeadPiece
<1>7. CASE n = 1 /\ hp.state = "res_line" /\ hp.flags = {}
  <2>1. /\ r.calls = <<>> /\ hp'.state = "header_field_start"
        /\ hp'.flags = {}
    BY <1>2, <1>7, LinePiece
  <2> QED BY <1>3, <1>4, <1>7, <2>1 DEF AtEnd
<1>8. CASE n = 2 /\ hp.state = "header_field_start" /\ hp.flags = {}
  <2>1. \/ Refused(hp, t, r) \/ Began(hp, t, r) \/ Lined(hp, t, r)
        \/ Fielded(hp, t, r) \/ Ended(hp, t, r) \/ Continued(hp, t, r)
    <3>1. /\ hp \in Parsers /\ t \in Pieces /\ ~hp.failed
          /\ r = Execute(hp, t)
      BY DEF Took
    <3>2. hp.state # "upgraded"
      BY <1>8
    <3> QED BY <3>1, <3>2, ExecuteShape
  <2>2. Fielded(hp, t, r) \/ Ended(hp, t, r)
    BY <1>2, <1>8, <2>1 DEF Refused, Began, Lined, Continued, InHead
  <2>3. 1 \in DOMAIN r.calls /\ r.calls[1] \in {"header", "headers_complete"}
    BY <2>2 DEF Fielded, Ended
  <2> QED BY <1>1, <1>2, <2>3 DEF Unexpected
<1> QED BY <1>5, <1>6, <1>7, <1>8 DEF AtEnd

LEMMA EndlessStep ==
    ASSUME Endless, NEW t, NEW r, Took(t, r), hp.state # "upgraded"
    PROVE  Endless'
<1>1. /\ stack \in Seq(Tables) /\ hp \in Parsers /\ t \in Pieces
      /\ r = Execute(hp, t) /\ hp' = r.parser
      /\ pc = "parsing" /\ pc' = "parsing"
  BY DEF Took
<1>2. /\ hp.state = "body_identity_eof" /\ ~got_response
      /\ Len(stack) = 1 /\ "is_done" \notin stack[1].keys
  BY <1>1 DEF Endless, Busy
<1>3. r.calls = <<"body">> /\ hp' = hp
  BY <1>1, <1>2, EofPiece
<1>4. stack' = OnBody(stack, t) /\ ~got_response'
  BY <1>2, <1>3, TookCalls
<1>5. Len(stack') = 1 /\ "is_done" \notin stack'[1].keys
  BY <1>1, <1>2, <1>4, BodyCall
<1> QED BY <1>1, <1>2, <1>3, <1>4, <1>5 DEF Endless

\* The place in the stream, a piece further.
LEMMA Advance ==
    ASSUME OrderTypes, Types, NEW starts, NEW w \in Nat, Offsets(starts),
           Stream(starts, w), NEW k \in Nat, NEW n \in Nat,
           Parsed(starts, w, k, n), pos < Len(buffer),
           pos' = pos + 1, UNCHANGED <<sent, buffer>>
    PROVE  /\ n < Len(sent[k]) => Parsed(starts, w, k, n + 1)'
           /\ n >= Len(sent[k]) => Parsed(starts, w, k + 1, 1)'
           /\ n + 1 = Len(sent[k]) => Parsed(starts, w, k + 1, 0)'
<1> DEFINE N == Len(sent)
           B == Len(buffer)
           S(i) == starts[i]
           L == Len(sent[k])
<1>1. k \in 1..N /\ N \in Nat /\ L \in Nat
  BY NextPiece, SentFacts
<1>2. sent' = sent /\ buffer' = buffer
  OBVIOUS
<1>3. /\ w - B + pos = S(k) + n /\ S(k) \in Nat /\ S(k + 1) \in Nat
      /\ S(k + 1) = S(k) + L
      /\ pos \in Nat /\ B \in Nat
  <2>1. k \in 1..(N + 1) /\ k + 1 \in 1..(N + 1)
    BY <1>1
  <2>2. S(k) \in Nat /\ S(k + 1) \in Nat
    BY <2>1 DEF Offsets
  <2>3. S(k + 1) = S(k) + L
    BY <1>1 DEF Offsets
  <2> QED BY <2>2, <2>3 DEF Parsed, Types
<1>4. w - B + (pos + 1) = S(k) + (n + 1)
  <2>1. w - B + pos = S(k) + n /\ S(k) \in Nat /\ B \in Nat /\ pos \in Nat
    BY <1>3
  <2> HIDE DEF S, B, L, N
  <2> QED BY <2>1
<1>5. ASSUME n < L PROVE Parsed(starts, w, k, n + 1)'
  <2>1. n + 1 \in Nat /\ k \in 1..(N + 1) /\ k <= N /\ n + 1 <= L
    BY <1>1, <1>5
  <2> QED BY <1>2, <1>4, <2>1 DEF Parsed
<1>6. ASSUME n >= L PROVE Parsed(starts, w, k + 1, 1)'
  <2>1. k + 1 \in 1..N /\ n = L /\ w - B + pos = S(k + 1)
    BY <1>6, NextPiece
  <2>2. w - B + (pos + 1) = S(k + 1) + 1
    <3> HIDE DEF S, B, L, N
    <3> QED BY <1>3, <2>1, Z3
  <2>3. k + 1 \in 1..(N + 1) /\ k + 1 <= N /\ 1 <= Len(sent[k + 1])
    <3>1. Len(sent[k + 1]) \in Nat /\ Len(sent[k + 1]) > 1
      BY <2>1, SentFacts
    <3> QED BY <1>1, <2>1, <3>1
  <2> QED BY <1>2, <2>2, <2>3 DEF Parsed
<1>7. ASSUME n + 1 = L PROVE Parsed(starts, w, k + 1, 0)'
  <2>1. w - B + (pos + 1) = S(k + 1) + 0
    <3> HIDE DEF S, B, L, N
    <3> QED BY <1>3, <1>4, <1>7, Z3
  <2>2. k + 1 \in 1..(N + 1) /\ ~(0 > 0)
    BY <1>1
  <2> QED BY <1>2, <2>1, <2>2 DEF Parsed
<1> QED BY <1>5, <1>6, <1>7

LEMMA PieceTaken ==
    ASSUME ParseInv, OrderTypes, ParsePiece, ~hp'.failed
    PROVE  /\ Took(buffer[pos + 1], Execute(hp, buffer[pos + 1]))
           /\ pos' = pos + 1 /\ pos < Len(buffer) /\ hp.state # "upgraded"
           /\ UNCHANGED <<wire, sent, closed, buffer, acc, returned>>
<1>1. PICK t : t = buffer[pos + 1]
  OBVIOUS
<1>2. PICK r : r = Execute(hp, t)
  OBVIOUS
<1>3. /\ t \in Pieces /\ hp \in Parsers /\ ~hp.failed /\ hp.state # "upgraded"
  BY <1>1, PieceFacts DEF ParsePiece
<1>4. /\ pc = "parsing" /\ pos < Len(buffer) /\ ~Unexpected(r.calls)
      /\ stack' = CalledAll(r.calls, stack, hp, t)
      /\ hp' = r.parser
      /\ got_response' = (got_response \/ \E i \in DOMAIN r.calls :
                                              r.calls[i] = "message_complete")
      /\ pos' = IF r.parser.failed THEN pos ELSE pos + 1
      /\ UNCHANGED <<wire, sent, closed, buffer, acc, returned, pc>>
  BY <1>1, <1>2 DEF ParsePiece, Parsing, netVars, luaVars
<1>5. stack \in Seq(Tables)
  BY DEF ParseInv, Types
<1>6. Took(t, r)
  BY <1>2, <1>3, <1>4, <1>5 DEF Took, Done
<1> QED BY <1>1, <1>2, <1>3, <1>4, <1>6

\* A piece that the parser takes keeps the order.
LEMMA ParsePieceOrder ==
    ASSUME ParseInv, OrderTypes, NEW starts, NEW w \in Nat, Offsets(starts),
           Stream(starts, w), NEW k \in Nat, Clean(k),
           Progress(starts, w, k), ParsePiece, ~hp'.failed
    PROVE  Progress(starts, w, k)'
<1>1. PICK t : t = buffer[pos + 1]
  OBVIOUS
<1>2. PICK r : r = Execute(hp, t)
  OBVIOUS
<1>3. /\ Took(t, r) /\ pos' = pos + 1 /\ pos < Len(buffer)
      /\ hp.state # "upgraded"
      /\ UNCHANGED <<wire, sent, closed, buffer, acc, returned>>
  BY <1>1, <1>2, PieceTaken
<1>4. Types /\ Len(sent) \in Nat
  BY SentFacts DEF ParseInv
<1>5. ASSUME k \in 1..Len(sent)
      PROVE  /\ sent[k] \in Responses \cup Unasked /\ Framed(sent[k])
             /\ Len(sent[k]) \in Nat /\ Len(sent[k]) > 1
  BY <1>4, <1>5, SentFacts DEF Clean
<1>6. sent' = sent
  BY <1>3
<1>7. PICK m : m = sent[k]
  OBVIOUS
<1>8. ASSUME NEW n \in Nat, Parsed(starts, w, k, n), AtStart(n)
      PROVE  Progress(starts, w, k)'
  <2>1. k \in 1..Len(sent) /\ (n < Len(m) => t = m[n + 1])
    BY <1>1, <1>3, <1>4, <1>7, <1>8, NextPiece
  <2>2. n < Len(m)
    <3>1. EndOf(m) \in 3..Len(m) /\ n <= 2
      BY <1>5, <1>7, <1>8, <2>1, EndFacts DEF AtStart
    <3> QED BY <1>5, <1>7, <2>1, <3>1
  <2>3. n = 0 /\ Inside(m, 1)'
    BY <1>3, <1>5, <1>7, <1>8, <2>1, <2>2, FromStart
  <2>4. Parsed(starts, w, k, 1)'
    <3>1. Parsed(starts, w, k, n + 1)'
      BY <1>3, <1>4, <1>7, <1>8, <2>2, Advance
    <3> QED BY <2>3, <3>1
  <2>5. sent'[k] = m /\ k <= Len(sent') /\ 1 \in Nat
    BY <1>4, <1>6, <1>7, <2>1
  <2> QED BY <2>3, <2>4, <2>5 DEF Progress
<1>9. ASSUME k <= Len(sent), NEW n \in Nat, Parsed(starts, w, k, n),
             Inside(m, n)
      PROVE  Progress(starts, w, k)'
  <2>1. /\ k \in 1..Len(sent)
        /\ n < Len(m) => t = m[n + 1]
        /\ n >= Len(m) => k + 1 \in 1..Len(sent) /\ t = sent[k + 1][1]
    BY <1>1, <1>3, <1>4, <1>7, <1>9, NextPiece
  <2>2. /\ m \in Responses \cup Unasked /\ Framed(m) /\ Len(m) \in Nat
        /\ sent'[k] = m /\ k <= Len(sent')
    BY <1>4, <1>5, <1>6, <1>7, <2>1
  <2>3. n < Len(m)
    <3>1. ASSUME n >= Len(m) PROVE FALSE
      <4>1. t.k = "begin"
        BY <2>1, <3>1, SentFacts, ResponseFacts
      <4> QED BY <1>3, <1>9, <2>2, <3>1, <4>1, NoneBegins
    <3> QED BY <2>2, <3>1
  <2>4. Onward(m, n)
    BY <1>3, <1>9, <2>1, <2>2, <2>3, InsideStep
  <2>5. /\ Parsed(starts, w, k, n + 1)'
        /\ n + 1 = Len(m) => Parsed(starts, w, k + 1, 0)'
    BY <1>3, <1>4, <1>7, <1>9, <2>3, Advance
  <2>6. n + 1 \in Nat /\ 0 \in Nat
    OBVIOUS
  <2>7. CASE Inside(m, n + 1)'
    BY <2>2, <2>5, <2>6, <2>7 DEF Progress
  <2>8. CASE n + 1 = Len(m) /\ AtEnd(m, 0)'
    BY <2>2, <2>5, <2>6, <2>8 DEF Progress
  <2>9. CASE Endless'
    BY <2>9 DEF Progress
  <2> QED BY <2>4, <2>7, <2>8, <2>9 DEF Onward
<1>10. ASSUME k <= Len(sent), NEW n \in Nat, Parsed(starts, w, k + 1, n),
              AtEnd(m, n)
       PROVE  Progress(starts, w, k)'
  <2>1. k + 1 \in Nat
    OBVIOUS
  <2>2. /\ k + 1 \in 1..Len(sent)
        /\ n < Len(sent[k + 1]) => t = sent[k + 1][n + 1]
    BY <1>1, <1>3, <1>4, <1>10, <2>1, NextPiece
  <2>3. /\ Len(sent[k + 1]) \in Nat /\ Len(sent[k + 1]) > 1
        /\ sent[k + 1][1].k = "begin" /\ sent[k + 1][2].k = "line"
    BY <2>2, SentFacts, ResponseFacts
  <2>4. /\ n = 0 => t.k = "begin"
        /\ n = 1 => t.k = "line"
    <3>1. n = 0 => n + 1 = 1 /\ n < Len(sent[k + 1])
      BY <2>3
    <3>2. n = 1 => n + 1 = 2 /\ n < Len(sent[k + 1])
      BY <2>3
    <3> QED BY <2>2, <2>3, <3>1, <3>2, Zenon
  <2>5. n <= 1 /\ AtEnd(m, n + 1)'
    BY <1>3, <1>10, <2>4, AfterStep
  <2>6. n < Len(sent[k + 1]) /\ n + 1 \in Nat
    BY <2>3, <2>5
  <2>7. Parsed(starts, w, k + 1, n + 1)'
    BY <1>3, <1>4, <1>10, <2>1, <2>6, Advance
  <2>8. sent'[k] = m /\ k <= Len(sent')
    BY <1>6, <1>7, <1>10
  <2> QED BY <2>5, <2>6, <2>7, <2>8 DEF Progress
<1>11. ASSUME Endless
       PROVE  Progress(starts, w, k)'
  BY <1>3, <1>11, EndlessStep DEF Progress
<1> QED BY <1>7, <1>8, <1>9, <1>10, <1>11 DEF Progress

-----------------------------------------------------------------------------
(* The other steps keep the order. *)

LEMMA Unmoved ==
    ASSUME NEW starts, NEW w, UNCHANGED <<wire, sent, closed, buffer>>
    PROVE  /\ Offsets(starts) => Offsets(starts)'
           /\ Stream(starts, w) => Stream(starts, w)'
           /\ pos' = pos => \A k, n : Parsed(starts, w, k, n)
                                          => Parsed(starts, w, k, n)'
<1>1. wire' = wire /\ sent' = sent /\ closed' = closed /\ buffer' = buffer
  OBVIOUS
<1>2. Offsets(starts) => Offsets(starts)'
  BY <1>1 DEF Offsets
<1>3. Stream(starts, w) => Stream(starts, w)'
  BY <1>1 DEF Stream
<1>4. ASSUME pos' = pos, NEW k, NEW n, Parsed(starts, w, k, n)
      PROVE  Parsed(starts, w, k, n)'
  BY <1>1, <1>4 DEF Parsed
<1> QED BY <1>2, <1>3, <1>4

\* A step that keeps the place in the stream and what is returned.
LEMMA SamePlace ==
    ASSUME Order, UNCHANGED <<wire, sent, closed, buffer, pos, returned>>,
           acc' \in Gathered, OneResult', Going' => Going,
           Going' /\ pc' # "parsing" => pos = Len(buffer),
           \A n \in Nat : Going' /\ AtStart(n) => AtStart(n)',
           \A m \in Responses \cup Unasked : \A n \in Nat :
               Going' /\ Framed(m) =>
                   /\ Inside(m, n) => Inside(m, n)'
                   /\ AtEnd(m, n) => AtEnd(m, n)',
           Going' /\ Endless => Endless'
    PROVE  Order'
<1>1. PICK starts, w : OrderInv(starts, w)
  BY DEF Order
<1>2. PICK k : k = Len(returned) + 1
  OBVIOUS
<1>3. sent' = sent /\ returned' = returned /\ Len(sent) \in Nat
  BY SentFacts DEF Order
<1>4. OrderTypes'
  BY DEF Order, OrderTypes
<1>5. Clean(k)' => Clean(k)
  BY <1>3 DEF Clean
<1>6. Returned'
  BY <1>3 DEF Order, Returned, Clean
<1>7. ASSUME Going', Clean(k)
      PROVE  Progress(starts, w, k)'
  <2>1. Progress(starts, w, k) /\ k \in Nat
    BY <1>1, <1>2, <1>7 DEF OrderInv, Order, OrderTypes
  <2>2. PICK m : m = sent[k]
    OBVIOUS
  <2>3. k <= Len(sent) => Framed(m) /\ sent'[k] = m /\ k <= Len(sent')
    <3>1. ASSUME k <= Len(sent) PROVE k \in 1..k
      <4>1. Len(returned) \in Nat
        BY DEF Order, OrderTypes
      <4> QED BY <1>2, <4>1
    <3> QED BY <1>3, <1>7, <2>2, <3>1 DEF Clean
  <2>4. k <= Len(sent) => m \in Responses \cup Unasked
    <3>1. Len(returned) \in Nat
      BY DEF Order, OrderTypes
    <3>2. k <= Len(sent) => k \in 1..Len(sent)
      BY <1>2, <1>3, <3>1
    <3> QED BY <2>2, <3>2, SentFacts DEF Order
  <2>5. \A j, n : Parsed(starts, w, j, n) => Parsed(starts, w, j, n)'
    BY Unmoved
  <2>6. ASSUME NEW n \in Nat, Parsed(starts, w, k, n), AtStart(n)
        PROVE  Progress(starts, w, k)'
    BY <1>7, <2>5, <2>6 DEF Progress
  <2>7. ASSUME k <= Len(sent), NEW n \in Nat, Parsed(starts, w, k, n),
               Inside(m, n)
        PROVE  Progress(starts, w, k)'
    <3>1. Inside(m, n)' /\ Parsed(starts, w, k, n)'
      BY <1>7, <2>3, <2>4, <2>5, <2>7
    <3> QED BY <2>3, <2>7, <3>1 DEF Progress
  <2>8. ASSUME k <= Len(sent), NEW n \in Nat, Parsed(starts, w, k + 1, n),
               AtEnd(m, n)
        PROVE  Progress(starts, w, k)'
    <3>1. AtEnd(m, n)' /\ Parsed(starts, w, k + 1, n)'
      BY <1>7, <2>3, <2>4, <2>5, <2>8
    <3> QED BY <2>3, <2>8, <3>1 DEF Progress
  <2>9. Endless => Progress(starts, w, k)'
    BY <1>7 DEF Progress
  <2> QED BY <2>1, <2>2, <2>6, <2>7, <2>8, <2>9 DEF Progress
<1>8. OrderInv(starts, w)'
  <2>1. Offsets(starts)' /\ Stream(starts, w)'
    BY <1>1, Unmoved DEF OrderInv
  <2>2. Going' /\ pc' # "parsing" => pos' = Len(buffer')
    OBVIOUS
  <2>3. ASSUME NEW j, Going', j = Len(returned') + 1, Clean(j)'
        PROVE  Progress(starts, w, j)'
    <3>1. j = k
      BY <1>2, <1>3, <2>3
    <3> QED BY <1>5, <1>7, <2>3, <3>1
  <2> QED BY <2>1, <2>2, <2>3 DEF OrderInv
<1> QED BY <1>4, <1>6, <1>8 DEF Order

LEMMA GatheredNext ==
    ASSUME OrderTypes, NEW T \in Tables
    PROVE  Accumulate(T) \in Gathered
<1>1. acc.body \o T.body \in Seq(Pieces)
  <2>1. acc.body \in Seq(Pieces) /\ T.body \in Seq(Pieces)
    BY DEF OrderTypes, Gathered, Tables
  <2> QED BY <2>1, ConcatProperties
<1>2. /\ T.headers \in Seq(Fields) /\ T.status_code \in Codes
      /\ T.keys \in SUBSET Keys
  BY DEF Tables
<1>3. /\ acc.headers \in Seq(Fields) /\ acc.status_code \in Codes
      /\ acc.keys \in SUBSET Keys
  BY DEF OrderTypes, Gathered
<1>4. acc.keys \cup (T.keys \cap {"is_keepalive", "is_gzipped"}) \in SUBSET Keys
  BY <1>2, <1>3
<1>5. /\ (IF "headers" \in T.keys THEN T.headers ELSE acc.headers) \in Seq(Fields)
      /\ (IF "headers" \in T.keys THEN T.status_code ELSE acc.status_code)
             \in Codes
  BY <1>2, <1>3
<1> QED BY <1>1, <1>4, <1>5 DEF Accumulate, Gathered

LEMMA NothingGathered == Accumulators \in Gathered
<1>1. <<>> \in Seq(Fields) /\ <<>> \in Seq(Pieces) /\ "200" \in Codes
  BY DEF Codes
<1> QED BY <1>1 DEF Accumulators, Gathered

\* The empty table adds nothing.
LEMMA TableAddsNothing ==
    ASSUME OrderTypes
    PROVE  /\ Accumulate(Table).headers = acc.headers
           /\ Accumulate(Table).status_code = acc.status_code
           /\ Accumulate(Table).body = acc.body
           /\ Accumulate(Table).keys = acc.keys
<1>1. acc.body \o <<>> = acc.body
  <2>1. acc.body \in Seq(Pieces)
    BY DEF OrderTypes, Gathered
  <2> QED BY <2>1, ConcatEmptySeq
<1>2. Table.keys = {} /\ Table.body = <<>>
  BY DEF Table
<1> QED BY <1>1, <1>2 DEF Accumulate

LEMMA ResultThere ==
    ASSUME Inv, Order, pc = "planned", plan = "result"
    PROVE  Len(stack) = 1 /\ stack[1] \in Tables
<1>1. Len(stack) = 1 /\ stack \in Seq(Tables)
  BY DEF Order, OneResult, Inv, Types
<1>2. 1 \in 1..Len(stack)
  BY <1>1
<1> QED BY <1>1, <1>2, ElementOfSeq

LEMMA ReceiveOrder ==
    ASSUME Inv, Order, Receive
    PROVE  Order'
<1>1. /\ pc = "idle" /\ pc' = "yielded" /\ hp' = ParserInit
      /\ acc' = Accumulators /\ plan' = plan
      /\ UNCHANGED <<wire, sent, closed, buffer, pos, returned>>
  BY DEF Receive, netVars
<1>2. acc' \in Gathered
  BY <1>1, NothingGathered
<1>3. OneResult' /\ Going
  BY <1>1 DEF OneResult, Going
<1>4. pos = Len(buffer)
  BY <1>1, <1>3 DEF Order, OrderInv
<1>5. \A n \in Nat : AtStart(n) => AtStart(n)'
  <2>1. ParserInit.state = "start_res"
    BY DEF ParserInit
  <2> QED BY <1>1, <2>1 DEF AtStart, Busy
<1>6. /\ \A m, n : ~Inside(m, n) /\ ~AtEnd(m, n)
      /\ ~Endless
  BY <1>1 DEF Inside, AtEnd, Endless, Busy
<1> QED BY <1>1, <1>2, <1>3, <1>4, <1>5, <1>6, SamePlace

LEMMA ResumeMoreOrder ==
    ASSUME Inv, Order, ResumeMore
    PROVE  Order'
<1>1. /\ pc = "planned" /\ plan = "result" /\ "is_done" \notin stack[1].keys
      /\ acc' = Accumulate(stack[1]) /\ pc' = "yielded"
      /\ UNCHANGED <<wire, sent, closed, hp, got_response, buffer, pos,
                     returned>>
  BY DEF ResumeMore, netVars
<1>2. OrderTypes /\ Len(stack) = 1 /\ stack[1] \in Tables
  BY <1>1, ResultThere DEF Order
<1>3. acc' \in Gathered
  BY <1>1, <1>2, GatheredNext
<1>4. OneResult' /\ Going /\ Busy /\ ~Busy'
  BY <1>1 DEF OneResult, Going, Busy
<1>5. pos = Len(buffer)
  BY <1>1, <1>4 DEF Order, OrderInv
<1>6. ASSUME NEW n \in Nat, AtStart(n)
      PROVE  AtStart(n)'
  <2>1. acc = Accumulators /\ stack[1] = Table /\ n <= 2
        /\ hp.state = "start_res"
    BY <1>1, <1>4, <1>6 DEF AtStart
  <2>2. Accumulate(Table) = Accumulators
    <3>1. <<>> \o <<>> = <<>>
      OBVIOUS
    <3> QED BY <2>1, <3>1 DEF Accumulate, Accumulators, Table
  <2> QED BY <1>1, <1>4, <2>1, <2>2 DEF AtStart
<1>7. OrderTypes'
  BY <1>1, <1>3 DEF Order, OrderTypes
<1>8. ASSUME NEW m \in Responses \cup Unasked, Framed(m), NEW n \in Nat
      PROVE  /\ Inside(m, n) => Inside(m, n)'
             /\ ~AtEnd(m, n)
  <2>1. Got = Accumulate(stack[1])
    BY <1>4 DEF Got
  <2>2. /\ Got'.headers = Got.headers /\ Got'.status_code = Got.status_code
        /\ Got'.body = Got.body /\ Got'.keys = Got.keys
    <3>1. Got' = Accumulate(Table)'
      BY <1>4 DEF Got
    <3>2. /\ Accumulate(Table)'.headers = acc'.headers
          /\ Accumulate(Table)'.status_code = acc'.status_code
          /\ Accumulate(Table)'.body = acc'.body
          /\ Accumulate(Table)'.keys = acc'.keys
      <4>1. acc'.body \o <<>> = acc'.body
        <5>1. acc'.body \in Seq(Pieces)
          BY <1>3 DEF Gathered
        <5> QED BY <5>1, ConcatEmptySeq
      <4>2. Table.keys = {} /\ Table.body = <<>>
        BY DEF Table
      <4> QED BY <4>1, <4>2 DEF Accumulate
    <3> QED BY <1>1, <2>1, <3>1, <3>2
  <2>3. ASSUME Inside(m, n)
        PROVE  Inside(m, n)'
    <3>1. ~InHeaderOf(hp, m, n)
      <4>1. ~InHead(hp)
        BY <1>1 DEF Inv, Plans
      <4>2. ASSUME "trailing" \in hp.flags, NEW i \in 3..n, n < EndOf(m)
            PROVE  ~HasField(m, i, "trailing")
        <5>1. EndOf(m) \in 3..Len(m) /\ Len(m) \in Nat
          BY <1>8, EndFacts, ResponseFacts
        <5>2. m[i] \in Pieces
          BY <4>2, <5>1, ResponseFacts
        <5> QED BY <5>2, PieceKinds DEF HasField, Fields
      <4> QED BY <4>1, <4>2 DEF InHeaderOf, InHead, Flags
    <3>2. InBodyOf(hp, m, n) /\ HasHeader(Got, m)
      BY <2>3, <3>1 DEF Inside
    <3>3. InBodyOf(hp', m, n)
      BY <1>1, <3>2
    <3>4. HasHeader(Got', m) /\ HasBody(Got'.body, m, n) /\ HasGzip(Got'.keys, m, n)
      BY <2>2, <2>3, <3>2 DEF HasHeader, Inside
    <3>5. 1 <= n /\ n <= Len(m) /\ pc' # "idle"
      BY <1>1, <2>3 DEF Inside
    <3>6. InBodyOf(hp, m, n)' /\ HasHeader(Got, m)' /\ HasBody(Got.body, m, n)'
          /\ HasGzip(Got.keys, m, n)'
      BY <3>3, <3>4
    <3> QED BY <1>4, <3>5, <3>6 DEF Inside
  <2>4. ~AtEnd(m, n)
    BY <1>1 DEF AtEnd
  <2> QED BY <2>3, <2>4
<1>9. Endless => Endless'
  BY <1>1, <1>4 DEF Endless
<1> QED BY <1>1, <1>3, <1>4, <1>5, <1>6, <1>8, <1>9, SamePlace

\* The steps that receive() cannot succeed after, and that of its timer.
LEMMA StopOrder ==
    ASSUME Inv, Order,
           \/ ResumeFailed \/ CbRecvNothing \/ RecvTimeout
           \/ ParseUnexpected \/ ParseGzipTrailer
    PROVE  Order'
<1>1. UNCHANGED <<wire, sent, closed, hp, got_response, buffer, pos, stack, acc,
                  returned>>
  BY DEF ResumeFailed, CbRecvNothing, RecvTimeout, ParseUnexpected,
         ParseGzipTrailer, Crash, netVars, parseVars, luaVars
<1>2. acc' \in Gathered
  BY <1>1 DEF Order, OrderTypes
<1>3. \/ ~Going' /\ ~(pc' = "planned" /\ plan' = "result")
      \/ pc = "yielded" /\ pc' = "yielded"
  <2>1. CASE ResumeFailed \/ ParseUnexpected \/ ParseGzipTrailer
    BY <2>1 DEF ResumeFailed, ParseUnexpected, ParseGzipTrailer, Crash, Going
  <2>2. CASE RecvTimeout
    BY <2>2 DEF RecvTimeout
  <2>3. CASE CbRecvNothing
    <3>1. pc = "yielded" /\ pc' = "planned" /\ plan' = PlanOr("closed")
      BY <2>3 DEF CbRecvNothing
    <3>2. plan \in {NoPlan, "timeout"}
      BY <3>1 DEF Inv, Plans
    <3> QED BY <3>1, <3>2 DEF Going, PlanOr, NoPlan
  <2> QED BY <2>1, <2>2, <2>3
<1>4. CASE ~Going' /\ ~(pc' = "planned" /\ plan' = "result")
  <2>1. OneResult'
    BY <1>4 DEF OneResult
  <2> QED BY <1>1, <1>2, <1>4, <2>1, SamePlace
<1>5. CASE pc = "yielded" /\ pc' = "yielded"
  <2>1. OneResult' /\ (Going' => Going)
    BY <1>1, <1>5 DEF OneResult, Going
  <2>2. Going => pos = Len(buffer)
    BY <1>5 DEF Order, OrderInv
  <2>3. UNCHANGED <<Busy, Got>>
    BY <1>1, <1>5 DEF Busy, Got, Accumulate
  <2>4. \A n \in Nat : AtStart(n) => AtStart(n)'
    BY <1>1, <1>5, <2>3 DEF AtStart
  <2>5. \A m, n : Inside(m, n) => Inside(m, n)'
    BY <1>1, <1>5, <2>3 DEF Inside
  <2>6. \A m, n : AtEnd(m, n) => AtEnd(m, n)'
    BY <1>1, <1>5, <2>3 DEF AtEnd
  <2>7. Endless => Endless'
    BY <1>1, <1>5, <2>3 DEF Endless
  <2> QED BY <1>1, <1>2, <2>1, <2>2, <2>4, <2>5, <2>6, <2>7, SamePlace
<1> QED BY <1>3, <1>4, <1>5

LEMMA CbRecvEndOrder ==
    ASSUME Inv, Order, CbRecvEnd
    PROVE  Order'
<1>1. /\ pc = "parsing" /\ ~Parsing
      /\ UNCHANGED <<wire, sent, closed, hp, got_response, buffer, pos, stack,
                     acc, returned>>
  BY DEF CbRecvEnd, Crash, netVars, parseVars, luaVars
<1>2. acc' \in Gathered
  BY <1>1 DEF Order, OrderTypes
<1>3. CASE pc' = "crashed"
  <2>1. ~Going' /\ OneResult'
    BY <1>3 DEF Going, OneResult
  <2> QED BY <1>1, <1>2, <2>1, SamePlace
<1>4. CASE pc' # "crashed"
  <2>1. /\ hp.state # "upgraded" /\ CallsPlanResume /\ pc' = "planned"
        /\ plan' = PlanOr(IF hp.failed THEN "failed" ELSE "result")
    BY <1>4 DEF CbRecvEnd, Crash
  <2>2. plan' = "result" => ~hp.failed
    <3>1. plan # "result"
      BY <1>1 DEF Inv, Plans, NoPlan
    <3> QED BY <2>1, <3>1 DEF PlanOr
  <2>3. Going' => ~hp.failed
    BY <2>1, <2>2 DEF Going
  <2>4. Going' => Going
    BY <1>1, <2>3 DEF Going
  <2>5. Going' => pos = Len(buffer)
    <3>1. pos \in 0..Len(buffer) /\ Len(buffer) \in Nat
      BY DEF Inv, Types
    <3> QED BY <1>1, <2>1, <2>3, <3>1 DEF Parsing
  <2>6. OneResult'
    BY <1>1, <2>1 DEF OneResult, CallsPlanResume
  <2>7. Busy' /\ Busy /\ Got' = Got
    BY <1>1, <2>1 DEF Busy, Got, Accumulate
  <2>8. \A n \in Nat : AtStart(n) => AtStart(n)'
    BY <1>1, <2>1, <2>7 DEF AtStart
  <2>9. \A m, n : Inside(m, n) => Inside(m, n)'
    BY <1>1, <2>1, <2>7 DEF Inside
  <2>10. \A m, n : AtEnd(m, n) => AtEnd(m, n)'
    BY <1>1, <2>7 DEF AtEnd
  <2>11. Endless => Endless'
    BY <1>1, <2>1, <2>7 DEF Endless
  <2> QED BY <1>1, <1>2, <2>4, <2>5, <2>6, <2>8, <2>9, <2>10, <2>11, SamePlace
<1> QED BY <1>3, <1>4

LEMMA ParseOrder ==
    ASSUME Inv, Order, ParsePiece
    PROVE  Order'
<1>1. PICK starts, w : OrderInv(starts, w)
  BY DEF Order
<1>2. /\ pc = "parsing" /\ pc' = "parsing" /\ ~hp.failed
      /\ UNCHANGED <<wire, sent, closed, buffer, acc, returned>>
  BY DEF ParsePiece, Parsing, netVars, luaVars
<1>3. ParseInv
  BY <1>2 DEF Inv, ParseInv
<1>4. /\ Offsets(starts) /\ Stream(starts, w)
      /\ Offsets(starts)' /\ Stream(starts, w)' /\ w \in Nat
  BY <1>1, <1>2, Unmoved DEF OrderInv, Stream
<1>5. OrderTypes' /\ OneResult'
  BY <1>2 DEF Order, OrderTypes, OneResult
<1>6. Returned'
  BY <1>2 DEF Order, Returned, Clean
<1>7. ASSUME NEW k, Going', k = Len(returned') + 1, Clean(k)'
      PROVE  Progress(starts, w, k)'
  <2>1. k \in Nat /\ k = Len(returned) + 1 /\ Clean(k) /\ OrderTypes
    BY <1>2, <1>7 DEF Order, OrderTypes, Clean
  <2>2. Progress(starts, w, k)
    BY <1>1, <1>2, <2>1 DEF OrderInv, Going
  <2>3. ~hp'.failed
    BY <1>2, <1>7 DEF Going
  <2> QED BY <1>3, <1>4, <2>1, <2>2, <2>3, ParsePieceOrder
<1>8. OrderInv(starts, w)'
  BY <1>2, <1>4, <1>7 DEF OrderInv
<1> QED BY <1>5, <1>6, <1>8 DEF Order

\* A packet more is taken from the stream.
LEMMA CbRecvOrder ==
    ASSUME Inv, Order, NEW n \in 1..Chunk, CbRecv(n)
    PROVE  Order'
<1>1. PICK starts, w : OrderInv(starts, w)
  BY DEF Order
<1>2. /\ pc = "yielded" /\ pc' = "parsing" /\ got_response' = FALSE
      /\ stack' = <<Table>>
      /\ UNCHANGED <<sent, closed, hp, acc, returned>>
  BY DEF CbRecv, luaVars
<1>3. Going /\ pos = Len(buffer)
  <2>1. Going
    BY <1>2 DEF Inv, Plans, Going
  <2> QED BY <1>1, <1>2, <2>1 DEF OrderInv
<1>4. OrderTypes /\ OrderTypes' /\ OneResult'
  BY <1>2 DEF Order, OrderTypes, OneResult
<1>5. PICK v : v = w + n
  OBVIOUS
<1>6. /\ Offsets(starts)' /\ Stream(starts, v)'
      /\ \A k, i : Parsed(starts, w, k, i) => Parsed(starts, v, k, i)'
  <2>1. w \in Nat /\ n \in Nat /\ 1 <= n /\ Types
    BY <1>1 DEF OrderInv, Stream, Inv
  <2>2. Offsets(starts) /\ Stream(starts, w)
    BY <1>1 DEF OrderInv
  <2>3. PICK u : u = n
    OBVIOUS
  <2> QED BY <1>3, <1>4, <1>5, <2>1, <2>2, TakeKeeps
<1>7. Returned'
  BY <1>2 DEF Order, Returned, Clean
<1>8. ASSUME NEW k, Going', k = Len(returned') + 1, Clean(k)'
      PROVE  Progress(starts, v, k)'
  <2>1. k = Len(returned) + 1 /\ Clean(k) /\ sent' = sent
    BY <1>2, <1>8 DEF Clean
  <2>2. Progress(starts, w, k)
    BY <1>1, <1>3, <2>1 DEF OrderInv
  <2>3. ~Busy /\ Busy' /\ stack'[1] = Table /\ Len(stack') = 1 /\ pc # "idle"
    BY <1>2 DEF Busy
  <2>4. Got' = Got
    BY <1>2, <2>3 DEF Got, Accumulate
  <2>5. \A i \in Nat : AtStart(i) => AtStart(i)'
    BY <1>2, <2>3 DEF AtStart
  <2>6. \A m, i : Inside(m, i) => Inside(m, i)'
    <3>1. "is_done" \notin Table.keys
      BY DEF Table
    <3>2. ASSUME NEW m, NEW i, Inside(m, i)
          PROVE  Inside(m, i)'
      <4>1. /\ InBodyOf(hp, m, i) /\ HasHeader(Got, m)
            /\ 1 <= i /\ i <= Len(m)
            /\ HasBody(Got.body, m, i) /\ HasGzip(Got.keys, m, i)
        BY <2>3, <3>2 DEF Inside
      <4>2. /\ InBodyOf(hp', m, i) /\ HasHeader(Got', m)
            /\ HasBody(Got'.body, m, i) /\ HasGzip(Got'.keys, m, i)
        BY <1>2, <2>4, <4>1
      <4>3. /\ InBodyOf(hp, m, i)' /\ HasHeader(Got, m)'
            /\ HasBody(Got.body, m, i)' /\ HasGzip(Got.keys, m, i)'
        BY <4>2
      <4> QED BY <1>2, <2>3, <3>1, <4>1, <4>3 DEF Inside
    <3> QED BY <3>2
  <2>7. \A m, i : ~AtEnd(m, i)
    BY <2>3 DEF AtEnd
  <2>8. Endless => Endless'
    <3>1. "is_done" \notin Table.keys
      BY DEF Table
    <3> QED BY <1>2, <2>3, <3>1 DEF Endless
  <2>9. ASSUME NEW i \in Nat, Parsed(starts, w, k, i), AtStart(i)
        PROVE  Progress(starts, v, k)'
    BY <1>6, <2>5, <2>9 DEF Progress
  <2>10. ASSUME k <= Len(sent), NEW i \in Nat, Parsed(starts, w, k, i),
                Inside(sent[k], i)
         PROVE  Progress(starts, v, k)'
    <3>1. PICK m : m = sent[k]
      OBVIOUS
    <3>2. Inside(m, i)' /\ sent'[k] = m /\ k <= Len(sent')
      BY <2>1, <2>6, <2>10, <3>1
    <3> QED BY <1>6, <2>10, <3>2 DEF Progress
  <2> QED BY <2>2, <2>7, <2>8, <2>9, <2>10 DEF Progress
<1>9. OrderInv(starts, v)'
  BY <1>2, <1>6, <1>8 DEF OrderInv
<1> QED BY <1>4, <1>7, <1>9 DEF Order

\* receive() returns the response that it is at the end of.
LEMMA ResumeDoneOrder ==
    ASSUME Inv, Order, ResumeDone
    PROVE  Order'
<1>1. PICK starts, w : OrderInv(starts, w)
  BY DEF Order
<1>2. /\ pc = "planned" /\ plan = "result" /\ "is_done" \in stack[1].keys
      /\ returned' = Append(returned, Accumulate(stack[1]))
      /\ acc' = Accumulators /\ stack' = <<>>
      /\ pc' \in {"idle", "gone"}
      /\ UNCHANGED <<wire, sent, closed, hp, got_response, buffer, pos>>
  BY DEF ResumeDone, netVars
<1>3. PICK got : got = Accumulate(stack[1])
  OBVIOUS
<1>4. OrderTypes /\ got \in Gathered
  BY <1>2, <1>3, ResultThere, GatheredNext DEF Order
<1>5. /\ Len(returned) \in Nat /\ Len(returned') = Len(returned) + 1
      /\ returned' \in Seq(Gathered)
      /\ returned'[Len(returned) + 1] = got
      /\ \A i \in 1..Len(returned) : returned'[i] = returned[i]
  BY <1>2, <1>3, <1>4, AppendProperties DEF OrderTypes
<1>6. OrderTypes' /\ OneResult'
  BY <1>2, <1>4, <1>5, NothingGathered DEF OrderTypes, OneResult
<1>7. PICK k : k = Len(returned) + 1
  OBVIOUS
<1>8. Going /\ Busy /\ Got = got /\ pos = Len(buffer)
  <2>1. Going /\ Busy
    BY <1>2 DEF Going, Busy
  <2> QED BY <1>1, <1>2, <1>3, <2>1 DEF Got, OrderInv
<1>9. ASSUME Clean(k)
      PROVE  /\ k <= Len(sent) /\ Says(got, sent[k])
             /\ \E n \in Nat : Parsed(starts, w, k + 1, n) /\ n <= 2
                               /\ hp.state # "upgraded"
  <2>1. Progress(starts, w, k)
    BY <1>1, <1>7, <1>8, <1>9 DEF OrderInv
  <2>2. "is_done" \notin Table.keys /\ <<Table>>[1] = Table
    BY DEF Table
  <2>3. \A n : ~AtStart(n)
    BY <1>2, <1>8, <2>2 DEF AtStart
  <2>4. \A m, n : ~Inside(m, n)
    BY <1>2, <1>8 DEF Inside
  <2>5. ~Endless
    <3>1. hp.state # "upgraded"
      BY <1>2 DEF Inv, Plans
    <3> QED BY <1>2, <1>8, <3>1 DEF Endless
  <2>6. PICK n \in Nat : Parsed(starts, w, k + 1, n) /\ AtEnd(sent[k], n)
    BY <2>1, <2>3, <2>4, <2>5 DEF Progress
  <2>7. Says(Got, sent[k]) /\ n <= 2
    BY <2>6 DEF AtEnd
  <2>8. k <= Len(sent)
    BY <2>1, <2>3, <2>4, <2>5 DEF Progress
  <2>9. hp.state # "upgraded"
    BY <1>2 DEF Inv, Plans
  <2> QED BY <1>8, <2>6, <2>7, <2>8, <2>9
<1>10. Returned'
  <2>1. ASSUME NEW i \in 1..Len(returned'), Clean(i)'
        PROVE  i <= Len(sent) /\ Says(returned'[i], sent[i])
    <3>1. Clean(i)
      BY <1>2, <2>1 DEF Clean
    <3>2. CASE i \in 1..Len(returned)
      BY <1>5, <3>1, <3>2 DEF Order, Returned
    <3>3. CASE i = Len(returned) + 1
      BY <1>5, <1>7, <1>9, <3>1, <3>3
    <3> QED BY <1>5, <3>2, <3>3
  <2>2. ASSUME NEW i \in 1..Len(returned'), Clean(i)'
        PROVE  i <= Len(sent') /\ Says(returned'[i], sent'[i])
    BY <1>2, <2>1, <2>2
  <2> QED BY <2>2 DEF Returned
<1>11. \A j, n : Parsed(starts, w, j, n) => Parsed(starts, w, j, n)'
  BY <1>2, Unmoved
<1>12. ASSUME NEW j, Going', j = Len(returned') + 1, Clean(j)'
       PROVE  Progress(starts, w, j)'
  <2>1. j = k + 1 /\ k \in Nat
    BY <1>5, <1>7, <1>12
  <2>2. Clean(k)
    <3>1. \A i \in 1..k : i \in 1..j
      BY <2>1
    <3> QED BY <1>2, <1>12, <3>1 DEF Clean
  <2>3. PICK n \in Nat : Parsed(starts, w, k + 1, n) /\ n <= 2
    BY <1>9, <2>2
  <2>4. Parsed(starts, w, j, n)'
    BY <1>11, <2>1, <2>3
  <2>5. AtStart(n)'
    <3>1. pc' = "idle"
      BY <1>2, <1>12 DEF Going
    <3> QED BY <1>2, <2>3, <3>1 DEF AtStart, Busy
  <2> QED BY <2>4, <2>5 DEF Progress
<1>13. OrderInv(starts, w)'
  <2>1. Offsets(starts)' /\ Stream(starts, w)'
    BY <1>1, <1>2, Unmoved DEF OrderInv
  <2> QED BY <1>2, <1>8, <1>12, <2>1 DEF OrderInv
<1> QED BY <1>6, <1>10, <1>13 DEF Order

\* What the server does changes nothing of what is parsed.
LEMMA ServerOrder ==
    ASSUME Inv, Order, NEW starts, NEW w, OrderInv(starts, w),
           NEW f, Offsets(f)', Stream(f, w)',
           \A k, i : Parsed(starts, w, k, i) => Parsed(f, w, k, i)',
           OrderTypes', Len(sent) <= Len(sent'), Len(sent') \in Nat,
           \A i \in 1..Len(sent) : sent'[i] = sent[i],
           UNCHANGED <<parseVars, timer, plan, pc, luaVars>>
    PROVE  Order'
<1>1. UNCHANGED <<hp, got_response, buffer, pos, stack, plan, pc, acc, returned>>
  BY DEF parseVars, luaVars
<1>2. Len(sent) \in Nat /\ Len(returned) \in Nat
  BY SentFacts DEF Order, OrderTypes
<1>3. OneResult'
  BY <1>1 DEF Order, OneResult
<1>4. ASSUME NEW j, Clean(j)' PROVE Clean(j)
  <2>1. ASSUME NEW i \in 1..j, i <= Len(sent)
        PROVE  Framed(sent[i])
    <3>1. i \in 1..Len(sent) /\ i <= Len(sent')
      BY <1>2, <2>1
    <3>2. sent'[i] = sent[i]
      BY <3>1
    <3>3. Framed(sent'[i])
      BY <1>4, <3>1 DEF Clean
    <3> QED BY <3>2, <3>3
  <2> QED BY <2>1 DEF Clean
<1>5. Returned'
  <2>1. ASSUME NEW i \in 1..Len(returned'), Clean(i)'
        PROVE  i <= Len(sent') /\ Says(returned'[i], sent'[i])
    <3>1. i <= Len(sent) /\ Says(returned[i], sent[i]) /\ i \in 1..Len(returned)
      BY <1>1, <1>4, <2>1 DEF Order, Returned
    <3>2. sent'[i] = sent[i] /\ i <= Len(sent')
      BY <1>2, <3>1
    <3> QED BY <1>1, <3>1, <3>2
  <2> QED BY <2>1 DEF Returned
<1>6. Got' = Got /\ Busy' = Busy /\ (Going' <=> Going)
  BY <1>1 DEF Got, Busy, Accumulate, Going
<1>7. \A n : AtStart(n) => AtStart(n)'
  BY <1>1, <1>6 DEF AtStart
<1>8. \A m, n : Inside(m, n) => Inside(m, n)'
  BY <1>1, <1>6 DEF Inside
<1>9. \A m, n : AtEnd(m, n) => AtEnd(m, n)'
  BY <1>1, <1>6 DEF AtEnd
<1>10. Endless => Endless'
  BY <1>1, <1>6 DEF Endless
<1>11. ASSUME NEW k, Going', k = Len(returned') + 1, Clean(k)'
       PROVE  Progress(f, w, k)'
  <2>1. Progress(starts, w, k) /\ k \in Nat /\ 1 <= k
    BY <1>1, <1>2, <1>4, <1>6, <1>11 DEF OrderInv
  <2>2. PICK m : m = sent[k]
    OBVIOUS
  <2>3. k <= Len(sent) => sent'[k] = m /\ k <= Len(sent')
    BY <1>2, <2>1, <2>2
  <2>4. ASSUME NEW n \in Nat, Parsed(starts, w, k, n), AtStart(n)
        PROVE  Progress(f, w, k)'
    BY <1>7, <2>4 DEF Progress
  <2>5. ASSUME k <= Len(sent), NEW n \in Nat, Parsed(starts, w, k, n),
               Inside(m, n)
        PROVE  Progress(f, w, k)'
    BY <1>8, <2>3, <2>5 DEF Progress
  <2>6. ASSUME k <= Len(sent), NEW n \in Nat, Parsed(starts, w, k + 1, n),
               AtEnd(m, n)
        PROVE  Progress(f, w, k)'
    BY <1>9, <2>3, <2>6 DEF Progress
  <2>7. Endless => Progress(f, w, k)'
    BY <1>10 DEF Progress
  <2> QED BY <2>1, <2>2, <2>4, <2>5, <2>6, <2>7 DEF Progress
<1>12. OrderInv(f, w)'
  BY <1>1, <1>6, <1>11 DEF OrderInv
<1> QED BY <1>3, <1>5, <1>12 DEF Order

LEMMA SendOrder ==
    ASSUME Inv, Order, NEW m \in Responses \cup Unasked, Send(m)
    PROVE  Order'
<1>1. PICK starts, w : OrderInv(starts, w)
  BY DEF Order
<1>2. OrderTypes /\ Types /\ Offsets(starts) /\ Stream(starts, w)
  BY <1>1 DEF Order, Inv, OrderInv
<1>3. /\ OrderTypes' /\ Len(sent') = Len(sent) + 1 /\ Len(sent) \in Nat
      /\ \A i \in 1..Len(sent) : sent'[i] = sent[i]
  BY <1>2, SendKeeps, SentFacts
<1>4. PICK f : /\ Offsets(f)' /\ Stream(f, w)'
               /\ \A k, i : Parsed(starts, w, k, i) => Parsed(f, w, k, i)'
  BY <1>2, SendKeeps
<1>5. Len(sent) <= Len(sent') /\ Len(sent') \in Nat
  BY <1>3
<1>6. UNCHANGED <<parseVars, timer, plan, pc, luaVars>>
  BY DEF Send
<1> QED BY <1>1, <1>3, <1>4, <1>5, <1>6, ServerOrder

LEMMA ServerClosesOrder ==
    ASSUME Inv, Order, ServerCloses
    PROVE  Order'
<1>1. PICK starts, w : OrderInv(starts, w)
  BY DEF Order
<1>2. OrderTypes /\ Types /\ Offsets(starts) /\ Stream(starts, w)
  BY <1>1 DEF Order, Inv, OrderInv
<1>3. /\ sent' = sent /\ UNCHANGED <<buffer, pos, acc, returned>>
      /\ UNCHANGED <<parseVars, timer, plan, pc, luaVars>>
  BY DEF ServerCloses, parseVars, luaVars
<1>4. Offsets(starts)' /\ Stream(starts, w)'
  BY <1>2, CloseKeeps
<1>5. \A k, i : Parsed(starts, w, k, i) => Parsed(starts, w, k, i)'
  BY <1>3 DEF Parsed
<1>6. OrderTypes' /\ Len(sent) \in Nat
  BY <1>2, <1>3, SentFacts DEF OrderTypes
<1>7. Len(sent) <= Len(sent') /\ Len(sent') \in Nat
      /\ \A i \in 1..Len(sent) : sent'[i] = sent[i]
  BY <1>3, <1>6
<1> QED BY <1>1, <1>3, <1>4, <1>5, <1>6, <1>7, ServerOrder

LEMMA StutterOrder ==
    ASSUME Inv, Order, UNCHANGED vars
    PROVE  Order'
<1>1. PICK starts, w : OrderInv(starts, w)
  BY DEF Order
<1>2. /\ UNCHANGED <<wire, sent, closed, buffer, pos>>
      /\ UNCHANGED <<parseVars, timer, plan, pc, luaVars>>
      /\ UNCHANGED <<acc, returned>>
  BY DEF vars, netVars, parseVars, luaVars
<1>3. Offsets(starts) /\ Stream(starts, w) /\ OrderTypes
  BY <1>1 DEF OrderInv, Order
<1>4. /\ Offsets(starts)' /\ Stream(starts, w)'
      /\ \A k, i : Parsed(starts, w, k, i) => Parsed(starts, w, k, i)'
  BY <1>2, <1>3, Unmoved
<1>5. OrderTypes' /\ Len(sent) \in Nat
  BY <1>2, <1>3, SentFacts DEF OrderTypes
<1>6. Len(sent) <= Len(sent') /\ Len(sent') \in Nat
      /\ \A i \in 1..Len(sent) : sent'[i] = sent[i]
  BY <1>2, <1>5
<1> QED BY <1>1, <1>2, <1>4, <1>5, <1>6, ServerOrder

LEMMA NextOrder ==
    ASSUME Inv, Order, [Next]_vars
    PROVE  Order'
<1>1. CASE Receive
  BY <1>1, ReceiveOrder
<1>2. CASE Poll
  BY <1>2, CbRecvOrder, StopOrder, ParseOrder, CbRecvEndOrder DEF Poll
<1>3. CASE RecvTimeout
  BY <1>3, StopOrder
<1>4. CASE Resume
  BY <1>4, StopOrder, ResumeMoreOrder, ResumeDoneOrder DEF Resume
<1>5. CASE Server
  BY <1>5, SendOrder, ServerClosesOrder DEF Server, Answer, SendUnasked
<1>6. CASE UNCHANGED vars
  BY <1>6, StutterOrder
<1> QED BY <1>1, <1>2, <1>3, <1>4, <1>5, <1>6 DEF Next

LEMMA InitOrder ==
    ASSUME Init
    PROVE  Order
<1>1. /\ wire = <<>> /\ sent = <<>> /\ buffer = <<>> /\ pos = 0
      /\ pc = "idle" /\ acc = Accumulators /\ returned = <<>>
      /\ Len(wire) = 0 /\ Len(sent) = 0 /\ Len(buffer) = 0 /\ Len(returned) = 0
  BY DEF Init
<1>2. OrderTypes /\ OneResult
  <2>1. sent \in Seq(Responses \cup Unasked) /\ returned \in Seq(Gathered)
    BY <1>1
  <2> QED BY <1>1, <2>1, NothingGathered DEF OrderTypes, OneResult
<1>3. Returned
  BY <1>1 DEF Returned
<1> DEFINE starts == [i \in 1..1 |-> 0]
<1>4. starts \in [1..1 -> Nat] /\ \A i \in 1..1 : starts[i] = 0
  OBVIOUS
<1> HIDE DEF starts
<1>5. Offsets(starts)
  <2>1. Len(sent) + 1 = 1 /\ \A i \in 1..1 : i = 1
    BY <1>1
  <2>2. \A i \in 1..Len(sent) : FALSE
    BY <1>1
  <2> QED BY <1>4, <2>1, <2>2 DEF Offsets
<1>6. Stream(starts, 0)
  <2>1. starts[Len(sent) + 1] = 0
    BY <1>1, <1>4
  <2> QED BY <1>1, <2>1 DEF Stream
<1>7. Progress(starts, 0, 1)
  <2>1. Parsed(starts, 0, 1, 0)
    BY <1>1, <1>4 DEF Parsed
  <2>2. AtStart(0)
    BY <1>1 DEF AtStart, Busy
  <2> QED BY <2>1, <2>2 DEF Progress
<1>8. OrderInv(starts, 0)
  BY <1>1, <1>5, <1>6, <1>7 DEF OrderInv
<1> QED BY <1>2, <1>3, <1>8 DEF Order

\* A connection that waits for the next request has nothing on the wire, if
\* all that was sent is returned.
LEMMA IdleWire ==
    ASSUME Inv, Order, pc = "idle", Len(sent) = Len(returned),
           \A j \in DOMAIN sent : Framed(sent[j])
    PROVE  wire = <<>>
<1>1. PICK starts, w : OrderInv(starts, w)
  BY DEF Order
<1>2. PICK k : k = Len(sent) + 1
  OBVIOUS
<1>3. /\ Len(sent) \in Nat /\ DOMAIN sent = 1..Len(sent)
      /\ wire \in Seq(Pieces) /\ Len(wire) \in Nat /\ Len(buffer) \in Nat
  BY DEF Order, OrderTypes, Inv, Types
<1>4. Clean(k)
  BY <1>2, <1>3 DEF Clean
<1>5. Going /\ pos = Len(buffer) /\ Progress(starts, w, k)
  <2>1. Going
    BY DEF Going
  <2> QED BY <1>1, <1>2, <1>4, <2>1 DEF OrderInv
<1>6. PICK n \in Nat : Parsed(starts, w, k, n)
  BY <1>5 DEF Progress, Inside, AtEnd, Endless, Busy
<1>7. n = 0 /\ w - Len(buffer) + pos = starts[k] + n
  BY <1>2, <1>3, <1>6 DEF Parsed
<1>8. w \in Nat /\ starts[k] \in Nat /\ w + Len(wire) <= starts[k]
  BY <1>1, <1>2, <1>3 DEF OrderInv, Offsets, Stream
<1>9. Len(wire) = 0
  BY <1>3, <1>5, <1>7, <1>8
<1> QED BY <1>3, <1>9, EmptySeq

\* For every set of responses, every way to cut their stream into packets and
\* any number of calls: while the server frames its responses, the k-th
\* receive() that succeeds returns the k-th of them, whole and alone, and a
\* connection that is kept has nothing left of those that are returned.
THEOREM OrderCorrect == Spec => []ReceivedInOrder
<1>1. Init => Inv /\ Order
  BY InitInv, InitOrder
<1>2. Inv /\ Order /\ [Next]_vars => Inv' /\ Order'
  BY NextInv, NextOrder
<1>3. Inv /\ Order => ReceivedInOrder
  <2> SUFFICES ASSUME Inv, Order PROVE ReceivedInOrder
    OBVIOUS
  <2>1. DOMAIN returned = 1..Len(returned)
    BY DEF Order, OrderTypes
  <2>2. ASSUME NEW i \in DOMAIN returned,
               \A j \in 1..i : j <= Len(sent) => Framed(sent[j])
        PROVE  i <= Len(sent) /\ Says(returned[i], sent[i])
    BY <2>1, <2>2 DEF Order, Returned, Clean
  <2> QED BY <2>2, IdleWire DEF ReceivedInOrder
<1> QED BY <1>1, <1>2, <1>3, PTL DEF Spec
=============================================================================
