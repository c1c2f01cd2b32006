------------------------------ MODULE HttpParser ------------------------------
(***************************************************************************)
(* The response half of http_parser_execute (http_parser.c, strict build): *)
(* its state machine with the state that it keeps between two buffers, and *)
(* the callbacks that each piece of input calls.                           *)
(* A piece is a run of bytes inside of which nothing but the bytes already *)
(* seen matters: the first byte of a status line, the rest of that line, a *)
(* header field with its value and line end, the empty line that ends a    *)
(* header, a chunk-size line, one byte of body, the line end after a       *)
(* chunk, a stray CR or LF, or a byte no state wants ("junk").             *)
(***************************************************************************)
EXTENDS Integers, Sequences

CONSTANTS
    MaxLength   \* bound: bytes of one body or chunk

ASSUME MaxLengthAssumption == MaxLength \in Nat

NoLength == -1              \* content_length = ULLONG_MAX
Codes == {"1xx", "200", "204", "304"}
Fields == {"length", "chunked", "close", "keepalive", "upgrade", "gzip",
           "other"}

Begins == [k : {"begin"}]                                \* 'H'
Lines == [k : {"line"}, code : Codes, minor : {0, 1}]
Headers == [k : {"field"}, f : Fields, n : 0..MaxLength]
Ends == [k : {"end"}]
Sizes == [k : {"size"}, n : 0..MaxLength]
Bytes == [k : {"byte"}, n : Nat]
ChunkEnds == [k : {"crlf"}]
Strays == [k : {"stray"}]
Junk == [k : {"junk"}]
Pieces == Begins \cup Lines \cup Headers \cup Ends \cup Sizes \cup Bytes
          \cup ChunkEnds \cup Strays \cup Junk

Flags == {"chunked", "close", "keepalive", "upgrade", "trailing"}

\* A parser has a state (s_start_res, ...), the flags set by the header, the
\* minor version, the body bytes to come, the status, and whether it failed.
\* http_parser_init
ParserInit == [state |-> "start_res", flags |-> {}, minor |-> 0,
               content_length |-> NoLength, status_code |-> "200",
               failed |-> FALSE]

\* http_message_needs_eof: only the end of the stream ends the body.
NeedsEof(p) == /\ p.status_code \notin {"1xx", "204", "304"}
               /\ "chunked" \notin p.flags
               /\ p.content_length = NoLength

\* http_should_keep_alive
ShouldKeepAlive(p) == /\ IF p.minor = 1 THEN "close" \notin p.flags
                                        ELSE "keepalive" \in p.flags
                      /\ ~NeedsEof(p)

-----------------------------------------------------------------------------
(* What a piece does: the parser it leaves and the callbacks it calls.      *)

Result(p, calls) == [parser |-> p, calls |-> calls]
Quiet(p) == Result(p, <<>>)

\* SET_ERRNO: the parser takes nothing more.
Failed(p) == Quiet([p EXCEPT !.failed = TRUE])

\* NEW_MESSAGE, and on_message_complete.
Complete(p, calls) ==
    Result([p EXCEPT !.state = IF ShouldKeepAlive(p) THEN "start_res"
                                                     ELSE "dead"],
           Append(calls, "message_complete"))

\* s_dead swallows line ends only.
InDead(p, t) == IF t.k = "stray" THEN Quiet(p) ELSE Failed(p)

\* s_start_res calls on_message_begin for a stray line end, too.
InStart(p, t) ==
    LET q == [p EXCEPT !.flags = {}, !.content_length = NoLength]
    IN  CASE t.k = "begin" -> Result([q EXCEPT !.state = "res_line"],
                                     <<"message_begin">>)
          [] t.k = "stray" -> Result(q, <<"message_begin">>)
          [] OTHER -> Failed(q)

\* s_res_H up to s_res_line_almost_done
InLine(p, t) ==
    IF t.k = "line"
    THEN Quiet([p EXCEPT !.status_code = t.code, !.minor = t.minor,
                         !.state = "header_field_start"])
    ELSE Failed(p)

\* The flag a field sets, if any.
FieldFlags(f) == {f} \cap Flags

\* A header field: on_header_field and on_header_value, once each.
Field(p, t) ==
    Result([p EXCEPT !.flags = @ \cup FieldFlags(t.f),
                     !.content_length = IF t.f = "length" THEN t.n ELSE @],
           <<"header">>)

\* s_headers_almost_done and s_headers_done, or the end of the trailer.
HeadersDone(p) ==
    LET done == <<"headers_complete">>
        Into(state) == Result([p EXCEPT !.state = state], done)
    IN  IF "trailing" \in p.flags THEN Complete(p, <<>>)
        ELSE IF "upgrade" \in p.flags
        THEN Result([p EXCEPT !.state = "upgraded"],
                    Append(done, "message_complete"))
        ELSE IF "chunked" \in p.flags THEN Into("chunk_size_start")
        ELSE IF p.content_length > 0 THEN Into("body_identity")
        ELSE IF NeedsEof(p) THEN Into("body_identity_eof")
        ELSE Complete(p, done)

\* s_header_field_start up to s_header_value_lws
InHeader(p, t) ==
    CASE t.k = "field" -> Field(p, t)
      [] t.k = "end" -> HeadersDone(p)
      [] OTHER -> Failed(p)

\* s_body_identity, which takes whatever comes; then s_message_done.
InBody(p, t) ==
    LET q == [p EXCEPT !.content_length = @ - 1]
    IN  IF q.content_length = 0 THEN Complete(q, <<"body">>)
                                ELSE Result(q, <<"body">>)

\* s_chunk_size_start up to s_chunk_size_almost_done
InChunkSize(p, t) ==
    IF t.k # "size" THEN Failed(p)
    ELSE IF t.n = 0
    THEN Quiet([p EXCEPT !.content_length = 0, !.flags = @ \cup {"trailing"},
                         !.state = "header_field_start"])
    ELSE Quiet([p EXCEPT !.content_length = t.n, !.state = "chunk_data"])

InChunkData(p, t) ==
    Result([p EXCEPT !.content_length = @ - 1,
                     !.state = IF p.content_length = 1
                               THEN "chunk_data_almost_done" ELSE @],
           <<"body">>)

\* s_chunk_data_almost_done and s_chunk_data_done
InChunkEnd(p, t) ==
    IF t.k = "crlf" THEN Quiet([p EXCEPT !.state = "chunk_size_start"])
                    ELSE Failed(p)

\* The switch of http_parser_execute.
Execute(p, t) ==
    CASE p.state = "dead" -> InDead(p, t)
      [] p.state = "start_res" -> InStart(p, t)
      [] p.state = "res_line" -> InLine(p, t)
      [] p.state = "header_field_start" -> InHeader(p, t)
      [] p.state = "body_identity" -> InBody(p, t)
      [] p.state = "body_identity_eof" -> Result(p, <<"body">>)
      [] p.state = "chunk_size_start" -> InChunkSize(p, t)
      [] p.state = "chunk_data" -> InChunkData(p, t)
      [] p.state = "chunk_data_almost_done" -> InChunkEnd(p, t)
=============================================================================
