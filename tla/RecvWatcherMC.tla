---------------------------- MODULE RecvWatcherMC ----------------------------
(* Responses with each kind of framing, for TLC. *)
EXTENDS RecvWatcher

Begin == [k |-> "begin"]
Line(c) == [k |-> "line", code |-> c, minor |-> 1]
F(f) == [k |-> "field", f |-> f, n |-> 0]
Length(n) == [k |-> "field", f |-> "length", n |-> n]
End == [k |-> "end"]
Size(n) == [k |-> "size", n |-> n]
Byte(n) == [k |-> "byte", n |-> n]
Crlf == [k |-> "crlf"]

Sized == <<Begin, Line("200"), F("gzip"), Length(2), End, Byte(1), Byte(2)>>
Chunked == <<Begin, Line("200"), F("chunked"), End, Size(2), Byte(3), Byte(4),
             Crlf, Size(1), Byte(5), Crlf, Size(0), F("other"), End>>
ZippedTrailer == <<Begin, Line("200"), F("chunked"), End, Size(0), F("gzip"), End>>
Final == <<Begin, Line("200"), F("close"), Length(1), End, Byte(6)>>
UntilEof == <<Begin, Line("200"), End, Byte(7)>>
Interim == <<Begin, Line("1xx"), F("other"), End>>
NotModified == <<Begin, Line("304"), Length(1), End>>
Upgrade == <<Begin, Line("200"), F("upgrade"), Length(0), End>>
Stray == <<Begin, Line("204"), End, [k |-> "stray"]>>
BodyOf204 == <<Begin, Line("204"), End, Byte(8)>>
Broken == <<Begin, Line("200"), [k |-> "junk"], End>>
BadChunk == <<Begin, Line("200"), F("chunked"), End, [k |-> "junk"]>>

Unbidden == {Final}
WellFormed == {Sized, Chunked, Final}
All == WellFormed \cup {UntilEof, Interim, NotModified, Upgrade, Stray,
                        BodyOf204, Broken, BadChunk, ZippedTrailer}
=============================================================================
