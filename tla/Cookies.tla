------------------------------- MODULE Cookies -------------------------------
(***************************************************************************)
(* The cookies of one user, whose parallel functions share them: what      *)
(* Session:handle_cookies makes of a response's Set-Cookie headers, how    *)
(* Cookies:update keeps them and which of them Cookies:get_by gives to a   *)
(* request (cookies.lua, session.lua).                                     *)
(* Names are independent of each other: the model has the cookies of one   *)
(* name.  A host is the sequence of its labels, a path that of the pieces  *)
(* at which a prefix may end, and a value that of its parts between "=".   *)
(***************************************************************************)
EXTENDS Integers, Sequences, SequencesExt

CONSTANTS
    Hosts,        \* what is asked
    Paths,
    SetCookies,   \* what servers set: [domain, path, value, expires, known]
    MaxHeaders,   \* bound: Set-Cookie headers in a response
    MaxResponses, \* bound: responses
    MaxTime       \* bound: the clock

ASSUME BoundsAssumption == {MaxHeaders, MaxResponses, MaxTime} \subseteq Nat

Domains == [dotted : BOOLEAN, labels : Seq(STRING)]

ASSUME HostsAssumption == Hosts \subseteq Seq(STRING)
ASSUME SetCookiesAssumption ==
    SetCookies \subseteq [domain : Domains, path : Seq(STRING),
                         value : Seq(STRING), expires : Nat, known : BOOLEAN]

Never == 0        \* no expires
Absent == <<>>    \* no path, or the value of "name=" with nothing after it
OfHost == [dotted |-> FALSE, labels |-> <<>>]  \* no domain
NoCookie == [value |-> "", expires |-> Never]

VARIABLES
    jar,      \* _cookies, by domain mask and path prefix
    now,      \* os.time()
    pending,  \* hosts that owe a response; bound: one at a time
    response, \* the host of the response at hand and its Set-Cookie headers
              \* that handle_cookies has not come to
    crashed,  \* an error in handle_cookies ended the process
    sent,     \* what the last step sent: [host, path, cookies]
    count,    \* responses
    latest,   \* history: the last cookie set, by domain mask and path prefix
    past      \* history: the expires of those set before it

vars == <<jar, now, pending, response, crashed, sent, count, latest, past>>

\* handle_cookies has come to the end of a response.
Handled == response.raw_cookies = <<>>

\* The domain that a host has without a domain attribute.
Strict(host) == [dotted |-> FALSE, labels |-> host]
Mask(c, host) == IF c.domain = OfHost THEN Strict(host) ELSE c.domain
Prefix(c) == IF c.path = Absent THEN <<"/">> ELSE c.path

Keys == {Mask(c, h) : c \in SetCookies, h \in Hosts}
            \X {Prefix(c) : c \in SetCookies}

NotSent == [host |-> <<>>, path |-> <<>>, cookies |-> {}]

-----------------------------------------------------------------------------
(* cookies.lua                                                              *)

\* A cookie with an expires no later than that of the one it meets, or than
\* now if that one has none, removes it; and a faulty variant that removes it
\* for a later one.
Outdates(c, old) ==
    /\ c.expires # Never
    /\ c.expires >= IF old.expires = Never THEN now ELSE old.expires
Removes(c, old) ==
    /\ c.expires # Never
    /\ c.expires <= IF old.expires = Never THEN now ELSE old.expires

Update(cookies, key, c) ==
    [cookies EXCEPT ![key] = IF @ # NoCookie /\ Removes(c, @)
                             THEN NoCookie ELSE c]

\* The domains whose cookies a host gets: its own, and those with a dot of
\* which it is part, up to but not including the last label.
Dotted(host, n) == {[dotted |-> TRUE, labels |-> SubSeq(host, i, Len(host))]
                       : i \in 1..n}
Masks(host) == {Strict(host)} \cup Dotted(host, Len(host) - 1)

\* An expires of now is over; for a faulty variant it is not.
FreshNow(c) == c.expires = Never \/ c.expires >= now
Fresh(c) == c.expires = Never \/ c.expires > now

Visited(host, path) ==
    {k \in Keys : jar[k] # NoCookie /\ k[1] \in Masks(host)
                  /\ IsPrefix(k[2], path)}

-----------------------------------------------------------------------------
(* session.lua                                                              *)

\* Of a value only what is before a second "=" is kept.
FirstPart(value) == Head(value)

\* What handle_cookies raises an error for: an attribute it does not know, an
\* expires it cannot read, a value in quotes or an empty one.
Refused(c) == ~c.known \/ c.value = Absent

Kept(c) == [value |-> FirstPart(c.value), expires |-> c.expires]

\* Session:http up to its send.
Request(host, path) ==
    /\ ~crashed /\ Handled
    /\ host \notin pending
    /\ sent' = [host |-> host, path |-> path,
                cookies |-> {[key |-> k, value |-> jar[k].value] :
                                k \in {j \in Visited(host, path) : Fresh(jar[j])}}]
    /\ jar' = [k \in Keys |-> IF k \in Visited(host, path) /\ ~Fresh(jar[k])
                              THEN NoCookie ELSE jar[k]]
    /\ pending' = pending \cup {host}
    /\ UNCHANGED <<now, response, crashed, count, latest, past>>

\* A response, and the headers of it that handle_cookies goes through before
\* anything else of the user runs.
Response(host, raw_cookies) ==
    /\ ~crashed /\ Handled
    /\ host \in pending /\ count < MaxResponses
    /\ response' = [host |-> host, raw_cookies |-> raw_cookies]
    /\ pending' = pending \ {host}
    /\ count' = count + 1
    /\ sent' = NotSent
    /\ UNCHANGED <<jar, now, crashed, latest, past>>

\* Set-Cookie headers are handled in their order, up to one that raises an
\* error.
SetCookie ==
    /\ ~crashed /\ ~Handled
    /\ LET c == Head(response.raw_cookies)
           k == <<Mask(c, response.host), Prefix(c)>>
       IN  IF Refused(c)
           THEN /\ crashed' = TRUE
                /\ UNCHANGED <<jar, response, latest, past>>
           ELSE /\ jar' = Update(jar, k, Kept(c))
                /\ latest' = [latest EXCEPT ![k] = Kept(c)]
                /\ past' = [past EXCEPT ![k] = IF latest[k] = NoCookie THEN @
                                               ELSE @ \cup {latest[k].expires}]
                /\ response' = [response EXCEPT !.raw_cookies = Tail(@)]
                /\ UNCHANGED crashed
    /\ UNCHANGED <<now, pending, sent, count>>

Tick == /\ now < MaxTime /\ ~crashed
        /\ now' = now + 1
        /\ sent' = NotSent
        /\ UNCHANGED <<jar, pending, response, crashed, count, latest, past>>

Init == /\ jar = [k \in Keys |-> NoCookie]
        /\ now = 1 /\ count = 0 /\ crashed = FALSE
        /\ pending = {}
        /\ response = [host |-> <<>>, raw_cookies |-> <<>>]
        /\ sent = NotSent
        /\ latest = [k \in Keys |-> NoCookie]
        /\ past = [k \in Keys |-> {}]

Next == \/ \E host \in Hosts, path \in Paths : Request(host, path)
        \/ \E host \in Hosts,
              raw_cookies \in BoundedSeq(SetCookies, MaxHeaders) :
              Response(host, raw_cookies)
        \/ SetCookie
        \/ Tick

Spec == Init /\ [][Next]_vars

-----------------------------------------------------------------------------
(* Properties *)

\* Whether a cookie of the key is for the host and the path.
IsFor(key, host, path) ==
    /\ IF key[1].dotted THEN IsSuffix(key[1].labels, host)
                             /\ Len(key[1].labels) > 1
                        ELSE key[1].labels = host
    /\ IsPrefix(key[2], path)

\* A request carries cookies of its own host and path only, whichever host set
\* them, and none that is for a whole top-level domain; of each domain and path
\* it carries the last cookie that was set for them, and only before it expires.
SentIsLatest ==
    \A s \in sent.cookies :
        /\ IsFor(s.key, sent.host, sent.path)
        /\ latest[s.key].value = s.value
        /\ latest[s.key].expires = Never \/ now < latest[s.key].expires

\* A cookie that has not expired is carried by every request that it is for,
\* if it outlasts those that were set before it.  One that expires with or
\* before its predecessor is lost, although it replaces it.
FreshIsSent ==
    sent # NotSent =>
        \A k \in Keys :
            LET c == latest[k]
            IN  /\ c # NoCookie /\ IsFor(k, sent.host, sent.path)
                /\ \/ c.expires = Never
                   \/ now < c.expires /\ \A e \in past[k] : e < c.expires
                => [key |-> k, value |-> c.value] \in sent.cookies
=============================================================================
