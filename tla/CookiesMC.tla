------------------------------ MODULE CookiesMC ------------------------------
(* A host, its subdomain and another one; cookies for the host that sets    *)
(* them, for all of example.com, for a path and for a top-level domain.     *)
EXTENDS Cookies

Example == <<"example", "com">>
Hosts3 == {Example, <<"www">> \o Example, <<"other", "com">>}
Paths2 == {<<"/">>, <<"/", "a">>}

Dot(labels) == [dotted |-> TRUE, labels |-> labels]

Set(domain, path, value, expires) ==
    [domain |-> domain, path |-> path, value |-> value, expires |-> expires,
     known |-> TRUE]

SetCookiesOfExample ==
    { Set(OfHost, Absent, <<"v">>, Never),
      Set(OfHost, Absent, <<"w", "x">>, 3),
      Set(Dot(Example), <<"/", "a">>, <<"v">>, 2),
      Set(Dot(Example), <<"/", "a">>, <<"w">>, 3),
      Set(Dot(<<"com">>), Absent, <<"v">>, Never),
      Set(OfHost, Absent, Absent, 1),
      [Set(OfHost, Absent, <<"v">>, Never) EXCEPT !.known = FALSE] }
=============================================================================
