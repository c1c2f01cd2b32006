---------------------------- MODULE CookiesProofs ----------------------------
(***************************************************************************)
(* Theorems of Cookies, for every set of hosts, paths and cookies, and any *)
(* number and length of responses.                                         *)
(***************************************************************************)
EXTENDS Cookies, SequenceTheorems, TLAPS

Cookie == [value : STRING \cup {NoCookie.value}, expires : Nat]
Jars == [Keys -> Cookie]

TypeOK ==
    /\ jar \in Jars /\ latest \in Jars
    /\ past \in [Keys -> SUBSET Nat]
    /\ now \in Nat
    /\ response.raw_cookies \in Seq(SetCookies)
    /\ ~Handled => response.host \in Hosts /\ sent = NotSent

\* A kept cookie is the last one set for its domain and path, and one that is
\* good for a request and outlasts its predecessors is kept.
Good(c, outlasted) ==
    /\ c # NoCookie
    /\ \/ c.expires = Never
       \/ now < c.expires /\ \A e \in outlasted : e < c.expires
KeptIsLatest ==
    \A k \in Keys :
        /\ jar[k] # NoCookie => jar[k] = latest[k]
        /\ Good(latest[k], past[k]) => jar[k] = latest[k]

Inv == TypeOK /\ KeptIsLatest /\ SentIsLatest /\ FreshIsSent

USE BoundsAssumption, HostsAssumption, SetCookiesAssumption

-----------------------------------------------------------------------------
(* Hosts and their masks *)

\* A dotted domain is one of a host's masks if it is an end of its labels,
\* two of them at least.
LEMMA SuffixIsEnd ==
    ASSUME NEW s \in Seq(STRING), NEW host \in Seq(STRING)
    PROVE  IsSuffix(s, host) <=>
               /\ Len(s) <= Len(host)
               /\ s = SubSeq(host, Len(host) - Len(s) + 1, Len(host))
<1> DEFINE L == Len(s)
           H == Len(host)
           rs == Reverse(s)
           rh == Reverse(host)
           end == SubSeq(host, H - L + 1, H)
<1>1. L \in Nat /\ H \in Nat
  OBVIOUS
<1>2. ASSUME NEW t \in Seq(STRING)
      PROVE  /\ Reverse(t) \in Seq(STRING) /\ Len(Reverse(t)) = Len(t)
             /\ \A i \in 1..Len(t) : Reverse(t)[i] = t[Len(t) - i + 1]
  <2>1. \A i \in 1..Len(t) : Len(t) - i + 1 \in 1..Len(t)
    OBVIOUS
  <2>2. \A i \in 1..Len(t) : t[Len(t) - i + 1] \in STRING
    BY <2>1, ElementOfSeq
  <2> QED BY <2>2 DEF Reverse
<1>3. CASE L > H
  <2>1. ~IsPrefix(rs, rh)
    BY <1>1, <1>2, <1>3 DEF IsPrefix
  <2> QED BY <1>1, <1>3, <2>1 DEF IsSuffix
<1>4. CASE L <= H
  <2>1. /\ end \in Seq(STRING) /\ Len(end) = L
        /\ \A j \in 1..L : end[j] = host[H - L + j]
    <3>1. \A i \in (H - L + 1)..H : host[i] \in STRING
      BY <1>1, <1>4, ElementOfSeq
    <3>2. H - L + 1 \in Int /\ H \in Int
      BY <1>1
    <3>3. /\ end \in Seq(STRING)
          /\ Len(end) = IF H - L + 1 <= H THEN H - (H - L + 1) + 1 ELSE 0
          /\ \A i \in 1..(H - (H - L + 1) + 1) :
                 end[i] = host[H - L + 1 + i - 1]
      BY <3>1, <3>2, SubSeqProperties
    <3> HIDE DEF L, H, end
    <3>4. /\ H - (H - L + 1) + 1 = L
          /\ \A j \in 1..L : H - L + 1 + j - 1 = H - L + j
      BY <1>1
    <3>5. Len(end) = L
      BY <1>1, <1>4, <3>3
    <3> QED BY <3>3, <3>4, <3>5
  <2>2. ASSUME NEW t \in Seq(STRING), L <= Len(t)
        PROVE  /\ SubSeq(t, 1, L) \in Seq(STRING) /\ Len(SubSeq(t, 1, L)) = L
               /\ \A i \in 1..L : SubSeq(t, 1, L)[i] = t[i]
    BY <1>1, <2>2
  <2>3. rs \in Seq(STRING) /\ rh \in Seq(STRING) /\ Len(rs) = L /\ Len(rh) = H
    BY <1>2
  <2>4. IsSuffix(s, host) <=> SubSeq(rs, 1, L) = SubSeq(rh, 1, L)
    BY <1>4, <2>3 DEF IsSuffix, IsPrefix
  <2>5. /\ \A i \in 1..L : SubSeq(rs, 1, L)[i] = s[L - i + 1]
        /\ \A i \in 1..L : SubSeq(rh, 1, L)[i] = host[H - i + 1]
    <3>1. \A i \in 1..L : i \in 1..H
      BY <1>1, <1>4
    <3>2. /\ \A i \in 1..L : rs[i] = s[L - i + 1]
          /\ \A i \in 1..H : rh[i] = host[H - i + 1]
      BY <1>2
    <3>3. /\ \A i \in 1..L : SubSeq(rs, 1, L)[i] = rs[i]
          /\ \A i \in 1..L : SubSeq(rh, 1, L)[i] = rh[i]
      <4> HIDE DEF rs, rh
      <4> QED BY <1>1, <1>4, <2>2, <2>3
    <3> HIDE DEF rs, rh
    <3> QED BY <3>1, <3>2, <3>3
  <2>6. IsSuffix(s, host) <=> \A i \in 1..L : s[L - i + 1] = host[H - i + 1]
    <3>1. ASSUME \A i \in 1..L : s[L - i + 1] = host[H - i + 1]
          PROVE  SubSeq(rs, 1, L) = SubSeq(rh, 1, L)
      BY <1>1, <1>4, <2>2, <2>3, <2>5, <3>1, SeqEqual
    <3> QED BY <2>4, <2>5, <3>1
  <2>7. s = end <=> \A j \in 1..L : s[j] = host[H - L + j]
    BY <2>1, SeqEqual
  <2>8. (\A i \in 1..L : s[L - i + 1] = host[H - i + 1])
            <=> \A j \in 1..L : s[j] = host[H - L + j]
    <3> HIDE DEF L, H
    <3>1. ASSUME \A i \in 1..L : s[L - i + 1] = host[H - i + 1], NEW j \in 1..L
          PROVE  s[j] = host[H - L + j]
      <4>1. L - j + 1 \in 1..L
        BY <1>1
      <4>2. s[L - (L - j + 1) + 1] = host[H - (L - j + 1) + 1]
        BY <3>1, <4>1
      <4>3. L - (L - j + 1) + 1 = j /\ H - (L - j + 1) + 1 = H - L + j
        BY <1>1
      <4> QED BY <4>2, <4>3
    <3>2. ASSUME \A j \in 1..L : s[j] = host[H - L + j], NEW i \in 1..L
          PROVE  s[L - i + 1] = host[H - i + 1]
      <4>1. L - i + 1 \in 1..L
        BY <1>1
      <4>2. s[L - i + 1] = host[H - L + (L - i + 1)]
        BY <3>2, <4>1
      <4>3. H - L + (L - i + 1) = H - i + 1
        BY <1>1
      <4> QED BY <4>2, <4>3
    <3> QED BY <3>1, <3>2
  <2> QED BY <1>4, <2>6, <2>7, <2>8
<1> QED BY <1>1, <1>3, <1>4

\* get_by collects the masks of a host exactly.
LEMMA MasksAreFor ==
    ASSUME NEW host \in Hosts, NEW mask \in Domains
    PROVE  mask \in Masks(host) <=>
               IF mask.dotted THEN /\ IsSuffix(mask.labels, host)
                                   /\ Len(mask.labels) > 1
                              ELSE mask.labels = host
<1> DEFINE s == mask.labels
           H == Len(host)
<1>1. /\ host \in Seq(STRING) /\ s \in Seq(STRING) /\ mask.dotted \in BOOLEAN
      /\ mask = [dotted |-> mask.dotted, labels |-> s]
      /\ H \in Nat /\ Len(s) \in Nat
  BY DEF Domains
<1>2. CASE mask.dotted = FALSE
  <2>1. mask \notin Dotted(host, H - 1)
    BY <1>2 DEF Dotted
  <2>2. mask = Strict(host) <=> s = host
    BY <1>1, <1>2 DEF Strict
  <2> QED BY <1>2, <2>1, <2>2 DEF Masks
<1>3. CASE mask.dotted = TRUE
  <2>1. mask # Strict(host)
    BY <1>3 DEF Strict
  <2>2. mask \in Dotted(host, H - 1) <=>
            \E i \in 1..(H - 1) : s = SubSeq(host, i, H)
    BY <1>1, <1>3 DEF Dotted
  <2>3. ASSUME NEW i \in 1..(H - 1), s = SubSeq(host, i, H)
        PROVE  IsSuffix(s, host) /\ Len(s) > 1
    <3>1. \A j \in i..H : host[j] \in STRING
      BY <1>1, ElementOfSeq
    <3>2. i \in Int /\ 1 <= i /\ i <= H - 1
      BY <1>1
    <3>3. Len(s) = H - i + 1
      BY <1>1, <2>3, <3>1, <3>2, SubSeqProperties
    <3>4. Len(s) <= H /\ H - Len(s) + 1 = i /\ Len(s) > 1
      <4>1. \A n \in Nat : n = H - i + 1 => n <= H /\ H - n + 1 = i /\ n > 1
        BY <1>1, <3>2
      <4>2. Len(s) \in Nat
        BY <1>1
      <4> QED BY <3>3, <4>1, <4>2
    <3> USE DEF H
    <3>5. s = SubSeq(host, Len(host) - Len(s) + 1, Len(host))
      BY <2>3, <3>4
    <3> QED BY <1>1, <3>4, <3>5, SuffixIsEnd
  <2>4. ASSUME IsSuffix(s, host), Len(s) > 1
        PROVE  \E i \in 1..(H - 1) : s = SubSeq(host, i, H)
    <3>1. Len(s) <= H /\ s = SubSeq(host, H - Len(s) + 1, H)
      BY <1>1, <2>4, SuffixIsEnd
    <3>2. H - Len(s) + 1 \in 1..(H - 1)
      BY <1>1, <2>4, <3>1
    <3> QED BY <3>1, <3>2
  <2> QED BY <1>3, <2>1, <2>2, <2>3, <2>4 DEF Masks
<1> QED BY <1>1, <1>2, <1>3

\* The keys of the jar are domains and paths.
LEMMA KeyTypes ==
    /\ \A k \in Keys : k[1] \in Domains
    /\ \A c \in SetCookies, h \in Hosts : <<Mask(c, h), Prefix(c)>> \in Keys
<1>1. ASSUME NEW c \in SetCookies, NEW h \in Hosts
      PROVE  Mask(c, h) \in Domains
  BY DEF Mask, Strict, Domains
<1>2. \A k \in Keys : k[1] \in Domains
  BY <1>1 DEF Keys
<1>3. \A c \in SetCookies, h \in Hosts : <<Mask(c, h), Prefix(c)>> \in Keys
  BY DEF Keys
<1> QED BY <1>2, <1>3

\* What get_by looks at is what a request may carry.
LEMMA VisitedIsFor ==
    ASSUME NEW host \in Hosts, NEW path, NEW k \in Keys
    PROVE  k \in Visited(host, path) <=>
               jar[k] # NoCookie /\ IsFor(k, host, path)
<1>1. k[1] \in Domains
  BY KeyTypes
<1> QED BY <1>1, MasksAreFor DEF Visited, IsFor

-----------------------------------------------------------------------------
(* The steps *)

LEMMA InitInv ==
    ASSUME Init
    PROVE  Inv
<1>1. NoCookie \in Cookie
  BY DEF NoCookie, Never, Cookie
<1>2. TypeOK
  BY <1>1 DEF Init, TypeOK, Jars, Handled
<1>3. KeptIsLatest
  BY DEF Init, KeptIsLatest, Good
<1>4. SentIsLatest /\ FreshIsSent
  BY DEF Init, SentIsLatest, FreshIsSent, NotSent
<1> QED BY <1>2, <1>3, <1>4 DEF Inv

LEMMA RequestKeeps ==
    ASSUME Inv, NEW host \in Hosts, NEW path \in Paths, Request(host, path)
    PROVE  Inv'
<1> DEFINE V == Visited(host, path)
           cookies == {[key |-> k, value |-> jar[k].value] :
                          k \in {j \in V : Fresh(jar[j])}}
<1>1. /\ jar' = [k \in Keys |-> IF k \in V /\ ~Fresh(jar[k])
                                THEN NoCookie ELSE jar[k]]
      /\ sent' = [host |-> host, path |-> path, cookies |-> cookies]
      /\ UNCHANGED <<now, latest, past, response>> /\ Handled
  BY DEF Request
<1>2. NoCookie \in Cookie
  BY DEF NoCookie, Never, Cookie
<1>3. jar' \in Jars
  BY <1>1, <1>2 DEF Inv, TypeOK, Jars
<1>4. TypeOK'
  BY <1>1, <1>3 DEF Inv, TypeOK, Handled
<1>5. V \subseteq Keys
  BY DEF Visited
<1>6. /\ sent'.host = host /\ sent'.path = path /\ sent'.cookies = cookies
  BY <1>1
<1>7. ASSUME NEW k \in Keys
      PROVE  /\ jar'[k] # NoCookie => jar'[k] = latest[k]
             /\ Good(latest[k], past[k]) => jar'[k] = latest[k]
  <2>1. jar'[k] \in {NoCookie, jar[k]}
    BY <1>1
  <2>2. ASSUME Good(latest[k], past[k]) PROVE jar'[k] = latest[k]
    <3>1. jar[k] = latest[k]
      BY <2>2 DEF Inv, KeptIsLatest
    <3>2. latest[k].expires \in Nat /\ now \in Nat
      BY DEF Inv, TypeOK, Jars, Cookie
    <3>3. Fresh(jar[k])
      BY <2>2, <3>1, <3>2 DEF Good, Fresh
    <3> QED BY <1>1, <3>1, <3>3
  <2> QED BY <2>1, <2>2 DEF Inv, KeptIsLatest
<1>8. KeptIsLatest'
  BY <1>1, <1>7 DEF KeptIsLatest, Good
<1>9. ASSUME NEW s \in cookies
      PROVE  /\ IsFor(s.key, host, path)
             /\ latest[s.key].value = s.value
             /\ latest[s.key].expires = Never \/ now < latest[s.key].expires
  <2>1. PICK k \in V : Fresh(jar[k]) /\ s = [key |-> k, value |-> jar[k].value]
    OBVIOUS
  <2>2. k \in Keys /\ s.key = k /\ s.value = jar[k].value
    BY <1>5, <2>1
  <2>3. jar[k] # NoCookie /\ IsFor(k, host, path)
    BY <2>1, <2>2, VisitedIsFor
  <2>4. jar[k] = latest[k]
    BY <2>2, <2>3 DEF Inv, KeptIsLatest
  <2>5. latest[k].expires \in Nat /\ now \in Nat
    BY <2>2 DEF Inv, TypeOK, Jars, Cookie
  <2> QED BY <2>1, <2>2, <2>3, <2>4, <2>5 DEF Fresh
<1>10. SentIsLatest'
  BY <1>1, <1>6, <1>9 DEF SentIsLatest
<1>11. ASSUME NEW k \in Keys, Good(latest[k], past[k]), IsFor(k, host, path)
       PROVE  [key |-> k, value |-> latest[k].value] \in cookies
  <2>1. jar[k] = latest[k] /\ jar[k] # NoCookie
    BY <1>11 DEF Inv, KeptIsLatest, Good
  <2>2. k \in V
    BY <1>11, <2>1, VisitedIsFor
  <2>3. latest[k].expires \in Nat /\ now \in Nat
    BY DEF Inv, TypeOK, Jars, Cookie
  <2>4. Fresh(jar[k])
    BY <1>11, <2>1, <2>3 DEF Good, Fresh
  <2> QED BY <2>1, <2>2, <2>4
<1>12. FreshIsSent'
  BY <1>1, <1>6, <1>11 DEF FreshIsSent, Good
<1> QED BY <1>4, <1>8, <1>10, <1>12 DEF Inv

LEMMA ResponseKeeps ==
    ASSUME Inv, NEW host \in Hosts,
           NEW raw_cookies \in BoundedSeq(SetCookies, MaxHeaders),
           Response(host, raw_cookies)
    PROVE  Inv'
<1>1. /\ response'.host = host /\ response'.raw_cookies = raw_cookies
      /\ sent' = NotSent /\ UNCHANGED <<jar, now, latest, past>>
  BY DEF Response
<1>2. raw_cookies \in Seq(SetCookies)
  BY DEF BoundedSeq, SeqOf
<1>3. TypeOK'
  BY <1>1, <1>2 DEF Inv, TypeOK, Handled
<1>4. KeptIsLatest'
  BY <1>1 DEF Inv, KeptIsLatest, Good
<1>5. SentIsLatest' /\ FreshIsSent'
  BY <1>1 DEF SentIsLatest, FreshIsSent, NotSent
<1> QED BY <1>3, <1>4, <1>5 DEF Inv

\* A cookie that meets one of its key either replaces it or removes it, and
\* does not remove it if it outlasts it.
LEMMA UpdateKeeps ==
    ASSUME Inv, NEW k \in Keys, NEW c \in Cookie,
           jar' = Update(jar, k, c), latest' = [latest EXCEPT ![k] = c],
           past' = [past EXCEPT ![k] = IF latest[k] = NoCookie THEN @
                                       ELSE @ \cup {latest[k].expires}],
           now' = now
    PROVE  jar' \in Jars /\ latest' \in Jars /\ past' \in [Keys -> SUBSET Nat]
           /\ KeptIsLatest'
<1>1. /\ jar \in Jars /\ latest \in Jars /\ past \in [Keys -> SUBSET Nat]
      /\ now \in Nat /\ latest[k].expires \in Nat
      /\ NoCookie \in Cookie
  BY DEF Inv, TypeOK, Jars, NoCookie, Never, Cookie
<1> DEFINE new == IF jar[k] # NoCookie /\ Removes(c, jar[k])
                  THEN NoCookie ELSE c
           old == IF latest[k] = NoCookie THEN past[k]
                  ELSE past[k] \cup {latest[k].expires}
<1>2. jar' = [jar EXCEPT ![k] = new] /\ past' = [past EXCEPT ![k] = old]
  BY DEF Update
<1>3. new \in Cookie /\ old \in SUBSET Nat
  BY <1>1
<1>4. ASSUME Good(c, old) PROVE new = c
  <2>1. SUFFICES ASSUME jar[k] # NoCookie, c.expires # Never
                 PROVE  ~Removes(c, jar[k])
    BY DEF Removes
  <2>2. jar[k] = latest[k] /\ latest[k].expires \in old
    BY <2>1 DEF Inv, KeptIsLatest
  <2>3. now < c.expires /\ latest[k].expires < c.expires
    BY <1>4, <2>1, <2>2 DEF Good
  <2>4. c.expires \in Nat
    BY DEF Cookie
  <2> QED BY <1>1, <2>2, <2>3, <2>4 DEF Removes
<1>5. new \in {NoCookie, c}
  OBVIOUS
<1> HIDE DEF new, old
<1>6. jar' \in Jars /\ latest' \in Jars /\ past' \in [Keys -> SUBSET Nat]
  BY <1>1, <1>2, <1>3 DEF Jars
<1>7. ASSUME NEW j \in Keys
      PROVE  /\ jar'[j] # NoCookie => jar'[j] = latest'[j]
             /\ Good(latest'[j], past'[j]) => jar'[j] = latest'[j]
  <2>1. CASE j = k
    <3>1. jar'[j] = new /\ latest'[j] = c /\ past'[j] = old
      BY <1>1, <1>2, <2>1 DEF Jars
    <3> QED BY <1>4, <1>5, <3>1
  <2>2. CASE j # k
    <3>1. jar'[j] = jar[j] /\ latest'[j] = latest[j] /\ past'[j] = past[j]
      BY <1>1, <1>2, <2>2 DEF Jars
    <3> QED BY <3>1 DEF Inv, KeptIsLatest
  <2> QED BY <2>1, <2>2
<1>8. KeptIsLatest'
  BY <1>7 DEF KeptIsLatest, Good
<1> QED BY <1>6, <1>8

LEMMA SetCookieKeeps ==
    ASSUME Inv, SetCookie
    PROVE  Inv'
<1> DEFINE c == Head(response.raw_cookies)
           k == <<Mask(c, response.host), Prefix(c)>>
<1>1. /\ sent = NotSent /\ sent' = sent /\ now' = now
      /\ response.host \in Hosts /\ response.raw_cookies \in Seq(SetCookies)
      /\ response.raw_cookies # <<>>
  BY DEF SetCookie, Inv, TypeOK, Handled
<1>2. c \in SetCookies /\ Tail(response.raw_cookies) \in Seq(SetCookies)
  BY <1>1, HeadTailProperties
<1>3. SentIsLatest' /\ FreshIsSent'
  BY <1>1 DEF SentIsLatest, FreshIsSent, NotSent
<1>4. CASE Refused(c)
  <2>1. UNCHANGED <<jar, response, latest, past, sent, now>>
    BY <1>4 DEF SetCookie
  <2>2. TypeOK' /\ KeptIsLatest'
    BY <2>1 DEF Inv, TypeOK, KeptIsLatest, Good, Handled
  <2> QED BY <1>3, <2>2 DEF Inv
<1>5. CASE ~Refused(c)
  <2>1. /\ jar' = Update(jar, k, Kept(c))
        /\ latest' = [latest EXCEPT ![k] = Kept(c)]
        /\ past' = [past EXCEPT ![k] = IF latest[k] = NoCookie THEN @
                                       ELSE @ \cup {latest[k].expires}]
        /\ response' = [response EXCEPT !.raw_cookies = Tail(@)]
    BY <1>5 DEF SetCookie
  <2>2. k \in Keys
    BY <1>1, <1>2, KeyTypes
  <2>3. Kept(c) \in Cookie
    <3>1. c.value \in Seq(STRING) /\ c.value # <<>> /\ c.expires \in Nat
      BY <1>2, <1>5 DEF Refused, Absent
    <3>2. Head(c.value) \in STRING
      BY <3>1, HeadTailProperties
    <3> QED BY <3>1, <3>2 DEF Kept, FirstPart, Cookie
  <2> HIDE DEF k
  <2>4. /\ jar' \in Jars /\ latest' \in Jars
        /\ past' \in [Keys -> SUBSET Nat] /\ KeptIsLatest'
    BY <1>1, <2>1, <2>2, <2>3, UpdateKeeps
  <2>5. /\ response'.raw_cookies \in Seq(SetCookies)
        /\ response'.host \in Hosts
    BY <1>1, <1>2, <2>1
  <2>6. TypeOK'
    BY <1>1, <2>4, <2>5 DEF Inv, TypeOK, Handled
  <2> QED BY <1>3, <2>4, <2>6 DEF Inv
<1> QED BY <1>4, <1>5

LEMMA TickKeeps ==
    ASSUME Inv, Tick
    PROVE  Inv'
<1>1. /\ now' = now + 1 /\ now \in Nat /\ sent' = NotSent
      /\ UNCHANGED <<jar, latest, past, response>>
  BY DEF Tick, Inv, TypeOK
<1>2. TypeOK'
  BY <1>1 DEF Inv, TypeOK, Handled
<1>3. ASSUME NEW k \in Keys, Good(latest[k], past[k])'
      PROVE  Good(latest[k], past[k])
  <2>1. latest[k].expires \in Nat
    BY DEF Inv, TypeOK, Jars, Cookie
  <2> QED BY <1>1, <1>3, <2>1 DEF Good
<1>4. KeptIsLatest'
  BY <1>1, <1>3 DEF Inv, KeptIsLatest
<1>5. SentIsLatest' /\ FreshIsSent'
  BY <1>1 DEF SentIsLatest, FreshIsSent, NotSent
<1> QED BY <1>2, <1>4, <1>5 DEF Inv

LEMMA NextInv ==
    ASSUME Inv, [Next]_vars
    PROVE  Inv'
<1>1. CASE Next
  BY <1>1, RequestKeeps, ResponseKeeps, SetCookieKeeps, TickKeeps DEF Next
<1>2. CASE UNCHANGED vars
  BY <1>2 DEF vars, Inv, TypeOK, KeptIsLatest, Good, SentIsLatest, FreshIsSent,
              Handled
<1> QED BY <1>1, <1>2

\* Session:http sends cookies of its own host and path only, each the last one
\* that was set there and none that has expired, whatever responses set.
THEOREM SentCorrect == Spec => []SentIsLatest
<1>1. Init => Inv
  BY InitInv
<1>2. Inv /\ [Next]_vars => Inv'
  BY NextInv
<1>3. Inv => SentIsLatest
  BY DEF Inv
<1> QED BY <1>1, <1>2, <1>3, PTL DEF Spec

\* Session:http sends every cookie that is for its host and path, has not
\* expired and outlasts those set before it: update drops only others.
THEOREM FreshCorrect == Spec => []FreshIsSent
<1>1. Init => Inv
  BY InitInv
<1>2. Inv /\ [Next]_vars => Inv'
  BY NextInv
<1>3. Inv => FreshIsSent
  BY DEF Inv
<1> QED BY <1>1, <1>2, <1>3, PTL DEF Spec
=============================================================================
