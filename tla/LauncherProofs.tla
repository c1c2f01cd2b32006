---------------------------- MODULE LauncherProofs ----------------------------
(* Theorems about Launcher, for every sequence of phases, number of workers   *)
(* and limit.                                                                 *)
EXTENDS Launcher, SequenceTheorems, TLAPS

-----------------------------------------------------------------------------
(* Rounding. *)

LEMMA DivBounds ==
    ASSUME NEW a \in Nat, NEW b \in Nat \ {0}
    PROVE  /\ a \div b \in Nat
           /\ b * (a \div b) <= a
           /\ a < b * (a \div b) + b
OBVIOUS

LEMMA MulMonotone ==
    ASSUME NEW b \in Nat, NEW p \in Nat, NEW q \in Nat, p <= q
    PROVE  b * p \in Nat /\ b * q \in Nat /\ b * p <= b * q
OBVIOUS

LEMMA DivMonotone ==
    ASSUME NEW a \in Nat, NEW c \in Nat, NEW b \in Nat \ {0}, a <= c
    PROVE  a \div b <= c \div b
<1> DEFINE x == a \div b
           y == c \div b
<1>1. x \in Nat /\ y \in Nat /\ b * x <= a /\ c < b * y + b
  BY DivBounds
<1> HIDE DEF x, y
<1>2. ASSUME y + 1 <= x PROVE FALSE
  <2>1. b * (y + 1) <= b * x
    BY <1>1, <1>2, MulMonotone
  <2>2. b * (y + 1) = b * y + b
    BY <1>1
  <2>3. b * x \in Nat /\ b * y \in Nat
    BY <1>1, MulMonotone
  <2> QED BY <1>1, <2>1, <2>2, <2>3
<1>3. x <= y
  BY <1>1, <1>2
<1> QED BY <1>3 DEF x, y

LEMMA RoundNat ==
    ASSUME NEW a \in Nat, NEW b \in Nat \ {0}
    PROVE  Round(a, b) \in Nat /\ RoundDown(a, b) \in Nat
<1>1. 2 * a + b \in Nat /\ 2 * b \in Nat \ {0}
  OBVIOUS
<1> QED BY <1>1, DivBounds DEF Round, RoundDown

LEMMA RoundMonotone ==
    ASSUME NEW a \in Nat, NEW c \in Nat, NEW b \in Nat \ {0}, a <= c
    PROVE  Round(a, b) <= Round(c, b)
<1>1. /\ 2 * a + b \in Nat /\ 2 * c + b \in Nat /\ 2 * b \in Nat \ {0}
      /\ 2 * a + b <= 2 * c + b
  OBVIOUS
<1> QED BY <1>1, DivMonotone DEF Round

LEMMA RoundExact ==
    ASSUME NEW m \in Nat, NEW b \in Nat \ {0} PROVE Round(m * b, b) = m
<1> DEFINE n == 2 * b
           x == (2 * (m * b) + b) \div n
<1>1. n \in Nat \ {0} /\ m * b \in Nat /\ 2 * (m * b) + b \in Nat
  BY MulMonotone
<1>2. 2 * (m * b) = n * m /\ b < n
  OBVIOUS
<1>3. x \in Nat /\ n * x <= n * m + b /\ n * m + b < n * x + n
  BY <1>1, <1>2, DivBounds
<1> HIDE DEF n, x
<1>4. n * m \in Nat /\ n * x \in Nat
  BY <1>1, <1>3, MulMonotone
<1>5. ASSUME m + 1 <= x PROVE FALSE
  <2>1. n * (m + 1) <= n * x
    BY <1>1, <1>3, <1>5, MulMonotone
  <2>2. n * (m + 1) = n * m + n
    BY <1>1
  <2> QED BY <1>1, <1>2, <1>3, <1>4, <2>1, <2>2
<1>6. ASSUME x + 1 <= m PROVE FALSE
  <2>1. n * (x + 1) <= n * m
    BY <1>1, <1>3, <1>6, MulMonotone
  <2>2. n * (x + 1) = n * x + n
    BY <1>1, <1>3
  <2> QED BY <1>1, <1>3, <1>4, <2>1, <2>2
<1>7. x = m
  BY <1>3, <1>5, <1>6
<1> QED BY <1>7 DEF Round, n, x

\* A ramp stays between its ends up to its last step.
LEMMA RampBounds ==
    ASSUME NEW from \in Nat, NEW to \in Nat, NEW d \in Nat \ {0}, NEW k \in 0..d
    PROVE  /\ Ramp(from, to, d, k) \in Nat
           /\ \/ from <= Ramp(from, to, d, k) /\ Ramp(from, to, d, k) <= to
              \/ to <= Ramp(from, to, d, k) /\ Ramp(from, to, d, k) <= from
<1> DEFINE a == from * d + (to - from) * k
<1>1. from * d \in Nat /\ to * d \in Nat
  BY MulMonotone
<1>2. CASE from <= to
  <2>1. to - from \in Nat /\ (to - from) * d = to * d - from * d
    BY <1>2
  <2>2. (to - from) * k \in Nat /\ (to - from) * k <= (to - from) * d
    BY <2>1, MulMonotone
  <2>3. a \in Nat /\ from * d <= a /\ a <= to * d
    BY <1>1, <2>1, <2>2
  <2> HIDE DEF a
  <2>4. Round(from * d, d) <= Round(a, d) /\ Round(a, d) <= Round(to * d, d)
    BY <1>1, <2>3, RoundMonotone
  <2>5. from <= Round(a, d) /\ Round(a, d) <= to /\ Round(a, d) \in Nat
    BY <2>3, <2>4, RoundExact, RoundNat
  <2> QED BY <2>5 DEF Ramp, a
<1>3. CASE to <= from
  <2>1. /\ from - to \in Nat /\ (from - to) * d = from * d - to * d
        /\ (to - from) * k = -((from - to) * k)
    BY <1>3
  <2>2. (from - to) * k \in Nat /\ (from - to) * k <= (from - to) * d
    BY <2>1, MulMonotone
  <2>3. a \in Nat /\ to * d <= a /\ a <= from * d
    BY <1>1, <2>1, <2>2
  <2> HIDE DEF a
  <2>4. Round(to * d, d) <= Round(a, d) /\ Round(a, d) <= Round(from * d, d)
    BY <1>1, <2>3, RoundMonotone
  <2>5. to <= Round(a, d) /\ Round(a, d) <= from /\ Round(a, d) \in Nat
    BY <2>3, <2>4, RoundExact, RoundNat
  <2> QED BY <2>5 DEF Ramp, a
<1> QED BY <1>2, <1>3

\* Rounding is wrong by a half at most.
LEMMA RoundError ==
    ASSUME NEW a \in Nat, NEW b \in Nat \ {0}
    PROVE  /\ Round(a, b) \in Nat
           /\ 2 * (b * Round(a, b)) <= 2 * a + b
           /\ 2 * a <= 2 * (b * Round(a, b)) + b
<1> DEFINE n == 2 * b
           x == (2 * a + b) \div n
<1>1. n \in Nat \ {0} /\ 2 * a + b \in Nat
  OBVIOUS
<1>2. x \in Nat /\ n * x <= 2 * a + b /\ 2 * a + b < n * x + n
  BY <1>1, DivBounds
<1> HIDE DEF x
<1>3. n * x = 2 * (b * x) /\ b * x \in Nat
  BY <1>2, MulMonotone
<1>4. 2 * (b * x) <= 2 * a + b /\ 2 * a <= 2 * (b * x) + b
  BY <1>1, <1>2, <1>3
<1> QED BY <1>2, <1>4 DEF Round, x, n

\* Workers that ramp between rounded ends are together off by one user each.
LEMMA RampShares ==
    ASSUME NEW from \in Nat, NEW to \in Nat, NEW d \in Nat \ {0}, NEW k \in 0..d,
           NEW w \in Nat \ {0}
    PROVE  LET r == Ramp(Round(from, w), Round(to, w), d, k)
               exact == from * d + (to - from) * k
           IN  w * r * d - exact <= w * d /\ exact - w * r * d <= w * d
<1>1. PICK a \in Nat, b \in Nat :
          /\ a = Round(from, w) /\ b = Round(to, w)
          /\ 2 * (w * a) <= 2 * from + w /\ 2 * from <= 2 * (w * a) + w
          /\ 2 * (w * b) <= 2 * to + w /\ 2 * to <= 2 * (w * b) + w
  BY RoundError
<1>2. PICK m \in Nat : d = m + k
  <2>1. d - k \in Nat /\ d = (d - k) + k
    OBVIOUS
  <2> QED BY <2>1
<1>3. k \in Nat
  OBVIOUS
<1>4. /\ a * d + (b - a) * k = a * m + b * k
      /\ from * d + (to - from) * k = m * from + k * to
  BY <1>2, <1>3
<1>5. PICK num \in Nat : num = a * m + b * k
  BY <1>3, MulMonotone
<1>6. PICK r \in Nat : /\ r = Ramp(a, b, d, k)
                      /\ 2 * (d * r) <= 2 * num + d
                      /\ 2 * num <= 2 * (d * r) + d
  BY <1>4, <1>5, RoundError DEF Ramp
<1>7. PICK x \in Nat : x = w * (d * r) /\ x = w * r * d
  <2>1. w * (d * r) \in Nat /\ w * (d * r) = w * r * d
    BY MulMonotone
  <2> QED BY <2>1
<1>8. PICK y \in Nat, e \in Nat : y = w * num /\ e = w * d
  BY MulMonotone
<1>9. 2 * x <= 2 * y + e /\ 2 * y <= 2 * x + e
  <2>1. d * r \in Nat /\ 2 * (d * r) \in Nat
    BY MulMonotone
  <2>2. /\ w * (2 * (d * r)) <= w * (2 * num + d)
        /\ w * (2 * num) <= w * (2 * (d * r) + d)
    BY <1>6, <2>1, MulMonotone
  <2>3. /\ w * (2 * (d * r)) = 2 * (w * (d * r))
        /\ w * (2 * (d * r) + d) = 2 * (w * (d * r)) + w * d
        /\ w * (2 * num + d) = 2 * (w * num) + w * d
        /\ w * (2 * num) = 2 * (w * num)
    BY <2>1
  <2> QED BY <1>7, <1>8, <2>2, <2>3
<1>10. PICK p \in Nat, q \in Nat : p = m * (w * a) /\ q = k * (w * b)
  BY <1>3, MulMonotone
<1>11. y = p + q
  BY <1>3, <1>5, <1>8, <1>10
<1>12. PICK f \in Nat, t \in Nat, g \in Nat, h \in Nat :
           /\ f = m * from /\ t = k * to /\ g = m * w /\ h = k * w
  BY <1>3, MulMonotone
<1>13. e = g + h
  BY <1>2, <1>3, <1>8, <1>12
<1>14. 2 * p <= 2 * f + g /\ 2 * f <= 2 * p + g
  <2>1. w * a \in Nat
    BY MulMonotone
  <2>2. /\ 2 * (w * a) \in Nat /\ 2 * from + w \in Nat
        /\ 2 * from \in Nat /\ 2 * (w * a) + w \in Nat
    BY <2>1
  <2>3. m * (2 * (w * a)) <= m * (2 * from + w)
    BY <1>1, <2>1, <2>2, MulMonotone
  <2>4. m * (2 * from) <= m * (2 * (w * a) + w)
    BY <1>1, <2>1, <2>2, MulMonotone
  <2>5. /\ m * (2 * (w * a)) = 2 * (m * (w * a))
        /\ m * (2 * (w * a) + w) = 2 * (m * (w * a)) + m * w
        /\ m * (2 * from + w) = 2 * (m * from) + m * w
        /\ m * (2 * from) = 2 * (m * from)
    BY <2>1
  <2> QED BY <1>10, <1>12, <2>3, <2>4, <2>5
<1>15. 2 * q <= 2 * t + h /\ 2 * t <= 2 * q + h
  <2>1. w * b \in Nat
    BY MulMonotone
  <2>2. /\ 2 * (w * b) \in Nat /\ 2 * to + w \in Nat
        /\ 2 * to \in Nat /\ 2 * (w * b) + w \in Nat
    BY <2>1
  <2>3. k * (2 * (w * b)) <= k * (2 * to + w)
    BY <1>1, <1>3, <2>1, <2>2, MulMonotone
  <2>4. k * (2 * to) <= k * (2 * (w * b) + w)
    BY <1>1, <1>3, <2>1, <2>2, MulMonotone
  <2>5. /\ k * (2 * (w * b)) = 2 * (k * (w * b))
        /\ k * (2 * (w * b) + w) = 2 * (k * (w * b)) + k * w
        /\ k * (2 * to + w) = 2 * (k * to) + k * w
        /\ k * (2 * to) = 2 * (k * to)
    BY <1>3, <2>1
  <2> QED BY <1>10, <1>12, <2>3, <2>4, <2>5
<1>16. x - (f + t) <= e /\ (f + t) - x <= e
  BY <1>9, <1>11, <1>13, <1>14, <1>15
<1>17. from * d + (to - from) * k = f + t
  BY <1>4, <1>12
<1> QED BY <1>1, <1>6, <1>7, <1>8, <1>16, <1>17

\* Workers with a flat rate launch the whole users of their shares.
LEMMA FlatShares ==
    ASSUME NEW rate \in Nat, NEW d \in Nat \ {0}, NEW k \in 0..d,
           NEW w \in Nat \ {0}
    PROVE  LET s == RoundDown(rate, w)
               r == Ramp(s, s, d, k)
               exact == rate * d + (rate - rate) * k
           IN  w * r * d - exact <= w * d /\ exact - w * r * d <= w * d
<1>1. PICK s \in Nat : /\ s = RoundDown(rate, w)
                      /\ w * s <= rate /\ rate <= w * s + w
  BY DivBounds DEF RoundDown
<1>2. Ramp(s, s, d, k) = s
  <2>1. s * d + (s - s) * k = s * d
    OBVIOUS
  <2> QED BY <2>1, RoundExact DEF Ramp
<1>3. rate * d + (rate - rate) * k = d * rate
  OBVIOUS
<1>4. w * s \in Nat
  BY MulMonotone
<1>5. d * (w * s) <= d * rate /\ d * rate <= d * (w * s + w)
  BY <1>1, <1>4, MulMonotone
<1>6. d * (w * s) = w * s * d /\ d * (w * s + w) = w * s * d + w * d
  BY <1>4
<1>7. PICK x \in Nat, e \in Nat, t \in Nat : x = w * s * d /\ e = w * d /\ t = d * rate
  <2>1. w * s * d = d * (w * s) /\ d * (w * s) \in Nat
    BY <1>4, MulMonotone
  <2> QED BY <2>1, MulMonotone
<1>8. x - t <= e /\ t - x <= e
  BY <1>5, <1>6, <1>7
<1> QED BY <1>1, <1>2, <1>3, <1>7, <1>8

LEMMA PhaseFacts ==
    ASSUME NEW i \in 1..Len(Phases)
    PROVE  /\ Phases[i].duration \in Nat \ {0}
           /\ Share(Phases[i].from, Phases[i]) \in Nat
           /\ Share(Phases[i].to, Phases[i]) \in Nat
<1>1. Phases[i] \in [ramp : BOOLEAN, from : Nat, to : Nat,
                     duration : Nat \ {0}]
  BY PhasesAssumption, ElementOfSeq
<1>2. /\ Phases[i].from \in Nat /\ Phases[i].to \in Nat
      /\ Phases[i].duration \in Nat \ {0}
  BY <1>1
<1> QED BY <1>2, RoundNat, WorkerNumAssumption DEF Share

-----------------------------------------------------------------------------
(* The statistics buffer and the reports. *)

LEMMA SeqGrows ==
    ASSUME NEW m \in Nat, NEW n \in Nat, m <= n, NEW s \in Seq(1..m)
    PROVE  s \in Seq(1..n)
<1>1. 1..m \subseteq 1..n
  OBVIOUS
<1> QED BY <1>1, SeqMonotonic

LEMMA ReportsGrow ==
    ASSUME NEW m \in Nat, NEW n \in Nat, m <= n,
           NEW s \in Seq([step : Nat, data : Seq(1..m)])
    PROVE  s \in Seq([step : Nat, data : Seq(1..n)])
<1>1. [step : Nat, data : Seq(1..m)] \subseteq [step : Nat, data : Seq(1..n)]
  BY SeqGrows
<1> QED BY <1>1, SeqMonotonic

LEMMA AddedFacts ==
    ASSUME added \in Nat, stat_buf \in Seq(1..added)
    PROVE  stat_buf \o Added(1) \in Seq(1..(added + 1))
<1>1. Added(1) \in Seq(1..(added + 1))
  BY IsASeq DEF Added
<1>2. stat_buf \in Seq(1..(added + 1))
  BY SeqGrows
<1> QED BY <1>1, <1>2, ConcatProperties

LEMMA ReportFacts ==
    ASSUME NEW m \in Nat, NEW s \in Seq([step : Nat, data : Seq(1..m)]),
           NEW n \in Nat, NEW d \in Seq(1..m)
    PROVE  /\ Append(s, [step |-> n, data |-> d])
                  \in Seq([step : Nat, data : Seq(1..m)])
           /\ Len(Append(s, [step |-> n, data |-> d])) = Len(s) + 1
<1>1. [step |-> n, data |-> d] \in [step : Nat, data : Seq(1..m)]
  OBVIOUS
<1> HIDE DEF Report
<1> QED BY <1>1, AppendProperties

-----------------------------------------------------------------------------
(* The invariant. *)

\* The users that are counted, and those that wait to be.
Users ==
    /\ concur_users_num = awake
    /\ asleep > 0 => pc \in {"sleep", "crashed"}
    /\ pc = "send_finish" => (IsFinishPhase /\ awake = 0) \/ TimeUp

\* Where the for loop stands, and that its steps do not outrun the clock.
InPhase == pc \in {"loop", "sleep", "send", "ticked"}

Pacing ==
    /\ pc = "connect" => phase = 0
    /\ pc = "phase" => phase <= Len(Phases)
    /\ InPhase => phase >= 1
    /\ InPhase /\ ~IsFinishPhase =>
         /\ elapsed <= Phases[phase].duration + 1
         /\ cur_step - start_step <= elapsed
         /\ pc = "sleep" => elapsed <= Phases[phase].duration
         /\ pc \in {"send", "ticked"} => cur_step + 1 - start_step <= elapsed

\* Ticks against total_duration_limit, and reports against ticks.
Unsent == {"connect", "phase", "loop", "sleep"}

Limiting ==
    limit > 0 =>
        /\ pc \in Unsent => cur_step <= total + 1 /\ total < limit
        /\ pc \in {"send", "ticked", "send_finish"} => cur_step <= total
        /\ cur_step <= limit

Reporting ==
    /\ pc \in Unsent \cup {"send"} => Len(reports) + 1 = cur_step
    /\ pc \in {"ticked", "send_finish"} => Len(reports) = cur_step
    /\ pc = "crashed" => Len(reports) <= cur_step
    /\ Len(reports) <= cur_step + 1

Inv == TypeOK /\ Users /\ Pacing /\ Limiting /\ Reporting

LEMMA InitInv == ASSUME Init PROVE Inv
<1>1. TypeOK
  <2>1. Len(Phases) \in Nat
    BY PhasesAssumption, LenProperties
  <2>2. /\ stat_buf \in Seq(1..added) /\ out_data \in Seq(1..added)
        /\ reports \in Seq([step : Nat, data : Seq(1..added)])
    BY EmptySeq DEF Init
  <2>3. limit \in Nat /\ total \in 0..limit
    BY LimitsAssumption DEF Init
  <2> QED BY <2>1, <2>2, <2>3 DEF Init, TypeOK
<1>2. Len(reports) = 0 /\ Len(Phases) \in Nat /\ limit \in Nat
  BY EmptySeq, PhasesAssumption, LenProperties, LimitsAssumption DEF Init
<1>3. Users /\ Pacing
  BY <1>2 DEF Init, Users, Pacing, InPhase
<1>4. Limiting /\ Reporting
  BY <1>2 DEF Init, Limiting, Reporting, Unsent
<1> QED BY <1>1, <1>3, <1>4 DEF Inv

\* What the clock does.
LEMMA ElapseFacts ==
    ASSUME Inv, InPhase, NEW n \in Nat, Elapse(n)
    PROVE  /\ elapsed' \in Nat /\ total' \in 0..limit /\ total <= total'
           /\ total' = IF total + n < limit THEN total + n ELSE limit
           /\ ~IsFinishPhase =>
                /\ elapsed' <= Phases[phase].duration + 1
                /\ elapsed <= elapsed'
                /\ n = 1 /\ elapsed <= Phases[phase].duration
                   => elapsed' = elapsed + 1
<1>1. /\ elapsed \in Nat /\ total \in 0..limit /\ limit \in Nat
      /\ phase \in 0..(Len(Phases) + 1) /\ Len(Phases) \in Nat
  BY LimitsAssumption, PhasesAssumption, LenProperties DEF Inv, TypeOK
<1>2. /\ total' \in 0..limit /\ total <= total'
      /\ total' = IF total + n < limit THEN total + n ELSE limit
  BY <1>1 DEF Elapse, Least
<1>3. CASE ~IsFinishPhase
  <2>1. phase \in 1..Len(Phases)
    BY <1>1, <1>3 DEF Inv, Pacing, IsFinishPhase
  <2>2. Phases[phase].duration \in Nat /\ elapsed <= Phases[phase].duration + 1
    BY <1>3, <2>1, PhaseFacts DEF Inv, Pacing
  <2> QED BY <1>1, <1>2, <1>3, <2>2 DEF Elapse, Least, MaxElapsed
<1>4. CASE IsFinishPhase
  BY <1>1, <1>2, <1>4 DEF Elapse, Least, MaxElapsed
<1> QED BY <1>3, <1>4

\* The rate of a phase's tick, and of the final phase's.
LEMMA PhaseRateFacts ==
    ASSUME Inv, InPhase, pc \in {"loop", "sleep"}, MayTick
    PROVE  /\ PhaseRate \in Nat
           /\ IsFinishPhase => PhaseRate = 0
           /\ ~IsFinishPhase =>
                /\ phase \in 1..Len(Phases)
                /\ cur_step - start_step \in 0..Phases[phase].duration
<1>1. CASE IsFinishPhase
  BY <1>1 DEF PhaseRate
<1>2. CASE ~IsFinishPhase
  <2>1. phase \in 1..Len(Phases)
    BY <1>2, PhasesAssumption, LenProperties DEF Inv, TypeOK, Pacing, IsFinishPhase
  <2>2. cur_step - start_step \in 0..Phases[phase].duration
    BY <1>2, <2>1, PhaseFacts DEF Inv, TypeOK, Pacing, MayTick
  <2>3. Rate(Phases[phase], cur_step - start_step) \in Nat
    BY <2>1, <2>2, PhaseFacts, RampBounds DEF Rate
  <2> QED BY <1>2, <2>1, <2>2, <2>3 DEF PhaseRate
<1> QED BY <1>1, <1>2

-----------------------------------------------------------------------------
(* Every step keeps the invariant. *)

\* Steps before the tick's report.
LEMMA PhaseInv ==
    ASSUME Inv, ConnectToStatServer \/ StartPhase \/ LeavePhase PROVE Inv'
<1> USE DEF timeVars, userVars, stepVars, statVars
<1>1. Len(Phases) \in Nat
  BY PhasesAssumption, LenProperties
<1>2. /\ cur_step \in Nat \ {0} /\ start_step \in 1..cur_step
      /\ phase \in 0..(Len(Phases) + 1)
  BY DEF Inv, TypeOK
<1>3. CASE ConnectToStatServer
  <2>1. TypeOK'
    BY <1>3 DEF Inv, TypeOK, ConnectToStatServer
  <2>2. Users' /\ Pacing'
    BY <1>1, <1>3 DEF Inv, Users, Pacing, InPhase, IsFinishPhase, ConnectToStatServer
  <2>3. Len(reports) \in Nat /\ limit \in Nat /\ total \in 0..limit
    BY LenProperties, LimitsAssumption DEF Inv, TypeOK
  <2>4. Limiting' /\ Reporting'
    BY <1>2, <1>3, <2>3 DEF Inv, Limiting, Reporting, Unsent, ConnectToStatServer
  <2> QED BY <2>1, <2>2, <2>4 DEF Inv
<1>4. CASE StartPhase
  <2>1. phase <= Len(Phases)
    BY <1>4 DEF Inv, Pacing, StartPhase
  <2>2. TypeOK'
    BY <1>1, <1>2, <1>4, <2>1 DEF Inv, TypeOK, StartPhase
  <2>3. Users'
    BY <1>4 DEF Inv, Users, StartPhase
  <2>4. Pacing'
    <3>1. phase' \in Nat /\ phase' >= 1 /\ elapsed' = 0 /\ start_step' = cur_step'
          /\ pc' = "loop"
      BY <1>2, <1>4 DEF StartPhase
    <3>2. ~IsFinishPhase' => Phases[phase'].duration \in Nat
      BY <1>1, <1>2, <1>4, <2>1, <3>1, PhaseFacts DEF IsFinishPhase, StartPhase
    <3>3. cur_step' - start_step' = 0
      BY <1>2, <1>4, <3>1 DEF StartPhase
    <3> QED BY <3>1, <3>2, <3>3 DEF Pacing, InPhase
  <2>5. Limiting' /\ Reporting'
    BY <1>4 DEF Inv, Limiting, Reporting, Unsent, StartPhase
  <2> QED BY <2>2, <2>3, <2>4, <2>5 DEF Inv
<1>5. CASE LeavePhase
  <2>1. TypeOK'
    BY <1>5 DEF Inv, TypeOK, LeavePhase
  <2>2. Users' /\ Pacing'
    BY <1>1, <1>2, <1>5
       DEF Inv, Users, Pacing, InPhase, IsFinishPhase, LeavePhase, MayLeave
  <2>3. Limiting' /\ Reporting'
    BY <1>5 DEF Inv, Limiting, Reporting, Unsent, LeavePhase
  <2> QED BY <2>1, <2>2, <2>3 DEF Inv
<1> QED BY <1>3, <1>4, <1>5

LEMMA TickInv == ASSUME Inv, Tick PROVE Inv'
<1> USE DEF timeVars, userVars, stepVars, statVars
<1>1. PhaseRate \in Nat
  BY PhaseRateFacts DEF Tick, InPhase
<1>2. TypeOK'
  BY <1>1 DEF Inv, TypeOK, Tick
<1>3. Users'
  BY DEF Inv, Users, Tick
<1>4. Pacing'
  BY DEF Inv, Pacing, Tick, InPhase, MayTick, IsFinishPhase
<1>5. Limiting' /\ Reporting'
  BY DEF Inv, Limiting, Reporting, Unsent, Tick
<1> QED BY <1>2, <1>3, <1>4, <1>5 DEF Inv

\* A tick's report: sent at once, blocked, and sent after having been blocked.
LEMMA TickWakesInv == ASSUME Inv, TickWakes PROVE Inv'
<1> DEFINE data == stat_buf \o Added(1)
           Reports == Seq([step : Nat, data : Seq(1..(added + 1))])
<1>1. /\ pc = "sleep" /\ asleep = 0 /\ Elapse(1) /\ added' = added + 1
      /\ UNCHANGED <<phase, cur_step, start_step, limit, asleep, awake,
                     concur_users_num, lost>>
      /\ \/ /\ pc' = "ticked" /\ stat_buf' = <<>> /\ out_data' = out_data
            /\ reports' = Append(reports, [step |-> cur_step, data |-> data])
         \/ /\ pc' = "send" /\ stat_buf' = data /\ out_data' = data
            /\ reports' = reports
  BY DEF TickWakes, UsersWokeFirst, Report, Reset, stepVars, userVars
<1>2. /\ cur_step \in Nat \ {0} /\ start_step \in 1..cur_step
      /\ limit \in Nat /\ total \in 0..limit /\ added \in Nat
  BY LimitsAssumption DEF Inv, TypeOK
<1>3. InPhase /\ InPhase'
  BY <1>1 DEF InPhase
<1>4. /\ elapsed' \in Nat /\ total' \in 0..limit /\ total <= total'
      /\ total' = IF total + 1 < limit THEN total + 1 ELSE limit
      /\ ~IsFinishPhase =>
            elapsed' = elapsed + 1 /\ elapsed <= Phases[phase].duration
  <2>1. ~IsFinishPhase => elapsed <= Phases[phase].duration
    BY <1>1, <1>3 DEF Inv, Pacing
  <2> QED BY <1>1, <1>3, <2>1, ElapseFacts
<1>5. /\ data \in Seq(1..(added + 1)) /\ reports \in Reports
      /\ out_data \in Seq(1..(added + 1)) /\ Len(reports) \in Nat
  <2>1. data \in Seq(1..(added + 1))
    BY AddedFacts DEF Inv, TypeOK
  <2>2. added + 1 \in Nat /\ added <= added + 1
    BY <1>2
  <2>3. out_data \in Seq(1..(added + 1))
    BY <1>2, <2>2, SeqGrows DEF Inv, TypeOK
  <2>4. reports \in Reports
    BY <1>2, <2>2, ReportsGrow DEF Inv, TypeOK
  <2>5. Len(reports) \in Nat
    BY <2>4, LenProperties
  <2> QED BY <2>1, <2>3, <2>4, <2>5
<1>6. /\ reports' \in Reports
      /\ Len(reports') = IF pc' = "ticked" THEN Len(reports) + 1 ELSE Len(reports)
  <2> HIDE DEF data
  <2>1. added + 1 \in Nat /\ cur_step \in Nat
    BY <1>2
  <2>2. /\ Append(reports, [step |-> cur_step, data |-> data]) \in Reports
        /\ Len(Append(reports, [step |-> cur_step, data |-> data]))
               = Len(reports) + 1
    BY <1>5, <2>1, ReportFacts
  <2> HIDE DEF Reports
  <2> QED BY <1>1, <1>5, <2>2
<1>7. TypeOK'
  <2> HIDE DEF data
  <2>1. stat_buf' \in Seq(1..(added + 1)) /\ out_data' \in Seq(1..(added + 1))
    BY <1>1, <1>5, EmptySeq
  <2>2. lost' \subseteq 1..(added + 1)
    BY <1>1, <1>2 DEF Inv, TypeOK
  <2> QED BY <1>1, <1>2, <1>4, <1>6, <2>1, <2>2 DEF Inv, TypeOK
<1>8. Users'
  BY <1>1 DEF Inv, Users
<1>9. Pacing'
  <2>1. phase' = phase /\ IsFinishPhase' = IsFinishPhase /\ phase >= 1
    BY <1>1, <1>3 DEF Inv, Pacing, IsFinishPhase
  <2>2. ~IsFinishPhase => phase \in 1..Len(Phases)
    BY <2>1, PhasesAssumption, LenProperties DEF Inv, TypeOK, IsFinishPhase
  <2>3. ~IsFinishPhase => /\ Phases[phase].duration \in Nat
                          /\ cur_step - start_step <= elapsed
    BY <1>3, <2>2, PhaseFacts DEF Inv, Pacing
  <2>4. elapsed \in Nat
    BY DEF Inv, TypeOK
  <2> QED BY <1>1, <1>2, <1>3, <1>4, <2>1, <2>3, <2>4 DEF Pacing, InPhase
<1>10. Limiting'
  BY <1>1, <1>2, <1>4 DEF Inv, Limiting, Unsent
<1>11. Reporting'
  <2>1. Len(reports) + 1 = cur_step
    BY <1>1 DEF Inv, Reporting, Unsent
  <2>2. (pc' = "ticked" \/ pc' = "send") /\ cur_step' = cur_step
    BY <1>1
  <2> HIDE DEF data, Reports
  <2> QED BY <1>1, <1>2, <1>5, <1>6, <2>1, <2>2 DEF Reporting, Unsent
<1> QED BY <1>7, <1>8, <1>9, <1>10, <1>11 DEF Inv

LEMMA SendEndsInv == ASSUME Inv, SendEnds PROVE Inv'
<1> DEFINE Reports == Seq([step : Nat, data : Seq(1..added)])
<1>1. /\ pc = "send" /\ pc' = "ticked" /\ \E n \in 0..MaxBlock : Elapse(n)
      /\ stat_buf' = <<>> /\ out_data' = <<>> /\ lost' = lost \cup Erased
      /\ reports' = Append(reports, [step |-> cur_step, data |-> out_data])
      /\ UNCHANGED <<phase, cur_step, start_step, limit, asleep, awake,
                     concur_users_num, added>>
  BY DEF SendEnds, Report, Reset, stepVars, userVars
<1>2. /\ cur_step \in Nat \ {0} /\ start_step \in 1..cur_step
      /\ limit \in Nat /\ total \in 0..limit /\ added \in Nat /\ elapsed \in Nat
      /\ Len(reports) \in Nat
  BY LimitsAssumption, LenProperties DEF Inv, TypeOK
<1>3. InPhase /\ InPhase'
  BY <1>1 DEF InPhase
<1>4. /\ elapsed' \in Nat /\ total' \in 0..limit /\ total <= total'
      /\ ~IsFinishPhase => /\ elapsed' <= Phases[phase].duration + 1
                           /\ elapsed <= elapsed'
  BY <1>1, <1>3, ElapseFacts, BoundsAssumption
<1>5. reports' \in Reports /\ Len(reports') = Len(reports) + 1
  BY <1>1, <1>2, ReportFacts DEF Inv, TypeOK
<1>6. TypeOK'
  <2>1. stat_buf' \in Seq(1..added) /\ out_data' \in Seq(1..added)
    BY <1>1, EmptySeq
  <2>2. \A k \in DOMAIN stat_buf : stat_buf[k] \in 1..added
    BY LenProperties, ElementOfSeq DEF Inv, TypeOK
  <2>3. lost' \subseteq 1..added
    BY <1>1, <2>2 DEF Inv, TypeOK, Erased
  <2> QED BY <1>1, <1>2, <1>4, <1>5, <2>1, <2>3 DEF Inv, TypeOK
<1>7. Users'
  BY <1>1 DEF Inv, Users
<1>8. Pacing'
  <2>1. phase' = phase /\ IsFinishPhase' = IsFinishPhase /\ phase >= 1
    BY <1>1, <1>3 DEF Inv, Pacing, IsFinishPhase
  <2>2. ~IsFinishPhase => cur_step + 1 - start_step <= elapsed
    BY <1>1, <1>3 DEF Inv, Pacing
  <2> QED BY <1>1, <1>2, <1>3, <1>4, <2>1, <2>2 DEF Pacing, InPhase
<1>9. Limiting'
  BY <1>1, <1>2, <1>4 DEF Inv, Limiting, Unsent
<1>10. Reporting'
  BY <1>1, <1>2, <1>5 DEF Inv, Reporting, Unsent
<1> QED BY <1>6, <1>7, <1>8, <1>9, <1>10 DEF Inv

LEMMA CrashInv == ASSUME Inv, SendFails \/ UserFails PROVE Inv'
<1>1. /\ pc \in {"sleep", "send", "ticked", "send_finish"} /\ pc' = "crashed"
      /\ UNCHANGED <<stepVars, timeVars, limit, userVars, statVars>>
  BY DEF SendFails, UserFails, Sending, Waiting
<1> USE <1>1 DEF timeVars, userVars, stepVars, statVars
<1>2. Len(reports) \in Nat /\ cur_step \in Nat
  BY LenProperties DEF Inv, TypeOK
<1>3. TypeOK'
  BY DEF Inv, TypeOK
<1>4. Users' /\ Pacing'
  BY DEF Inv, Users, Pacing, InPhase
<1>5. Limiting' /\ Reporting'
  BY <1>2 DEF Inv, Limiting, Reporting, Unsent
<1> QED BY <1>3, <1>4, <1>5 DEF Inv

LEMMA NextStepInv == ASSUME Inv, NextStep PROVE Inv'
<1>1. /\ pc = "ticked" /\ pc' = "loop" /\ cur_step' = cur_step + 1 /\ ~TimeUp
      /\ UNCHANGED <<phase, start_step, elapsed, total, limit, userVars, statVars>>
  BY DEF NextStep, MustFinish, timeVars
<1> USE <1>1 DEF userVars, statVars
<1>2. /\ cur_step \in Nat \ {0} /\ start_step \in 1..cur_step
      /\ limit \in Nat /\ total \in 0..limit /\ elapsed \in Nat
  BY LimitsAssumption DEF Inv, TypeOK
<1>3. TypeOK'
  BY <1>2 DEF Inv, TypeOK
<1>4. Users'
  BY DEF Inv, Users
<1>5. Pacing'
  BY <1>2 DEF Inv, Pacing, InPhase, IsFinishPhase
<1>6. Limiting'
  BY <1>2 DEF Inv, Limiting, Unsent, TimeUp
<1>7. Reporting'
  <2>1. Len(reports) \in Nat
    BY LenProperties DEF Inv, TypeOK
  <2>2. Len(reports) = cur_step
    BY DEF Inv, Reporting
  <2> QED BY <1>2, <2>1, <2>2 DEF Reporting, Unsent
<1> QED BY <1>3, <1>4, <1>5, <1>6, <1>7 DEF Inv

\* The end of the test, which a blocked send may delay.
LEMMA FinishTestInv == ASSUME Inv, FinishTest PROVE Inv'
<1> DEFINE data == stat_buf \o Added(1)
           Reports == Seq([step : Nat, data : Seq(1..(added + 1))])
<1>1. /\ pc = "ticked" /\ MustFinish /\ added' = added + 1 /\ stat_buf' = data
      /\ UNCHANGED <<phase, cur_step, start_step, elapsed, total, limit, asleep,
                     awake, concur_users_num, lost>>
      /\ \/ /\ pc' = "finished" /\ out_data' = out_data
            /\ reports' = Append(reports, [step |-> cur_step + 1, data |-> data])
         \/ pc' = "send_finish" /\ out_data' = data /\ reports' = reports
  BY DEF FinishTest, Report, LastStep, timeVars, stepVars, userVars
<1>2. /\ cur_step \in Nat \ {0} /\ added \in Nat /\ awake \in Nat
  BY DEF Inv, TypeOK
<1>3. added + 1 \in Nat /\ added <= added + 1 /\ cur_step + 1 \in Nat
  BY <1>2
<1>4. /\ data \in Seq(1..(added + 1)) /\ out_data \in Seq(1..(added + 1))
      /\ reports \in Reports
  <2>1. data \in Seq(1..(added + 1))
    BY AddedFacts DEF Inv, TypeOK
  <2>2. out_data \in Seq(1..(added + 1))
    BY <1>2, <1>3, SeqGrows DEF Inv, TypeOK
  <2>3. reports \in Reports
    BY <1>2, <1>3, ReportsGrow DEF Inv, TypeOK
  <2> QED BY <2>1, <2>2, <2>3
<1> HIDE DEF data
<1>5. /\ reports' \in Reports
      /\ pc' = "finished" => Len(reports') = Len(reports) + 1
      /\ pc' = "send_finish" => Len(reports') = Len(reports)
  <2>1. LET r == [step |-> cur_step + 1, data |-> data]
        IN  Append(reports, r) \in Reports /\ Len(Append(reports, r)) = Len(reports) + 1
    BY <1>3, <1>4, ReportFacts
  <2> HIDE DEF Reports
  <2> QED BY <1>1, <1>4, <2>1
<1>6. TypeOK'
  <2>1. lost' \subseteq 1..(added + 1)
    BY <1>1, <1>2 DEF Inv, TypeOK
  <2> QED BY <1>1, <1>3, <1>4, <1>5, <2>1 DEF Inv, TypeOK
<1>7. Users'
  <2>1. concur_users_num = awake /\ asleep = 0
    BY <1>1 DEF Inv, TypeOK, Users
  <2> QED BY <1>1, <2>1 DEF Users, MustFinish, TimeUp, IsFinishPhase
<1>8. Pacing' /\ Limiting'
  BY <1>1 DEF Inv, Pacing, InPhase, Limiting, Unsent
<1>9. Reporting'
  <2>1. Len(reports) = cur_step
    BY <1>1 DEF Inv, Reporting
  <2> QED BY <1>1, <1>2, <1>5, <2>1 DEF Reporting, Unsent
<1> QED BY <1>6, <1>7, <1>8, <1>9 DEF Inv

LEMMA FinishSendEndsInv == ASSUME Inv, FinishSendEnds PROVE Inv'
<1> DEFINE Reports == Seq([step : Nat, data : Seq(1..added)])
<1>1. /\ pc = "send_finish" /\ pc' = "finished" /\ out_data' = <<>>
      /\ reports' = Append(reports, [step |-> cur_step + 1, data |-> out_data])
      /\ UNCHANGED <<phase, cur_step, start_step, elapsed, total, limit, asleep,
                     awake, concur_users_num, stat_buf, added, lost>>
  BY DEF FinishSendEnds, Report, LastStep, timeVars, stepVars, userVars
<1>2. cur_step \in Nat \ {0} /\ added \in Nat /\ cur_step + 1 \in Nat
  BY DEF Inv, TypeOK
<1>3. reports' \in Reports /\ Len(reports') = Len(reports) + 1
  BY <1>1, <1>2, ReportFacts DEF Inv, TypeOK
<1>4. TypeOK'
  <2>1. out_data' \in Seq(1..added)
    BY <1>1, EmptySeq
  <2> QED BY <1>1, <1>3, <2>1 DEF Inv, TypeOK
<1>5. Users' /\ Pacing' /\ Limiting'
  BY <1>1 DEF Inv, Users, Pacing, InPhase, Limiting, Unsent
<1>6. Reporting'
  BY <1>1, <1>2, <1>3 DEF Inv, Reporting, Unsent
<1> QED BY <1>4, <1>5, <1>6 DEF Inv

\* A user that starts or ends is counted where it goes.
LEMMA UserInv == ASSUME Inv, UserStarts \/ UserEnds PROVE Inv'
<1>1. /\ UNCHANGED <<pc, phase, cur_step, start_step, elapsed, total, limit,
                     out_data, reports, lost>>
      /\ stat_buf' = stat_buf \o Added(1) /\ added' = added + 1
      /\ \/ /\ asleep > 0 /\ asleep' = asleep - 1 /\ awake' = awake + 1
            /\ concur_users_num' = concur_users_num + 1
         \/ /\ awake > 0 /\ awake' = awake - 1 /\ asleep' = asleep
            /\ concur_users_num' = concur_users_num - 1
  BY DEF UserStarts, UserEnds, Add, CountedDown, timeVars, stepVars
<1>2. /\ added \in Nat /\ asleep \in Nat /\ awake \in Nat
      /\ concur_users_num = awake
  BY DEF Inv, TypeOK, Users
<1>3. added + 1 \in Nat /\ added <= added + 1
  BY <1>2
<1>4. TypeOK'
  <2>1. stat_buf' \in Seq(1..(added + 1))
    BY <1>1, AddedFacts DEF Inv, TypeOK
  <2>2. out_data' \in Seq(1..(added + 1))
    BY <1>1, <1>2, <1>3, SeqGrows DEF Inv, TypeOK
  <2>3. reports' \in Seq([step : Nat, data : Seq(1..(added + 1))])
    BY <1>1, <1>2, <1>3, ReportsGrow DEF Inv, TypeOK
  <2>4. lost' \subseteq 1..(added + 1)
    BY <1>1, <1>2 DEF Inv, TypeOK
  <2>5. asleep' \in Nat /\ awake' \in Nat /\ concur_users_num' \in Nat
    BY <1>1, <1>2
  <2> QED BY <1>1, <1>3, <2>1, <2>2, <2>3, <2>4, <2>5 DEF Inv, TypeOK
<1>5. Users'
  BY <1>1, <1>2 DEF Inv, Users, IsFinishPhase, TimeUp
<1>6. Pacing' /\ Limiting' /\ Reporting'
  BY <1>1 DEF Inv, Pacing, InPhase, IsFinishPhase, Limiting, Unsent, Reporting
<1> QED BY <1>4, <1>5, <1>6 DEF Inv

-----------------------------------------------------------------------------
(* The theorems. *)

\* Inv is an invariant: one case for each action.
THEOREM InvCorrect == Spec => []Inv
<1>1. Init => Inv
  BY InitInv
<1>2. ASSUME Inv, [Next]_vars PROVE Inv'
  <2>1. CASE Next
    BY <1>2, <2>1, PhaseInv, TickInv, TickWakesInv, SendEndsInv, CrashInv,
       NextStepInv, FinishTestInv, FinishSendEndsInv, UserInv DEF Next, Run
  <2>2. CASE UNCHANGED vars
    <3>1. UNCHANGED <<pc, phase, cur_step, start_step, elapsed, total, limit, asleep,
                      awake, concur_users_num, stat_buf, out_data, added, reports,
                      lost>>
      BY <2>2 DEF vars, stepVars, timeVars, userVars, statVars
    <3> QED BY <1>2, <3>1 DEF Inv, TypeOK, Users, Pacing, InPhase, IsFinishPhase,
                              TimeUp, Limiting, Unsent, Reporting
  <2> QED BY <1>2, <2>1, <2>2
<1> QED BY <1>1, <1>2, PTL DEF Spec

\* Every variable keeps to its type: no counter of users becomes negative, and
\* only events that were added are buffered, sent or lost.
THEOREM TypeCorrect == Spec => []TypeOK
<1>1. Inv => TypeOK
  BY DEF Inv
<1> QED BY <1>1, InvCorrect, PTL

\* calc_rate's ramp keeps between its ends for every script and every delay of
\* the ticks.
THEOREM RampCorrect == Spec => []RampInRange
<1>1. ASSUME Inv PROVE RampInRange
  <2> SUFFICES ASSUME pc = "sleep", ~IsFinishPhase
               PROVE  LET p == Phases[phase]
                          ends == {Share(p.from, p), Share(p.to, p)}
                      IN  /\ cur_step - start_step <= p.duration
                          /\ \E low, high \in ends :
                                  low <= PhaseRate /\ PhaseRate <= high
    BY DEF RampInRange
  <2>1. phase \in 1..Len(Phases) /\ cur_step - start_step \in 0..Phases[phase].duration
    <3>1. InPhase /\ MayTick
      BY <1>1 DEF Inv, Pacing, InPhase, MayTick
    <3> QED BY <1>1, <3>1, PhaseRateFacts
  <2> DEFINE p == Phases[phase]
             rate == Ramp(Share(p.from, p), Share(p.to, p), p.duration,
                          cur_step - start_step)
  <2>2. PhaseRate = rate
    BY DEF PhaseRate, Rate
  <2>3. \/ Share(p.from, p) <= rate /\ rate <= Share(p.to, p)
        \/ Share(p.to, p) <= rate /\ rate <= Share(p.from, p)
    BY <2>1, PhaseFacts, RampBounds
  <2>4. cur_step - start_step <= p.duration
    BY <2>1, PhaseFacts
  <2> QED BY <2>2, <2>3, <2>4
<1> QED BY <1>1, InvCorrect, PTL

\* calc_rate and the division of the script's rates: what the workers launch
\* together in a tick is the script's rate but for one user each.
THEOREM SharesCorrect == Spec => []SharesAddUp
<1>1. ASSUME Inv PROVE SharesAddUp
  <2> SUFFICES ASSUME pc = "sleep", ~IsFinishPhase, NEW p, p = Phases[phase]
               PROVE  LET exact == p.from * p.duration
                                   + (p.to - p.from) * (cur_step - start_step)
                          launched == WorkerNum * PhaseRate * p.duration
                      IN  /\ launched - exact <= WorkerNum * p.duration
                          /\ exact - launched <= WorkerNum * p.duration
    BY DEF SharesAddUp
  <2>1. phase \in 1..Len(Phases) /\ cur_step - start_step \in 0..p.duration
    <3>1. InPhase /\ MayTick
      BY <1>1 DEF Inv, Pacing, InPhase, MayTick
    <3> QED BY <1>1, <3>1, PhaseRateFacts
  <2>2. p.from \in Nat /\ p.to \in Nat /\ p.duration \in Nat \ {0}
    <3>1. p \in [ramp : BOOLEAN, from : Nat, to : Nat, duration : Nat \ {0}]
      BY <2>1, PhasesAssumption, ElementOfSeq
    <3> QED BY <3>1
  <2>3. PICK k \in 0..p.duration : k = cur_step - start_step
    BY <2>1
  <2>4. PhaseRate = Ramp(Share(p.from, p), Share(p.to, p), p.duration, k)
    BY <2>3 DEF PhaseRate, Rate
  <2>5. CASE ~p.ramp
    <3>1. p.to = p.from
      BY <2>1, <2>5, PhasesAssumption, LenProperties
    <3> QED BY <2>2, <2>3, <2>4, <2>5, <3>1, FlatShares, WorkerNumAssumption
            DEF Share
  <2>6. CASE p.ramp
    BY <2>2, <2>3, <2>4, <2>6, RampShares, WorkerNumAssumption DEF Share
  <2> QED BY <2>5, <2>6
<1> QED BY <1>1, InvCorrect, PTL

\* A test with a limit of n seconds has n ticks and n + 1 reports at most.
THEOREM LimitCorrect == Spec => []LimitHonoured
<1>1. ASSUME Inv PROVE LimitHonoured
  <2>1. Len(reports) \in Nat /\ cur_step \in Nat /\ limit \in Nat
    BY <1>1, LenProperties, LimitsAssumption DEF Inv, TypeOK
  <2> QED BY <1>1, <2>1 DEF Inv, Limiting, Reporting, LimitHonoured
<1> QED BY <1>1, InvCorrect, PTL

\* Launcher:run launches users in the script's phases only and ends with its
\* last user, or when its time is up: each step is one of LoadTest's, or leaves
\* its variables alone.
THEOREM LoadTestCorrect == Spec => ImplementsLoadTest
<1> DEFINE users == asleep + awake
           Quiet == UNCHANGED <<stage, users, TimeUp>>
<1>1. Init => Test!Init
  <2>1. Len(Phases) \in Nat
    BY PhasesAssumption, LenProperties
  <2>2. ASSUME Init PROVE stage = "launching" /\ users = 0 /\ TimeUp = FALSE
    BY <2>1, <2>2, LimitsAssumption DEF Init, stage, IsFinishPhase, TimeUp
  <2> QED BY <2>2 DEF Test!Init
<1>2. ASSUME Inv, [Next]_vars PROVE [Test!Next]_Test!vars
  <2>1. SUFFICES Test!Next \/ Quiet
    BY DEF Test!vars
  <2>2. /\ asleep \in Nat /\ awake \in Nat /\ phase \in 0..(Len(Phases) + 1)
        /\ Len(Phases) \in Nat /\ limit \in Nat /\ total \in 0..limit
    BY <1>2, PhasesAssumption, LimitsAssumption, LenProperties DEF Inv, TypeOK
  <2> USE DEF timeVars, userVars, stepVars
  <2>3. ASSUME pc \notin {"finished", "crashed"}, pc' = "crashed",
               UNCHANGED <<phase, asleep, awake, total, limit>>
        PROVE  Test!Next
    BY <2>2, <2>3 DEF Test!Next, Test!Fail, Test!Running, stage, TimeUp
  <2>4. ASSUME pc \notin {"finished", "crashed"}, pc' \notin {"finished", "crashed"},
               UNCHANGED <<phase, asleep, awake, total, limit>>
        PROVE  Quiet
    BY <2>4 DEF stage, IsFinishPhase, TimeUp
  <2>5. CASE ConnectToStatServer \/ SendFails \/ UserFails
    BY <2>3, <2>4, <2>5 DEF ConnectToStatServer, SendFails, UserFails, Sending,
       Waiting
  <2>6. CASE LeavePhase \/ NextStep
    BY <2>4, <2>6 DEF LeavePhase, NextStep
  <2>7. CASE StartPhase
    <3>1. /\ pc = "phase" /\ pc' = "loop" /\ phase' = phase + 1
          /\ phase <= Len(Phases) /\ UNCHANGED <<asleep, awake, total, limit>>
      BY <1>2, <2>7 DEF StartPhase, Inv, Pacing
    <3>2. UNCHANGED <<users, TimeUp>> /\ stage = "launching"
      BY <2>2, <3>1 DEF TimeUp, stage, IsFinishPhase
    <3>3. stage' \in {"launching", "draining"}
      BY <3>1 DEF stage
    <3> QED BY <3>2, <3>3 DEF Test!Next, Test!Drain
  <2>8. CASE Tick
    <3>1. /\ pc = "loop" /\ pc' = "sleep" /\ asleep' = asleep + PhaseRate
          /\ UNCHANGED <<phase, awake, total, limit>>
      BY <2>8 DEF Tick
    <3>2. PhaseRate \in Nat /\ (IsFinishPhase => PhaseRate = 0)
      BY <1>2, <2>8, PhaseRateFacts DEF Tick, InPhase
    <3>3. /\ UNCHANGED <<stage, TimeUp>> /\ users' = users + PhaseRate
          /\ ~IsFinishPhase => stage = "launching"
      BY <2>2, <3>1, <3>2 DEF stage, IsFinishPhase, TimeUp
    <3>4. users \in Nat
      BY <2>2
    <3> QED BY <3>2, <3>3, <3>4 DEF Test!Next, Test!Launch
  <2>9. CASE TickWakes \/ SendEnds
    <3>1. /\ pc \in {"sleep", "send"} /\ pc' \in {"send", "ticked"}
          /\ UNCHANGED <<phase, asleep, awake, limit>>
          /\ \E n \in Nat : Elapse(n)
      BY <2>9, BoundsAssumption DEF TickWakes, SendEnds
    <3>2. total' \in 0..limit /\ total <= total'
      BY <1>2, <3>1, ElapseFacts DEF InPhase
    <3>3. TimeUp => TimeUp'
      BY <2>2, <3>1, <3>2 DEF TimeUp
    <3>4. UNCHANGED <<stage, users>> /\ stage \in {"launching", "draining"}
      BY <3>1 DEF stage, IsFinishPhase
    <3>5. TimeUp \in BOOLEAN /\ TimeUp' \in BOOLEAN
      BY DEF TimeUp
    <3> QED BY <3>3, <3>4, <3>5 DEF Test!Next, Test!Elapse, Test!Running
  <2>10. ASSUME pc' = "finished", UNCHANGED <<phase, asleep, awake, total, limit>>,
                pc \in {"ticked", "send_finish"},
                (IsFinishPhase /\ users = 0) \/ TimeUp
         PROVE  Test!Next
    <3>1. stage' = "ended" /\ UNCHANGED <<users, TimeUp>>
      BY <2>10 DEF stage, TimeUp
    <3>2. stage = IF IsFinishPhase THEN "draining" ELSE "launching"
      BY <2>10 DEF stage
    <3> QED BY <2>10, <3>1, <3>2 DEF Test!Next, Test!Finish, Test!Running
  <2>11. CASE FinishTest
    <3>1. /\ pc = "ticked" /\ pc' \in {"finished", "send_finish"} /\ MustFinish
          /\ UNCHANGED <<phase, asleep, awake, total, limit>>
      BY <2>11 DEF FinishTest
    <3>2. (IsFinishPhase /\ users = 0) \/ TimeUp
      BY <1>2, <2>2, <3>1 DEF MustFinish, Inv, Users
    <3> QED BY <2>4, <2>10, <3>1, <3>2
  <2>12. CASE FinishSendEnds
    <3>1. /\ pc = "send_finish" /\ pc' = "finished"
          /\ UNCHANGED <<phase, asleep, awake, total, limit>>
      BY <2>12 DEF FinishSendEnds
    <3>2. (IsFinishPhase /\ users = 0) \/ TimeUp
      BY <1>2, <2>2, <3>1 DEF Inv, Users
    <3> QED BY <2>10, <3>1, <3>2
  <2>13. CASE UserStarts
    <3>1. UNCHANGED <<pc, phase, total, limit>> /\ users' = users
      BY <2>2, <2>13 DEF UserStarts
    <3> QED BY <3>1 DEF stage, IsFinishPhase, TimeUp
  <2>14. CASE UserEnds
    <3>1. /\ pc \in {"sleep", "send", "send_finish"} /\ users > 0
          /\ UNCHANGED <<pc, phase, total, limit>> /\ users' = users - 1
      BY <2>2, <2>14 DEF UserEnds, Waiting
    <3>2. UNCHANGED <<stage, TimeUp>> /\ stage \in {"launching", "draining"}
      BY <3>1 DEF stage, IsFinishPhase, TimeUp
    <3> QED BY <3>1, <3>2 DEF Test!Next, Test!Leave, Test!Running
  <2>15. CASE UNCHANGED vars
    BY <2>15 DEF vars, stage, IsFinishPhase, TimeUp
  <2> QED BY <1>2, <2>5, <2>6, <2>7, <2>8, <2>9, <2>11, <2>12, <2>13, <2>14,
             <2>15 DEF Next, Run
<1> QED BY <1>1, <1>2, InvCorrect, PTL DEF Spec, ImplementsLoadTest, Test!Spec

-----------------------------------------------------------------------------
(* What becomes of the events that the launcher and its users add. *)

\* The order in which events were added.
Ordered(s) == \A i, j \in DOMAIN s : i < j => s[i] < s[j]

InOrder ==
    \A i, j \in DOMAIN reports :
        \A a \in DOMAIN reports[i].data, b \in DOMAIN reports[j].data :
            i < j \/ (i = j /\ a < b) => reports[i].data[a] < reports[j].data[b]

\* The buffer is in order and, up to the end of the test, younger than what was
\* reported or lost.  What a blocked send is sending is still in front of it.
Buffered ==
    /\ Ordered(stat_buf)
    /\ pc # "finished" =>
           \A x \in Reported \cup lost, y \in ToSet(stat_buf) : x < y
    /\ Sending => /\ Len(out_data) <= Len(stat_buf)
                  /\ \A i \in DOMAIN out_data : out_data[i] = stat_buf[i]
    /\ pc = "send_finish" => out_data # <<>>

EventsInv == EventsAccounted /\ ReportsInStep /\ Buffered

-----------------------------------------------------------------------------
(* Buffers and reports. *)

LEMMA EventTypes ==
    ASSUME Inv
    PROVE  /\ added \in Nat /\ cur_step \in Nat
           /\ stat_buf \in Seq(1..added) /\ out_data \in Seq(1..added)
           /\ DOMAIN stat_buf = 1..Len(stat_buf) /\ Len(stat_buf) \in Nat
           /\ DOMAIN out_data = 1..Len(out_data) /\ Len(out_data) \in Nat
           /\ DOMAIN reports = 1..Len(reports) /\ Len(reports) \in Nat
           /\ \A i \in DOMAIN reports : reports[i].data \in Seq(1..added)
           /\ ToSet(stat_buf) \subseteq 1..added /\ lost \subseteq 1..added
           /\ Reported \subseteq 1..added
<1>1. /\ added \in Nat /\ cur_step \in Nat /\ lost \subseteq 1..added
      /\ stat_buf \in Seq(1..added) /\ out_data \in Seq(1..added)
      /\ reports \in Seq([step : Nat, data : Seq(1..added)])
  BY DEF Inv, TypeOK
<1>2. /\ DOMAIN stat_buf = 1..Len(stat_buf) /\ Len(stat_buf) \in Nat
      /\ DOMAIN out_data = 1..Len(out_data) /\ Len(out_data) \in Nat
      /\ DOMAIN reports = 1..Len(reports) /\ Len(reports) \in Nat
  BY <1>1, LenProperties
<1>3. \A i \in DOMAIN reports : reports[i].data \in Seq(1..added)
  <2>1. \A i \in DOMAIN reports : reports[i] \in [step : Nat, data : Seq(1..added)]
    BY <1>1, <1>2, ElementOfSeq
  <2> QED BY <2>1
<1>4. ASSUME NEW s \in Seq(1..added) PROVE ToSet(s) \subseteq 1..added
  <2>1. DOMAIN s = 1..Len(s) /\ \A i \in 1..Len(s) : s[i] \in 1..added
    BY LenProperties, ElementOfSeq
  <2> QED BY <2>1 DEF ToSet
<1>5. Reported \subseteq 1..added
  BY <1>3, <1>4 DEF Reported
<1> QED BY <1>1, <1>2, <1>3, <1>4, <1>5

\* The buffer with the next event.
LEMMA GrownBuffer ==
    ASSUME Inv, EventsInv, NEW d, d = stat_buf \o Added(1)
    PROVE  /\ d \in Seq(1..(added + 1)) /\ Len(d) = Len(stat_buf) + 1
           /\ DOMAIN d = 1..Len(d) /\ d # <<>>
           /\ \A i \in DOMAIN stat_buf : i \in DOMAIN d /\ d[i] = stat_buf[i]
           /\ d[Len(d)] = added + 1
           /\ ToSet(d) = ToSet(stat_buf) \cup {added + 1}
           /\ Ordered(d)
           /\ pc # "finished" => \A x \in Reported \cup lost, y \in ToSet(d) : x < y
           /\ 1..(added + 1) = (1..added) \cup {added + 1}
<1>1. /\ Added(1) \in Seq(1..(added + 1)) /\ Len(Added(1)) = 1
      /\ Added(1)[1] = added + 1
  <2>1. /\ Added(1) = [i \in 1..1 |-> added + i] /\ added + 1 \in 1..(added + 1)
        /\ added \in Nat
    BY EventTypes DEF Added
  <2>2. Added(1) \in Seq(1..(added + 1))
    BY <2>1, IsASeq
  <2> QED BY <2>1, <2>2
<1>2. stat_buf \in Seq(1..(added + 1))
  BY EventTypes, SeqGrows
<1>3. /\ d \in Seq(1..(added + 1)) /\ Len(d) = Len(stat_buf) + 1
      /\ \A i \in 1..Len(d) :
             d[i] = IF i <= Len(stat_buf) THEN stat_buf[i]
                                          ELSE Added(1)[i - Len(stat_buf)]
  BY <1>1, <1>2, ConcatProperties
<1>4. DOMAIN d = 1..Len(d) /\ Len(stat_buf) \in Nat
      /\ DOMAIN stat_buf = 1..Len(stat_buf) /\ added \in Nat
  BY <1>3, LenProperties, EventTypes
<1>5. \A i \in DOMAIN stat_buf : i \in DOMAIN d /\ d[i] = stat_buf[i]
  BY <1>3, <1>4
<1>6. d[Len(d)] = added + 1 /\ Len(d) \in DOMAIN d
  <2>1. Len(d) - Len(stat_buf) = 1 /\ Len(d) \in 1..Len(d) /\ ~(Len(d) <= Len(stat_buf))
    BY <1>3, <1>4
  <2> QED BY <1>1, <1>3, <1>4, <2>1
<1>7. \A i \in DOMAIN d : i \in DOMAIN stat_buf \/ i = Len(d)
  BY <1>3, <1>4
<1>8. ToSet(d) = ToSet(stat_buf) \cup {added + 1}
  BY <1>5, <1>6, <1>7 DEF ToSet
<1>9. \A x \in Reported \cup lost \cup ToSet(stat_buf) : x < added + 1
  <2>1. \A x \in 1..added : x < added + 1
    BY <1>4
  <2> QED BY <2>1, EventTypes
<1>10. Ordered(d)
  <2> SUFFICES ASSUME NEW i \in DOMAIN d, NEW j \in DOMAIN d, i < j
               PROVE  d[i] < d[j]
    BY DEF Ordered
  <2>1. i \in DOMAIN stat_buf
    BY <1>3, <1>4, <1>7
  <2>2. CASE j \in DOMAIN stat_buf
    BY <1>5, <2>1, <2>2 DEF EventsInv, Buffered, Ordered
  <2>3. CASE j = Len(d)
    <3>1. stat_buf[i] \in ToSet(stat_buf)
      BY <2>1 DEF ToSet
    <3> QED BY <1>5, <1>6, <1>9, <2>1, <2>3, <3>1
  <2> QED BY <1>7, <2>2, <2>3
<1>11. pc # "finished" => \A x \in Reported \cup lost, y \in ToSet(d) : x < y
  BY <1>8, <1>9 DEF EventsInv, Buffered
<1>12. d # <<>>
  BY <1>6
<1>13. 1..(added + 1) = (1..added) \cup {added + 1}
  BY <1>4
<1> QED BY <1>3, <1>4, <1>5, <1>6, <1>8, <1>10, <1>11, <1>12, <1>13

LEMMA ReportedInOrder ==
    ASSUME EventsInv
    PROVE  InOrder /\ \A i \in DOMAIN reports : reports[i].step = i
<1>1. InOrder
  BY DEF EventsInv, EventsAccounted, InOrder
<1>2. \A i \in DOMAIN reports : reports[i].step = i
  BY DEF EventsInv, ReportsInStep
<1> QED BY <1>1, <1>2

\* A report of events that are younger than all that were reported before.
LEMMA NewReport ==
    ASSUME Inv, InOrder, \A i \in DOMAIN reports : reports[i].step = i,
           NEW n, n = Len(reports) + 1, NEW m \in Nat, NEW d \in Seq(1..m), Ordered(d),
           \A x \in Reported, y \in ToSet(d) : x < y,
           reports' = Append(reports, [step |-> n, data |-> d])
    PROVE  /\ InOrder' /\ Reported' = Reported \cup ToSet(d)
           /\ \A i \in DOMAIN reports' : reports'[i].step = i
           /\ Len(reports') = n /\ Last(reports').data = d
<1> DEFINE r == [step |-> n, data |-> d]
<1>1. r.step = n /\ r.data = d
  OBVIOUS
<1>2. /\ reports' = Append(reports, r) /\ Len(reports) \in Nat
      /\ DOMAIN reports = 1..Len(reports)
      /\ reports \in Seq([step : Nat, data : Seq(1..added)])
  BY EventTypes DEF Inv, TypeOK
<1> HIDE DEF r
<1>3. /\ DOMAIN reports' = 1..n /\ Len(reports') = n /\ reports'[n] = r
      /\ \A i \in DOMAIN reports : reports'[i] = reports[i]
      /\ \A i \in 1..n : i \in DOMAIN reports \/ i = n
      /\ \A i \in DOMAIN reports : i \in 1..n /\ i < n
      /\ n \in 1..n
  BY <1>2
<1>4. Reported' = Reported \cup ToSet(d)
  <2>1. Reported' = UNION {ToSet(reports'[i].data) : i \in 1..n}
    BY <1>3 DEF Reported
  <2>2. ASSUME NEW x PROVE x \in Reported' <=> x \in Reported \cup ToSet(d)
    <3>1. x \in Reported' <=> \E i \in 1..n : x \in ToSet(reports'[i].data)
      BY <2>1
    <3>2. x \in Reported <=> \E i \in DOMAIN reports : x \in ToSet(reports[i].data)
      BY DEF Reported
    <3> QED BY <1>1, <1>3, <3>1, <3>2
  <2> QED BY <2>2
<1>5. InOrder'
  <2> SUFFICES ASSUME NEW i \in 1..n, NEW j \in 1..n,
                      NEW a \in DOMAIN reports'[i].data,
                      NEW b \in DOMAIN reports'[j].data,
                      i < j \/ (i = j /\ a < b)
               PROVE  reports'[i].data[a] < reports'[j].data[b]
    BY <1>3 DEF InOrder
  <2>1. CASE j \in DOMAIN reports
    <3>1. i \in DOMAIN reports
      BY <1>2, <2>1
    <3> QED BY <1>3, <2>1, <3>1 DEF InOrder
  <2>2. CASE j = n /\ i \in DOMAIN reports
    <3>1. reports'[i].data[a] \in Reported
      BY <1>3, <2>2 DEF Reported, ToSet
    <3>2. reports'[j].data[b] \in ToSet(d)
      BY <1>1, <1>3, <2>2 DEF ToSet
    <3> QED BY <3>1, <3>2
  <2>3. CASE j = n /\ i = n
    <3>1. a < b
      BY <1>2, <2>3
    <3> QED BY <1>1, <1>3, <2>3, <3>1 DEF Ordered
  <2> QED BY <1>3, <2>1, <2>2, <2>3
<1>6. \A i \in DOMAIN reports' : reports'[i].step = i
  BY <1>1, <1>3
<1>7. Last(reports').data = d
  BY <1>1, <1>3 DEF Last
<1> QED BY <1>3, <1>4, <1>5, <1>6, <1>7

-----------------------------------------------------------------------------
(* Every step keeps the events accounted for. *)

LEMMA QuietEvents ==
    ASSUME EventsInv, UNCHANGED statVars, {pc, pc'} \cap {"finished"} = {},
           Sending' => Sending, pc' = "send_finish" => pc = "send_finish"
    PROVE  EventsInv'
<1>1. UNCHANGED <<stat_buf, out_data, added, reports, lost>> /\ Reported' = Reported
  BY DEF statVars, Reported
<1>2. EventsAccounted' /\ ReportsInStep'
  <2>1. EventsAccounted'
    BY <1>1 DEF EventsInv, EventsAccounted
  <2>2. ReportsInStep'
    BY <1>1 DEF EventsInv, ReportsInStep
  <2> QED BY <2>1, <2>2
<1>3. Buffered'
  BY <1>1 DEF EventsInv, Buffered
<1> QED BY <1>2, <1>3 DEF EventsInv

LEMMA UserEvents ==
    ASSUME Inv, EventsInv, UserStarts \/ UserEnds
    PROVE  EventsInv'
<1>1. /\ UNCHANGED <<pc, out_data, reports, lost>> /\ Reported' = Reported
      /\ pc # "finished" /\ added' = added + 1
  BY DEF UserStarts, UserEnds, Waiting, Add, Reported
<1>2. PICK d : d = stat_buf \o Added(1) /\ stat_buf' = d
  BY DEF UserStarts, UserEnds, Add
<1>3. /\ Len(d) = Len(stat_buf) + 1
      /\ \A i \in DOMAIN stat_buf : d[i] = stat_buf[i]
      /\ ToSet(d) = ToSet(stat_buf) \cup {added + 1} /\ Ordered(d)
      /\ \A x \in Reported \cup lost, y \in ToSet(d) : x < y
      /\ 1..(added + 1) = (1..added) \cup {added + 1}
  BY <1>1, <1>2, GrownBuffer
<1>4. EventsAccounted'
  BY <1>1, <1>2, <1>3 DEF EventsInv, EventsAccounted
<1>5. ReportsInStep'
  BY <1>1 DEF EventsInv, ReportsInStep
<1>6. Buffered'
  <2>1. Sending => /\ Len(out_data) <= Len(d)
                   /\ \A i \in DOMAIN out_data : i \in DOMAIN stat_buf
    BY <1>3, EventTypes DEF EventsInv, Buffered
  <2>2. Sending' = Sending
    BY <1>1 DEF Sending
  <2> QED BY <1>1, <1>2, <1>3, <2>1, <2>2 DEF EventsInv, Buffered
<1> QED BY <1>4, <1>5, <1>6 DEF EventsInv

\* A tick's report, sent at once or blocked.
LEMMA TickEvents ==
    ASSUME Inv, EventsInv, TickWakes
    PROVE  EventsInv'
<1>1. PICK d : /\ d = stat_buf \o Added(1)
               /\ \/ /\ pc' = "ticked" /\ stat_buf' = <<>>
                     /\ reports' = Append(reports, [step |-> cur_step, data |-> d])
                  \/ /\ pc' = "send" /\ out_data' = d /\ stat_buf' = d
                     /\ UNCHANGED reports
  BY DEF TickWakes, Report, Reset
<1>2. pc = "sleep" /\ added' = added + 1 /\ lost' = lost
  BY DEF TickWakes
<1>3. /\ d \in Seq(1..(added + 1)) /\ Ordered(d)
      /\ ToSet(d) = ToSet(stat_buf) \cup {added + 1}
      /\ \A x \in Reported \cup lost, y \in ToSet(d) : x < y
      /\ 1..(added + 1) = (1..added) \cup {added + 1}
      /\ Reported \cup lost \subseteq Nat /\ added + 1 \in Nat
  <2>1. Reported \cup lost \subseteq Nat /\ added + 1 \in Nat
    BY EventTypes
  <2> QED BY <1>1, <1>2, <2>1, GrownBuffer
<1>4. CASE pc' = "ticked"
  <2>1. cur_step = Len(reports) + 1
    BY <1>2 DEF Inv, Reporting, Unsent
  <2>2. /\ InOrder' /\ Reported' = Reported \cup ToSet(d)
        /\ \A i \in DOMAIN reports' : reports'[i].step = i
    BY <1>1, <1>3, <1>4, <2>1, ReportedInOrder, NewReport
  <2>3. ToSet(stat_buf') = {} /\ Ordered(stat_buf')
    BY <1>1, <1>4 DEF ToSet, Ordered
  <2>4. Reported' \cap lost' = {}
    BY <1>2, <1>3, <2>2 DEF EventsInv, EventsAccounted
  <2>5. 1..added' = Reported' \cup ToSet(stat_buf') \cup lost'
    BY <1>2, <1>3, <2>2, <2>3 DEF EventsInv, EventsAccounted
  <2>6. EventsAccounted'
    BY <2>2, <2>4, <2>5 DEF EventsAccounted, InOrder
  <2>7. ReportsInStep' /\ Buffered'
    BY <1>4, <2>2, <2>3 DEF ReportsInStep, Buffered, Sending
  <2> QED BY <2>6, <2>7 DEF EventsInv
<1>5. CASE pc' = "send"
  <2>1. reports' = reports /\ Reported' = Reported /\ stat_buf' = d /\ out_data' = d
    BY <1>1, <1>5 DEF Reported
  <2>2. EventsAccounted'
    BY <1>2, <1>3, <2>1 DEF EventsInv, EventsAccounted
  <2>3. ReportsInStep'
    BY <1>5, <2>1 DEF EventsInv, ReportsInStep
  <2>4. Len(d) <= Len(d)
    BY <1>3, LenProperties
  <2>5. Buffered'
    BY <1>2, <1>3, <1>5, <2>1, <2>4 DEF Buffered
  <2> QED BY <2>2, <2>3, <2>5 DEF EventsInv
<1> QED BY <1>1, <1>4, <1>5

\* What a blocked send has sent, against the buffer behind it.
LEMMA SentFacts ==
    ASSUME Inv, EventsInv, Sending
    PROVE  /\ out_data \in Seq(1..added) /\ Ordered(out_data)
           /\ ToSet(out_data) \subseteq ToSet(stat_buf)
           /\ \A i \in DOMAIN out_data : i \in DOMAIN stat_buf
                                        /\ out_data[i] = stat_buf[i]
           /\ \A x \in Reported \cup lost, y \in ToSet(stat_buf) : x < y
           /\ Reported \cup lost \subseteq Nat
<1>1. \A i \in DOMAIN out_data : i \in DOMAIN stat_buf /\ out_data[i] = stat_buf[i]
  BY EventTypes DEF EventsInv, Buffered
<1>2. Ordered(out_data) /\ ToSet(out_data) \subseteq ToSet(stat_buf)
  BY <1>1 DEF EventsInv, Buffered, Ordered, ToSet
<1>3. pc # "finished"
  BY DEF Sending
<1> QED BY <1>1, <1>2, <1>3, EventTypes DEF EventsInv, Buffered

LEMMA SendEndsEvents ==
    ASSUME Inv, EventsInv, SendEnds
    PROVE  EventsInv'
<1>1. /\ pc = "send" /\ pc' = "ticked" /\ added' = added /\ stat_buf' = <<>>
      /\ lost' = lost \cup (ToSet(stat_buf) \ ToSet(out_data))
      /\ reports' = Append(reports, [step |-> cur_step, data |-> out_data])
      /\ Sending
  BY DEF SendEnds, Report, Reset, Erased, ToSet, Sending
<1>2. cur_step = Len(reports) + 1 /\ added \in Nat
  BY <1>1, EventTypes DEF Inv, Reporting, Unsent
<1>3. /\ out_data \in Seq(1..added) /\ Ordered(out_data)
      /\ ToSet(out_data) \subseteq ToSet(stat_buf)
      /\ \A x \in Reported \cup lost, y \in ToSet(stat_buf) : x < y
      /\ Reported \cup lost \subseteq Nat
  BY <1>1, SentFacts
<1>4. /\ InOrder' /\ Reported' = Reported \cup ToSet(out_data)
      /\ \A i \in DOMAIN reports' : reports'[i].step = i
  BY <1>1, <1>2, <1>3, ReportedInOrder, NewReport
<1>5. ToSet(stat_buf') = {} /\ Ordered(stat_buf')
  BY <1>1 DEF ToSet, Ordered
<1>6. Reported' \cap lost' = {}
  BY <1>1, <1>3, <1>4 DEF EventsInv, EventsAccounted
<1>7. 1..added' = Reported' \cup ToSet(stat_buf') \cup lost'
  BY <1>1, <1>3, <1>4, <1>5 DEF EventsInv, EventsAccounted
<1>8. EventsAccounted'
  BY <1>4, <1>6, <1>7 DEF EventsAccounted, InOrder
<1>9. ReportsInStep' /\ Buffered'
  BY <1>1, <1>4, <1>5 DEF ReportsInStep, Buffered, Sending
<1> QED BY <1>8, <1>9 DEF EventsInv

LEMMA FinishTestEvents ==
    ASSUME Inv, EventsInv, FinishTest
    PROVE  EventsInv'
<1>1. PICK d : /\ d = stat_buf \o Added(1) /\ stat_buf' = d
               /\ \/ /\ pc' = "finished"
                     /\ reports' = Append(reports, [step |-> cur_step + 1, data |-> d])
                  \/ /\ pc' = "send_finish" /\ out_data' = d
                     /\ UNCHANGED reports
  BY DEF FinishTest, Report, LastStep
<1>2. pc = "ticked" /\ added' = added + 1 /\ lost' = lost /\ cur_step' = cur_step
  BY DEF FinishTest, stepVars
<1>3. /\ d \in Seq(1..(added + 1)) /\ Ordered(d) /\ d # <<>>
      /\ ToSet(d) = ToSet(stat_buf) \cup {added + 1} /\ d[Len(d)] = added + 1
      /\ \A x \in Reported \cup lost, y \in ToSet(d) : x < y
      /\ 1..(added + 1) = (1..added) \cup {added + 1}
      /\ Reported \cup lost \subseteq Nat /\ added + 1 \in Nat
  <2>1. Reported \cup lost \subseteq Nat /\ added + 1 \in Nat
    BY EventTypes
  <2> QED BY <1>1, <1>2, <2>1, GrownBuffer
<1>4. cur_step = Len(reports)
  BY <1>2 DEF Inv, Reporting
<1>5. CASE pc' = "finished"
  <2>1. cur_step + 1 = Len(reports) + 1
    BY <1>4
  <2>2. /\ InOrder' /\ Reported' = Reported \cup ToSet(d)
        /\ \A i \in DOMAIN reports' : reports'[i].step = i
        /\ Len(reports') = cur_step + 1 /\ Last(reports').data = d
    BY <1>1, <1>3, <1>5, <2>1, ReportedInOrder, NewReport
  <2>3. Reported' \cap lost' = {}
    BY <1>2, <1>3, <2>2 DEF EventsInv, EventsAccounted
  <2>4. 1..added' = Reported' \cup lost'
    BY <1>2, <1>3, <2>2 DEF EventsInv, EventsAccounted
  <2>5. EventsAccounted'
    <3>1. 1..added' = Reported' \cup ToSet(stat_buf') \cup lost'
      BY <1>1, <2>2, <2>4
    <3> QED BY <2>2, <2>3, <3>1 DEF EventsAccounted, InOrder
  <2>6. ReportsInStep'
    <3>1. Last(Last(reports').data) = added'
      BY <1>2, <1>3, <2>2 DEF Last
    <3> QED BY <1>2, <2>2, <2>4, <3>1 DEF ReportsInStep
  <2>7. Buffered'
    BY <1>1, <1>3, <1>5 DEF Buffered, Sending
  <2> QED BY <2>5, <2>6, <2>7 DEF EventsInv
<1>6. CASE pc' = "send_finish"
  <2>1. reports' = reports /\ Reported' = Reported /\ stat_buf' = d /\ out_data' = d
    BY <1>1, <1>6 DEF Reported
  <2>2. EventsAccounted'
    BY <1>2, <1>3, <2>1 DEF EventsInv, EventsAccounted
  <2>3. ReportsInStep'
    BY <1>6, <2>1 DEF EventsInv, ReportsInStep
  <2>4. Len(d) <= Len(d)
    BY <1>3, LenProperties
  <2>5. Buffered'
    BY <1>2, <1>3, <1>6, <2>1, <2>4 DEF Buffered
  <2> QED BY <2>2, <2>3, <2>5 DEF EventsInv
<1> QED BY <1>1, <1>5, <1>6

LEMMA FinishSendEvents ==
    ASSUME Inv, EventsInv, FinishSendEnds
    PROVE  EventsInv'
<1>1. /\ pc = "send_finish" /\ pc' = "finished" /\ added' = added
      /\ stat_buf' = stat_buf /\ lost' = lost /\ cur_step' = cur_step
      /\ reports' = Append(reports, [step |-> cur_step + 1, data |-> out_data])
      /\ Sending
  BY DEF FinishSendEnds, Report, LastStep, Sending, stepVars
<1>2. cur_step + 1 = Len(reports) + 1 /\ added \in Nat
  BY <1>1, EventTypes DEF Inv, Reporting
<1>3. /\ out_data \in Seq(1..added) /\ Ordered(out_data)
      /\ ToSet(out_data) \subseteq ToSet(stat_buf)
      /\ \A i \in DOMAIN out_data : i \in DOMAIN stat_buf
                                   /\ out_data[i] = stat_buf[i]
      /\ \A x \in Reported \cup lost, y \in ToSet(stat_buf) : x < y
      /\ Reported \cup lost \subseteq Nat
  BY <1>1, SentFacts
<1>4. /\ InOrder' /\ Reported' = Reported \cup ToSet(out_data)
      /\ \A i \in DOMAIN reports' : reports'[i].step = i
      /\ Len(reports') = cur_step + 1 /\ Last(reports').data = out_data
  BY <1>1, <1>2, <1>3, ReportedInOrder, NewReport
<1>5. Reported' \cap lost' = {}
  BY <1>1, <1>3, <1>4 DEF EventsInv, EventsAccounted
<1>6. 1..added = Reported \cup ToSet(stat_buf) \cup lost
  BY DEF EventsInv, EventsAccounted
<1>7. EventsAccounted'
  <2>1. 1..added' = Reported' \cup ToSet(stat_buf') \cup lost'
    BY <1>1, <1>3, <1>4, <1>6
  <2> QED BY <1>4, <1>5, <2>1 DEF EventsAccounted, InOrder
<1>8. PICK e : e = out_data[Len(out_data)]
  OBVIOUS
<1>9. /\ Len(out_data) \in DOMAIN out_data /\ Len(out_data) \in DOMAIN stat_buf
      /\ e = stat_buf[Len(out_data)] /\ e \in ToSet(stat_buf) /\ e \in 1..added
  <2>1. out_data # <<>>
    BY <1>1 DEF EventsInv, Buffered
  <2>2. Len(out_data) \in DOMAIN out_data
    BY <1>3, <2>1, EventTypes
  <2> QED BY <1>3, <1>8, <2>2, EventTypes DEF ToSet
<1>10. \A y \in ToSet(stat_buf) : y <= e <=> y \in ToSet(out_data)
  <2> SUFFICES ASSUME NEW i \in DOMAIN stat_buf
               PROVE  stat_buf[i] <= e <=> stat_buf[i] \in ToSet(out_data)
    BY DEF ToSet
  <2>1. \A j, k \in DOMAIN stat_buf : j < k => stat_buf[j] < stat_buf[k]
    BY DEF EventsInv, Buffered, Ordered
  <2>2. \A j \in DOMAIN stat_buf : stat_buf[j] \in Nat
    BY EventTypes DEF ToSet
  <2>3. CASE i <= Len(out_data)
    <3>1. i \in DOMAIN out_data
      BY <2>3, EventTypes
    <3>2. stat_buf[i] \in ToSet(out_data)
      BY <1>3, <3>1 DEF ToSet
    <3>3. i < Len(out_data) \/ i = Len(out_data)
      BY <2>3, EventTypes
    <3>4. stat_buf[i] <= e
      BY <1>9, <2>1, <2>2, <3>3
    <3> QED BY <3>2, <3>4
  <2>4. CASE ~(i <= Len(out_data))
    <3>1. Len(out_data) < i
      BY <2>4, EventTypes
    <3>2. e < stat_buf[i]
      BY <1>9, <2>1, <3>1
    <3>3. stat_buf[i] \notin ToSet(out_data)
      <4>1. \A j \in DOMAIN out_data : j < i /\ j \in DOMAIN stat_buf
        BY <1>3, <3>1, EventTypes
      <4> QED BY <1>3, <2>1, <2>2, <4>1 DEF ToSet
    <3> QED BY <1>9, <2>2, <3>2, <3>3
  <2> QED BY <2>3, <2>4
<1>11. ReportsInStep'
  <2>1. Last(Last(reports').data) = e
    BY <1>4, <1>8 DEF Last
  <2>2. ASSUME NEW z \in 1..added PROVE z <= e <=> z \in Reported' \cup lost'
    <3>1. CASE z \in ToSet(stat_buf)
      <4>1. z \notin Reported \cup lost
        BY <1>3, <3>1
      <4> QED BY <1>1, <1>4, <1>10, <3>1, <4>1
    <3>2. CASE z \in Reported \cup lost
      BY <1>1, <1>3, <1>4, <1>9, <3>2
    <3> QED BY <1>6, <3>1, <3>2
  <2>3. Reported' \cup lost' \subseteq 1..added
    BY <1>1, <1>3, <1>4, <1>6
  <2>4. 1..e = Reported' \cup lost'
    <3>1. \A z : z \in 1..e <=> z \in 1..added /\ z <= e
      BY <1>2, <1>9
    <3> QED BY <2>2, <2>3, <3>1
  <2> QED BY <1>1, <1>4, <2>1, <2>4 DEF ReportsInStep
<1>12. Buffered'
  BY <1>1 DEF EventsInv, Buffered, Sending
<1> QED BY <1>7, <1>11, <1>12 DEF EventsInv

-----------------------------------------------------------------------------
(* The theorems. *)

LEMMA EventsInit == Init => EventsInv
<1> SUFFICES ASSUME Init PROVE EventsInv
  OBVIOUS
<1>1. /\ stat_buf = <<>> /\ reports = <<>> /\ lost = {} /\ added = 0
      /\ pc = "connect"
  BY DEF Init
<1>2. Reported = {} /\ ToSet(stat_buf) = {} /\ 1..added = {}
  BY <1>1 DEF Reported, ToSet
<1>3. EventsAccounted
  BY <1>1, <1>2 DEF EventsAccounted
<1>4. ReportsInStep /\ Buffered
  BY <1>1, <1>2 DEF ReportsInStep, Buffered, Ordered, Sending
<1> QED BY <1>3, <1>4 DEF EventsInv

LEMMA EventsStep == Inv /\ EventsInv /\ [Next]_vars => EventsInv'
<1> SUFFICES ASSUME Inv, EventsInv, [Next]_vars PROVE EventsInv'
  OBVIOUS
<1>1. CASE ConnectToStatServer \/ StartPhase \/ Tick \/ LeavePhase \/ NextStep
  BY <1>1, QuietEvents
     DEF ConnectToStatServer, StartPhase, Tick, LeavePhase, NextStep, Sending
<1>2. CASE SendFails \/ UserFails
  BY <1>2, QuietEvents DEF SendFails, UserFails, Sending, Waiting
<1>3. CASE UserStarts \/ UserEnds
  BY <1>3, UserEvents
<1>4. CASE TickWakes \/ SendEnds
  BY <1>4, TickEvents, SendEndsEvents
<1>5. CASE FinishTest \/ FinishSendEnds
  BY <1>5, FinishTestEvents, FinishSendEvents
<1>6. CASE UNCHANGED vars
  <2>1. UNCHANGED <<pc, cur_step, stat_buf, out_data, added, reports, lost>>
        /\ Reported' = Reported
    BY <1>6 DEF vars, stepVars, statVars, Reported
  <2> QED BY <2>1 DEF EventsInv, EventsAccounted, ReportsInStep, Buffered, Sending
<1> QED BY <1>1, <1>2, <1>3, <1>4, <1>5, <1>6 DEF Next, Run

LEMMA EventsInvariant == Spec => [](Inv /\ EventsInv)
<1>1. ASSUME Inv, EventsInv, [Next]_vars PROVE EventsInv'
  BY <1>1, EventsStep
<1> QED BY <1>1, EventsInit, InvCorrect, PTL DEF Spec

\* Stat:add, Stat:send_stats and Stat:reset: an event is reported once and in
\* the order of the add() calls, or still buffered, or was added behind a
\* blocked send of a tick.
THEOREM EventsCorrect == Spec => []EventsAccounted
<1>1. EventsInv => EventsAccounted
  BY DEF EventsInv
<1> QED BY <1>1, EventsInvariant, PTL

\* Launcher:tick and finish_test: one report for each step, in order, and the
\* last one carries every event up to the end of the test.
THEOREM ReportsCorrect == Spec => []ReportsInStep
<1>1. EventsInv => ReportsInStep
  BY DEF EventsInv
<1> QED BY <1>1, EventsInvariant, PTL
=============================================================================
