----------------------- MODULE MarketScheduler_proofs -----------------------
(***************************************************************************)
(* The loop of the scheduler, for every length of the day, the session and  *)
(* the waits, and for any number of days: the end of a day is settled, and  *)
(* once; silence is reported; scans are apart.  All of it is about time: a  *)
(* station says until when at most the loop stays there, and since when at  *)
(* most it is under way; so the next look at the watchdog and at the        *)
(* end-of-day pass is never too far.                                        *)
(***************************************************************************)
EXTENDS MarketScheduler, FiniteSetTheorems, WellFoundedInduction, TLAPS

LEMMA SchedulerConstants ==
    /\ DayLength \in Nat /\ Open \in Nat /\ Close \in Nat /\ Eod \in Nat /\ Interval \in Nat
    /\ Warmup \in Nat /\ MinSeparation \in Nat /\ Stale \in Nat /\ Cooldown \in Nat
    /\ EodMaxAttempts \in Nat /\ EodRetry \in Nat /\ Backoff \in Nat /\ MaxScan \in Nat
    /\ MaxEod \in Nat /\ Horizon \in Nat /\ MaxRestarts \in Nat
    /\ Interval > 0 /\ EodMaxAttempts > 0
    /\ Open < Close /\ Close <= Eod /\ Eod < DayLength
    /\ None \notin Nat /\ MaxEod <= Open /\ MinSeparation + Close <= DayLength + Open
BY SchedulerAssumption

Midnight(t) == DayLength * Day(t)

LEMMA Clock ==
    ASSUME NEW t \in Nat
    PROVE  /\ Day(t) \in Nat /\ Midnight(t) \in Nat /\ TimeOfDay(t) \in Nat /\ TimeOfDay(t) < DayLength
           /\ t = Midnight(t) + TimeOfDay(t)
BY SchedulerConstants DEF Day, Midnight, TimeOfDay

LEMMA Calendar ==
    ASSUME NEW a \in Nat, NEW b \in Nat, a <= b
    PROVE  /\ Day(a) <= Day(b) /\ Midnight(a) <= Midnight(b)
           /\ Day(a) = Day(b) => Midnight(a) = Midnight(b)
           /\ Day(a) < Day(b) => Midnight(a) + DayLength <= Midnight(b)
<1>1. /\ Day(a) \in Nat /\ TimeOfDay(a) \in Nat /\ TimeOfDay(a) < DayLength
      /\ a = DayLength * Day(a) + TimeOfDay(a)
  BY Clock DEF Midnight
<1>2. /\ Day(b) \in Nat /\ TimeOfDay(b) \in Nat /\ TimeOfDay(b) < DayLength
      /\ b = DayLength * Day(b) + TimeOfDay(b)
  BY Clock DEF Midnight
<1> DEFINE x == Day(a)
           y == Day(b)
<1>3. x \in Nat /\ y \in Nat /\ DayLength \in Nat
  BY <1>1, <1>2, SchedulerConstants
<1> HIDE DEF x, y
<1>4. x < y => DayLength * x + DayLength <= DayLength * y
  BY ONLY <1>3
<1>5. y < x => DayLength * y + DayLength <= DayLength * x
  BY ONLY <1>3
<1>6. ~(y < x)
  BY ONLY <1>1, <1>2, <1>3, <1>5, a \in Nat, b \in Nat, a <= b DEF x, y
<1> QED BY <1>1, <1>2, <1>3, <1>4, <1>6 DEF x, y, Midnight

\* The k-th try of the end-of-day pass is over so much after the first one is due.
Span(k) == k * Later(EodRetry, MaxEod)

LEMMA Spans ==
    ASSUME NEW k \in Nat
    PROVE  /\ Span(k) \in Nat /\ Span(0) = 0
           /\ Span(k + 1) = Span(k) + Later(EodRetry, MaxEod)
           /\ \A m \in Nat : k <= m => Span(k) <= Span(m)
<1> DEFINE l == Later(EodRetry, MaxEod)
<1>1. l \in Nat
  BY SchedulerConstants DEF Later
<1> HIDE DEF l
<1>2. k * l \in Nat /\ 0 * l = 0 /\ (k + 1) * l = k * l + l
  BY <1>1
<1>3. \A m \in Nat : k <= m => k * l <= m * l
  BY <1>1
<1> QED BY <1>2, <1>3 DEF Span, l

----
\* A set of numbers that has one has a least one.
LEMMA LeastNumber ==
    ASSUME NEW S, S \subseteq Nat, NEW m \in S
    PROVE  \E x \in S : \A y \in S : x <= y
<1> DEFINE R == OpToRel(<, Nat)
<1>1. S # {} /\ IsWellFoundedOn(R, Nat)
  BY NatLessThanWellFounded
<1> HIDE DEF R
<1>2. PICK x \in S : \A y \in S : ~(<<y, x>> \in R)
  BY <1>1, WFMin
<1>3. ASSUME NEW y \in S PROVE x <= y
  <2>1. y \in Nat /\ x \in Nat /\ ~(<<y, x>> \in R)
    BY <1>2
  <2>2. y < x => <<y, x>> \in R
    BY <2>1 DEF R, OpToRel
  <2> QED BY <2>1, <2>2
<1> QED BY <1>3

\* The slot to sleep to is the next one of the grid that is far enough from the scan.
LEMMA SlotIsNext ==
    ASSUME now \in Nat, health.attempt \in Nat, health.attempt <= now
    PROVE  /\ NextSlot \in Nat /\ now < NextSlot /\ health.attempt + MinSeparation <= NextSlot
           /\ NextSlot < Later(now + 1, health.attempt + MinSeparation) + Interval
<1> DEFINE a == health.attempt
           b == Later(now + 1, a + MinSeparation)
           w == b + Interval - 1
           q == w \div Interval
           s == Interval * q
           slots == {t \in (now + 1)..(now + 2 * Interval + MinSeparation) :
                       t % Interval = 0 /\ t - a >= MinSeparation}
<1>1. /\ a \in Nat /\ b \in Nat /\ now + 1 <= b /\ a + MinSeparation <= b
      /\ b <= now + 1 + MinSeparation /\ w \in Nat
  BY SchedulerConstants DEF Later
<1> HIDE DEF b
<1>2. q \in Nat /\ (w % Interval) \in Nat /\ (w % Interval) < Interval /\ w = Interval * q + (w % Interval)
  BY <1>1, SchedulerConstants
<1> HIDE DEF q
<1>3. s \in Nat /\ s % Interval = 0
  BY <1>2, SchedulerConstants
<1>4. b <= s /\ s < b + Interval
  BY <1>1, <1>2, <1>3, SchedulerConstants
<1> HIDE DEF s, w
<1>5. s \in slots
  BY <1>1, <1>3, <1>4, SchedulerConstants
<1>6. slots \subseteq Nat
  BY SchedulerConstants
<1>7. NextSlot = CHOOSE t \in slots : \A u \in slots : t <= u
  BY DEF NextSlot
<1> HIDE DEF slots
<1>8. NextSlot \in slots /\ NextSlot <= s
  BY <1>5, <1>6, <1>7, LeastNumber
<1> QED BY <1>1, <1>3, <1>4, <1>8, SchedulerConstants DEF slots, b

\* The session slept to is the next one: no session begins before it.
LEMMA SessionIsNext ==
    ASSUME NEW t \in Nat, ~IsOpen(t)
    PROVE  /\ NextSession(t) \in Nat /\ t <= NextSession(t)
           /\ \A u \in Nat : t <= u /\ IsOpen(u) => NextSession(t) <= Midnight(u) + Open
<1> DEFINE c == Cardinality(Holidays)
           today == Day(t)
           days == {d \in today..(today + c + 1) : d \notin Holidays /\ (d = today => TimeOfDay(t) < Close)}
           coming == (today + 1)..(today + c + 1)
<1>1. c \in Nat /\ today \in Nat /\ IsFiniteSet(Holidays)
  BY FS_CardinalityType, SchedulerAssumption, Clock
<1>2. PICK e \in coming : e \notin Holidays
  <2>1. Cardinality(coming) = c + 1
    <3> HIDE DEF c, today
    <3> QED BY <1>1, FS_Interval
  <2> HIDE DEF coming
  <2>2. SUFFICES ASSUME coming \subseteq Holidays PROVE FALSE
    OBVIOUS
  <2>3. Cardinality(coming) <= c
    BY <1>1, <2>2, FS_Subset
  <2> QED BY <1>1, <2>1, <2>3
<1>3. e \in days /\ days \subseteq Nat
  <2> HIDE DEF c, today
  <2> QED BY <1>1, <1>2
<1>4. NextSession(t) = DayLength * (CHOOSE d \in days : \A x \in days : d <= x) + Open
  BY DEF NextSession
<1> DEFINE m == CHOOSE d \in days : \A x \in days : d <= x
<1>5. m \in days /\ \A x \in days : m <= x
  <2> HIDE DEF days
  <2> QED BY <1>3, LeastNumber
<1>6. NextSession(t) = DayLength * m + Open
  BY <1>4
<1> HIDE DEF m
<1>7. /\ m \in Nat /\ today <= m /\ m <= today + c + 1 /\ m \notin Holidays
      /\ m = today => TimeOfDay(t) < Close
  <2> HIDE DEF c, today
  <2> QED BY <1>1, <1>5
<1>8. \A x \in Nat : /\ x <= m => DayLength * x <= DayLength * m
                     /\ m <= x => DayLength * m <= DayLength * x
                     /\ x < m => DayLength * x + DayLength <= DayLength * m
  <2>1. ASSUME NEW x \in Nat
        PROVE  /\ x <= m => DayLength * x <= DayLength * m
               /\ m <= x => DayLength * m <= DayLength * x
               /\ x < m => DayLength * x + DayLength <= DayLength * m
    BY <1>7, <2>1, SchedulerConstants
  <2> QED BY <2>1
<1>9. /\ t = DayLength * today + TimeOfDay(t) /\ TimeOfDay(t) \in Nat /\ TimeOfDay(t) < DayLength
      /\ DayLength * today \in Nat
  BY Clock DEF Midnight
<1>10. DayLength * m \in Nat
  BY <1>7, SchedulerConstants
<1>11. t <= NextSession(t)
  <2>1. CASE today < m
    BY <1>1, <1>6, <1>7, <1>8, <1>9, <1>10, <2>1, SchedulerConstants
  <2>2. CASE today = m
    <3>1. TimeOfDay(t) < Open
      BY <1>7, <1>9, <2>2, SchedulerConstants DEF IsOpen
    <3> QED BY <1>6, <1>9, <2>2, <3>1, SchedulerConstants
  <2> QED BY <1>1, <1>7, <2>1, <2>2
<1>12. ASSUME NEW u \in Nat, t <= u, IsOpen(u)
       PROVE  NextSession(t) <= Midnight(u) + Open
  <2>1. Day(u) \in Nat /\ today <= Day(u) /\ Day(u) \notin Holidays
    BY <1>12, Calendar, Clock DEF IsOpen
  <2>2. Day(u) = today => TimeOfDay(t) < Close
    <3>1. /\ TimeOfDay(u) \in Nat /\ TimeOfDay(u) < Close /\ u = Midnight(u) + TimeOfDay(u)
          /\ t = Midnight(t) + TimeOfDay(t) /\ Midnight(t) \in Nat /\ TimeOfDay(t) \in Nat
      BY <1>12, Clock, SchedulerConstants DEF IsOpen
    <3>2. Day(u) = today => Midnight(u) = Midnight(t)
      BY DEF Midnight
    <3> QED BY <1>12, <3>1, <3>2, SchedulerConstants
  <2>3. m <= Day(u)
    <3>1. CASE Day(u) <= today + c + 1
      <4> HIDE DEF c, today
      <4> QED BY <1>1, <1>5, <2>1, <2>2, <3>1
    <3>2. CASE ~(Day(u) <= today + c + 1)
      <4> HIDE DEF c, today
      <4> QED BY <1>1, <1>7, <2>1, <3>2
    <3> QED BY <3>1, <3>2
  <2>4. DayLength * m <= Midnight(u) /\ Midnight(u) \in Nat
    BY <1>8, <2>1, <2>3, Clock DEF Midnight
  <2> QED BY <1>6, <1>10, <2>4, SchedulerConstants
<1> QED BY <1>6, <1>10, <1>11, <1>12, SchedulerConstants

----
EodRow == [done : Nat \cup {None}, date : Nat \cup {None}, fails : Nat,
           retryAt : Nat \cup {None}, final : BOOLEAN]
HealthRow == [success : Nat \cup {None}, attempt : Nat \cup {None},
              alerted : Nat \cup {None}, streak : BOOLEAN]
PassRow == [day : Nat \cup {None}, count : Nat, ok : BOOLEAN]

SchedShape ==
    /\ now \in Nat /\ since \in Nat /\ since <= now
    /\ pc \in {"loop", "closed", "warmup", "scan", "backoff", "wait", "closing", "down"}
    /\ deadline \in Nat /\ retry \in 0..3
    /\ eod \in EodRow /\ health \in HealthRow /\ passes \in PassRow
    /\ pc = "down" => eod = NoEod /\ health = NoHealth /\ passes = NoPasses
    /\ health.attempt # None =>
          since <= health.attempt /\ health.attempt <= now /\ IsOpen(health.attempt)
    /\ health.success # None => health.success <= now /\ health.attempt # None
    /\ pc \in {"scan", "backoff", "wait"} => health.attempt # None

\* How long after the start of a scan its try number r is over, and the pause before it.
Spent(r) == CASE r = 0 -> MaxScan [] r = 1 -> 2 * MaxScan + Backoff
              [] r = 2 -> 3 * MaxScan + 3 * Backoff [] r = 3 -> LongestScan
Paused(r) == CASE r = 1 -> MaxScan + Backoff [] r = 2 -> 2 * MaxScan + 3 * Backoff
               [] r = 3 -> 3 * MaxScan + 6 * Backoff

\* Until when the loop stays at a station.
Deadlines ==
    /\ pc = "scan" => now <= deadline /\ deadline <= health.attempt + Spent(retry)
    /\ pc = "backoff" => /\ retry \in 1..3
                         /\ now <= deadline /\ deadline <= health.attempt + Paused(retry)
    /\ pc = "warmup" =>
          /\ now <= deadline /\ 1 <= deadline /\ since <= deadline - 1 /\ deadline - 1 <= now
          /\ IsOpen(deadline - 1) /\ TimeOfDay(deadline - 1) < Open + Warmup
    /\ pc = "wait" =>
          /\ now <= deadline /\ health.attempt + MinSeparation <= deadline
          /\ deadline <= health.attempt + Later(LongestScan, MinSeparation) + Interval
    /\ pc = "closed" =>
          /\ now <= deadline
          /\ \A t \in Nat : now <= t /\ IsOpen(t) => deadline <= Midnight(t) + Open
    /\ pc = "closing" =>
          /\ MaxEod <= deadline /\ since <= CalledAt /\ CalledAt <= now /\ now <= deadline
          /\ Day(CalledAt) \notin Holidays /\ Eod <= TimeOfDay(CalledAt)

LEMMA Tries ==
    /\ LongestScan \in Nat
    /\ Spent(0) = MaxScan /\ Spent(3) = LongestScan
    /\ \A r \in 0..3 : Spent(r) \in Nat /\ Spent(r) <= LongestScan
    /\ \A r \in 1..3 : /\ Paused(r) \in Nat /\ Paused(r) <= LongestScan
                       /\ Paused(r) + MaxScan = Spent(r)
    /\ \A r \in 0..2 : Paused(r + 1) = Spent(r) + Backoff * (r + 1)
<1>1. LongestScan \in Nat
  BY SchedulerConstants DEF LongestScan
<1>2. Spent(0) = MaxScan /\ Spent(1) = 2 * MaxScan + Backoff /\ Spent(2) = 3 * MaxScan + 3 * Backoff
      /\ Spent(3) = LongestScan
  BY DEF Spent
<1>3. Paused(1) = MaxScan + Backoff /\ Paused(2) = 2 * MaxScan + 3 * Backoff
      /\ Paused(3) = 3 * MaxScan + 6 * Backoff
  BY DEF Paused
<1>4. \A r \in 0..3 : r = 0 \/ r = 1 \/ r = 2 \/ r = 3
  OBVIOUS
<1>5. ASSUME NEW r \in 0..3 PROVE Spent(r) \in Nat /\ Spent(r) <= LongestScan
  BY <1>1, <1>2, <1>4, SchedulerConstants DEF LongestScan
<1>6. ASSUME NEW r \in 1..3
      PROVE  /\ Paused(r) \in Nat /\ Paused(r) <= LongestScan
             /\ Paused(r) + MaxScan = Spent(r)
  <2>1. r = 1 \/ r = 2 \/ r = 3
    OBVIOUS
  <2> QED BY <1>1, <1>2, <1>3, <2>1, SchedulerConstants DEF LongestScan
<1>7. ASSUME NEW r \in 0..2 PROVE Paused(r + 1) = Spent(r) + Backoff * (r + 1)
  <2>1. CASE r = 0
    BY <1>2, <1>3, <2>1, SchedulerConstants
  <2>2. CASE r = 1
    BY <1>2, <1>3, <2>2, SchedulerConstants
  <2>3. CASE r = 2
    BY <1>2, <1>3, <2>3, SchedulerConstants
  <2> QED BY <2>1, <2>2, <2>3
<1> QED BY <1>1, <1>2, <1>5, <1>6, <1>7

----
(* The rows that a step writes. *)

LEMMA ResetRow ==
    ASSUME SchedShape, NEW t \in Nat
    PROVE  /\ Reset(t) \in EodRow /\ Reset(t).done = eod.done /\ Reset(t).date = Day(t)
           /\ eod.date = Day(t) => Reset(t) = eod
           /\ eod.date # Day(t) => Reset(t).fails = 0 /\ Reset(t).retryAt = None /\ ~Reset(t).final
<1> DEFINE one == [eod EXCEPT !.date = Day(t)]
           two == [one EXCEPT !.fails = 0]
           three == [two EXCEPT !.retryAt = None]
           four == [three EXCEPT !.final = FALSE]
<1>0. eod \in EodRow /\ Day(t) \in Nat
  BY Clock DEF SchedShape
<1>1. eod.date # Day(t) => Reset(t) = four
  BY Zenon DEF Reset, one, two, three, four
<1>2. eod.date = Day(t) => Reset(t) = eod
  BY DEF Reset
<1>3. one \in EodRow /\ one.done = eod.done /\ one.date = Day(t)
  BY <1>0 DEF EodRow
<1> HIDE DEF one
<1>4. two \in EodRow /\ two.done = eod.done /\ two.date = Day(t) /\ two.fails = 0
  BY <1>3 DEF EodRow
<1> HIDE DEF two
<1>5. three \in EodRow /\ three.done = eod.done /\ three.date = Day(t) /\ three.fails = 0
      /\ three.retryAt = None
  BY <1>4 DEF EodRow
<1> HIDE DEF three
<1>6. four \in EodRow /\ four.done = eod.done /\ four.date = Day(t) /\ four.fails = 0
      /\ four.retryAt = None /\ ~four.final
  BY <1>5 DEF EodRow
<1> HIDE DEF four
<1> QED BY <1>0, <1>1, <1>2, <1>6

LEMMA WatchedRow ==
    ASSUME SchedShape
    PROVE  /\ Watched \in HealthRow /\ Watched.success = health.success
           /\ Watched.attempt = health.attempt /\ Watched.streak = health.streak
           /\ Watched.alerted = None =>
                /\ health.alerted = None
                /\ health.success # None => now < health.success + Stale
<1>1. health \in HealthRow /\ now \in Nat
  BY DEF SchedShape
<1> DEFINE told == [health EXCEPT !.alerted = now]
<1>2. told \in HealthRow /\ told.success = health.success
      /\ told.attempt = health.attempt /\ told.streak = health.streak /\ told.alerted = now
  BY <1>1 DEF HealthRow
<1>3. \/ Watched = told
      \/ /\ Watched = health
         /\ ~(/\ health.success # None /\ now - health.success >= Stale
              /\ health.alerted = None \/ now - health.alerted >= Cooldown)
  BY Zenon DEF Watched, told
<1> HIDE DEF told
<1>4. health.success \in Nat \cup {None} /\ health.alerted \in Nat \cup {None}
  BY <1>1 DEF HealthRow
<1>5. now # None
  BY <1>1, SchedulerConstants
<1>6. CASE Watched = told
  BY <1>2, <1>5, <1>6
<1>7. CASE Watched # told
  <2>1. /\ Watched = health
        /\ ~(/\ health.success # None /\ now - health.success >= Stale
             /\ health.alerted = None \/ now - health.alerted >= Cooldown)
    BY <1>3, <1>7
  <2>2. health.alerted = None /\ health.success # None => now < health.success + Stale
    BY <1>1, <1>4, <2>1, SchedulerConstants
  <2> QED BY <1>1, <2>1, <2>2
<1> QED BY <1>6, <1>7

\* The row of a scan that starts, that succeeds, and that is given up.
LEMMA HealthRows ==
    ASSUME SchedShape
    PROVE  /\ LET h == [Watched EXCEPT !.attempt = now]
              IN  h \in HealthRow /\ h.success = health.success /\ h.attempt = now
                  /\ h.streak = health.streak /\ h.alerted = Watched.alerted
           /\ LET h == [health EXCEPT !.success = now, !.alerted = None, !.streak = FALSE]
              IN  h \in HealthRow /\ h.success = now /\ h.attempt = health.attempt
                  /\ ~h.streak /\ h.alerted = None
           /\ LET h == [health EXCEPT !.streak = TRUE]
              IN  h \in HealthRow /\ h.success = health.success /\ h.attempt = health.attempt
                  /\ h.streak /\ h.alerted = health.alerted
<1>1. health \in HealthRow /\ now \in Nat /\ Watched \in HealthRow /\ Watched.success = health.success
      /\ Watched.streak = health.streak
  BY WatchedRow DEF SchedShape
<1> DEFINE a == [Watched EXCEPT !.attempt = now]
           b == [health EXCEPT !.success = now]
           c == [b EXCEPT !.alerted = None]
           d == [c EXCEPT !.streak = FALSE]
           e == [health EXCEPT !.streak = TRUE]
<1>2. [health EXCEPT !.success = now, !.alerted = None, !.streak = FALSE] = d
  BY Zenon DEF b, c, d
<1> HIDE DEF Watched
<1>3. a \in HealthRow /\ a.success = health.success /\ a.attempt = now
      /\ a.streak = health.streak /\ a.alerted = Watched.alerted
  BY <1>1 DEF HealthRow
<1>4. b \in HealthRow /\ b.success = now /\ b.attempt = health.attempt
  BY <1>1 DEF HealthRow
<1> HIDE DEF b
<1>5. c \in HealthRow /\ c.success = now /\ c.attempt = health.attempt /\ c.alerted = None
  BY <1>4 DEF HealthRow
<1> HIDE DEF c
<1>6. d \in HealthRow /\ d.success = now /\ d.attempt = health.attempt /\ d.alerted = None /\ ~d.streak
  BY <1>5 DEF HealthRow
<1>7. e \in HealthRow /\ e.success = health.success /\ e.attempt = health.attempt
      /\ e.streak /\ e.alerted = health.alerted
  BY <1>1 DEF HealthRow
<1> HIDE DEF d, e
<1> QED BY <1>2, <1>3, <1>6, <1>7 DEF e

\* The row of a pass that succeeds, and that fails.
LEMMA EodRows ==
    ASSUME SchedShape, pc = "closing", Deadlines
    PROVE  /\ CalledAt \in Nat
           /\ LET e == [eod EXCEPT !.done = Day(CalledAt), !.fails = 0, !.retryAt = None]
              IN  e \in EodRow /\ e.done = Day(CalledAt) /\ e.date = eod.date /\ e.fails = 0
                  /\ e.retryAt = None /\ e.final = eod.final
           /\ LET e == [eod EXCEPT !.fails = @ + 1, !.final = TRUE, !.retryAt = None]
              IN  e \in EodRow /\ e.done = eod.done /\ e.date = eod.date /\ e.fails = eod.fails + 1
                  /\ e.retryAt = None /\ e.final
           /\ LET e == [eod EXCEPT !.fails = @ + 1, !.retryAt = CalledAt + EodRetry]
              IN  e \in EodRow /\ e.done = eod.done /\ e.date = eod.date /\ e.fails = eod.fails + 1
                  /\ e.retryAt = CalledAt + EodRetry /\ e.final = eod.final
<1>1. CalledAt \in Nat
  BY SchedulerConstants DEF SchedShape, Deadlines, CalledAt
<1>2. eod \in EodRow /\ Day(CalledAt) \in Nat /\ CalledAt + EodRetry \in Nat
  <2>1. eod \in EodRow
    BY DEF SchedShape
  <2>2. Day(CalledAt) \in Nat
    BY <1>1, Clock
  <2> QED BY <1>1, <2>1, <2>2, SchedulerConstants
<1> DEFINE a == [eod EXCEPT !.done = Day(CalledAt)]
           b == [a EXCEPT !.fails = 0]
           c == [b EXCEPT !.retryAt = None]
           p == [eod EXCEPT !.fails = @ + 1]
           q == [p EXCEPT !.final = TRUE]
           r == [q EXCEPT !.retryAt = None]
           s == [p EXCEPT !.retryAt = CalledAt + EodRetry]
<1>3. /\ [eod EXCEPT !.done = Day(CalledAt), !.fails = 0, !.retryAt = None] = c
      /\ [eod EXCEPT !.fails = @ + 1, !.final = TRUE, !.retryAt = None] = r
      /\ [eod EXCEPT !.fails = @ + 1, !.retryAt = CalledAt + EodRetry] = s
  BY Zenon DEF a, b, c, p, q, r, s
<1>4. a \in EodRow /\ a.done = Day(CalledAt) /\ a.date = eod.date /\ a.final = eod.final
  BY <1>2 DEF EodRow
<1> HIDE DEF a
<1>5. b \in EodRow /\ b.done = Day(CalledAt) /\ b.date = eod.date /\ b.final = eod.final /\ b.fails = 0
  BY <1>4 DEF EodRow
<1> HIDE DEF b
<1>6. c \in EodRow /\ c.done = Day(CalledAt) /\ c.date = eod.date /\ c.final = eod.final /\ c.fails = 0
      /\ c.retryAt = None
  BY <1>5 DEF EodRow
<1>7. p \in EodRow /\ p.done = eod.done /\ p.date = eod.date /\ p.fails = eod.fails + 1
      /\ p.final = eod.final
  BY <1>2 DEF EodRow
<1> HIDE DEF p
<1>8. q \in EodRow /\ q.done = eod.done /\ q.date = eod.date /\ q.fails = eod.fails + 1 /\ q.final
  BY <1>7 DEF EodRow
<1> HIDE DEF q
<1>9. r \in EodRow /\ r.done = eod.done /\ r.date = eod.date /\ r.fails = eod.fails + 1 /\ r.final
      /\ r.retryAt = None
  BY <1>8 DEF EodRow
<1>10. s \in EodRow /\ s.done = eod.done /\ s.date = eod.date /\ s.fails = eod.fails + 1
       /\ s.final = eod.final /\ s.retryAt = CalledAt + EodRetry
  BY <1>2, <1>7 DEF EodRow
<1> HIDE DEF c, r, s
<1> QED BY <1>1, <1>3, <1>6, <1>9, <1>10

----
(* Where the loop is, and until when. *)

TimeInv == SchedShape /\ Deadlines

LEMMA TimeBegins == Init => TimeInv
<1> SUFFICES ASSUME Init PROVE TimeInv
  OBVIOUS
<1>1. NoEod \in EodRow /\ NoHealth \in HealthRow /\ NoPasses \in PassRow
      /\ NoHealth.attempt = None /\ NoHealth.success = None
  BY DEF NoEod, NoHealth, NoPasses, EodRow, HealthRow, PassRow
<1> HIDE DEF NoEod, NoHealth, NoPasses, EodRow, HealthRow, PassRow
<1>2. now \in Nat
  BY SchedulerConstants DEF Init
<1>3. SchedShape
  BY <1>1, <1>2 DEF Init, SchedShape
<1>4. Deadlines
  BY DEF Init, Deadlines
<1> QED BY <1>3, <1>4 DEF TimeInv

LEMMA EodTime ==
    ASSUME TimeInv, RunEod \/ EodSucceeds \/ EodFails
    PROVE  TimeInv'
<1>0. SchedShape /\ Deadlines
  BY DEF TimeInv
<1>1. CASE RunEod
  <2>1. /\ pc' = "closing" /\ deadline' = now + MaxEod /\ eod' = Reset(now)
        /\ UNCHANGED <<now, retry, health, restarts, since>>
        /\ Day(now) \notin Holidays /\ Eod <= TimeOfDay(now)
    BY <1>1, Clock, SchedulerConstants, <1>0 DEF RunEod, Pending, SchedShape
  <2>2. eod' \in EodRow
    BY <1>0, <2>1, ResetRow DEF SchedShape
  <2>3. passes' \in PassRow
    <3>1. passes.count + 1 \in Nat /\ passes \in PassRow
      BY <1>0 DEF SchedShape, PassRow
    <3>2. [passes EXCEPT !.count = @ + 1] \in PassRow
      BY <3>1 DEF PassRow
    <3>3. Day(now) \in Nat
      BY <1>0, Clock DEF SchedShape
    <3>4. [day |-> Day(now), count |-> 1, ok |-> FALSE] \in PassRow
      BY <3>3 DEF PassRow
    <3> QED BY <1>1, <3>2, <3>4 DEF RunEod
  <2>4. CalledAt' = now /\ now + MaxEod \in Nat /\ now <= now + MaxEod
    <3>1. now \in Nat
      BY <1>0 DEF SchedShape
    <3> QED BY <2>1, <3>1, SchedulerConstants DEF CalledAt
  <2>5. SchedShape'
    BY <1>0, <2>1, <2>2, <2>3, <2>4 DEF SchedShape
  <2>6. Deadlines'
    BY <1>0, <2>1, <2>4, SchedulerConstants DEF Deadlines, SchedShape
  <2> QED BY <2>5, <2>6 DEF TimeInv
<1>2. CASE EodSucceeds
  <2>1. /\ pc = "closing" /\ pc' = "loop" /\ UNCHANGED <<now, deadline, retry, health, restarts, since>>
    BY <1>2 DEF EodSucceeds
  <2>2. eod' \in EodRow
    BY <1>0, <1>2, EodRows DEF EodSucceeds
  <2>3. passes' \in PassRow
    BY <1>0, <1>2 DEF EodSucceeds, SchedShape, PassRow
  <2>4. SchedShape'
    BY <1>0, <2>1, <2>2, <2>3 DEF SchedShape
  <2>5. Deadlines'
    BY <2>1 DEF Deadlines
  <2> QED BY <2>4, <2>5 DEF TimeInv
<1>3. CASE EodFails
  <2>1. /\ pc = "closing" /\ pc' = "loop" /\ UNCHANGED <<now, deadline, retry, health, restarts, since, passes>>
    BY <1>3 DEF EodFails, history
  <2>2. eod' \in EodRow
    BY <1>0, <1>3, EodRows DEF EodFails
  <2>3. SchedShape'
    BY <1>0, <2>1, <2>2 DEF SchedShape
  <2>4. Deadlines'
    BY <2>1 DEF Deadlines
  <2> QED BY <2>3, <2>4 DEF TimeInv
<1> QED BY <1>1, <1>2, <1>3

LEMMA ScanTime ==
    ASSUME TimeInv, WarmUp \/ StartScan \/ ScanSucceeds \/ ScanFails \/ RetryScan
    PROVE  TimeInv'
<1>0. SchedShape /\ Deadlines /\ now \in Nat
  BY DEF TimeInv, SchedShape
<1>1. CASE WarmUp
  <2>1. /\ pc' = "warmup" /\ deadline' = now + 1 /\ eod' = Reset(now) /\ health' = Watched
        /\ UNCHANGED <<now, retry, restarts, since, passes>>
        /\ IsOpen(now) /\ TimeOfDay(now) < Open + Warmup
    BY <1>1 DEF WarmUp, IsWarmup, history
  <2>2. /\ eod' \in EodRow /\ health' \in HealthRow
        /\ health'.attempt = health.attempt /\ health'.success = health.success
    BY <1>0, <2>1, ResetRow, WatchedRow
  <2>3. SchedShape'
    BY <1>0, <2>1, <2>2 DEF SchedShape
  <2>4. now + 1 - 1 = now
    BY <1>0
  <2>5. Deadlines'
    BY <1>0, <2>1, <2>4 DEF Deadlines, SchedShape
  <2> QED BY <2>3, <2>5 DEF TimeInv
<1>2. CASE StartScan
  <2>1. /\ pc' = "scan" /\ deadline' = now + MaxScan /\ eod' = Reset(now)
        /\ health' = [Watched EXCEPT !.attempt = now] /\ retry' = 0
        /\ UNCHANGED <<now, restarts, since, passes>>
        /\ IsOpen(now)
    BY <1>2 DEF StartScan, history
  <2>2. /\ eod' \in EodRow /\ health' \in HealthRow
        /\ health'.attempt = now /\ health'.success = health.success
    BY <1>0, <2>1, ResetRow, HealthRows
  <2>3. now + MaxScan \in Nat /\ now # None
    BY <1>0, SchedulerConstants
  <2>4. SchedShape'
    BY <1>0, <2>1, <2>2, <2>3 DEF SchedShape
  <2>5. Deadlines'
    BY <1>0, <2>1, <2>2, Tries, SchedulerConstants DEF Deadlines
  <2> QED BY <2>4, <2>5 DEF TimeInv
<1>3. ASSUME pc = "scan", pc' = "wait", deadline' = NextSlot, health' \in HealthRow,
             health'.attempt = health.attempt,
             health'.success = health.success \/ health'.success = now, retry' \in 0..3,
             UNCHANGED <<now, eod, restarts, since, passes>>
      PROVE  TimeInv'
  <2>1. /\ health.attempt # None /\ health.attempt \in Nat /\ health.attempt <= now
        /\ now <= health.attempt + LongestScan
    <3>1. /\ health.attempt # None /\ health.attempt \in Nat /\ health.attempt <= now
          /\ retry \in 0..3 /\ deadline \in Nat
          /\ now <= deadline /\ deadline <= health.attempt + Spent(retry)
      BY <1>0, <1>3 DEF SchedShape, HealthRow, Deadlines
    <3>2. Spent(retry) \in Nat /\ Spent(retry) <= LongestScan /\ LongestScan \in Nat
      BY <3>1, Tries
    <3> QED BY ONLY <1>0, <3>1, <3>2
  <2>2. /\ NextSlot \in Nat /\ now < NextSlot /\ health.attempt + MinSeparation <= NextSlot
        /\ NextSlot < Later(now + 1, health.attempt + MinSeparation) + Interval
    BY <1>0, <2>1, SlotIsNext
  <2>3. NextSlot <= health.attempt + Later(LongestScan, MinSeparation) + Interval
    BY <1>0, <2>1, <2>2, SchedulerConstants, Tries DEF Later
  <2>4. SchedShape'
    BY <1>0, <1>3, <2>1, <2>2 DEF SchedShape
  <2>5. Deadlines'
    BY <1>0, <1>3, <2>2, <2>3 DEF Deadlines
  <2> QED BY <2>4, <2>5 DEF TimeInv
<1>4. CASE ScanSucceeds
  <2>1. /\ pc = "scan" /\ pc' = "wait" /\ deadline' = NextSlot
        /\ health' = [health EXCEPT !.success = now, !.alerted = None, !.streak = FALSE]
        /\ UNCHANGED <<now, retry, eod, restarts, since, passes>>
    BY <1>4 DEF ScanSucceeds, SleepToSlot, history
  <2>2. health' \in HealthRow /\ health'.attempt = health.attempt /\ health'.success = now
    BY <1>0, <2>1, HealthRows
  <2>3. retry' \in 0..3
    BY <1>0, <2>1 DEF SchedShape
  <2> QED BY <1>3, <2>1, <2>2, <2>3
<1>5. CASE ScanFails
  <2>1. pc = "scan" /\ UNCHANGED <<now, eod, restarts, since, passes>>
    BY <1>5 DEF ScanFails, history
  <2>2. CASE retry < 3
    <3>1. /\ pc' = "backoff" /\ retry' = retry + 1 /\ deadline' = now + Backoff * (retry + 1)
          /\ health' = health
      BY <1>5, <2>2 DEF ScanFails
    <3>2. /\ retry \in 0..3 /\ deadline \in Nat /\ health.attempt \in Nat
          /\ now <= deadline /\ deadline <= health.attempt + Spent(retry)
      BY <1>0, <2>1, SchedulerConstants DEF SchedShape, HealthRow, Deadlines
    <3>3. retry + 1 \in 1..3
      BY <2>2, <3>2
    <3>4. Paused(retry + 1) \in Nat /\ Paused(retry + 1) = Spent(retry) + Backoff * (retry + 1)
      <4>1. retry \in 0..2
        BY <2>2, <3>2
      <4> QED BY <3>3, <4>1, Tries
    <3>5. Spent(retry) \in Nat
      BY <3>2, Tries
    <3>6. Backoff * (retry + 1) \in Nat
      BY <3>3, SchedulerConstants
    <3>7. /\ now + Backoff * (retry + 1) \in Nat /\ now <= now + Backoff * (retry + 1)
          /\ now + Backoff * (retry + 1) <= health.attempt + Paused(retry + 1)
      <4> DEFINE x == Backoff * (retry + 1)
      <4>1. Paused(retry + 1) = Spent(retry) + x /\ x \in Nat
        BY <3>4, <3>5, <3>6
      <4> HIDE DEF x
      <4>2. now + x \in Nat /\ now <= now + x /\ now + x <= health.attempt + Paused(retry + 1)
        BY ONLY <1>0, <3>2, <3>5, <4>1
      <4> QED BY <4>2 DEF x
    <3>8. SchedShape'
      BY <1>0, <2>1, <3>1, <3>3, <3>7 DEF SchedShape
    <3>9. Deadlines'
      BY <2>1, <3>1, <3>3, <3>7 DEF Deadlines
    <3> QED BY <3>8, <3>9 DEF TimeInv
  <2>3. CASE ~(retry < 3)
    <3>1. /\ pc' = "wait" /\ deadline' = NextSlot /\ retry' = retry
          /\ health' = [health EXCEPT !.streak = TRUE]
      BY <1>5, <2>3 DEF ScanFails, SleepToSlot
    <3>2. health' \in HealthRow /\ health'.attempt = health.attempt /\ health'.success = health.success
      BY <1>0, <3>1, HealthRows
    <3>3. retry' \in 0..3
      BY <1>0, <3>1 DEF SchedShape
    <3> QED BY <1>3, <2>1, <3>1, <3>2, <3>3
  <2> QED BY <2>2, <2>3
<1>6. CASE RetryScan
  <2>1. /\ pc = "backoff" /\ deadline <= now /\ pc' = "scan" /\ deadline' = now + MaxScan
        /\ UNCHANGED <<now, retry, eod, health, restarts, since, passes>>
    BY <1>6, <1>0 DEF RetryScan, memory, history, SchedShape
  <2>2. /\ retry \in 1..3 /\ deadline \in Nat /\ health.attempt \in Nat
        /\ now <= deadline /\ deadline <= health.attempt + Paused(retry)
    BY <1>0, <2>1, SchedulerConstants DEF SchedShape, HealthRow, Deadlines
  <2>3. Paused(retry) \in Nat /\ Paused(retry) + MaxScan = Spent(retry)
    BY <2>2, Tries
  <2>4. now + MaxScan \in Nat /\ now <= now + MaxScan /\ now + MaxScan <= health.attempt + Spent(retry)
    BY <1>0, <2>2, <2>3, SchedulerConstants
  <2>5. SchedShape'
    BY <1>0, <2>1, <2>4 DEF SchedShape
  <2>6. Deadlines'
    BY <2>1, <2>4 DEF Deadlines
  <2> QED BY <2>5, <2>6 DEF TimeInv
<1> QED BY <1>1, <1>2, <1>4, <1>5, <1>6

LEMMA SleepTime ==
    ASSUME TimeInv, SleepUntilOpen \/ WakeUp \/ Tick \/ Crash \/ Start
    PROVE  TimeInv'
<1>0. SchedShape /\ Deadlines /\ now \in Nat
  BY DEF TimeInv, SchedShape
<1>1. CASE SleepUntilOpen
  <2>1. /\ pc = "loop" /\ ~IsOpen(now) /\ pc' = "closed" /\ deadline' = NextSession(now)
        /\ eod' = Reset(now) /\ UNCHANGED <<now, retry, health, restarts, since, passes>>
    BY <1>1 DEF SleepUntilOpen, history
  <2>2. /\ deadline' \in Nat /\ now <= deadline'
        /\ \A t \in Nat : now <= t /\ IsOpen(t) => deadline' <= Midnight(t) + Open
    BY <1>0, <2>1, SessionIsNext
  <2>3. eod' \in EodRow
    BY <1>0, <2>1, ResetRow
  <2>4. SchedShape'
    BY <1>0, <2>1, <2>2, <2>3 DEF SchedShape
  <2>5. Deadlines'
    BY <2>1, <2>2 DEF Deadlines
  <2> QED BY <2>4, <2>5 DEF TimeInv
<1>2. CASE WakeUp
  <2>1. /\ pc \in {"wait", "closed", "warmup"} /\ pc' = "loop" /\ (eod' = eod \/ eod' = Reset(now))
        /\ UNCHANGED <<now, deadline, retry, health, restarts, since, passes>>
    BY <1>2 DEF WakeUp, history
  <2>2. eod' \in EodRow
    BY <1>0, <2>1, ResetRow DEF SchedShape
  <2>3. SchedShape'
    BY <1>0, <2>1, <2>2 DEF SchedShape
  <2>4. Deadlines'
    BY <2>1 DEF Deadlines
  <2> QED BY <2>3, <2>4 DEF TimeInv
<1>3. CASE Tick
  <2>1. /\ now' = now + 1 /\ (pc = "down" \/ (pc # "loop" /\ now < deadline))
        /\ UNCHANGED <<pc, deadline, retry, health, restarts, since, passes>>
        /\ eod' = IF pc \in {"wait", "closed"} THEN Reset(now) ELSE eod
    BY <1>3 DEF Tick, history
  <2>2. eod' \in EodRow /\ (pc = "down" => eod' = eod)
    BY <1>0, <2>1, ResetRow DEF SchedShape
  <2>3. now' \in Nat /\ now <= now'
    BY <1>0, <2>1
  <2>4. /\ health.attempt # None => health.attempt \in Nat
        /\ health.success # None => health.success \in Nat
    BY <1>0 DEF SchedShape, HealthRow
  <2>5. SchedShape'
    BY <1>0, <2>1, <2>2, <2>3, <2>4 DEF SchedShape
  <2>6. pc # "down" => pc # "loop" /\ now' <= deadline
    BY <1>0, <2>1 DEF SchedShape
  <2>7. CalledAt' = CalledAt
    BY <2>1 DEF CalledAt
  <2>8. pc = "closing" => CalledAt \in Nat
    BY <1>0, SchedulerConstants DEF SchedShape, Deadlines, CalledAt
  <2>9. pc = "warmup" => deadline - 1 \in Nat
    BY <1>0 DEF SchedShape, Deadlines
  <2>10. pc = "closed" => \A t \in Nat : now' <= t /\ IsOpen(t) => deadline <= Midnight(t) + Open
    <3>1. ASSUME NEW t \in Nat, now' <= t PROVE now <= t
      BY <1>0, <2>1, <3>1
    <3> QED BY <1>0, <3>1 DEF Deadlines
  <2>11. Deadlines'
    BY <1>0, <2>1, <2>3, <2>6, <2>7, <2>8, <2>9, <2>10 DEF Deadlines
  <2> QED BY <2>5, <2>11 DEF TimeInv
<1>4. CASE Crash
  <2>1. /\ pc' = "down" /\ deadline' = 0 /\ retry' = 0 /\ eod' = NoEod /\ health' = NoHealth
        /\ passes' = NoPasses /\ UNCHANGED <<now, since>>
    BY <1>4 DEF Crash
  <2>2. NoEod \in EodRow /\ NoHealth \in HealthRow /\ NoPasses \in PassRow
        /\ NoHealth.attempt = None /\ NoHealth.success = None
    BY DEF NoEod, NoHealth, NoPasses, EodRow, HealthRow, PassRow
  <2> HIDE DEF NoEod, NoHealth, NoPasses
  <2>3. SchedShape'
    BY <1>0, <2>1, <2>2 DEF SchedShape
  <2>4. Deadlines'
    BY <2>1 DEF Deadlines
  <2> QED BY <2>3, <2>4 DEF TimeInv
<1>5. CASE Start
  <2>1. /\ pc = "down" /\ pc' = "loop" /\ since' = now
        /\ UNCHANGED <<now, deadline, retry, eod, health, restarts, passes>>
    BY <1>5 DEF Start, memory
  <2>2. health.attempt = None /\ health.success = None
    BY <1>0, <2>1 DEF SchedShape, NoHealth
  <2>3. SchedShape'
    BY <1>0, <2>1, <2>2 DEF SchedShape
  <2>4. Deadlines'
    BY <2>1 DEF Deadlines
  <2> QED BY <2>3, <2>4 DEF TimeInv
<1> QED BY <1>1, <1>2, <1>3, <1>4, <1>5

LEMMA TimeKept == TimeInv /\ [Next]_vars => TimeInv'
<1> SUFFICES ASSUME TimeInv, [Next]_vars PROVE TimeInv'
  OBVIOUS
<1>1. CASE UNCHANGED vars
  <2>1. SchedShape'
    BY <1>1 DEF vars, TimeInv, SchedShape
  <2>2. Deadlines'
    BY <1>1 DEF vars, TimeInv, Deadlines, CalledAt
  <2> QED BY <2>1, <2>2 DEF TimeInv
<1>2. CASE Next
  BY <1>2, EodTime, ScanTime, SleepTime DEF Next
<1> QED BY <1>1, <1>2

----
(* The end of a day. *)

Due(d) == Later(since, DayLength * d + Eod)
Settled(d) == eod.done = d \/ (eod.final /\ eod.date = d)
Tried(d) == IF eod.date = d THEN eod.fails ELSE 0

\* Until when the pass of a day is called for the next time, at the latest, after so many failures.
LatestCall(d, fails) == Due(d) + LongestScan + Span(fails)

\* What is known of the tries, of the one under way, and of the next one.
Attempts ==
    /\ eod.date # None => eod.date <= Day(now)
    /\ eod.date = None => eod.fails = 0 /\ eod.retryAt = None /\ ~eod.final
    /\ eod.fails <= EodMaxAttempts /\ (~eod.final => eod.fails < EodMaxAttempts)
    /\ eod.retryAt # None => eod.retryAt <= LatestCall(eod.date, eod.fails)

Called ==
    pc = "closing" => /\ eod.date = Day(CalledAt) /\ ~eod.final
                      /\ CalledAt <= LatestCall(Day(CalledAt), eod.fails)

Calls ==
    pc \in {"loop", "wait", "closed", "warmup"} /\ Day(now) \notin Holidays /\ ~Settled(Day(now))
        => now <= LatestCall(Day(now), Tried(Day(now)))

EodInv == Attempts /\ Called /\ Calls

LEMMA Dues ==
    ASSUME since \in Nat, NEW d \in Nat
    PROVE  /\ Due(d) \in Nat
           /\ \A f \in Nat : LatestCall(d, f) \in Nat /\ Due(d) <= LatestCall(d, f)
                             /\ Due(d) + LongestScan <= LatestCall(d, f)
                             /\ LatestCall(d, f + 1) = LatestCall(d, f) + Later(EodRetry, MaxEod)
                             /\ \A g \in Nat : f <= g => LatestCall(d, f) <= LatestCall(d, g)
<1>1. DayLength * d \in Nat
  BY SchedulerConstants
<1>2. Due(d) \in Nat
  BY <1>1, SchedulerConstants DEF Due, Later
<1>3. ASSUME NEW f \in Nat
      PROVE  /\ LatestCall(d, f) \in Nat /\ Due(d) <= LatestCall(d, f)
             /\ Due(d) + LongestScan <= LatestCall(d, f)
             /\ LatestCall(d, f + 1) = LatestCall(d, f) + Later(EodRetry, MaxEod)
             /\ \A g \in Nat : f <= g => LatestCall(d, f) <= LatestCall(d, g)
  <2>1. /\ Span(f) \in Nat /\ Span(f + 1) = Span(f) + Later(EodRetry, MaxEod)
        /\ \A g \in Nat : f <= g => Span(f) <= Span(g)
    BY Spans
  <2>2. LongestScan \in Nat /\ Later(EodRetry, MaxEod) \in Nat
    BY Tries, SchedulerConstants DEF Later
  <2>3. \A g \in Nat : Span(g) \in Nat
    BY Spans
  <2> QED BY <1>2, <2>1, <2>2, <2>3 DEF LatestCall
<1> QED BY <1>2, <1>3

LEMMA DueOfDay ==
    ASSUME since \in Nat, NEW t \in Nat
    PROVE  /\ Day(t) \in Nat /\ Midnight(t) \in Nat
           /\ since <= Due(Day(t)) /\ Midnight(t) + Eod <= Due(Day(t))
<1>1. Day(t) \in Nat /\ Midnight(t) \in Nat
  BY Clock
<1> QED BY <1>1, SchedulerConstants DEF Due, Later, Midnight

\* What is open is before the end of its day, and of every later one.
LEMMA OpenBeforeDue ==
    ASSUME since \in Nat, NEW t \in Nat, NEW u \in Nat, t <= u, IsOpen(t)
    PROVE  t + 1 <= Due(Day(u))
<1>1. /\ t = Midnight(t) + TimeOfDay(t) /\ TimeOfDay(t) < Close /\ TimeOfDay(t) \in Nat
      /\ Midnight(t) \in Nat
  BY Clock, SchedulerConstants DEF IsOpen
<1>2. Midnight(t) <= Midnight(u) /\ Midnight(u) \in Nat
  BY Calendar, Clock
<1>3. Midnight(u) + Eod <= Due(Day(u)) /\ Due(Day(u)) \in Nat
  BY DueOfDay, Dues
<1> QED BY <1>1, <1>2, <1>3, SchedulerConstants

\* The first moment of another day is before its end.
LEMMA NewDay ==
    ASSUME since \in Nat, NEW t \in Nat, Day(t + 1) # Day(t)
    PROVE  t + 1 <= Midnight(t + 1) /\ t + 1 <= Due(Day(t + 1))
<1>1. t = Midnight(t) + TimeOfDay(t) /\ TimeOfDay(t) \in Nat /\ TimeOfDay(t) < DayLength /\ Midnight(t) \in Nat
      /\ Day(t) \in Nat /\ Day(t + 1) \in Nat /\ Midnight(t + 1) \in Nat
  BY Clock
<1>2. Day(t) <= Day(t + 1) /\ (Day(t) < Day(t + 1) => Midnight(t) + DayLength <= Midnight(t + 1))
  BY Calendar
<1>3. Midnight(t + 1) + Eod <= Due(Day(t + 1)) /\ Due(Day(t + 1)) \in Nat
  BY DueOfDay, Dues
<1> QED BY <1>1, <1>2, <1>3, SchedulerConstants

\* A pass that ends on another day ends before its session, and no pass ends in a session.
LEMMA PassEndsEarly ==
    ASSUME TimeInv, pc = "closing"
    PROVE  /\ CalledAt \in Nat /\ CalledAt <= now /\ now <= CalledAt + MaxEod
           /\ Day(CalledAt) \in Nat /\ Day(CalledAt) <= Day(now)
           /\ Day(now) # Day(CalledAt) => now <= Due(Day(now))
           /\ ~IsOpen(now)
<1>1. /\ now \in Nat /\ since \in Nat /\ deadline \in Nat /\ MaxEod <= deadline
      /\ CalledAt <= now /\ now <= deadline
      /\ Eod <= TimeOfDay(CalledAt)
  BY DEF TimeInv, SchedShape, Deadlines
<1>2. CalledAt \in Nat /\ now <= CalledAt + MaxEod
  BY <1>1, SchedulerConstants DEF CalledAt
<1> DEFINE c == CalledAt
<1>3. /\ c = Midnight(c) + TimeOfDay(c) /\ TimeOfDay(c) \in Nat /\ TimeOfDay(c) < DayLength
      /\ Midnight(c) \in Nat /\ Day(c) \in Nat
      /\ now = Midnight(now) + TimeOfDay(now) /\ TimeOfDay(now) \in Nat /\ Midnight(now) \in Nat
      /\ Day(now) \in Nat
  BY <1>1, <1>2, Clock
<1>4. /\ Day(c) <= Day(now) /\ (Day(c) = Day(now) => Midnight(c) = Midnight(now))
      /\ Day(c) < Day(now) => Midnight(c) + DayLength <= Midnight(now)
  BY <1>1, <1>2, Calendar
<1>5. Midnight(now) + Eod <= Due(Day(now)) /\ Due(Day(now)) \in Nat
  BY <1>1, <1>3, DueOfDay, Dues
<1> HIDE DEF c
<1>6. c <= now /\ now <= c + MaxEod /\ c \in Nat /\ Eod <= TimeOfDay(c)
  BY <1>1, <1>2 DEF c
<1>7. CASE Day(c) = Day(now)
  <2>1. Close <= TimeOfDay(now)
    BY <1>1, <1>3, <1>4, <1>6, <1>7, SchedulerConstants
  <2>2. ~IsOpen(now)
    BY <1>3, <2>1, SchedulerConstants DEF IsOpen
  <2> QED BY <1>3, <1>6, <1>7, <2>2 DEF c
<1>8. CASE Day(c) # Day(now)
  <2>1. TimeOfDay(now) < Open
    BY <1>1, <1>3, <1>4, <1>6, <1>8, SchedulerConstants
  <2>2. ~IsOpen(now)
    BY <1>3, <2>1, SchedulerConstants DEF IsOpen
  <2>3. now <= Due(Day(now))
    BY <1>1, <1>3, <1>5, <2>1, SchedulerConstants
  <2> QED BY <1>3, <1>4, <1>6, <2>2, <2>3 DEF c
<1> QED BY <1>7, <1>8

\* A scan with its retries does not last longer, and began before the end of the day.
LEMMA UnderWay ==
    ASSUME TimeInv, pc \in {"scan", "backoff"}
    PROVE  /\ health.attempt \in Nat /\ health.attempt <= now /\ IsOpen(health.attempt)
           /\ now <= health.attempt + LongestScan
           /\ now <= Due(Day(now)) + LongestScan
<1>1. /\ health.attempt \in Nat /\ health.attempt <= now /\ IsOpen(health.attempt)
      /\ now \in Nat /\ since \in Nat /\ deadline \in Nat /\ now <= deadline
  BY SchedulerConstants DEF TimeInv, SchedShape, Deadlines, HealthRow
<1>2. now <= health.attempt + LongestScan
  <2>1. CASE pc = "scan"
    <3>1. retry \in 0..3 /\ deadline <= health.attempt + Spent(retry)
      BY <2>1 DEF TimeInv, SchedShape, Deadlines
    <3>2. Spent(retry) \in Nat /\ Spent(retry) <= LongestScan /\ LongestScan \in Nat
      BY <3>1, Tries
    <3> QED BY ONLY <1>1, <3>1, <3>2
  <2>2. CASE pc = "backoff"
    <3>1. retry \in 1..3 /\ deadline <= health.attempt + Paused(retry)
      BY <2>2 DEF TimeInv, Deadlines
    <3>2. Paused(retry) \in Nat /\ Paused(retry) <= LongestScan /\ LongestScan \in Nat
      BY <3>1, Tries
    <3> QED BY ONLY <1>1, <3>1, <3>2
  <2> QED BY <2>1, <2>2
<1>3. health.attempt + 1 <= Due(Day(now)) /\ Due(Day(now)) \in Nat /\ LongestScan \in Nat
  BY <1>1, OpenBeforeDue, Clock, Dues, Tries
<1> QED BY <1>1, <1>2, <1>3

LEMMA AttemptsFacts ==
    ASSUME TimeInv, Attempts
    PROVE  /\ eod \in EodRow /\ eod.fails \in Nat /\ now \in Nat /\ since \in Nat /\ Day(now) \in Nat
           /\ \A d \in Nat : Tried(d) \in Nat /\ Tried(d) <= EodMaxAttempts
           /\ \A d \in Nat : Due(d) \in Nat /\ Due(d) <= LatestCall(d, Tried(d))
                             /\ Due(d) + LongestScan <= LatestCall(d, Tried(d))
                             /\ LatestCall(d, Tried(d)) \in Nat
<1>1. eod \in EodRow /\ eod.fails \in Nat /\ now \in Nat /\ since \in Nat /\ Day(now) \in Nat
  BY Clock DEF TimeInv, SchedShape, EodRow
<1>2. \A d \in Nat : Tried(d) \in Nat /\ Tried(d) <= EodMaxAttempts
  BY <1>1, SchedulerConstants DEF Attempts, Tried
<1>3. ASSUME NEW d \in Nat
      PROVE  /\ Due(d) \in Nat /\ Due(d) <= LatestCall(d, Tried(d))
             /\ Due(d) + LongestScan <= LatestCall(d, Tried(d)) /\ LatestCall(d, Tried(d)) \in Nat
  BY <1>1, <1>2, Dues
<1> QED BY <1>1, <1>2, <1>3

\* Another date makes no difference to the days to come.
LEMMA ResetAttempts ==
    ASSUME TimeInv, Attempts, eod' = Reset(now), now' \in Nat, now <= now', since' = since
    PROVE  /\ Attempts'
           /\ \A d \in Nat : Day(now) <= d => (Settled(d)' <=> Settled(d)) /\ Tried(d)' = Tried(d)
           /\ \A d, f \in Nat : LatestCall(d, f)' = LatestCall(d, f)
<1>1. /\ now \in Nat /\ Day(now) \in Nat /\ eod \in EodRow /\ eod.done \in Nat \cup {None}
      /\ eod.date \in Nat \cup {None} /\ None \notin Nat
  BY Clock, SchedulerConstants DEF TimeInv, SchedShape, EodRow
<1>2. /\ eod'.done = eod.done /\ eod'.date = Day(now)
      /\ eod.date = Day(now) => eod' = eod
      /\ eod.date # Day(now) => eod'.fails = 0 /\ eod'.retryAt = None /\ ~eod'.final
  BY <1>1, ResetRow DEF TimeInv
<1>3. Day(now) <= Day(now')
  BY <1>1, Calendar
<1>4. \A d, f \in Nat : LatestCall(d, f)' = LatestCall(d, f)
  BY DEF LatestCall, Due
<1>5. Attempts'
  <2>1. CASE eod.date = Day(now)
    <3>1. eod' = eod
      BY <1>2, <2>1
    <3>2. eod.fails \in Nat
      BY <1>1 DEF EodRow
    <3>4. LatestCall(eod.date, eod.fails)' = LatestCall(eod.date, eod.fails)
      BY <3>1 DEF LatestCall, Due
    <3> QED BY <1>1, <1>3, <2>1, <3>1, <3>4 DEF Attempts
  <2>2. CASE eod.date # Day(now)
    <3>1. eod'.fails = 0 /\ eod'.retryAt = None /\ ~eod'.final /\ eod'.date = Day(now)
      BY <1>2, <2>2
    <3> QED BY <1>1, <1>3, <3>1, SchedulerConstants DEF Attempts
  <2> QED BY <2>1, <2>2
<1>6. ASSUME NEW d \in Nat, Day(now) <= d PROVE (Settled(d)' <=> Settled(d)) /\ Tried(d)' = Tried(d)
  <2>1. CASE eod.date = Day(now)
    BY <1>2, <2>1 DEF Settled, Tried
  <2>2. CASE eod.date # Day(now)
    <3>1. eod.date # d
      BY <1>1, <1>6, <2>2 DEF Attempts
    <3>2. eod'.fails = 0 /\ ~eod'.final /\ eod'.done = eod.done
      BY <1>2, <2>2
    <3> QED BY <3>1, <3>2 DEF Settled, Tried
  <2> QED BY <2>1, <2>2
<1> QED BY <1>4, <1>5, <1>6

LEMMA EodBegins == Init => EodInv
<1> SUFFICES ASSUME Init PROVE EodInv
  OBVIOUS
<1>1. /\ NoEod.date = None /\ NoEod.fails = 0 /\ NoEod.retryAt = None /\ ~NoEod.final
  BY DEF NoEod
<1>2. now \in Nat /\ since = now /\ pc = "loop" /\ eod = NoEod
  BY SchedulerConstants DEF Init
<1> HIDE DEF NoEod
<1>3. Attempts
  BY <1>1, <1>2, SchedulerConstants DEF Attempts
<1>4. now <= Due(Day(now)) /\ Day(now) \in Nat
  BY <1>2, DueOfDay
<1>5. TimeInv
  BY TimeBegins
<1>6. Calls
  BY <1>2, <1>3, <1>4, <1>5, AttemptsFacts DEF Calls
<1> QED BY <1>2, <1>3, <1>6 DEF EodInv, Called

LEMMA EodCalled ==
    ASSUME TimeInv, EodInv, RunEod \/ EodSucceeds \/ EodFails
    PROVE  EodInv'
<1>0. Attempts /\ Called /\ Calls /\ now \in Nat /\ since \in Nat /\ eod \in EodRow /\ Day(now) \in Nat
  BY Clock DEF EodInv, TimeInv, SchedShape
<1>1. CASE RunEod
  <2>1. /\ pc = "loop" /\ pc' = "closing" /\ eod' = Reset(now) /\ deadline' = now + MaxEod
        /\ UNCHANGED <<now, since>>
        /\ Day(now) \notin Holidays /\ eod'.done # Day(now) /\ ~eod'.final
    BY <1>1 DEF RunEod, Pending
  <2>2. /\ Attempts' /\ (Settled(Day(now))' <=> Settled(Day(now))) /\ Tried(Day(now))' = Tried(Day(now))
        /\ \A d, f \in Nat : LatestCall(d, f)' = LatestCall(d, f)
    BY <1>0, <2>1, ResetAttempts
  <2>3. eod'.date = Day(now) /\ CalledAt' = now
    <3>2. Reset(now).date = Day(now)
      BY <1>0, ResetRow DEF TimeInv
    <3>3. CalledAt' = deadline' - MaxEod
      BY DEF CalledAt
    <3>4. eod'.date = Day(now)
      BY <2>1, <3>2
    <3>5. deadline' - MaxEod = now
      BY <1>0, <2>1, SchedulerConstants
    <3> QED BY <3>3, <3>4, <3>5
  <2>4. ~Settled(Day(now))' /\ Tried(Day(now))' = eod'.fails
    BY <2>1, <2>3 DEF Settled, Tried
  <2>5. now <= LatestCall(Day(now), Tried(Day(now))) /\ Tried(Day(now)) \in Nat
    BY <1>0, <2>1, <2>2, <2>4, AttemptsFacts DEF Calls
  <2>6. Called'
    BY <1>0, <2>1, <2>2, <2>3, <2>4, <2>5 DEF Called
  <2>7. Calls'
    BY <2>1 DEF Calls
  <2> QED BY <2>2, <2>6, <2>7 DEF EodInv
<1> DEFINE c == CalledAt
<1>2. ASSUME pc = "closing"
      PROVE  /\ c \in Nat /\ c <= now /\ now <= c + MaxEod /\ Day(c) \in Nat
             /\ Day(now) # Day(c) => now <= Due(Day(now))
             /\ eod.date = Day(c) /\ ~eod.final /\ c <= LatestCall(Day(c), eod.fails)
             /\ eod.fails \in Nat /\ eod.fails < EodMaxAttempts
    BY <1>0, <1>2, PassEndsEarly, AttemptsFacts DEF Called, Attempts
<1> HIDE DEF c
<1>3. CASE EodSucceeds
  <2>1. /\ pc = "closing" /\ pc' = "loop" /\ UNCHANGED <<now, since>>
    BY <1>3 DEF EodSucceeds
  <2>2. /\ eod' \in EodRow /\ eod'.done = Day(c) /\ eod'.date = eod.date /\ eod'.fails = 0
        /\ eod'.retryAt = None /\ eod'.final = eod.final
    BY <1>3, <2>1, EodRows DEF EodSucceeds, TimeInv, c
  <2>3. Attempts'
    BY <1>0, <1>2, <2>1, <2>2, SchedulerConstants DEF Attempts
  <2>4. Calls'
    <3>1. CASE Day(now) = Day(c)
      BY <2>1, <2>2, <3>1 DEF Calls, Settled
    <3>2. CASE Day(now) # Day(c)
      <4>1. now <= Due(Day(now)) /\ Due(Day(now)) <= LatestCall(Day(now), 0) /\ Due(Day(now)) \in Nat
            /\ LatestCall(Day(now), 0) \in Nat
        BY <1>0, <1>2, <2>1, <3>2, Dues
      <4>2. Tried(Day(now))' = 0
        BY <2>2 DEF Tried
      <4>3. LatestCall(Day(now), 0)' = LatestCall(Day(now), 0)
        BY <2>1 DEF LatestCall, Due
      <4>4. now <= LatestCall(Day(now), 0)'
        BY <1>0, <4>1, <4>3
      <4> QED BY <2>1, <4>2, <4>4 DEF Calls
    <3> QED BY <3>1, <3>2
  <2>5. Called'
    BY <2>1 DEF Called
  <2> QED BY <2>3, <2>4, <2>5 DEF EodInv
<1>4. CASE EodFails
  <2>1. /\ pc = "closing" /\ pc' = "loop" /\ UNCHANGED <<now, since>>
    BY <1>4 DEF EodFails, history
  <2>2. /\ eod' \in EodRow /\ eod'.done = eod.done /\ eod'.date = eod.date /\ eod'.fails = eod.fails + 1
        /\ \/ eod'.retryAt = None /\ eod'.final
           \/ eod'.retryAt = c + EodRetry /\ eod'.final = eod.final /\ eod.fails + 1 < EodMaxAttempts
    <3>1. CASE eod.fails + 1 >= EodMaxAttempts
      BY <1>4, <2>1, <3>1, EodRows DEF EodFails, TimeInv, c
    <3>2. CASE ~(eod.fails + 1 >= EodMaxAttempts)
      <4>1. eod.fails + 1 < EodMaxAttempts
        BY <1>2, <2>1, <3>2, SchedulerConstants
      <4> QED BY <1>4, <2>1, <3>2, <4>1, EodRows DEF EodFails, TimeInv, c
    <3> QED BY <3>1, <3>2
  <2>3. /\ LatestCall(Day(c), eod.fails) \in Nat
        /\ LatestCall(Day(c), eod.fails + 1) = LatestCall(Day(c), eod.fails) + Later(EodRetry, MaxEod)
        /\ MaxEod <= Later(EodRetry, MaxEod) /\ EodRetry <= Later(EodRetry, MaxEod)
        /\ Later(EodRetry, MaxEod) \in Nat
    <3>1. /\ MaxEod <= Later(EodRetry, MaxEod) /\ EodRetry <= Later(EodRetry, MaxEod)
          /\ Later(EodRetry, MaxEod) \in Nat
      BY SchedulerConstants DEF Later
    <3> QED BY <1>0, <1>2, <2>1, <3>1, Dues
  <2>4. /\ now <= LatestCall(Day(c), eod.fails + 1) /\ c + EodRetry <= LatestCall(Day(c), eod.fails + 1)
    BY <1>0, <1>2, <2>1, <2>3, SchedulerConstants
  <2>5. \A d, f \in Nat : LatestCall(d, f)' = LatestCall(d, f)
    BY <2>1 DEF LatestCall, Due
  <2>6. /\ LatestCall(eod.date, eod.fails)' = LatestCall(Day(c), eod.fails + 1)
    BY <1>2, <2>1, <2>2 DEF LatestCall, Due
  <2>7. Attempts'
    BY <1>0, <1>2, <2>1, <2>2, <2>4, <2>6, SchedulerConstants DEF Attempts
  <2>8. Calls'
    <3>1. CASE Day(now) = Day(c)
      <4>1. Tried(Day(now))' = eod.fails + 1
        BY <1>2, <2>1, <2>2, <3>1 DEF Tried
      <4>2. LatestCall(Day(now), Tried(Day(now)))' = LatestCall(Day(c), eod.fails + 1)
        BY <2>1, <3>1, <4>1 DEF LatestCall, Due
      <4> QED BY <2>1, <2>4, <4>2 DEF Calls
    <3>2. CASE Day(now) # Day(c)
      <4>1. now <= Due(Day(now)) /\ Due(Day(now)) <= LatestCall(Day(now), 0) /\ Due(Day(now)) \in Nat
            /\ LatestCall(Day(now), 0) \in Nat
        BY <1>0, <1>2, <2>1, <3>2, Dues
      <4>2. Tried(Day(now))' = 0
        BY <1>2, <2>1, <2>2, <3>2 DEF Tried
      <4>3. LatestCall(Day(now), 0)' = LatestCall(Day(now), 0)
        BY <2>1 DEF LatestCall, Due
      <4>4. now <= LatestCall(Day(now), 0)'
        BY <1>0, <4>1, <4>3
      <4> QED BY <2>1, <4>2, <4>4 DEF Calls
    <3> QED BY <3>1, <3>2
  <2>9. Called'
    BY <2>1 DEF Called
  <2> QED BY <2>7, <2>8, <2>9 DEF EodInv
<1> QED BY <1>1, <1>3, <1>4

\* What is known of the tries is kept while no pass begins or ends.
LEMMA Carried ==
    ASSUME TimeInv, Attempts, eod' = eod \/ eod' = Reset(now), now' \in Nat, now <= now', since' = since
    PROVE  /\ Attempts'
           /\ \A d \in Nat : Day(now) <= d => (Settled(d)' <=> Settled(d)) /\ Tried(d)' = Tried(d)
           /\ \A d, f \in Nat : LatestCall(d, f)' = LatestCall(d, f)
<1>1. CASE eod' = Reset(now)
  BY <1>1, ResetAttempts
<1>2. CASE eod' = eod
  <2>1. Day(now) <= Day(now') /\ Day(now) \in Nat /\ Day(now') \in Nat
    BY Calendar, Clock DEF TimeInv, SchedShape
  <2>2. eod.date \in Nat \cup {None} /\ None \notin Nat
    BY SchedulerConstants DEF TimeInv, SchedShape, EodRow
  <2>3. \A d, f \in Nat : LatestCall(d, f)' = LatestCall(d, f)
    BY DEF LatestCall, Due
  <2>4. LatestCall(eod.date, eod.fails)' = LatestCall(eod.date, eod.fails)
    BY <1>2 DEF LatestCall, Due
  <2>5. Attempts'
    BY <1>2, <2>1, <2>2, <2>4 DEF Attempts
  <2>6. ASSUME NEW d \in Nat PROVE (Settled(d)' <=> Settled(d)) /\ Tried(d)' = Tried(d)
    BY <1>2 DEF Settled, Tried
  <2> QED BY <2>3, <2>5, <2>6
<1> QED BY <1>1, <1>2

\* A station that is not the pass itself, reached in time for the next call.
LEMMA InTime ==
    ASSUME TimeInv, Attempts, eod' = eod \/ eod' = Reset(now), now' = now, since' = since,
           pc' # "closing", pc' \in {"scan", "backoff"} \/ Calls'
    PROVE  EodInv'
<1>1. now \in Nat /\ now <= now'
  BY DEF TimeInv, SchedShape
<1>2. Attempts'
  BY <1>1, Carried
<1>3. Called'
  BY DEF Called
<1>4. Calls'
  BY DEF Calls
<1> QED BY <1>2, <1>3, <1>4 DEF EodInv

LEMMA CallsCarried ==
    ASSUME TimeInv, Attempts, eod' = eod \/ eod' = Reset(now), now' = now, since' = since,
           \/ now <= Due(Day(now)) + LongestScan
           \/ pc \in {"loop", "wait", "closed", "warmup"} /\ Calls
    PROVE  Calls'
<1>1. now \in Nat /\ now <= now' /\ Day(now) \in Nat /\ Day(now) <= Day(now) /\ Day(now') = Day(now)
  BY Clock DEF TimeInv, SchedShape
<1>2. /\ (Settled(Day(now))' <=> Settled(Day(now))) /\ Tried(Day(now))' = Tried(Day(now))
      /\ \A f \in Nat : LatestCall(Day(now), f)' = LatestCall(Day(now), f)
  <2>1. /\ \A d \in Nat : Day(now) <= d => (Settled(d)' <=> Settled(d)) /\ Tried(d)' = Tried(d)
        /\ \A d, f \in Nat : LatestCall(d, f)' = LatestCall(d, f)
    BY <1>1, Carried
  <2>2. /\ (Settled(Day(now))' <=> eod'.done = Day(now) \/ (eod'.final /\ eod'.date = Day(now)))
        /\ Tried(Day(now))' = IF eod'.date = Day(now) THEN eod'.fails ELSE 0
    BY <1>1 DEF Settled, Tried
  <2>3. PICK d \in Nat : d = Day(now)
    BY <1>1
  <2>4. (Settled(d)' <=> Settled(d)) /\ Tried(d)' = Tried(d)
    BY <1>1, <2>1, <2>3
  <2>5. /\ (Settled(d)' <=> eod'.done = d \/ (eod'.final /\ eod'.date = d))
        /\ Tried(d)' = IF eod'.date = d THEN eod'.fails ELSE 0
    BY DEF Settled, Tried
  <2> QED BY <1>1, <2>1, <2>2, <2>3, <2>4, <2>5
<1>3. /\ Tried(Day(now)) \in Nat /\ Due(Day(now)) + LongestScan <= LatestCall(Day(now), Tried(Day(now)))
      /\ Due(Day(now)) \in Nat /\ LatestCall(Day(now), Tried(Day(now))) \in Nat /\ LongestScan \in Nat
  BY <1>1, AttemptsFacts, Tries
<1>4. ~Settled(Day(now)) /\ Day(now) \notin Holidays => now <= LatestCall(Day(now), Tried(Day(now)))
  BY <1>1, <1>3 DEF Calls
<1>5. LatestCall(Day(now), Tried(Day(now)))' = LatestCall(Day(now), Tried(Day(now)))
  BY <1>1, <1>2, <1>3 DEF LatestCall, Due
<1> QED BY <1>1, <1>2, <1>4, <1>5 DEF Calls

LEMMA EodScanned ==
    ASSUME TimeInv, EodInv, WarmUp \/ StartScan \/ ScanSucceeds \/ ScanFails \/ RetryScan
    PROVE  EodInv'
<1>0. Attempts /\ Calls /\ now \in Nat /\ since \in Nat /\ Due(Day(now)) \in Nat /\ LongestScan \in Nat
  BY Clock, Dues, Tries DEF EodInv, TimeInv, SchedShape
<1>1. CASE WarmUp
  <2>1. pc = "loop" /\ pc' = "warmup" /\ eod' = Reset(now) /\ UNCHANGED <<now, since>>
    BY <1>1 DEF WarmUp, history
  <2> QED BY <1>0, <2>1, CallsCarried, InTime
<1>2. CASE StartScan
  <2>1. pc' = "scan" /\ eod' = Reset(now) /\ UNCHANGED <<now, since>>
    BY <1>2 DEF StartScan, history
  <2> QED BY <1>0, <2>1, InTime
<1>3. ASSUME pc = "scan", pc' = "wait", UNCHANGED <<now, since, eod>> PROVE EodInv'
  <2>1. now <= Due(Day(now)) + LongestScan
    BY <1>3, UnderWay
  <2> QED BY <1>0, <1>3, <2>1, CallsCarried, InTime
<1>4. CASE ScanSucceeds
  BY <1>3, <1>4 DEF ScanSucceeds, SleepToSlot, history
<1>5. CASE ScanFails
  <2>1. pc = "scan" /\ UNCHANGED <<now, since, eod>> /\ (pc' = "wait" \/ pc' = "backoff")
    BY <1>5 DEF ScanFails, SleepToSlot, history
  <2> QED BY <1>0, <1>3, <2>1, InTime
<1>6. CASE RetryScan
  <2>1. pc' = "scan" /\ UNCHANGED <<now, since, eod>>
    BY <1>6 DEF RetryScan, memory, history
  <2> QED BY <1>0, <2>1, InTime
<1> QED BY <1>1, <1>2, <1>4, <1>5, <1>6

\* In a sleep that goes on, the call has still time: the session is on, the pass is not
\* due yet, it is settled, or its retry is not.
LEMMA SleepGoesOn ==
    ASSUME TimeInv, EodInv, Tick, pc \in {"wait", "closed", "warmup"},
           Day(now) \notin Holidays, ~Settled(Day(now))
    PROVE  now + 1 <= LatestCall(Day(now), Tried(Day(now)))
<1>0. /\ Attempts /\ now \in Nat /\ since \in Nat /\ Day(now) \in Nat /\ Due(Day(now)) \in Nat
      /\ Tried(Day(now)) \in Nat /\ LatestCall(Day(now), Tried(Day(now))) \in Nat
      /\ Due(Day(now)) <= LatestCall(Day(now), Tried(Day(now)))
      /\ Midnight(now) \in Nat /\ Midnight(now) + Eod <= Due(Day(now))
      /\ now = Midnight(now) + TimeOfDay(now) /\ TimeOfDay(now) \in Nat
  BY AttemptsFacts, DueOfDay, Clock DEF EodInv, TimeInv, SchedShape
<1>1. CASE pc = "warmup"
  <2>1. /\ deadline \in Nat /\ 1 <= deadline /\ deadline - 1 <= now /\ IsOpen(deadline - 1)
        /\ now < deadline
    BY <1>1 DEF TimeInv, SchedShape, Deadlines, Tick
  <2>2. deadline - 1 = now
    BY <1>0, <2>1
  <2>3. IsOpen(now) /\ now <= now
    BY <1>0, <2>1, <2>2
  <2>4. now + 1 <= Due(Day(now))
    BY <1>0, <2>3, OpenBeforeDue
  <2> QED BY <1>0, <2>4
<1>2. CASE pc \in {"wait", "closed"}
  <2>1. ~Pending(now)
    BY <1>2 DEF Tick, Interrupts
  <2>2. CASE TimeOfDay(now) < Eod
    BY <1>0, <2>2, SchedulerConstants
  <2>3. CASE ~(TimeOfDay(now) < Eod)
    <3>1. /\ Reset(now).done = eod.done /\ Reset(now).date = Day(now)
          /\ eod.date = Day(now) => Reset(now) = eod
          /\ eod.date # Day(now) => Reset(now).retryAt = None /\ ~Reset(now).final
          /\ Reset(now) \in EodRow
      BY <1>0, ResetRow DEF TimeInv
    <3>2. TimeOfDay(now) >= Eod
      BY <1>0, <2>3, SchedulerConstants
    <3>3. Reset(now).done # Day(now) /\ ~Reset(now).final
      BY <3>1 DEF Settled
    <3>4. Reset(now).retryAt # None /\ ~(now >= Reset(now).retryAt)
      BY <2>1, <3>2, <3>3 DEF Pending
    <3>5. Reset(now) = eod /\ eod.date = Day(now)
      BY <3>1, <3>4
    <3>6. eod.retryAt \in Nat /\ now < eod.retryAt
      <4>1. eod.retryAt \in Nat \cup {None}
        BY DEF TimeInv, SchedShape, EodRow
      <4> QED BY <1>0, <3>4, <3>5, <4>1
    <3>7. eod.retryAt <= LatestCall(Day(now), eod.fails)
      BY <1>0, <3>4, <3>5 DEF Attempts
    <3>8. Tried(Day(now)) = eod.fails
      BY <3>5 DEF Tried
    <3> QED BY <1>0, <3>6, <3>7, <3>8
  <2> QED BY <2>2, <2>3
<1> QED BY <1>1, <1>2

LEMMA EodSlept ==
    ASSUME TimeInv, EodInv, SleepUntilOpen \/ WakeUp \/ Tick \/ Crash \/ Start
    PROVE  EodInv'
<1>0. Attempts /\ Called /\ Calls /\ now \in Nat /\ since \in Nat /\ Day(now) \in Nat
  BY Clock DEF EodInv, TimeInv, SchedShape
<1>1. CASE SleepUntilOpen
  <2>1. pc = "loop" /\ pc' = "closed" /\ eod' = Reset(now) /\ UNCHANGED <<now, since>>
    BY <1>1 DEF SleepUntilOpen, history
  <2> QED BY <1>0, <2>1, CallsCarried, InTime
<1>2. CASE WakeUp
  <2>1. /\ pc \in {"wait", "closed", "warmup"} /\ pc' = "loop" /\ (eod' = eod \/ eod' = Reset(now))
        /\ UNCHANGED <<now, since>>
    BY <1>2 DEF WakeUp, history
  <2> QED BY <1>0, <2>1, CallsCarried, InTime
<1>3. CASE Tick
  <2>1. /\ now' = now + 1 /\ UNCHANGED <<pc, deadline, since>>
        /\ (eod' = eod \/ eod' = Reset(now)) /\ (pc = "closing" => eod' = eod)
        /\ pc # "loop"
    BY <1>3 DEF Tick, history
  <2>2. now' \in Nat /\ now <= now'
    BY <1>0, <2>1
  <2>2a. Day(now') \in Nat /\ Day(now) <= Day(now')
    BY <1>0, <2>2, Calendar, Clock
  <2>3. /\ Attempts'
        /\ \A d \in Nat : Day(now) <= d => (Settled(d)' <=> Settled(d)) /\ Tried(d)' = Tried(d)
        /\ \A d, f \in Nat : LatestCall(d, f)' = LatestCall(d, f)
    BY <1>0, <2>1, <2>2, Carried
  <2>4. Called'
    <3>1. CASE pc # "closing"
      BY <2>1, <3>1 DEF Called
    <3>2. CASE pc = "closing"
      <4>1. CalledAt' = CalledAt /\ CalledAt \in Nat /\ Day(CalledAt) \in Nat
        BY <2>1, <3>2, PassEndsEarly DEF CalledAt
      <4>2. eod' = eod
        BY <2>1, <3>2
      <4>3. LatestCall(Day(CalledAt), eod.fails)' = LatestCall(Day(CalledAt), eod.fails)
        BY <2>1, <4>1, <4>2 DEF LatestCall, Due
      <4>4. eod.date = Day(CalledAt) /\ ~eod.final /\ CalledAt <= LatestCall(Day(CalledAt), eod.fails)
        BY <1>0, <3>2 DEF Called
      <4> QED BY <4>1, <4>2, <4>3, <4>4 DEF Called
    <3> QED BY <3>1, <3>2
  <2>5. Calls'
    <3>1. SUFFICES ASSUME pc \in {"loop", "wait", "closed", "warmup"}, Day(now') \notin Holidays,
                          ~Settled(Day(now))'
                   PROVE  now' <= LatestCall(Day(now), Tried(Day(now)))'
      BY <2>1 DEF Calls
    <3>2. PICK d \in Nat : d = Day(now')
      BY <2>2a
    <3>2a. Day(now) <= d
      BY <2>2a, <3>2
    <3>3. /\ (Settled(Day(now))' <=> eod'.done = d \/ (eod'.final /\ eod'.date = d))
          /\ LatestCall(Day(now), Tried(Day(now)))' = LatestCall(d, Tried(d))'
      BY <3>2 DEF Settled, Tried, LatestCall, Due
    <3>4. (Settled(d)' <=> Settled(d)) /\ Tried(d)' = Tried(d)
      BY <2>3, <3>2a
    <3>5. /\ (Settled(d)' <=> eod'.done = d \/ (eod'.final /\ eod'.date = d))
          /\ Tried(d)' = IF eod'.date = d THEN eod'.fails ELSE 0
      BY DEF Settled, Tried
    <3>6. ~Settled(d)
      BY <3>1, <3>3, <3>4, <3>5
    <3>7. Tried(d) \in Nat /\ Due(d) \in Nat /\ Due(d) <= LatestCall(d, Tried(d)) /\ LatestCall(d, Tried(d)) \in Nat
      BY <1>0, AttemptsFacts
    <3>8. LatestCall(Day(now), Tried(Day(now)))' = LatestCall(d, Tried(d))
      <4>1. LatestCall(d, Tried(d))' = Due(d)' + LongestScan + Span(Tried(d)')
        BY DEF LatestCall
      <4>2. Due(d)' = Due(d)
        BY <2>1 DEF Due
      <4>3. LatestCall(d, Tried(d))' = LatestCall(d, Tried(d))
        BY <3>4, <4>1, <4>2 DEF LatestCall
      <4> QED BY <3>3, <4>3
    <3>9. CASE d = Day(now)
      <4>1. pc \in {"wait", "closed", "warmup"} /\ Day(now) \notin Holidays /\ ~Settled(Day(now))
        BY <2>1, <3>1, <3>2, <3>6, <3>9
      <4>2. now + 1 <= LatestCall(Day(now), Tried(Day(now)))
        BY <1>3, <4>1, SleepGoesOn
      <4> QED BY <2>1, <3>8, <3>9, <4>2
    <3>10. CASE d # Day(now)
      <4>1. now + 1 <= Due(d)
        BY <1>0, <2>1, <3>2, <3>10, NewDay
      <4> QED BY <1>0, <2>1, <3>7, <3>8, <4>1
    <3> QED BY <3>9, <3>10
  <2> QED BY <2>3, <2>4, <2>5 DEF EodInv
<1>4. CASE Crash
  <2>1. pc' = "down" /\ eod' = NoEod /\ UNCHANGED <<now, since>>
    BY <1>4 DEF Crash
  <2>2. /\ NoEod.date = None /\ NoEod.fails = 0 /\ NoEod.retryAt = None /\ ~NoEod.final
    BY DEF NoEod
  <2> HIDE DEF NoEod
  <2>3. Attempts'
    BY <2>1, <2>2, SchedulerConstants DEF Attempts
  <2> QED BY <2>1, <2>3 DEF EodInv, Called, Calls
<1>5. CASE Start
  <2>1. pc = "down" /\ pc' = "loop" /\ since' = now /\ UNCHANGED <<now, eod>> /\ eod = NoEod
    BY <1>5 DEF Start, memory, TimeInv, SchedShape
  <2>2. /\ NoEod.date = None /\ NoEod.fails = 0 /\ NoEod.retryAt = None /\ ~NoEod.final
    BY DEF NoEod
  <2> HIDE DEF NoEod
  <2>3. Attempts'
    BY <2>1, <2>2, SchedulerConstants DEF Attempts
  <2>4. Tried(Day(now))' = 0
    BY <2>1, <2>2, <1>0, SchedulerConstants DEF Tried
  <2>5. LatestCall(Day(now), Tried(Day(now)))' = Later(now, DayLength * Day(now) + Eod) + LongestScan + Span(0)
    BY <2>1, <2>4 DEF LatestCall, Due
  <2>6. DayLength * Day(now) + Eod \in Nat /\ LongestScan \in Nat /\ Span(0) = 0
    <3>1. Midnight(now) \in Nat
      BY <1>0, Clock
    <3>2. 0 \in Nat /\ Span(0) = 0
      BY Spans
    <3> QED BY <3>1, <3>2, Tries, SchedulerConstants DEF Midnight
  <2>7. now <= Later(now, DayLength * Day(now) + Eod) + LongestScan + Span(0)
    BY ONLY <1>0, <2>6 DEF Later
  <2>8. Calls'
    BY <2>1, <2>5, <2>7 DEF Calls
  <2> QED BY <2>1, <2>3, <2>8 DEF EodInv, Called
<1> QED BY <1>1, <1>2, <1>3, <1>4, <1>5

LEMMA EodKept == TimeInv /\ EodInv /\ [Next]_vars => EodInv'
<1> SUFFICES ASSUME TimeInv, EodInv, [Next]_vars PROVE EodInv'
  OBVIOUS
<1>1. CASE UNCHANGED vars
  BY <1>1 DEF vars, EodInv, Attempts, Called, Calls, Settled, Tried, LatestCall, Due, CalledAt
<1>2. CASE Next
  BY <1>2, EodCalled, EodScanned, EodSlept DEF Next
<1> QED BY <1>1, <1>2

\* The tries together last no longer than the bound.
LEMMA EodIsSettled == TimeInv /\ EodInv => EodSettled
<1> SUFFICES ASSUME TimeInv, EodInv, pc # "down", Day(now) \notin Holidays, ~Settled(Day(now))
             PROVE  ~(now > Later(since, DayLength * Day(now) + Eod) + LongestScan + LongestEod)
  BY DEF EodSettled, Settled
<1>1. Attempts /\ Called /\ Calls /\ now \in Nat /\ since \in Nat /\ Day(now) \in Nat /\ eod.fails \in Nat
  BY AttemptsFacts DEF EodInv
<1> DEFINE d == Day(now)
<1>2. /\ Tried(d) \in Nat /\ Tried(d) <= EodMaxAttempts /\ Due(d) \in Nat /\ EodMaxAttempts \in Nat
      /\ Due(d) + LongestScan <= LatestCall(d, EodMaxAttempts) /\ LongestScan \in Nat
      /\ LatestCall(d, Tried(d)) <= LatestCall(d, EodMaxAttempts)
      /\ LatestCall(d, EodMaxAttempts) \in Nat /\ LatestCall(d, Tried(d)) \in Nat
  BY <1>1, AttemptsFacts, Dues, Tries, SchedulerConstants
<1>3. LatestCall(d, EodMaxAttempts) = Later(since, DayLength * Day(now) + Eod) + LongestScan + LongestEod
  BY DEF LatestCall, Due, Span, LongestEod
<1>4. SUFFICES now <= LatestCall(d, EodMaxAttempts)
  BY <1>1, <1>2, <1>3
<1>5. CASE pc \in {"loop", "wait", "closed", "warmup"}
  BY <1>1, <1>2, <1>5 DEF Calls
<1>6. CASE pc \in {"scan", "backoff"}
  BY <1>1, <1>2, <1>6, UnderWay
<1>7. CASE pc = "closing"
  <2>1. /\ CalledAt \in Nat /\ now <= CalledAt + MaxEod
        /\ Day(now) # Day(CalledAt) => now <= Due(d)
        /\ CalledAt <= LatestCall(Day(CalledAt), eod.fails) /\ eod.fails < EodMaxAttempts
    BY <1>1, <1>7, PassEndsEarly DEF Called, Attempts
  <2>2. CASE Day(now) # Day(CalledAt)
    BY <1>1, <1>2, <2>1, <2>2
  <2>3. CASE Day(now) = Day(CalledAt)
    <3>1. /\ LatestCall(d, eod.fails) \in Nat
          /\ LatestCall(d, eod.fails + 1) = LatestCall(d, eod.fails) + Later(EodRetry, MaxEod)
      BY <1>1, Dues
    <3>2. LatestCall(d, eod.fails + 1) <= LatestCall(d, EodMaxAttempts)
      <4>1. eod.fails + 1 \in Nat /\ eod.fails + 1 <= EodMaxAttempts
        BY <1>1, <1>2, <2>1
      <4> HIDE DEF d
      <4> QED BY <1>1, <1>2, <4>1, Dues DEF d
    <3>3. MaxEod <= Later(EodRetry, MaxEod) /\ Later(EodRetry, MaxEod) \in Nat
      BY SchedulerConstants DEF Later
    <3>4. CalledAt <= LatestCall(d, eod.fails)
      BY <2>1, <2>3
    <3> HIDE DEF d
    <3> QED BY <1>1, <1>2, <2>1, <3>1, <3>2, <3>3, <3>4, SchedulerConstants
  <2> QED BY <2>2, <2>3
<1> QED BY <1>5, <1>6, <1>7 DEF TimeInv, SchedShape

----
(* The passes of a day. *)

\* The passes that were run on a day are the failures it remembers and the one under
\* way, until it succeeds; failures are of the day of the last pass.
PassInv ==
    /\ passes.day # None => eod.date # None /\ passes.day <= eod.date
    /\ eod.fails > 0 => passes.day = eod.date /\ passes.day # None
    /\ passes.count <= EodMaxAttempts
    /\ passes.ok => passes.day # None /\ eod.done = passes.day
    /\ pc = "closing" =>
          passes.day = Day(CalledAt) /\ ~passes.ok /\ passes.count = eod.fails + 1
    /\ pc # "closing" /\ ~passes.ok /\ passes.day # None /\ passes.day = eod.date =>
          passes.count = eod.fails

LEMMA PassFacts ==
    ASSUME TimeInv, EodInv, PassInv
    PROVE  /\ passes \in PassRow /\ passes.count \in Nat /\ passes.day \in Nat \cup {None}
           /\ eod.fails \in Nat /\ eod.date \in Nat \cup {None} /\ None \notin Nat
           /\ now \in Nat /\ Day(now) \in Nat /\ EodMaxAttempts \in Nat /\ 1 <= EodMaxAttempts
           /\ eod.date # None => eod.date <= Day(now)
           /\ ~eod.final => eod.fails < EodMaxAttempts
<1>1. passes \in PassRow /\ passes.count \in Nat /\ passes.day \in Nat \cup {None}
  BY DEF TimeInv, SchedShape, PassRow
<1>2. eod.date \in Nat \cup {None} /\ now \in Nat /\ Day(now) \in Nat /\ eod.fails \in Nat
  BY AttemptsFacts DEF EodInv, EodRow
<1>3. /\ None \notin Nat /\ EodMaxAttempts \in Nat /\ 1 <= EodMaxAttempts
  BY SchedulerConstants
<1> QED BY <1>1, <1>2, <1>3 DEF EodInv, Attempts

\* Another date keeps what is known of the passes.
LEMMA PassCarried ==
    ASSUME TimeInv, EodInv, PassInv, eod' = eod \/ eod' = Reset(now), passes' = passes,
           CalledAt' = CalledAt \/ pc # "closing", pc' = pc \/ (pc # "closing" /\ pc' # "closing"),
           pc = "closing" => eod' = eod
    PROVE  PassInv'
<1>1. CASE eod' = eod
  BY <1>1 DEF PassInv
<1>2. CASE eod' # eod
  <2>1. eod' = Reset(now) /\ pc # "closing" /\ pc' # "closing" /\ now \in Nat
    BY <1>2, PassFacts
  <2>2. /\ eod'.done = eod.done /\ eod'.date = Day(now) /\ eod.date # Day(now) /\ eod'.fails = 0
    BY <1>2, <2>1, ResetRow DEF TimeInv
  <2>3. passes.day # None => passes.day \in Nat /\ eod.date \in Nat /\ passes.day < Day(now)
    BY <2>2, PassFacts DEF PassInv
  <2>4. Day(now) # None /\ Day(now) \in Nat
    BY PassFacts
  <2> QED BY <2>1, <2>2, <2>3, <2>4 DEF PassInv
<1> QED BY <1>1, <1>2

LEMMA PassRun ==
    ASSUME TimeInv, EodInv, PassInv, EodInv', RunEod
    PROVE  PassInv'
<1>1. /\ pc = "loop" /\ pc' = "closing" /\ eod' = Reset(now) /\ deadline' = now + MaxEod
      /\ eod'.done # Day(now) /\ ~eod'.final
      /\ passes' = IF passes.day = Day(now) THEN [passes EXCEPT !.count = @ + 1]
                   ELSE [day |-> Day(now), count |-> 1, ok |-> FALSE]
  BY DEF RunEod, Pending
<1>2. /\ eod'.done = eod.done /\ eod'.date = Day(now) /\ eod' \in EodRow
      /\ eod.date = Day(now) => eod' = eod
      /\ eod.date # Day(now) => eod'.fails = 0
  BY <1>1, PassFacts, ResetRow DEF TimeInv
<1>3. CalledAt' = now /\ Day(CalledAt)' = Day(now)
  <2>1. CalledAt' = deadline' - MaxEod
    BY DEF CalledAt
  <2>2. deadline' - MaxEod = now
    BY <1>1, PassFacts, SchedulerConstants
  <2>3. Day(CalledAt)' = Day(CalledAt')
    BY DEF Day
  <2> QED BY <2>1, <2>2, <2>3
<1>4. eod'.fails \in Nat /\ eod'.fails < EodMaxAttempts
  BY <1>1, <1>2 DEF EodInv, Attempts, EodRow
<1>5. CASE passes.day = Day(now)
  <2>1. eod.date = Day(now)
    BY <1>5, PassFacts DEF PassInv
  <2>2. eod' = eod
    BY <1>2, <2>1
  <2>3. ~passes.ok /\ passes.count = eod.fails
    BY <1>1, <1>2, <1>5, <2>1, PassFacts DEF PassInv
  <2>4. passes' = [passes EXCEPT !.count = @ + 1]
    BY <1>1, <1>5
  <2>5. /\ passes'.day = Day(now) /\ passes'.count = eod'.fails + 1 /\ ~passes'.ok
    <3>1. passes \in PassRow /\ passes.count \in Nat
      BY PassFacts
    <3>2. passes'.day = passes.day /\ passes'.count = passes.count + 1 /\ passes'.ok = passes.ok
      BY <2>4, <3>1 DEF PassRow
    <3> QED BY <1>5, <2>2, <2>3, <3>2
  <2> QED BY <1>1, <1>2, <1>3, <1>4, <2>5, PassFacts DEF PassInv
<1>6. CASE passes.day # Day(now)
  <2>1. passes'.day = Day(now) /\ passes'.count = 1 /\ ~passes'.ok
    BY <1>1, <1>6
  <2>2. eod'.fails = 0
    BY <1>2, <1>6, PassFacts DEF PassInv
  <2> QED BY <1>1, <1>2, <1>3, <1>4, <2>1, <2>2, PassFacts DEF PassInv
<1> QED BY <1>5, <1>6

LEMMA PassKept == TimeInv /\ EodInv /\ EodInv' /\ PassInv /\ [Next]_vars => PassInv'
<1> SUFFICES ASSUME TimeInv, EodInv, EodInv', PassInv, [Next]_vars PROVE PassInv'
  OBVIOUS
<1>1. CASE RunEod
  BY <1>1, PassRun
<1>2. CASE EodSucceeds
  <2>1. /\ pc = "closing" /\ pc' = "loop" /\ eod'.done = Day(CalledAt) /\ eod'.date = eod.date
        /\ eod'.fails = 0
    BY <1>2, EodRows DEF EodSucceeds, TimeInv
  <2>2. passes'.day = passes.day /\ passes'.count = passes.count /\ passes'.ok
    BY <1>2, PassFacts DEF EodSucceeds, PassRow
  <2>3. Day(CalledAt) \in Nat
    BY <2>1, PassEndsEarly
  <2> QED BY <2>1, <2>2, <2>3, PassFacts DEF PassInv
<1>3. CASE EodFails
  <2>1. pc = "closing" /\ pc' = "loop" /\ passes' = passes
    BY <1>3 DEF EodFails, history
  <2>2. eod'.done = eod.done /\ eod'.date = eod.date /\ eod'.fails = eod.fails + 1
    BY <1>3, <2>1, EodRows DEF EodFails, TimeInv
  <2>3. Day(CalledAt) \in Nat /\ eod.date = Day(CalledAt)
    BY <2>1, PassEndsEarly DEF EodInv, Called
  <2> QED BY <2>1, <2>2, <2>3, PassFacts DEF PassInv
<1>4. CASE Crash
  <2>1. /\ pc' = "down" /\ eod' = NoEod /\ passes' = NoPasses
    BY <1>4 DEF Crash
  <2>2. NoEod.date = None /\ NoEod.fails = 0 /\ NoPasses.day = None /\ NoPasses.count = 0 /\ ~NoPasses.ok
    BY DEF NoEod, NoPasses
  <2> HIDE DEF NoEod, NoPasses
  <2> QED BY <2>1, <2>2, PassFacts DEF PassInv
<1>5. CASE WarmUp \/ StartScan \/ ScanSucceeds \/ ScanFails \/ RetryScan
  <2>1. pc # "closing" /\ pc' # "closing" /\ passes' = passes /\ (eod' = eod \/ eod' = Reset(now))
    BY <1>5 DEF WarmUp, StartScan, ScanSucceeds, ScanFails, RetryScan, SleepToSlot, history, memory
  <2> QED BY <2>1, PassCarried
<1>6. CASE SleepUntilOpen \/ WakeUp \/ Start
  <2>1. pc # "closing" /\ pc' # "closing" /\ passes' = passes /\ (eod' = eod \/ eod' = Reset(now))
    BY <1>6 DEF SleepUntilOpen, WakeUp, Start, history, memory
  <2> QED BY <2>1, PassCarried
<1>7. CASE Tick
  <2>1. /\ pc' = pc /\ passes' = passes /\ (eod' = eod \/ eod' = Reset(now))
        /\ (pc = "closing" => eod' = eod) /\ CalledAt' = CalledAt
    BY <1>7 DEF Tick, history, CalledAt
  <2> QED BY <2>1, PassCarried
<1>8. CASE UNCHANGED vars
  BY <1>8, PassCarried DEF vars, CalledAt
<1> QED BY <1>1, <1>2, <1>3, <1>4, <1>5, <1>6, <1>7, <1>8 DEF Next

LEMMA PassBegins == Init => PassInv
<1> SUFFICES ASSUME Init PROVE PassInv
  OBVIOUS
<1>1. NoPasses.day = None /\ NoPasses.count = 0 /\ ~NoPasses.ok /\ NoEod.fails = 0
  BY DEF NoPasses, NoEod
<1> HIDE DEF NoPasses, NoEod
<1> QED BY <1>1, SchedulerConstants DEF Init, PassInv

----
(* What the operator is told. *)

LEMMA HealthFacts ==
    ASSUME TimeInv
    PROVE  /\ now \in Nat /\ since \in Nat /\ deadline \in Nat /\ Midnight(now) \in Nat
           /\ health.success # None => health.success \in Nat /\ health.success <= now
           /\ health.attempt # None => /\ health.attempt \in Nat /\ health.attempt <= now
                                       /\ IsOpen(health.attempt)
           /\ pc \in {"scan", "backoff", "wait"} => health.attempt # None
           /\ LongestScan \in Nat
<1>1. health.success \in Nat \cup {None} /\ health.attempt \in Nat \cup {None}
  BY DEF TimeInv, SchedShape, HealthRow
<1>2. now \in Nat /\ since \in Nat /\ deadline \in Nat
  BY DEF TimeInv, SchedShape
<1>3. Midnight(now) \in Nat /\ LongestScan \in Nat
  BY <1>2, Clock, Tries
<1> QED BY <1>1, <1>2, <1>3 DEF TimeInv, SchedShape

\* The time a success that is not reported to be old is good for, at a time t of a session.
Fresh(t) == Later(health.success, Midnight(t) + Open) + Stale + Later(LongestScan, MinSeparation) + Interval

WatchInv ==
    health.success # None /\ health.alerted = None =>
        /\ pc \in {"scan", "backoff", "wait"} => health.attempt <= health.success + Stale
        /\ pc = "warmup" => deadline - 1 <= health.success + Stale
        /\ pc = "loop" /\ IsOpen(now) => now <= Fresh(now)

\* Wherever the loop is, the last look at the watchdog was not long ago.
LEMMA LookedInTime ==
    ASSUME TimeInv, WatchInv, pc # "down", IsOpen(now), health.success # None, health.alerted = None
    PROVE  now <= Fresh(now)
<1> DEFINE l == Later(LongestScan, MinSeparation)
           m == Later(health.success, Midnight(now) + Open)
<1>1. /\ health.success \in Nat /\ now \in Nat /\ deadline \in Nat /\ Midnight(now) \in Nat
      /\ LongestScan \in Nat
  BY HealthFacts
<1>2. l \in Nat /\ LongestScan <= l
  BY <1>1, SchedulerConstants DEF Later
<1>3. m \in Nat /\ health.success <= m /\ Midnight(now) + Open <= m
  BY <1>1, SchedulerConstants DEF Later
<1>4. Fresh(now) = m + Stale + l + Interval
  BY DEF Fresh
<1> HIDE DEF l, m
<1>5. CASE pc = "loop"
  BY <1>5 DEF WatchInv
<1>6. CASE pc \in {"scan", "backoff"}
  <2>1. health.attempt \in Nat /\ now <= health.attempt + LongestScan
    BY <1>6, UnderWay
  <2>2. health.attempt <= health.success + Stale
    BY <1>6 DEF WatchInv
  <2> QED BY <1>1, <1>2, <1>3, <1>4, <2>1, <2>2, SchedulerConstants
<1>7. CASE pc = "wait"
  <2>1. /\ health.attempt \in Nat /\ now <= deadline /\ deadline <= health.attempt + l + Interval
    BY <1>7, HealthFacts DEF TimeInv, Deadlines, l
  <2>2. health.attempt <= health.success + Stale
    BY <1>7 DEF WatchInv
  <2> QED BY <1>1, <1>2, <1>3, <1>4, <2>1, <2>2, SchedulerConstants
<1>8. CASE pc = "warmup"
  <2>1. now <= deadline /\ 1 <= deadline
    BY <1>8 DEF TimeInv, Deadlines
  <2>2. deadline - 1 <= health.success + Stale
    BY <1>8 DEF WatchInv
  <2> QED BY <1>1, <1>2, <1>3, <1>4, <2>1, <2>2, SchedulerConstants
<1>9. CASE pc = "closed"
  <2>1. now <= deadline /\ deadline <= Midnight(now) + Open
    BY <1>1, <1>9 DEF TimeInv, Deadlines
  <2> QED BY <1>1, <1>2, <1>3, <1>4, <2>1, SchedulerConstants
<1>10. CASE pc = "closing"
  BY <1>10, PassEndsEarly
<1> QED BY <1>5, <1>6, <1>7, <1>8, <1>9, <1>10 DEF TimeInv, SchedShape

\* Since when the operator knows that the loop works, at a time t of a session.
Seen(t) == Later(IF health.success = None THEN 0 ELSE health.success, Later(since, Midnight(t) + Open))

ToldInv ==
    ~health.streak /\ health.alerted = None =>
        /\ pc \in {"scan", "backoff"} =>
              health.attempt <= Seen(health.attempt) + Warmup + Interval + MinSeparation
        /\ pc = "wait" => health.success # None /\ deadline <= health.success + MinSeparation + Interval
        /\ pc = "loop" /\ IsOpen(now) => now <= Seen(now) + Warmup + Interval + MinSeparation

LEMMA Seens ==
    ASSUME TimeInv, NEW t \in Nat
    PROVE  /\ Midnight(t) \in Nat /\ Seen(t) \in Nat /\ since <= Seen(t) /\ Midnight(t) + Open <= Seen(t)
           /\ health.success # None => health.success <= Seen(t)
           /\ \A u \in Nat : t <= u => Seen(t) <= Seen(u)
<1>1. since \in Nat /\ Midnight(t) \in Nat /\ (health.success # None => health.success \in Nat)
  BY HealthFacts, Clock
<1>2. ASSUME NEW u \in Nat, t <= u PROVE Midnight(t) <= Midnight(u) /\ Midnight(u) \in Nat
  BY <1>2, Calendar, Clock
<1> DEFINE s == IF health.success = None THEN 0 ELSE health.success
<1>3. s \in Nat /\ (health.success # None => s = health.success)
  BY <1>1
<1> HIDE DEF s
<1>4. \A u \in Nat : Seen(u) = Later(s, Later(since, Midnight(u) + Open))
  BY DEF Seen, s
<1>5. /\ Seen(t) \in Nat /\ since <= Seen(t) /\ Midnight(t) + Open <= Seen(t) /\ s <= Seen(t)
  BY <1>1, <1>3, <1>4, SchedulerConstants DEF Later
<1>6. ASSUME NEW u \in Nat, t <= u PROVE Seen(t) <= Seen(u)
  <2>1. Midnight(t) <= Midnight(u) /\ Midnight(u) \in Nat
    BY <1>2, <1>6
  <2>2. /\ Seen(u) = Later(s, Later(since, Midnight(u) + Open))
        /\ Seen(t) = Later(s, Later(since, Midnight(t) + Open))
    BY <1>4
  <2> QED BY <1>1, <1>3, <2>1, <2>2, SchedulerConstants DEF Later
<1> QED BY <1>1, <1>3, <1>5, <1>6

LEMMA ToldInTime ==
    ASSUME TimeInv, ToldInv, pc # "down", IsOpen(now), ~health.streak, health.alerted = None
    PROVE  /\ pc \notin {"scan", "backoff"} => now <= Seen(now) + Warmup + Interval + MinSeparation
           /\ now <= Seen(now) + Warmup + Interval + MinSeparation + LongestScan
<1>1. /\ now \in Nat /\ deadline \in Nat /\ Midnight(now) \in Nat /\ LongestScan \in Nat
      /\ health.success # None => health.success \in Nat
  BY HealthFacts
<1>2. /\ Seen(now) \in Nat /\ Midnight(now) + Open <= Seen(now)
      /\ health.success # None => health.success <= Seen(now)
  BY <1>1, Seens
<1>3. CASE pc = "loop"
  <2>1. now <= Seen(now) + Warmup + Interval + MinSeparation
    BY <1>3 DEF ToldInv
  <2> QED BY <1>1, <1>2, <2>1, SchedulerConstants
<1>4. CASE pc \in {"scan", "backoff"}
  <2>1. health.attempt \in Nat /\ health.attempt <= now /\ now <= health.attempt + LongestScan
    BY <1>4, UnderWay
  <2>2. health.attempt <= Seen(health.attempt) + Warmup + Interval + MinSeparation
    BY <1>4 DEF ToldInv
  <2>3. Seen(health.attempt) <= Seen(now) /\ Seen(health.attempt) \in Nat
    BY <1>1, <2>1, Seens
  <2> QED BY <1>1, <1>2, <1>4, <2>1, <2>2, <2>3, SchedulerConstants
<1>5. CASE pc = "wait"
  <2>1. /\ now <= deadline /\ health.success # None
        /\ deadline <= health.success + MinSeparation + Interval
    BY <1>5 DEF TimeInv, Deadlines, ToldInv
  <2> QED BY <1>1, <1>2, <2>1, SchedulerConstants
<1>6. CASE pc = "warmup"
  <2>1. /\ now <= deadline /\ 1 <= deadline /\ deadline - 1 <= now
        /\ TimeOfDay(deadline - 1) < Open + Warmup
    BY <1>6 DEF TimeInv, Deadlines
  <2>2. deadline - 1 \in Nat
    BY <1>1, <2>1
  <2>3. /\ deadline - 1 = Midnight(deadline - 1) + TimeOfDay(deadline - 1)
        /\ TimeOfDay(deadline - 1) \in Nat /\ Midnight(deadline - 1) \in Nat
        /\ Midnight(deadline - 1) <= Midnight(now)
    BY <1>1, <2>1, <2>2, Clock, Calendar
  <2>4. now <= Midnight(now) + Open + Warmup
    <3> DEFINE v == deadline - 1
    <3>1. v \in Nat /\ now <= v + 1
      BY <1>1, <2>1, <2>2
    <3>2. v = Midnight(v) + TimeOfDay(v) /\ TimeOfDay(v) \in Nat /\ Midnight(v) \in Nat
          /\ Midnight(v) <= Midnight(now) /\ TimeOfDay(v) < Open + Warmup
      BY <2>1, <2>3
    <3> HIDE DEF v
    <3> QED BY <1>1, <3>1, <3>2, SchedulerConstants
  <2> QED BY <1>1, <1>2, <2>4, SchedulerConstants
<1>7. CASE pc = "closed"
  <2>1. now <= deadline /\ deadline <= Midnight(now) + Open
    BY <1>1, <1>7 DEF TimeInv, Deadlines
  <2> QED BY <1>1, <1>2, <2>1, SchedulerConstants
<1>8. CASE pc = "closing"
  BY <1>8, PassEndsEarly
<1> QED BY <1>3, <1>4, <1>5, <1>6, <1>7, <1>8 DEF TimeInv, SchedShape

LEMMA SilenceKept ==
    ASSUME TimeInv, WatchInv, ToldInv, [Next]_vars
    PROVE  WatchInv' /\ ToldInv'
<1>0. /\ now \in Nat /\ deadline \in Nat /\ LongestScan \in Nat /\ SchedShape
      /\ health.success # None => health.success \in Nat
      /\ health.attempt # None => health.attempt \in Nat /\ health.attempt <= now
  BY HealthFacts DEF TimeInv
<1>1. CASE RunEod \/ SleepUntilOpen \/ Crash
  <2>1. pc' = "closing" \/ pc' = "closed" \/ pc' = "down"
    BY <1>1 DEF RunEod, SleepUntilOpen, Crash
  <2> QED BY <2>1 DEF WatchInv, ToldInv
<1>2. CASE EodSucceeds \/ EodFails
  <2>1. pc = "closing" /\ pc' = "loop" /\ now' = now
    BY <1>2 DEF EodSucceeds, EodFails
  <2>2. ~IsOpen(now)'
    BY <2>1, PassEndsEarly DEF IsOpen, Day, TimeOfDay
  <2> QED BY <2>1, <2>2 DEF WatchInv, ToldInv
<1>3. CASE WarmUp
  <2>1. pc' = "warmup" /\ deadline' = now + 1 /\ health' = Watched
    BY <1>3 DEF WarmUp
  <2>2. health'.success # None /\ health'.alerted = None => now <= health'.success + Stale
    BY <1>0, <2>1, WatchedRow, SchedulerConstants
  <2>3. deadline' - 1 = now
    BY <1>0, <2>1
  <2> QED BY <2>1, <2>2, <2>3 DEF WatchInv, ToldInv
<1>4. CASE StartScan
  <2>1. /\ pc = "loop" /\ pc' = "scan" /\ IsOpen(now) /\ health' = [Watched EXCEPT !.attempt = now]
        /\ UNCHANGED <<now, since>>
    BY <1>4 DEF StartScan, history
  <2>2. /\ health'.attempt = now /\ health'.success = health.success /\ health'.streak = health.streak
        /\ health'.alerted = Watched.alerted
    BY <1>0, <2>1, HealthRows
  <2>3. Watched.alerted = None => health.alerted = None /\ (health.success # None => now <= health.success + Stale)
    BY <1>0, WatchedRow, SchedulerConstants
  <2>4. WatchInv'
    BY <2>1, <2>2, <2>3 DEF WatchInv
  <2>5. ~health.streak /\ health.alerted = None => now <= Seen(now) + Warmup + Interval + MinSeparation
    BY <2>1 DEF ToldInv
  <2>6. Seen(health.attempt)' = Seen(now)
    BY <2>1, <2>2 DEF Seen, Midnight, Day
  <2>7. ToldInv'
    BY <2>1, <2>2, <2>3, <2>5, <2>6 DEF ToldInv
  <2> QED BY <2>4, <2>7
<1>5. CASE ScanSucceeds
  <2>1. /\ pc = "scan" /\ pc' = "wait" /\ deadline' = NextSlot
        /\ health' = [health EXCEPT !.success = now, !.alerted = None, !.streak = FALSE]
    BY <1>5 DEF ScanSucceeds, SleepToSlot
  <2>2. health'.attempt = health.attempt /\ health'.success = now
    BY <1>0, <2>1, HealthRows
  <2>3. health.attempt \in Nat /\ health.attempt <= now
    BY <2>1, UnderWay
  <2>4. NextSlot \in Nat /\ NextSlot < Later(now + 1, health.attempt + MinSeparation) + Interval
    BY <1>0, <2>3, SlotIsNext
  <2>5. NextSlot <= now + MinSeparation + Interval
    BY <1>0, <2>3, <2>4, SchedulerConstants DEF Later
  <2>6. health.attempt <= now + Stale /\ now # None
    BY <1>0, <2>3, SchedulerConstants
  <2> QED BY <2>1, <2>2, <2>5, <2>6 DEF WatchInv, ToldInv
<1>6. CASE ScanFails
  <2>1. pc = "scan" /\ UNCHANGED <<now, since>>
    BY <1>6 DEF ScanFails, history
  <2>2. CASE retry < 3
    <3>1. pc' = "backoff" /\ health' = health
      BY <1>6, <2>2 DEF ScanFails
    <3>2. Seen(health.attempt)' = Seen(health.attempt)
      BY <2>1, <3>1 DEF Seen, Midnight, Day
    <3> QED BY <2>1, <3>1, <3>2 DEF WatchInv, ToldInv
  <2>3. CASE ~(retry < 3)
    <3>1. pc' = "wait" /\ health' = [health EXCEPT !.streak = TRUE]
      BY <1>6, <2>3 DEF ScanFails, SleepToSlot
    <3>2. /\ health'.success = health.success /\ health'.attempt = health.attempt
          /\ health'.streak /\ health'.alerted = health.alerted
      BY <1>0, <3>1, HealthRows
    <3> QED BY <2>1, <3>1, <3>2 DEF WatchInv, ToldInv
  <2> QED BY <2>2, <2>3
<1>7. CASE RetryScan
  <2>1. pc = "backoff" /\ pc' = "scan" /\ UNCHANGED <<health, since>>
    BY <1>7 DEF RetryScan, memory, history
  <2>2. Seen(health.attempt)' = Seen(health.attempt)
    BY <2>1 DEF Seen, Midnight, Day
  <2> QED BY <2>1, <2>2 DEF WatchInv, ToldInv
<1>8. CASE WakeUp
  <2>1. pc \in {"wait", "closed", "warmup"} /\ pc' = "loop" /\ UNCHANGED <<now, health, since>>
    BY <1>8 DEF WakeUp, history
  <2>2. IsOpen(now)' = IsOpen(now) /\ Fresh(now)' = Fresh(now) /\ Seen(now)' = Seen(now)
    BY <2>1 DEF IsOpen, Fresh, Seen, Midnight, Day, TimeOfDay
  <2>3. IsOpen(now) /\ health.success # None /\ health.alerted = None => now <= Fresh(now)
    BY <2>1, LookedInTime
  <2>4. IsOpen(now) /\ ~health.streak /\ health.alerted = None =>
          now <= Seen(now) + Warmup + Interval + MinSeparation
    BY <2>1, ToldInTime
  <2> QED BY <2>1, <2>2, <2>3, <2>4 DEF WatchInv, ToldInv
<1>9. CASE Tick \/ UNCHANGED vars
  <2>1. /\ UNCHANGED <<pc, deadline, health, since>> /\ (pc = "loop" => now' = now)
    BY <1>9 DEF Tick, vars, history
  <2>2. Seen(health.attempt)' = Seen(health.attempt)
    BY <2>1 DEF Seen, Midnight, Day
  <2>3. pc = "loop" => IsOpen(now)' = IsOpen(now) /\ Fresh(now)' = Fresh(now) /\ Seen(now)' = Seen(now)
    BY <2>1 DEF IsOpen, Fresh, Seen, Midnight, Day, TimeOfDay
  <2> QED BY <2>1, <2>2, <2>3 DEF WatchInv, ToldInv
<1>10. CASE Start
  <2>1. pc' = "loop" /\ since' = now /\ UNCHANGED <<now, health>> /\ health.success = None
    BY <1>10, <1>0 DEF Start, memory, SchedShape, NoHealth
  <2>2. Seen(now)' = Later(0, Later(now, Midnight(now) + Open))
    BY <2>1 DEF Seen, Midnight, Day
  <2>3. Midnight(now) \in Nat
    BY <1>0, Clock
  <2>4. now <= Later(0, Later(now, Midnight(now) + Open)) + Warmup + Interval + MinSeparation
    BY <1>0, <2>3, SchedulerConstants DEF Later
  <2> QED BY <2>1, <2>2, <2>4 DEF WatchInv, ToldInv
<1> QED BY <1>1, <1>2, <1>3, <1>4, <1>5, <1>6, <1>7, <1>8, <1>9, <1>10 DEF Next

LEMMA SilenceBegins == Init => WatchInv /\ ToldInv
<1> SUFFICES ASSUME Init PROVE WatchInv /\ ToldInv
  OBVIOUS
<1>1. TimeInv /\ pc = "loop" /\ since = now /\ health = NoHealth /\ NoHealth.success = None
  BY TimeBegins DEF Init, NoHealth
<1>2. WatchInv
  BY <1>1 DEF WatchInv
<1>3. now \in Nat /\ Seen(now) \in Nat /\ now <= Seen(now)
  BY <1>1, HealthFacts, Seens
<1>4. now <= Seen(now) + Warmup + Interval + MinSeparation
  BY <1>3, SchedulerConstants
<1>5. ToldInv
  BY <1>1, <1>4 DEF ToldInv
<1> QED BY <1>2, <1>5

LEMMA SilenceIsReported == TimeInv /\ WatchInv /\ ToldInv => SilenceReported
<1> SUFFICES ASSUME TimeInv, WatchInv, ToldInv PROVE WatchdogNotices /\ OperatorTold
  BY DEF SilenceReported
<1>1. /\ now \in Nat /\ Seen(now) \in Nat /\ LongestScan \in Nat /\ Midnight(now) \in Nat
      /\ health.success # None => health.success \in Nat
  BY HealthFacts, Seens
<1>2. WatchdogNotices
  <2>1. SUFFICES ASSUME pc # "down", IsOpen(now), health.success # None, health.alerted = None
                 PROVE  ~(now > Later(health.success, DayLength * Day(now) + Open)
                                + Stale + Later(LongestScan, MinSeparation) + Interval)
    BY DEF WatchdogNotices
  <2>2. now <= Fresh(now)
    BY <2>1, LookedInTime
  <2>3. Fresh(now) = Later(health.success, DayLength * Day(now) + Open)
                     + Stale + Later(LongestScan, MinSeparation) + Interval
    BY DEF Fresh, Midnight
  <2>4. Fresh(now) \in Nat
    BY <1>1, <2>1, SchedulerConstants DEF Fresh, Later
  <2> QED BY <1>1, <2>2, <2>3, <2>4
<1>3. OperatorTold
  <2>1. SUFFICES ASSUME pc # "down", IsOpen(now), ~health.streak, health.alerted = None
                 PROVE  ~(now > Seen(now) + Warmup + Interval + MinSeparation + LongestScan)
    BY DEF OperatorTold, Seen, Midnight
  <2>2. now <= Seen(now) + Warmup + Interval + MinSeparation + LongestScan
    BY <2>1, ToldInTime
  <2>3. Seen(now) + Warmup + Interval + MinSeparation + LongestScan \in Nat
    BY <1>1, SchedulerConstants
  <2> QED BY <1>1, <2>2, <2>3
<1> QED BY <1>2, <1>3

----
(* Scans are apart. *)

\* Away from a scan and the sleep after it, what is open now or later is far enough
\* from the last scan.
ApartInv ==
    pc \in {"loop", "closed", "warmup", "closing"} /\ health.attempt # None =>
        \A t \in Nat : now <= t /\ IsOpen(t) => health.attempt + MinSeparation <= t

\* A scan and the next session are a night apart.
LEMMA NightApart ==
    ASSUME NEW a \in Nat, NEW t \in Nat, NEW u \in Nat, a <= t, t <= u,
           IsOpen(a), IsOpen(u), Eod <= TimeOfDay(t)
    PROVE  a + MinSeparation <= u
<1>1. /\ a = Midnight(a) + TimeOfDay(a) /\ TimeOfDay(a) < Close /\ TimeOfDay(a) \in Nat
      /\ Midnight(a) \in Nat /\ Midnight(a) <= Midnight(t)
  BY Clock, Calendar, SchedulerConstants DEF IsOpen
<1>2. /\ t = Midnight(t) + TimeOfDay(t) /\ TimeOfDay(t) \in Nat /\ Midnight(t) \in Nat
      /\ Day(t) \in Nat /\ Day(u) \in Nat
  BY Clock
<1>3. /\ u = Midnight(u) + TimeOfDay(u) /\ Open <= TimeOfDay(u) /\ TimeOfDay(u) < Close
      /\ TimeOfDay(u) \in Nat /\ Midnight(u) \in Nat
  BY Clock, SchedulerConstants DEF IsOpen
<1>4. /\ Day(t) <= Day(u) /\ (Day(t) = Day(u) => Midnight(t) = Midnight(u))
      /\ (Day(t) < Day(u) => Midnight(t) + DayLength <= Midnight(u))
  BY Calendar
<1>5. Day(t) # Day(u)
  BY <1>2, <1>3, <1>4, SchedulerConstants
<1>6. Midnight(t) + DayLength <= Midnight(u)
  <2>1. Day(t) < Day(u)
    BY ONLY <1>2, <1>4, <1>5
  <2> QED BY <1>4, <2>1
<1> QED BY <1>1, <1>2, <1>3, <1>6, SchedulerConstants

LEMMA ApartKept == TimeInv /\ ApartInv /\ [Next]_vars => ApartInv'
<1> SUFFICES ASSUME TimeInv, ApartInv, [Next]_vars PROVE ApartInv'
  OBVIOUS
<1>0. now \in Nat /\ deadline \in Nat /\ SchedShape /\ (health.attempt # None => health.attempt \in Nat)
  BY HealthFacts DEF TimeInv
<1>1. CASE RunEod \/ EodSucceeds \/ EodFails \/ SleepUntilOpen
  <2>1. pc \in {"loop", "closing"} /\ UNCHANGED <<now, health>>
    BY <1>1 DEF RunEod, EodSucceeds, EodFails, SleepUntilOpen, history
  <2> QED BY <2>1 DEF ApartInv, IsOpen
<1>2. CASE WarmUp
  <2>1. pc = "loop" /\ now' = now /\ health' = Watched
    BY <1>2 DEF WarmUp
  <2>2. health'.attempt = health.attempt
    BY <1>0, <2>1, WatchedRow
  <2> QED BY <2>1, <2>2 DEF ApartInv, IsOpen
<1>3. CASE StartScan \/ ScanSucceeds \/ ScanFails \/ RetryScan \/ Crash
  <2>1. pc' \in {"scan", "wait", "backoff", "down"}
    BY <1>3 DEF StartScan, ScanSucceeds, ScanFails, RetryScan, Crash, SleepToSlot
  <2> QED BY <2>1 DEF ApartInv
<1>4. CASE WakeUp
  <2>1. pc \in {"wait", "closed", "warmup"} /\ UNCHANGED <<now, health>> /\ (now >= deadline \/ Interrupts)
    BY <1>4 DEF WakeUp, history
  <2>2. CASE pc # "wait"
    BY <2>1, <2>2 DEF ApartInv, IsOpen
  <2>3. CASE pc = "wait"
    <3>1. /\ health.attempt \in Nat /\ health.attempt <= now /\ IsOpen(health.attempt)
          /\ health.attempt + MinSeparation <= deadline
      BY <2>3, HealthFacts DEF TimeInv, Deadlines
    <3>2. ASSUME NEW t \in Nat, now <= t, IsOpen(t) PROVE health.attempt + MinSeparation <= t
      <4>1. CASE now >= deadline
        BY <1>0, <3>1, <3>2, <4>1, SchedulerConstants
      <4>2. CASE Interrupts
        <5>1. Eod <= TimeOfDay(now)
          BY <1>0, <4>2, Clock, SchedulerConstants DEF Interrupts, Pending
        <5> QED BY <1>0, <3>1, <3>2, <5>1, NightApart
      <4> QED BY <2>1, <4>1, <4>2
    <3> QED BY <2>1, <3>2 DEF ApartInv, IsOpen
  <2> QED BY <2>2, <2>3
<1>5. CASE Tick
  <2>1. now' = now + 1 /\ UNCHANGED <<pc, health>>
    BY <1>5 DEF Tick, history
  <2>2. \A t \in Nat : now' <= t => now <= t
    BY <1>0, <2>1
  <2> QED BY <2>1, <2>2 DEF ApartInv, IsOpen
<1>6. CASE Start
  <2>1. UNCHANGED health /\ health.attempt = None
    BY <1>0, <1>6 DEF Start, memory, SchedShape, NoHealth
  <2> QED BY <2>1 DEF ApartInv
<1>7. CASE UNCHANGED vars
  BY <1>7 DEF vars, ApartInv, IsOpen
<1> QED BY <1>1, <1>2, <1>3, <1>4, <1>5, <1>6, <1>7 DEF Next

\* The scan that starts is the one that the invariant speaks of.
LEMMA ApartStep ==
    ASSUME TimeInv, ApartInv, [Next]_vars,
           health.attempt # None, health'.attempt \notin {None, health.attempt}
    PROVE  health'.attempt - health.attempt >= MinSeparation
<1>0. now \in Nat /\ SchedShape /\ health.attempt \in Nat
  BY HealthFacts DEF TimeInv
<1>1. CASE StartScan
  <2>1. pc = "loop" /\ IsOpen(now) /\ health' = [Watched EXCEPT !.attempt = now]
    BY <1>1 DEF StartScan
  <2>2. health'.attempt = now
    BY <1>0, <2>1, HealthRows
  <2>3. health.attempt + MinSeparation <= now
    <3>1. now <= now
      BY <1>0
    <3> QED BY <1>0, <2>1, <3>1 DEF ApartInv
  <2> QED BY <1>0, <2>2, <2>3, SchedulerConstants
<1>2. CASE WarmUp
  BY <1>0, <1>2, WatchedRow DEF WarmUp
<1>3. CASE ScanSucceeds \/ ScanFails
  <2>1. \/ health' = health
        \/ health' = [health EXCEPT !.success = now, !.alerted = None, !.streak = FALSE]
        \/ health' = [health EXCEPT !.streak = TRUE]
    BY <1>3 DEF ScanSucceeds, ScanFails
  <2>2. health'.attempt = health.attempt
    BY <1>0, <2>1, HealthRows
  <2> QED BY <2>2
<1>4. CASE Crash
  BY <1>4 DEF Crash, NoHealth
<1>5. CASE RunEod \/ EodSucceeds \/ EodFails \/ RetryScan \/ SleepUntilOpen \/ WakeUp \/ Tick \/ Start
           \/ UNCHANGED vars
  <2>1. health' = health
    BY <1>5 DEF RunEod, EodSucceeds, EodFails, RetryScan, SleepUntilOpen, WakeUp, Tick, Start, vars,
                memory, history
  <2> QED BY <2>1
<1> QED BY <1>1, <1>2, <1>3, <1>4, <1>5 DEF Next

----
SchedSafe == TimeInv /\ EodInv /\ PassInv /\ WatchInv /\ ToldInv /\ ApartInv

THEOREM SchedulerInvariant == Spec => []SchedSafe
<1>1. Init => SchedSafe
  <2>1. Init => ApartInv
    <3>1. NoHealth.attempt = None
      BY DEF NoHealth
    <3> HIDE DEF NoHealth
    <3> QED BY <3>1 DEF Init, ApartInv
  <2> QED BY <2>1, TimeBegins, EodBegins, PassBegins, SilenceBegins DEF SchedSafe
<1>2. SchedSafe /\ [Next]_vars => SchedSafe'
  <2>1. SchedSafe /\ [Next]_vars => TimeInv' /\ EodInv'
    BY TimeKept, EodKept DEF SchedSafe
  <2> QED BY <2>1, PassKept, SilenceKept, ApartKept DEF SchedSafe
<1> QED BY <1>1, <1>2, PTL DEF Spec

\* The end of every day is settled within the bound, and never twice: the loop looks
\* for the pass at every station, its tries are counted on the day they belong to, and
\* a success ends them (_sleep_until_next_session, _pending_eod_close, _run_eod_close).
THEOREM EndOfDayHolds == Spec => []EodSettledOnce
<1>1. SchedSafe => EodSettledOnce
  <2>1. SchedSafe => EodSettled
    BY EodIsSettled DEF SchedSafe
  <2>2. SchedSafe => EodBounded
    BY DEF SchedSafe, PassInv, EodBounded
  <2> QED BY <2>1, <2>2 DEF EodSettledOnce
<1> QED BY <1>1, SchedulerInvariant, PTL

\* A bot that no longer scans is reported within the bounds, whether it ever scanned or
\* not (_check_watchdog, run_loop).
THEOREM SilenceHolds == Spec => []SilenceReported
<1>1. SchedSafe => SilenceReported
  BY SilenceIsReported DEF SchedSafe
<1> QED BY <1>1, SchedulerInvariant, PTL

\* Two scans of one process start at least MinSeparation apart, over every sleep, pass
\* and night (run_loop).
THEOREM ScansApartHolds == Spec => ScansSeparated
<1>1. SchedSafe /\ [Next]_vars =>
        [health.attempt # None /\ health'.attempt \notin {None, health.attempt}
         => health'.attempt - health.attempt >= MinSeparation]_vars
  BY ApartStep DEF SchedSafe
<1> QED
  BY <1>1, SchedulerInvariant, PTL DEF Spec, ScansSeparated
=============================================================================
