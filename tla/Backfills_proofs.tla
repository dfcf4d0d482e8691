---------------------------- MODULE Backfills_proofs ----------------------------
(***************************************************************************)
(* The rows that the scripts write beside the running bot, for any number of  *)
(* signals, trades, days and runs of the scripts; the windows that a frame   *)
(* is cut into, for every frame and scheme; what the searches end with; and  *)
(* what a load of the meta-model gives out.                                 *)
(***************************************************************************)
EXTENDS Backfills, WalkForward, FiniteSetTheorems, WellFoundedInduction, TLAPS

\* Less than on the natural numbers, of which the library knows that it is well-founded.
Below == {ss \in Nat \X Nat : ss[1] < ss[2]}

LEMMA LeastOf ==
    ASSUME NEW S \in SUBSET Nat, S # {}
    PROVE  \E x \in S : \A y \in S : x <= y
<1>1. IsWellFoundedOn(Below, Nat)
  BY NatLessThanWellFounded, Zenon DEF Below, OpToRel
<1>2. PICK x \in S : \A y \in S : ~(<<y, x>> \in Below)
  BY <1>1, WFMin
<1>3. ASSUME NEW y \in S PROVE x <= y
  <2>1. x \in Nat /\ y \in Nat /\ <<y, x>> \in Nat \X Nat
    OBVIOUS
  <2>2. ~(<<y, x>>[1] < <<y, x>>[2])
    BY <1>2, <2>1 DEF Below
  <2> QED BY <2>1, <2>2
<1> QED BY <1>3

----
(* The backfilled outcomes: a decision made on bars that are over is the    *)
(* decision on every longer history, and what the live tracker wrote is     *)
(* replaced only where the script had already read the row.                 *)
\* What was decided on some bars is decided on more of them.
LEMMA DecisionStays ==
    ASSUME NEW s, NEW day \in Nat, NEW p \in Seq(DayBars), NEW q \in Seq(DayBars),
           Len(p) <= Len(q), \A i \in 1..Len(p) : p[i] = q[i],
           Replayed(s, day, p) # Pending
    PROVE  Replayed(s, day, q) = Replayed(s, day, p)
<1> DEFINE entry == day + 1
           end == entry + TimeoutBars - 1
           last(bs) == IF end < Len(bs) THEN end ELSE Len(bs)
           exits(bs) == {i \in entry..last(bs) : ExitIn(s, bs[i], i = entry) # Pending}
           firstExit(bs) == CHOOSE i \in exits(bs) : \A j \in exits(bs) : i <= j
<1>1. entry \in Nat /\ end \in Nat /\ entry <= end /\ Len(p) \in Nat /\ Len(q) \in Nat /\ entry >= 1
  BY OutcomeAssumption
<1>2. ASSUME NEW bs
      PROVE  Replayed(s, day, bs) =
                IF ~Geometric(s) THEN NotTracked
                ELSE IF Len(bs) < entry THEN Pending
                ELSE IF AtStop(s, bs[entry].o) \/ AtTarget(s, bs[entry].o) THEN NotTracked
                ELSE IF exits(bs) # {} THEN ExitIn(s, bs[firstExit(bs)], firstExit(bs) = entry)
                ELSE IF last(bs) < end THEN Pending
                ELSE [outcome |-> "TIMEOUT", at |-> bs[last(bs)].c]
  BY DEF Replayed
<1> HIDE DEF entry, end
<1>3. CASE ~Geometric(s)
  BY <1>2, <1>3
<1>4. CASE Geometric(s)
  <2>1. entry <= Len(p)
    BY <1>1, <1>2, <1>4
  <2>2. p[entry] = q[entry] /\ ~(Len(q) < entry) /\ ~(Len(p) < entry)
    BY <1>1, <2>1
  <2>3. CASE AtStop(s, p[entry].o) \/ AtTarget(s, p[entry].o)
    BY <1>2, <1>4, <2>2, <2>3
  <2>4. CASE ~(AtStop(s, p[entry].o) \/ AtTarget(s, p[entry].o))
    <3>1. last(p) \in Nat /\ last(q) \in Nat /\ last(p) <= last(q) /\ last(p) <= Len(p) /\ last(p) <= end
          /\ last(q) <= end /\ last(q) <= Len(q)
      BY <1>1
    <3>2. \A i \in entry..last(p) : p[i] = q[i]
      BY <1>1, <3>1
    <3>3. CASE exits(p) # {}
      <4>1. PICK T : T = exits(p)
        OBVIOUS
      <4>2. \A i \in exits(p) : i \in Nat
        BY <1>1, <3>1
      <4>3. PICK m \in exits(p) : \A j \in exits(p) : m <= j
        BY <3>3, <4>2, LeastOf
      <4>4. m \in exits(q)
        BY <1>1, <3>1, <3>2, <4>3
      <4>5. \A j \in exits(q) : m <= j
        <5> SUFFICES ASSUME NEW j \in exits(q) PROVE m <= j
          OBVIOUS
        <5>1. CASE j <= last(p)
          <6>1. j \in exits(p)
            BY <1>1, <3>1, <3>2, <5>1
          <6> QED BY <4>3, <6>1
        <5>2. CASE ~(j <= last(p))
          BY <1>1, <3>1, <4>3, <5>2
        <5> QED BY <5>1, <5>2
      <4>6. firstExit(p) \in exits(p) /\ firstExit(p) <= m
        BY <4>3
      <4>7. firstExit(p) = m
        BY <1>1, <3>1, <4>3, <4>6
      <4>8. firstExit(q) \in exits(q) /\ firstExit(q) <= m
        BY <4>4, <4>5
      <4>9. firstExit(q) = m
        BY <1>1, <3>1, <4>5, <4>4, <4>8
      <4>10. p[m] = q[m]
        BY <3>2, <4>3
      <4>11. exits(q) # {}
        BY <4>4
      <4> HIDE DEF exits, firstExit, last
      <4>12. Replayed(s, day, p) = ExitIn(s, p[m], m = entry)
        BY <1>2, <1>4, <2>2, <2>4, <3>3, <4>7
      <4>13. Replayed(s, day, q) = ExitIn(s, q[m], m = entry)
        BY <1>2, <1>4, <2>2, <2>4, <4>9, <4>11
      <4> QED BY <4>10, <4>12, <4>13
    <3>4. CASE exits(p) = {}
      <4>1. ~(last(p) < end)
        <5> HIDE DEF exits, firstExit, last
        <5> QED BY <1>2, <1>4, <2>2, <2>4, <3>4
      <4>2. last(p) = end /\ last(q) = end
        BY <1>1, <3>1, <4>1
      <4>3. exits(q) = {}
        BY <3>2, <3>4, <4>2
      <4>4. p[end] = q[end]
        BY <1>1, <3>2, <4>2
      <4> HIDE DEF exits, firstExit, last
      <4>5. Replayed(s, day, p) = [outcome |-> "TIMEOUT", at |-> p[end].c]
        BY <1>2, <1>4, <2>2, <2>4, <3>4, <4>1, <4>2
      <4>6. ~(last(q) < end)
        BY <1>1, <4>2
      <4>7. Replayed(s, day, q) = [outcome |-> "TIMEOUT", at |-> q[end].c]
        BY <1>2, <1>4, <2>2, <2>4, <4>2, <4>3, <4>6
      <4> QED BY <4>4, <4>5, <4>7
    <3> QED BY <3>3, <3>4
  <2> QED BY <2>3, <2>4
<1> QED BY <1>3, <1>4

Writers == {"absent", "none", "live_tracker", "backfill_daily"}
Decided ==
    {Pending, NotTracked, Tracked} \cup [outcome : {"STOP_HIT", "TARGET_HIT", "TIMEOUT"}, at : Nat]
ReplayRow == [setup : Setups \cup {NoSetup}, day : Nat, decision : Decided, source : Writers]
BackfillRow ==
    [pc : {"idle", "loaded", "decided"}, loaded : SUBSET SignalIds, seen : Seq(DayBars), partial : BOOLEAN]

OutcomeTyped ==
    /\ quotes \in Seq(DayBars) /\ forming \in DayBars \cup {NoBar}
    /\ signal \in [SignalIds -> ReplayRow] /\ backfill \in BackfillRow
    /\ trackedNow \subseteq SignalIds

\* The bars of days that are over, of those the script has.
DaysOver(b) == IF b.partial THEN SubSeq(b.seen, 1, Len(b.seen) - 1) ELSE b.seen
FinalBars ==
    /\ backfill.partial => backfill.seen # <<>>
    /\ Len(DaysOver(backfill)) <= Len(quotes)
    /\ \A k \in 1..Len(DaysOver(backfill)) : DaysOver(backfill)[k] = quotes[k]

\* A decision of the script is the one that the days until now lead to.
FinalScores ==
    \A i \in SignalIds : (signal[i].source = "backfill_daily" /\ i \notin early) =>
        /\ signal[i].decision # Pending
        /\ signal[i].decision = Replayed(signal[i].setup, signal[i].day, quotes)

\* A row of the live tracker that the script holds was written after the script had read it.
LiveRows ==
    \A i \in SignalIds :
        /\ i \in trackedNow \cup backfill.loaded => signal[i].source # "absent"
        /\ i \in trackedNow /\ i \notin crossed =>
                signal[i].source = "live_tracker" /\ signal[i].decision = Tracked
        /\ i \in trackedNow /\ i \in backfill.loaded => i \in crossed

FaithInv == OutcomeTyped /\ FinalBars /\ FinalScores /\ LiveRows

LEMMA SetupsAre ==
    ASSUME NEW s \in Setups \cup {NoSetup}
    PROVE  s.stop \in Nat /\ s.target \in Nat
<1>1. CASE s \in Setups
  BY <1>1, OutcomeAssumption
<1>2. CASE s = NoSetup
  BY <1>2 DEF NoSetup
<1> QED BY <1>1, <1>2

LEMMA ExitIs ==
    ASSUME NEW s \in Setups \cup {NoSetup}, NEW b \in DayBars, NEW first
    PROVE  ExitIn(s, b, first) \in Decided
<1>1. s.stop \in Nat /\ s.target \in Nat /\ b.o \in Nat
  BY SetupsAre, OutcomeAssumption
<1>2. \A o \in {"STOP_HIT", "TARGET_HIT"} : \A p \in Nat : [outcome |-> o, at |-> p] \in Decided
  BY DEF Decided
<1>3. Pending \in Decided
  BY DEF Decided
<1> QED BY <1>1, <1>2, <1>3 DEF ExitIn

LEMMA ReplayedIs ==
    ASSUME NEW s \in Setups \cup {NoSetup}, NEW day \in Nat, NEW bs \in Seq(DayBars)
    PROVE  Replayed(s, day, bs) \in Decided
<1> DEFINE entry == day + 1
           end == entry + TimeoutBars - 1
           last == IF end < Len(bs) THEN end ELSE Len(bs)
           exits == {i \in entry..last : ExitIn(s, bs[i], i = entry) # Pending}
           firstExit == CHOOSE i \in exits : \A j \in exits : i <= j
<1>1. entry \in Nat /\ end \in Nat /\ entry <= end /\ Len(bs) \in Nat /\ entry >= 1
  BY OutcomeAssumption
<1>2. Replayed(s, day, bs) =
                IF ~Geometric(s) THEN NotTracked
                ELSE IF Len(bs) < entry THEN Pending
                ELSE IF AtStop(s, bs[entry].o) \/ AtTarget(s, bs[entry].o) THEN NotTracked
                ELSE IF exits # {} THEN ExitIn(s, bs[firstExit], firstExit = entry)
                ELSE IF last < end THEN Pending
                ELSE [outcome |-> "TIMEOUT", at |-> bs[last].c]
  BY DEF Replayed
<1> HIDE DEF entry, end
<1>3. last \in Nat /\ last <= Len(bs)
  BY <1>1
<1>4. \A i \in exits : i \in 1..Len(bs)
  BY <1>1, <1>3
<1>5. ASSUME exits # {}
      PROVE  ExitIn(s, bs[firstExit], firstExit = entry) \in Decided
  <2>1. \A i \in exits : i \in Nat
    BY <1>4
  <2>2. PICK m \in exits : \A j \in exits : m <= j
    BY <1>5, <2>1, LeastOf
  <2>3. firstExit \in exits
    BY <2>2
  <2> HIDE DEF firstExit
  <2>4. bs[firstExit] \in DayBars
    <3>1. firstExit \in 1..Len(bs)
      BY <1>4, <2>3
    <3> QED BY <3>1
  <2> HIDE DEF exits, last
  <2> QED BY <2>4, ExitIs, Zenon
<1>6. Len(bs) >= entry => [outcome |-> "TIMEOUT", at |-> bs[last].c] \in Decided
  <2>1. Len(bs) >= entry => last \in 1..Len(bs)
    BY <1>1
  <2>2. Len(bs) >= entry => bs[last].c \in Nat
    BY <2>1, OutcomeAssumption
  <2> QED BY <2>2 DEF Decided
<1>7. Pending \in Decided /\ NotTracked \in Decided
  BY DEF Decided
<1> HIDE DEF exits, firstExit, last
<1> QED BY <1>1, <1>2, <1>5, <1>6, <1>7

LEMMA FaithInit == OutcomeInit => FaithInv
<1> SUFFICES ASSUME OutcomeInit PROVE FaithInv
  OBVIOUS
<1>1. NoSignal \in ReplayRow
  <2>1. Pending \in Decided /\ "absent" \in Writers /\ 0 \in Nat
    BY DEF Decided, Writers
  <2> QED BY <2>1 DEF NoSignal, ReplayRow
<1>2. AtRest \in BackfillRow
  BY DEF AtRest, BackfillRow
<1>3. OutcomeTyped
  BY <1>1, <1>2 DEF OutcomeInit, OutcomeTyped
<1>4. FinalBars
  BY DEF OutcomeInit, FinalBars, DaysOver, AtRest
<1>5. FinalScores
  BY DEF OutcomeInit, FinalScores, NoSignal
<1>6. LiveRows
  BY DEF OutcomeInit, LiveRows, AtRest
<1> QED BY <1>3, <1>4, <1>5, <1>6 DEF FaithInv

LEMMA DaysStep ==
    ASSUME FaithInv, NEW b \in DayBars, DayOpens(b) \/ DayCloses(b)
    PROVE  FaithInv'
<1>1. CASE DayOpens(b)
  BY <1>1 DEF DayOpens, FaithInv, OutcomeTyped, FinalBars, DaysOver, FinalScores, LiveRows
<1>2. CASE DayCloses(b)
  <2>1. /\ quotes' = Append(quotes, b) /\ forming' = NoBar /\ signal' = signal /\ backfill' = backfill
        /\ trackedNow' = trackedNow /\ crossed' = crossed /\ early' = early
    BY <1>2 DEF DayCloses
  <2>2. /\ quotes \in Seq(DayBars) /\ quotes' \in Seq(DayBars) /\ Len(quotes) <= Len(quotes')
        /\ \A k \in 1..Len(quotes) : quotes[k] = quotes'[k]
    BY <2>1 DEF FaithInv, OutcomeTyped
  <2>3. OutcomeTyped'
    BY <2>1, <2>2 DEF FaithInv, OutcomeTyped
  <2>4. FinalBars'
    <3>1. backfill.seen \in Seq(DayBars)
      BY DEF FaithInv, OutcomeTyped, BackfillRow
    <3>2. Len(DaysOver(backfill)) \in Nat
      BY <3>1 DEF FaithInv, FinalBars, DaysOver
    <3>3. DaysOver(backfill)' = DaysOver(backfill)
      BY <2>1 DEF DaysOver
    <3>4. Len(DaysOver(backfill)) <= Len(quotes) /\ Len(quotes) \in Nat /\ Len(quotes') \in Nat
          /\ \A k \in 1..Len(DaysOver(backfill)) : DaysOver(backfill)[k] = quotes[k]
      BY <2>2 DEF FaithInv, FinalBars
    <3> QED BY <2>1, <2>2, <3>2, <3>3, <3>4 DEF FaithInv, FinalBars
  <2>5. FinalScores'
    <3> SUFFICES ASSUME NEW i \in SignalIds, signal[i].source = "backfill_daily" /\ i \notin early
                 PROVE  /\ signal[i].decision # Pending
                        /\ signal[i].decision = Replayed(signal[i].setup, signal[i].day, quotes')
      BY <2>1 DEF FinalScores
    <3>1. /\ signal[i].decision # Pending
          /\ signal[i].decision = Replayed(signal[i].setup, signal[i].day, quotes)
      BY DEF FaithInv, FinalScores
    <3>2. signal[i].day \in Nat
      BY DEF FaithInv, OutcomeTyped, ReplayRow
    <3> QED BY <2>2, <3>1, <3>2, DecisionStays
  <2>6. LiveRows'
    BY <2>1 DEF FaithInv, LiveRows
  <2> QED BY <2>3, <2>4, <2>5, <2>6 DEF FaithInv
<1> QED BY <1>1, <1>2

LEMMA RowStep ==
    ASSUME FaithInv, NEW i \in SignalIds, NEW s \in Setups, SavesRow(i, s) \/ Tracks(i)
    PROVE  FaithInv'
<1>1. CASE SavesRow(i, s)
  <2> DEFINE row == [setup |-> s, day |-> Len(quotes) + 1, decision |-> Pending, source |-> "none"]
  <2>1. /\ signal' = [signal EXCEPT ![i] = row] /\ quotes' = quotes /\ forming' = forming
        /\ backfill' = backfill /\ trackedNow' = trackedNow /\ crossed' = crossed /\ early' = early
        /\ signal[i].source = "absent"
    BY <1>1 DEF SavesRow
  <2>2. row \in ReplayRow
    <3>1. Pending \in Decided /\ "none" \in Writers /\ Len(quotes) + 1 \in Nat
      BY DEF Decided, Writers, FaithInv, OutcomeTyped
    <3> QED BY <3>1 DEF ReplayRow
  <2>3. row.source = "none"
    OBVIOUS
  <2> HIDE DEF row
  <2>4. \A j \in SignalIds : signal'[j] = IF j = i THEN row ELSE signal[j]
    BY <2>1 DEF FaithInv, OutcomeTyped
  <2>5. OutcomeTyped'
    BY <2>1, <2>2 DEF FaithInv, OutcomeTyped
  <2>6. FinalBars'
    BY <2>1 DEF FaithInv, FinalBars, DaysOver
  <2>7. FinalScores'
    BY <2>1, <2>3, <2>4 DEF FaithInv, FinalScores
  <2>8. LiveRows'
    BY <2>1, <2>3, <2>4 DEF FaithInv, LiveRows
  <2> QED BY <2>5, <2>6, <2>7, <2>8 DEF FaithInv
<1>2. CASE Tracks(i)
  <2> DEFINE one == [signal[i] EXCEPT !.decision = Tracked]
             two == [one EXCEPT !.source = "live_tracker"]
  <2>1. /\ quotes' = quotes /\ forming' = forming /\ backfill' = backfill /\ early' = early
        /\ trackedNow' = trackedNow \cup {i}
        /\ crossed' = IF i \in backfill.loaded THEN crossed \cup {i} ELSE crossed
        /\ signal' = [signal EXCEPT ![i].decision = Tracked, ![i].source = "live_tracker"]
    BY <1>2 DEF Tracks
  <2>2. signal[i] \in ReplayRow /\ signal \in [SignalIds -> ReplayRow]
    BY DEF FaithInv, OutcomeTyped
  <2>3. signal' = [signal EXCEPT ![i] = two]
    BY <2>1, <2>2
  <2>4. Tracked \in Decided /\ "live_tracker" \in Writers
    BY DEF Decided, Writers
  <2>5. one \in ReplayRow /\ one.decision = Tracked
    BY <2>2, <2>4 DEF ReplayRow
  <2> HIDE DEF one
  <2>6. two \in ReplayRow /\ two.decision = Tracked /\ two.source = "live_tracker"
    BY <2>4, <2>5 DEF ReplayRow
  <2> HIDE DEF two
  <2>7. \A j \in SignalIds : signal'[j] = IF j = i THEN two ELSE signal[j]
    BY <2>2, <2>3
  <2>8. OutcomeTyped'
    BY <2>1, <2>3, <2>6 DEF FaithInv, OutcomeTyped
  <2>9. FinalBars'
    BY <2>1 DEF FaithInv, FinalBars, DaysOver
  <2>10. FinalScores'
    BY <2>1, <2>6, <2>7 DEF FaithInv, FinalScores
  <2>11. LiveRows'
    BY <2>1, <2>6, <2>7 DEF FaithInv, LiveRows
  <2> QED BY <2>8, <2>9, <2>10, <2>11 DEF FaithInv
<1> QED BY <1>1, <1>2

LoadsSome == \E partial \in BOOLEAN : LoadsBars(partial)

LEMMA BackfillStep ==
    ASSUME FaithInv, LoadsPending \/ LoadsSome \/ LoadsNothing \/ LeavesOff
    PROVE  FaithInv'
<1>1. /\ quotes' = quotes /\ forming' = forming /\ signal' = signal
      /\ trackedNow' = trackedNow /\ crossed' = crossed /\ early' = early
  <2>1. CASE LoadsPending
    BY <2>1 DEF LoadsPending
  <2>2. CASE LoadsSome
    BY <2>2 DEF LoadsSome, LoadsBars
  <2>3. CASE LoadsNothing
    BY <2>3 DEF LoadsNothing
  <2>4. CASE LeavesOff
    BY <2>4 DEF LeavesOff
  <2> QED BY <2>1, <2>2, <2>3, <2>4
<1>2. FinalScores'
  BY <1>1 DEF FaithInv, FinalScores
<1>3. AtRest \in BackfillRow /\ AtRest.loaded = {} /\ ~AtRest.partial /\ AtRest.seen = <<>>
  BY DEF AtRest, BackfillRow
<1>4. CASE LeavesOff
  <2>1. backfill' = AtRest
    BY <1>4 DEF LeavesOff
  <2>2. OutcomeTyped'
    BY <1>1, <1>3, <2>1 DEF FaithInv, OutcomeTyped
  <2>3. FinalBars'
    <3>1. DaysOver(backfill)' = <<>>
      BY <1>3, <2>1 DEF DaysOver
    <3> QED BY <1>1, <1>3, <2>1, <3>1 DEF FaithInv, OutcomeTyped, FinalBars
  <2>4. LiveRows'
    BY <1>1, <1>3, <2>1 DEF FaithInv, LiveRows
  <2> QED BY <1>2, <2>2, <2>3, <2>4 DEF FaithInv
<1>5. CASE LoadsPending
  <2> DEFINE found == {i \in SignalIds : signal[i].source # "absent" /\ signal[i].decision = Pending}
             one == [AtRest EXCEPT !.pc = "loaded"]
             two == [one EXCEPT !.loaded = found]
  <2>1. backfill' = two
    BY <1>5 DEF LoadsPending
  <2>2. one \in BackfillRow /\ ~one.partial /\ one.seen = <<>>
    <3>1. one \in BackfillRow
      BY <1>3 DEF BackfillRow
    <3>2. one.partial = AtRest.partial /\ one.seen = AtRest.seen
      BY <1>3 DEF BackfillRow
    <3> QED BY <1>3, <3>1, <3>2
  <2>3. found \in SUBSET SignalIds
    OBVIOUS
  <2>4. \A i \in found : signal[i].source # "absent" /\ signal[i].decision = Pending
    OBVIOUS
  <2> HIDE DEF one, found
  <2>5. two \in BackfillRow /\ ~two.partial /\ two.seen = <<>> /\ two.loaded = found
    BY <2>2, <2>3 DEF BackfillRow
  <2> HIDE DEF two
  <2>6. OutcomeTyped'
    BY <1>1, <2>1, <2>5 DEF FaithInv, OutcomeTyped
  <2>7. FinalBars'
    <3>1. DaysOver(backfill)' = <<>>
      BY <2>1, <2>5 DEF DaysOver
    <3> QED BY <1>1, <2>1, <2>5, <3>1 DEF FaithInv, OutcomeTyped, FinalBars
  <2>8. LiveRows'
    <3>1. Pending # Tracked
      BY DEF Pending, Tracked
    <3> QED BY <1>1, <2>1, <2>4, <2>5, <3>1 DEF FaithInv, LiveRows
  <2> QED BY <1>2, <2>6, <2>7, <2>8 DEF FaithInv
<1>6. CASE LoadsNothing
  <2> DEFINE one == [backfill EXCEPT !.pc = "decided"]
  <2>1. backfill' = one
    BY <1>6 DEF LoadsNothing
  <2>2. one \in BackfillRow /\ one.partial = backfill.partial /\ one.seen = backfill.seen
        /\ one.loaded = backfill.loaded
    BY DEF FaithInv, OutcomeTyped, BackfillRow
  <2> HIDE DEF one
  <2>3. OutcomeTyped'
    BY <1>1, <2>1, <2>2 DEF FaithInv, OutcomeTyped
  <2>4. DaysOver(backfill)' = DaysOver(backfill)
    BY <2>1, <2>2 DEF DaysOver
  <2>5. FinalBars'
    BY <1>1, <2>1, <2>2, <2>4 DEF FaithInv, FinalBars
  <2>6. LiveRows'
    BY <1>1, <2>1, <2>2 DEF FaithInv, LiveRows
  <2> QED BY <1>2, <2>3, <2>5, <2>6 DEF FaithInv
<1>7. ASSUME NEW partial \in BOOLEAN, LoadsBars(partial)
      PROVE  FaithInv'
  <2> DEFINE bars == IF partial THEN Append(quotes, forming) ELSE quotes
             one == [backfill EXCEPT !.pc = "decided"]
             two == [one EXCEPT !.partial = partial]
             three == [two EXCEPT !.seen = bars]
  <2>1. backfill' = three /\ (partial => forming # NoBar)
    BY <1>7 DEF LoadsBars
  <2>2. quotes \in Seq(DayBars) /\ (partial => forming \in DayBars)
    BY <2>1 DEF FaithInv, OutcomeTyped
  <2>3. /\ bars \in Seq(DayBars) /\ (partial => bars # <<>>)
        /\ (IF partial THEN SubSeq(bars, 1, Len(bars) - 1) ELSE bars) = quotes
    BY <2>2
  <2> HIDE DEF bars
  <2>4. one \in BackfillRow /\ one.loaded = backfill.loaded
    BY DEF FaithInv, OutcomeTyped, BackfillRow
  <2> HIDE DEF one
  <2>5. two \in BackfillRow /\ two.loaded = backfill.loaded /\ two.partial = partial
    BY <2>4 DEF BackfillRow
  <2> HIDE DEF two
  <2>6. /\ three \in BackfillRow /\ three.loaded = backfill.loaded /\ three.partial = partial
        /\ three.seen = bars
    BY <2>3, <2>5 DEF BackfillRow
  <2> HIDE DEF three
  <2>7. OutcomeTyped'
    BY <1>1, <2>1, <2>6 DEF FaithInv, OutcomeTyped
  <2>8. DaysOver(backfill)' = quotes
    BY <2>1, <2>3, <2>6 DEF DaysOver
  <2>9. FinalBars'
    BY <1>1, <2>1, <2>2, <2>3, <2>6, <2>8 DEF FinalBars
  <2>10. LiveRows'
    BY <1>1, <2>1, <2>6 DEF FaithInv, LiveRows
  <2> QED BY <1>2, <2>7, <2>9, <2>10 DEF FaithInv
<1>8. CASE LoadsSome
  BY <1>7, <1>8 DEF LoadsSome
<1> QED BY <1>4, <1>5, <1>6, <1>8

LEMMA AppliesStep ==
    ASSUME FaithInv, Applies
    PROVE  FaithInv'
<1> DEFINE row(i) == [signal[i] EXCEPT !.decision = DecisionFor(i), !.source = "backfill_daily"]
<1>1. /\ quotes' = quotes /\ forming' = forming /\ trackedNow' = trackedNow /\ crossed' = crossed
      /\ signal' = [i \in SignalIds |-> IF Decides(i) THEN row(i) ELSE signal[i]]
      /\ early' = early \cup {i \in SignalIds : Decides(i) /\ NeededForming(i)}
      /\ backfill' = AtRest
  BY Zenon DEF Applies
<1>2. /\ quotes \in Seq(DayBars) /\ signal \in [SignalIds -> ReplayRow] /\ backfill \in BackfillRow
      /\ backfill.seen \in Seq(DayBars)
  BY DEF FaithInv, OutcomeTyped, BackfillRow
<1>3. ASSUME NEW i \in SignalIds
      PROVE  /\ row(i) \in ReplayRow /\ row(i).decision = DecisionFor(i) /\ row(i).source = "backfill_daily"
             /\ row(i).setup = signal[i].setup /\ row(i).day = signal[i].day
  <2> DEFINE d == DecisionFor(i)
             one == [signal[i] EXCEPT !.decision = d]
             two == [one EXCEPT !.source = "backfill_daily"]
  <2>1. signal[i] \in ReplayRow /\ signal[i].setup \in Setups \cup {NoSetup} /\ signal[i].day \in Nat
    BY <1>2 DEF ReplayRow
  <2>2. d \in Decided
    BY <1>2, <2>1, ReplayedIs DEF DecisionFor
  <2>3. row(i) = two
    BY Zenon
  <2> HIDE DEF d, row
  <2>4. one \in ReplayRow /\ one.decision = d /\ one.setup = signal[i].setup /\ one.day = signal[i].day
    BY <2>1, <2>2 DEF ReplayRow
  <2> HIDE DEF one
  <2>5. /\ two \in ReplayRow /\ two.decision = d /\ two.setup = signal[i].setup /\ two.day = signal[i].day
        /\ two.source = "backfill_daily"
    BY <2>4 DEF ReplayRow, Writers
  <2> QED BY <2>3, <2>5 DEF d
<1> HIDE DEF row
<1>4. \A i \in SignalIds : signal'[i] = IF Decides(i) THEN row(i) ELSE signal[i]
  BY <1>1
<1>5. AtRest \in BackfillRow /\ AtRest.loaded = {} /\ ~AtRest.partial /\ AtRest.seen = <<>>
  BY DEF AtRest, BackfillRow
<1>6. OutcomeTyped'
  BY <1>1, <1>2, <1>3, <1>5 DEF FaithInv, OutcomeTyped
<1>7. FinalBars'
  <2>1. DaysOver(backfill)' = <<>>
    BY <1>1, <1>5 DEF DaysOver
  <2> QED BY <1>1, <1>2, <1>5, <2>1 DEF FinalBars
<1>8. FinalScores'
  <2> SUFFICES ASSUME NEW i \in SignalIds, signal'[i].source = "backfill_daily" /\ i \notin early'
               PROVE  /\ signal'[i].decision # Pending
                      /\ signal'[i].decision = Replayed(signal'[i].setup, signal'[i].day, quotes')
    BY DEF FinalScores
  <2>1. CASE ~Decides(i)
    BY <1>1, <1>4, <2>1 DEF FaithInv, FinalScores
  <2>2. CASE Decides(i)
    <3>1. ~NeededForming(i)
      BY <1>1, <2>2
    <3> DEFINE u == signal[i].setup
               e == signal[i].day
    <3>2. Replayed(u, e, backfill.seen) # Pending /\ e \in Nat
      <4>1. signal[i] \in ReplayRow
        BY <1>2
      <4>2. e \in Nat
        BY <4>1 DEF ReplayRow
      <4>3. Replayed(u, e, backfill.seen) # Pending
        BY <2>2, Zenon DEF Decides, DecisionFor
      <4> QED BY <4>2, <4>3
    <3>3. DaysOver(backfill) \in Seq(DayBars)
      BY <1>2 DEF DaysOver, FaithInv, FinalBars
    <3>4. Replayed(u, e, DaysOver(backfill)) # Pending
      BY <3>1, <3>2 DEF NeededForming, DaysOver
    <3>5. Replayed(u, e, backfill.seen) = Replayed(u, e, DaysOver(backfill))
      <4>1. CASE ~backfill.partial
        BY <4>1 DEF DaysOver
      <4>2. CASE backfill.partial
        <5>1. backfill.seen # <<>> /\ DaysOver(backfill) = SubSeq(backfill.seen, 1, Len(backfill.seen) - 1)
          BY <4>2 DEF DaysOver, FaithInv, FinalBars
        <5>2. /\ Len(DaysOver(backfill)) <= Len(backfill.seen)
              /\ \A k \in 1..Len(DaysOver(backfill)) : DaysOver(backfill)[k] = backfill.seen[k]
          BY <1>2, <5>1
        <5> QED BY <1>2, <3>2, <3>3, <3>4, <5>2, DecisionStays
      <4> QED BY <4>1, <4>2
    <3>6. Replayed(u, e, quotes) = Replayed(u, e, DaysOver(backfill))
      <4>1. /\ Len(DaysOver(backfill)) <= Len(quotes)
            /\ \A k \in 1..Len(DaysOver(backfill)) : DaysOver(backfill)[k] = quotes[k]
        BY DEF FaithInv, FinalBars
      <4> QED BY <1>2, <3>2, <3>3, <3>4, <4>1, DecisionStays
    <3>7. /\ signal'[i].decision = Replayed(u, e, backfill.seen) /\ signal'[i].setup = u
          /\ signal'[i].day = e
      BY <1>3, <1>4, <2>2 DEF DecisionFor
    <3> QED BY <1>1, <3>2, <3>5, <3>6, <3>7
  <2> QED BY <2>1, <2>2
<1>9. LiveRows'
  <2> SUFFICES ASSUME NEW i \in SignalIds
               PROVE  /\ i \in trackedNow => signal'[i].source # "absent"
                      /\ i \in trackedNow /\ i \notin crossed =>
                            signal'[i].source = "live_tracker" /\ signal'[i].decision = Tracked
    BY <1>1, <1>5 DEF LiveRows
  <2>1. /\ i \in trackedNow => signal[i].source # "absent"
        /\ i \in trackedNow /\ i \notin crossed =>
                signal[i].source = "live_tracker" /\ signal[i].decision = Tracked
        /\ i \in trackedNow /\ i \in backfill.loaded => i \in crossed
    BY DEF FaithInv, LiveRows
  <2>2. Decides(i) => i \in backfill.loaded
    BY DEF Decides
  <2>3. CASE Decides(i)
    <3>1. signal'[i].source = "backfill_daily" /\ i \in backfill.loaded
      BY <1>3, <1>4, <2>2, <2>3
    <3> QED BY <2>1, <3>1
  <2>4. CASE ~Decides(i)
    <3>1. signal'[i] = signal[i]
      BY <1>4, <2>4
    <3> QED BY <2>1, <3>1
  <2> QED BY <2>3, <2>4
<1> QED BY <1>6, <1>7, <1>8, <1>9 DEF FaithInv

\* What the script writes lasts, on every history and with any number of signals and runs, and
\* what the live tracker has written stays (backfill_signal_outcomes).
THEOREM FaithHolds == OutcomeSpec => []BackfillKeepsFaith
<1>1. FaithInv /\ [OutcomeNext]_outcomeVars => FaithInv'
  <2> SUFFICES ASSUME FaithInv, [OutcomeNext]_outcomeVars PROVE FaithInv'
    OBVIOUS
  <2>1. CASE UNCHANGED outcomeVars
    BY <2>1 DEF outcomeVars, FaithInv, OutcomeTyped, FinalBars, DaysOver, FinalScores, LiveRows
  <2>2. ASSUME NEW i \in SignalIds, Tracks(i) PROVE FaithInv'
    <3>1. signal[i].setup \in Setups
      <4>1. signal[i].setup \in Setups \cup {NoSetup} /\ signal[i].setup.actionable
        BY <2>2 DEF Tracks, FaithInv, OutcomeTyped, ReplayRow
      <4>2. ~NoSetup.actionable
        BY DEF NoSetup
      <4> QED BY <4>1, <4>2
    <3> QED BY <2>2, <3>1, RowStep
  <2>3. CASE OutcomeNext
    <3>1. \/ \E b \in DayBars : DayOpens(b) \/ DayCloses(b)
          \/ \E i \in SignalIds : Tracks(i)
          \/ \E i \in SignalIds : \E s \in Setups : SavesRow(i, s)
          \/ LoadsPending \/ LoadsSome \/ LoadsNothing \/ LeavesOff
          \/ Applies
      BY <2>3 DEF OutcomeNext, LoadsSome
    <3>2. CASE \E b \in DayBars : DayOpens(b) \/ DayCloses(b)
      BY <3>2, DaysStep
    <3>3. CASE \E i \in SignalIds : Tracks(i)
      BY <2>2, <3>3
    <3>4. CASE \E i \in SignalIds : \E s \in Setups : SavesRow(i, s)
      BY <3>4, RowStep
    <3>5. CASE LoadsPending \/ LoadsSome \/ LoadsNothing \/ LeavesOff
      BY <3>5, BackfillStep
    <3>6. CASE Applies
      BY <3>6, AppliesStep
    <3> QED BY <3>1, <3>2, <3>3, <3>4, <3>5, <3>6
  <2> QED BY <2>1, <2>3
<1>2. FaithInv => BackfillKeepsFaith
  BY DEF FaithInv, OutcomeTyped, FinalScores, LiveRows, BackfillKeepsFaith, ScoreIsFinal, LiveOutcomeKept
<1> QED BY <1>1, <1>2, FaithInit, PTL DEF OutcomeSpec

----
(* The backfilled trade ledger.  What a run of the script has read of a     *)
(* trade that nobody else writes meanwhile is still so when it inserts: the *)
(* trade has no row and is staged once, or it has its row.  A shadow trade  *)
(* that is open has the newest open row, if it has one, so that its close   *)
(* finds it, and no close finds the row of a trade that was closed itself.  *)
LedgerLines == [of : AllTrades, by : AllTrades \cup {NotClosed}]
JobRow ==
    [pc : {"idle", "paper", "csv", "open", "insert"}, paperIds : SUBSET AllTrades,
     shadowOpen : SUBSET AllTrades, shadowClosed : SUBSET LedgerLines, seen : SUBSET AllTrades,
     staged : Seq(LedgerLines)]

LedgerTyped ==
    /\ record \in [AllTrades -> {"none", "open", "closed", "lost"}]
    /\ ledgerRows \in Seq(LedgerLines)
    /\ job \in [Jobs -> JobRow]

RecordsKnown ==
    /\ \A i \in 1..Len(ledgerRows) : record[ledgerRows[i].of] # "none"
    /\ \A t \in AllTrades :
        /\ t \in settled => record[t] # "none"
        /\ t \in unclosed => record[t] \in {"closed", "lost"}
        /\ t \in ShadowTradesAll /\ record[t] = "lost" => t \in unclosed

OneShadowOpen ==
    /\ \A t, u \in ShadowTradesAll : record[t] = "open" /\ record[u] = "open" => t = u
    /\ \A i, k \in 1..NShadowTrades :
            i < k /\ record[ShadowTrade(k)] # "none" => record[ShadowTrade(i)] # "none"

\* The trades that the property is about, and what their row says of the close.
Undisturbed(t) == t \notin touched /\ ~(t \in ShadowTradesAll /\ t \in unclosed)
CloseOf(t) == IF record[t] = "closed" THEN t ELSE NotClosed

NewestOpen(i) ==
    \A k \in 1..Len(ledgerRows) :
        ledgerRows[k].of \in ShadowTradesAll /\ ledgerRows[k].by = NotClosed => k <= i

RowKept(t) ==
    /\ \A i, k \in RowsOf(t) : i = k
    /\ \A i \in RowsOf(t) : t \in unclosed \/ ledgerRows[i].by = CloseOf(t)
    /\ t \in settled => RowsOf(t) # {}
    /\ t \in ShadowTradesAll /\ record[t] = "open" => \A i \in RowsOf(t) : NewestOpen(i)

\* What a run knows of such a trade, and has staged of it.
StagedOf(J, t) == {k \in 1..Len(J.staged) : J.staged[k].of = t}
JobKnows(J, t) ==
    /\ t \in PaperTradesAll => (t \in J.paperIds <=> RowsOf(t) # {})
    /\ t \in ShadowTradesAll =>
        /\ t \in J.shadowOpen <=> \E i \in RowsOf(t) : ledgerRows[i].by = NotClosed
        /\ Row(t, t) \in J.shadowClosed <=> \E i \in RowsOf(t) : ledgerRows[i].by = t
JobStages(J, t) ==
    /\ \A i, k \in StagedOf(J, t) : i = k
    /\ \A k \in StagedOf(J, t) : RowsOf(t) = {} /\ J.staged[k].by = CloseOf(t)
    /\ t \in J.seen => RowsOf(t) # {} \/ StagedOf(J, t) # {}

\* A row is staged from the source that the run has read; a shadow trade that was open then is so
\* still, or what is open now was opened while the run was under way.
StagedRight(pc, row) ==
    /\ record[row.of] # "none"
    /\ pc = "csv" => row.of \in PaperTradesAll
    /\ pc = "open" => row.of \in PaperTradesAll \/ row.by # NotClosed
    /\ row.of \in ShadowTradesAll /\ row.by = NotClosed =>
        record[row.of] = "open" \/ \A u \in ShadowTradesAll : record[u] = "open" => u \in touched

JobHolds(J) ==
    /\ J.pc = "paper" => J.staged = <<>> /\ J.seen = {}
    /\ \A k \in 1..Len(J.staged) : StagedRight(J.pc, J.staged[k])
    /\ \A t \in AllTrades : t \in J.seen => record[t] # "none"
    /\ \A t \in AllTrades : Undisturbed(t) => JobKnows(J, t) /\ JobStages(J, t)

BackfillInv ==
    /\ LedgerTyped /\ RecordsKnown /\ OneShadowOpen
    /\ \A t \in AllTrades : Undisturbed(t) => RowKept(t)
    /\ \A j \in AtWork : JobHolds(job[j])

LEMMA TradesAre ==
    /\ \A i \in 1..NPaperTrades : PaperTrade(i) \in PaperTradesAll /\ PaperTrade(i)[1] = "PAPER"
                                    /\ PaperTrade(i)[2] = i
    /\ \A i \in 1..NShadowTrades : ShadowTrade(i) \in ShadowTradesAll /\ ShadowTrade(i)[1] = "SHADOW"
                                    /\ ShadowTrade(i)[2] = i
    /\ \A t \in PaperTradesAll : t[1] = "PAPER" /\ t[2] \in 1..NPaperTrades /\ t = PaperTrade(t[2])
    /\ \A t \in ShadowTradesAll : t[1] = "SHADOW" /\ t[2] \in 1..NShadowTrades /\ t = ShadowTrade(t[2])
    /\ NPaperTrades \in Nat /\ NShadowTrades \in Nat
BY LedgerBackfillAssumption DEF PaperTradesAll, ShadowTradesAll, PaperTrade, ShadowTrade

LEMMA KindsApart ==
    /\ \A t \in AllTrades : (t \in PaperTradesAll \/ t \in ShadowTradesAll) /\ t # NotClosed
    /\ \A t \in PaperTradesAll : t \notin ShadowTradesAll /\ t \in AllTrades
    /\ \A t \in ShadowTradesAll : t \notin PaperTradesAll /\ t \in AllTrades
<1>1. "PAPER" # "SHADOW" /\ NotClosed[1] = "none" /\ "none" # "PAPER" /\ "none" # "SHADOW"
  BY DEF NotClosed
<1> QED BY <1>1, TradesAre DEF AllTrades

LEMMA KindsFinite == IsFiniteSet(PaperTradesAll) /\ IsFiniteSet(ShadowTradesAll)
<1>1. IsFiniteSet(1..NPaperTrades) /\ IsFiniteSet(1..NShadowTrades)
  <2>1. 1 \in Int /\ NPaperTrades \in Int /\ NShadowTrades \in Int
    BY TradesAre
  <2> QED BY <2>1, FS_Interval
<1>2. [i \in 1..NPaperTrades |-> PaperTrade(i)] \in Surjection(1..NPaperTrades, PaperTradesAll)
  BY DEF Surjection, PaperTradesAll
<1>3. [i \in 1..NShadowTrades |-> ShadowTrade(i)] \in Surjection(1..NShadowTrades, ShadowTradesAll)
  BY DEF Surjection, ShadowTradesAll
<1> QED BY <1>1, <1>2, <1>3, FS_Surjection

\* A finite set of numbered things can be listed in their order.
Listing(S, f) ==
    /\ f \in [1..Cardinality(S) -> S]
    /\ \A i, k \in 1..Cardinality(S) : i < k => f[i][2] < f[k][2]

LEMMA Listable ==
    ASSUME NEW S, IsFiniteSet(S), \A t \in S : t[2] \in Nat, \A t, u \in S : t[2] = u[2] => t = u
    PROVE  \E f : Listing(S, f)
<1> DEFINE Bad == {n \in Nat : \E T \in SUBSET S : Cardinality(T) = n /\ ~\E f : Listing(T, f)}
<1>1. Cardinality(S) \in Nat
  BY FS_CardinalityType
<1>2. Bad = {}
  <2> SUFFICES ASSUME Bad # {} PROVE FALSE
    OBVIOUS
  <2>1. Bad \in SUBSET Nat
    OBVIOUS
  <2>2. PICK n \in Bad : \A m \in Bad : n <= m
    BY <2>1, LeastOf
  <2>3. n \in Nat
    BY <2>1
  <2>4. PICK T \in SUBSET S : Cardinality(T) = n /\ ~\E f : Listing(T, f)
    OBVIOUS
  <2>5. IsFiniteSet(T)
    BY FS_Subset
  <2>6. T # {}
    <3> SUFFICES ASSUME T = {} PROVE FALSE
      OBVIOUS
    <3>1. Cardinality(T) = 0
      BY FS_EmptySet
    <3>2. Listing(T, <<>>)
      BY <3>1 DEF Listing
    <3> QED BY <2>4, <3>2
  <2> DEFINE Numbers == {t[2] : t \in T}
  <2>7. Numbers \in SUBSET Nat /\ Numbers # {}
    BY <2>6
  <2>8. PICK least \in Numbers : \A k \in Numbers : least <= k
    BY <2>7, LeastOf
  <2>9. PICK x \in T : x[2] = least
    BY <2>8
  <2>10. \A t \in T \ {x} : x[2] < t[2] /\ x[2] \in Nat /\ t[2] \in Nat
    <3> SUFFICES ASSUME NEW t \in T \ {x} PROVE x[2] < t[2] /\ x[2] \in Nat /\ t[2] \in Nat
      OBVIOUS
    <3>1. t[2] \in Numbers /\ t[2] \in Nat /\ x[2] \in Nat
      OBVIOUS
    <3>2. x[2] <= t[2] /\ x[2] # t[2]
      BY <2>8, <2>9, <3>1
    <3> QED BY <3>1, <3>2
  <2>11. IsFiniteSet(T \ {x}) /\ Cardinality(T \ {x}) = n - 1 /\ n - 1 \in Nat
    <3>1. IsFiniteSet(T \ {x}) /\ Cardinality(T \ {x}) = n - 1
      BY <2>4, <2>5, FS_RemoveElement
    <3>2. Cardinality(T \ {x}) \in Nat
      BY <3>1, FS_CardinalityType
    <3> QED BY <3>1, <3>2
  <2>12. PICK g : Listing(T \ {x}, g)
    <3>1. n - 1 \notin Bad
      BY <2>2, <2>3
    <3> QED BY <2>11, <3>1
  <2> DEFINE f == [i \in 1..n |-> IF i = 1 THEN x ELSE g[i - 1]]
  <2>13. /\ g \in [1..(n - 1) -> T \ {x}]
         /\ \A i, k \in 1..(n - 1) : i < k => g[i][2] < g[k][2]
    BY <2>11, <2>12 DEF Listing
  <2>14. \A i \in 1..n : i # 1 => i - 1 \in 1..(n - 1)
    BY <2>3
  <2>15. f \in [1..n -> T]
    BY <2>13, <2>14
  <2>16. ASSUME NEW i \in 1..n, NEW k \in 1..n, i < k
         PROVE  f[i][2] < f[k][2]
    <3>1. k # 1 /\ k - 1 \in 1..(n - 1) /\ f[k] = g[k - 1]
      BY <2>3, <2>14, <2>16
    <3>2. CASE i = 1
      BY <2>10, <2>13, <3>1, <3>2
    <3>3. CASE i # 1
      <4>1. i - 1 \in 1..(n - 1) /\ f[i] = g[i - 1] /\ i - 1 < k - 1
        BY <2>14, <2>16, <3>3
      <4> QED BY <2>13, <3>1, <4>1
    <3> QED BY <3>2, <3>3
  <2> HIDE DEF f
  <2>17. Listing(T, f)
    BY <2>4, <2>15, <2>16 DEF Listing
  <2> QED BY <2>4, <2>17
<1>3. Cardinality(S) \notin Bad
  BY <1>2
<1> QED BY <1>1, <1>3

\* In order, every trade of one kind comes once.
LEMMA InOrderIs ==
    ASSUME NEW S, S \subseteq PaperTradesAll \/ S \subseteq ShadowTradesAll
    PROVE  /\ Cardinality(S) \in Nat /\ InOrder(S) \in [1..Cardinality(S) -> S]
           /\ \A t \in S : \E k \in 1..Cardinality(S) : InOrder(S)[k] = t
           /\ \A i, k \in 1..Cardinality(S) : InOrder(S)[i] = InOrder(S)[k] => i = k
<1>1. IsFiniteSet(S) /\ Cardinality(S) \in Nat
  BY KindsFinite, FS_Subset, FS_CardinalityType
<1>2. (\A t \in S : t[2] \in Nat) /\ (\A t, u \in S : t[2] = u[2] => t = u)
  <2>1. CASE S \subseteq PaperTradesAll
    BY <2>1, TradesAre
  <2>2. CASE S \subseteq ShadowTradesAll
    BY <2>2, TradesAre
  <2> QED BY <2>1, <2>2
<1> DEFINE n == Cardinality(S)
<1>3. \E f \in [1..n -> S] : \A i, k \in 1..n : i < k => f[i][2] < f[k][2]
  BY <1>1, <1>2, Listable DEF Listing
<1>4. /\ InOrder(S) \in [1..n -> S]
      /\ \A i, k \in 1..n : i < k => InOrder(S)[i][2] < InOrder(S)[k][2]
  BY <1>3 DEF InOrder
<1> DEFINE f == InOrder(S)
<1> HIDE DEF f
<1>5. f \in [1..n -> S] /\ \A i, k \in 1..n : i < k => f[i][2] < f[k][2]
  BY <1>4 DEF f
<1> HIDE DEF n
<1>6. n \in Nat
  BY <1>1 DEF n
<1>7. \A i, k \in 1..n : f[i] = f[k] => i = k
  <2> SUFFICES ASSUME NEW i \in 1..n, NEW k \in 1..n, f[i] = f[k], i # k PROVE FALSE
    OBVIOUS
  <2>1. i < k \/ k < i
    BY <1>6
  <2>2. f[i][2] \in Nat /\ f[k][2] \in Nat /\ f[i][2] = f[k][2]
    BY <1>2, <1>5
  <2>3. f[i][2] < f[k][2] \/ f[k][2] < f[i][2]
    BY <1>5, <2>1
  <2> QED BY <2>2, <2>3
<1>8. f \in Surjection(1..n, S)
  <2>1. f \in Injection(1..n, S)
    BY <1>5, <1>7 DEF Injection, IsInjective
  <2>2. Cardinality(1..n) = n
    <3>1. 1 \in Int /\ n \in Int
      BY <1>6
    <3>2. Cardinality(1..n) = IF 1 > n THEN 0 ELSE n - 1 + 1
      BY <3>1, FS_Interval
    <3> QED BY <1>6, <3>2
  <2> QED BY <1>1, <2>1, <2>2, FS_Injection DEF n
<1>9. \A t \in S : \E k \in 1..n : f[k] = t
  BY <1>8 DEF Surjection
<1> QED BY <1>1, <1>5, <1>7, <1>9 DEF f, n

----
(* The bot writes one trade. *)

\* The rows of a trade are where and what they were.
SameRows(u) == RowsOf(u)' = RowsOf(u) /\ \A i \in RowsOf(u) : ledgerRows'[i] = ledgerRows[i]

LEMMA BotStep ==
    ASSUME BackfillInv, NEW t \in AllTrades, NEW r \in {"open", "closed", "lost"},
           record' = [record EXCEPT ![t] = r], job' = job, settled' = settled, Touches(t),
           r = "open" => record[t] = "none", r # "open" => record[t] = "open",
           unclosed' \in {unclosed, unclosed \cup {t}}, ledgerRows' \in Seq(LedgerLines),
           t \in unclosed' => r # "open", t \in ShadowTradesAll /\ r = "lost" => t \in unclosed',
           \A i \in 1..Len(ledgerRows') : record'[ledgerRows'[i].of] # "none",
           \A u \in AllTrades : Undisturbed(u) /\ u # t => SameRows(u),
           OneShadowOpen',
           \A u \in ShadowTradesAll : Undisturbed(u) /\ u # t /\ record[u] = "open" =>
                \A i \in RowsOf(u) : NewestOpen(i)',
           Undisturbed(t)' => RowKept(t)'
    PROVE  BackfillInv'
<1>1. LedgerTyped'
  BY DEF BackfillInv, LedgerTyped
<1>2. \A u \in AllTrades : record'[u] = IF u = t THEN r ELSE record[u]
  BY DEF BackfillInv, LedgerTyped
<1>3. RecordsKnown'
  <2>1. \A u \in AllTrades : u \in settled => record[u] # "none"
    BY DEF BackfillInv, RecordsKnown
  <2>2. \A u \in AllTrades \ {t} : u \in unclosed' => u \in unclosed
    OBVIOUS
  <2>3. \A u \in AllTrades : /\ u \in unclosed => record[u] \in {"closed", "lost"}
                             /\ u \in ShadowTradesAll /\ record[u] = "lost" => u \in unclosed
    BY DEF BackfillInv, RecordsKnown
  <2> QED BY <1>2, <2>1, <2>2, <2>3 DEF RecordsKnown
<1>4. \A u \in AllTrades : Undisturbed(u)' => Undisturbed(u)
  BY DEF Undisturbed, Touches
<1>5. ASSUME NEW u \in AllTrades, Undisturbed(u)'
      PROVE  RowKept(u)'
  <2>1. CASE u = t
    BY <1>5, <2>1
  <2>2. CASE u # t
    <3>1. Undisturbed(u) /\ RowKept(u) /\ SameRows(u)
      BY <1>4, <1>5, <2>2 DEF BackfillInv
    <3>2. record'[u] = record[u] /\ (u \in unclosed' <=> u \in unclosed)
      BY <1>2, <2>2
    <3>3. CloseOf(u)' = CloseOf(u)
      BY <3>2 DEF CloseOf
    <3>4. u \in ShadowTradesAll /\ record[u] = "open" => \A i \in RowsOf(u) : NewestOpen(i)'
      BY <2>2, <3>1
    <3>5. \A i \in RowsOf(u)' : i \in RowsOf(u) /\ ledgerRows'[i] = ledgerRows[i]
      BY <3>1 DEF SameRows
    <3>6. /\ \A i, k \in RowsOf(u)' : i = k
          /\ \A i \in RowsOf(u)' : u \in unclosed' \/ ledgerRows'[i].by = CloseOf(u)'
          /\ u \in settled' => RowsOf(u)' # {}
      BY <3>1, <3>2, <3>3, <3>5 DEF RowKept, SameRows
    <3>7. u \in ShadowTradesAll /\ record'[u] = "open" => \A i \in RowsOf(u)' : NewestOpen(i)'
      BY <3>2, <3>4, <3>5
    <3> QED BY <3>6, <3>7 DEF RowKept
  <2> QED BY <2>1, <2>2
<1>6. ASSUME NEW j \in AtWork'
      PROVE  JobHolds(job[j])'
  <2>0. j \in AtWork /\ job'[j] = job[j] /\ touched' = touched \cup {t} /\ job[j] \in JobRow
    BY DEF AtWork, Touches, BackfillInv, LedgerTyped
  <2>1. PICK J : J = job[j]
    OBVIOUS
  <2>2. JobHolds(J) /\ touched' = touched \cup {t}
    BY <2>0, <2>1 DEF BackfillInv
  <2>3. ~Undisturbed(t)'
    BY <2>0 DEF Undisturbed
  <2>4. ASSUME NEW k \in 1..Len(J.staged)
        PROVE  J.staged[k] \in LedgerLines
    <3>1. J.staged \in Seq(LedgerLines)
      BY <2>0, <2>1 DEF JobRow
    <3> QED BY <3>1
  <2>5. ASSUME NEW k \in 1..Len(J.staged)
        PROVE  StagedRight(J.pc, J.staged[k])'
    <3>0. PICK row : row = J.staged[k]
      OBVIOUS
    <3>1. row.of \in AllTrades /\ StagedRight(J.pc, row)
      BY <2>2, <2>4, <3>0 DEF JobHolds, LedgerLines
    <3>2. record'[row.of] # "none"
      BY <1>2, <3>1 DEF StagedRight
    <3>3. ASSUME row.of \in ShadowTradesAll, row.by = NotClosed, record'[row.of] # "open"
          PROVE  \A u \in ShadowTradesAll : record'[u] = "open" => u \in touched'
      <4>1. CASE record[row.of] = "open"
        <5>1. row.of = t /\ r # "open"
          BY <1>2, <3>1, <3>3, <4>1
        <5>2. \A u \in ShadowTradesAll : u # t => record[u] # "open"
          BY <3>3, <4>1, <5>1 DEF BackfillInv, OneShadowOpen
        <5> QED BY <1>2, <5>1, <5>2, KindsApart
      <4>2. CASE record[row.of] # "open"
        <5>1. \A u \in ShadowTradesAll : record[u] = "open" => u \in touched
          BY <3>1, <3>3, <4>2 DEF StagedRight
        <5> QED BY <1>2, <2>2, <5>1, KindsApart
      <4> QED BY <4>1, <4>2
    <3>4. StagedRight(J.pc, row)'
      BY <3>1, <3>2, <3>3 DEF StagedRight
    <3> QED BY <3>0, <3>4
  <2>6. ASSUME NEW u \in AllTrades, Undisturbed(u)'
        PROVE  JobKnows(J, u)' /\ JobStages(J, u)'
    <3>1. u # t /\ Undisturbed(u) /\ SameRows(u)
      BY <1>4, <2>3, <2>6
    <3>2. JobKnows(J, u) /\ JobStages(J, u)
      BY <2>2, <3>1 DEF JobHolds
    <3>3. record'[u] = record[u] /\ CloseOf(u)' = CloseOf(u)
      BY <1>2, <3>1 DEF CloseOf
    <3>4. RowsOf(u)' = RowsOf(u) /\ \A i \in RowsOf(u) : ledgerRows'[i] = ledgerRows[i]
      BY <3>1 DEF SameRows
    <3>5. JobKnows(J, u)'
      BY <3>2, <3>4 DEF JobKnows
    <3>6. JobStages(J, u)'
      BY <3>2, <3>3, <3>4 DEF JobStages, StagedOf
    <3> QED BY <3>5, <3>6
  <2>7. \A u \in AllTrades : u \in J.seen => record'[u] # "none"
    BY <1>2, <2>2 DEF JobHolds
  <2>8. J.pc = "paper" => J.staged = <<>> /\ J.seen = {}
    BY <2>2 DEF JobHolds
  <2>9. JobHolds(J)'
    BY <2>5, <2>6, <2>7, <2>8 DEF JobHolds
  <2> QED BY <2>0, <2>1, <2>9
<1> QED BY <1>1, <1>3, <1>5, <1>6 DEF BackfillInv

LEMMA OpensStep ==
    ASSUME BackfillInv, NEW t \in AllTrades, NEW mirrored \in BOOLEAN, OpensTrade(t, mirrored),
           OneShadowOpen',
           t \in ShadowTradesAll => \A u \in ShadowTradesAll : record[u] # "open"
    PROVE  BackfillInv'
<1>1. /\ record[t] = "none" /\ record' = [record EXCEPT ![t] = "open"] /\ job' = job
      /\ settled' = settled /\ unclosed' = unclosed /\ Touches(t)
      /\ ledgerRows' = IF mirrored THEN Append(ledgerRows, Row(t, NotClosed)) ELSE ledgerRows
  BY DEF OpensTrade
<1>2. record \in [AllTrades -> {"none", "open", "closed", "lost"}] /\ ledgerRows \in Seq(LedgerLines)
  BY DEF BackfillInv, LedgerTyped
<1>3. Row(t, NotClosed) \in LedgerLines /\ Row(t, NotClosed).of = t /\ Row(t, NotClosed).by = NotClosed
  BY DEF Row, LedgerLines
<1> DEFINE row == Row(t, NotClosed)
<1> HIDE DEF row
<1>4. /\ ledgerRows' \in Seq(LedgerLines) /\ Len(ledgerRows) <= Len(ledgerRows')
      /\ \A i \in 1..Len(ledgerRows) : ledgerRows'[i] = ledgerRows[i]
      /\ \A i \in 1..Len(ledgerRows') : i \in 1..Len(ledgerRows)
                \/ (i = Len(ledgerRows) + 1 /\ ledgerRows'[i] = row)
  BY <1>1, <1>2, <1>3 DEF row
<1>5. row.of = t /\ row.by = NotClosed
  BY <1>3 DEF row
<1>6. \A i \in 1..Len(ledgerRows) : ledgerRows[i].of \in AllTrades /\ record[ledgerRows[i].of] # "none"
  <2>1. \A i \in 1..Len(ledgerRows) : ledgerRows[i] \in LedgerLines
    BY <1>2
  <2> QED BY <2>1 DEF BackfillInv, RecordsKnown, LedgerLines
<1>7. \A i \in 1..Len(ledgerRows') : record'[ledgerRows'[i].of] # "none"
  BY <1>1, <1>2, <1>4, <1>5, <1>6
<1>8. Len(ledgerRows) \in Nat /\ Len(ledgerRows') \in Nat
  BY <1>2, <1>4
<1>9. RowsOf(t) = {}
  BY <1>1, <1>6 DEF RowsOf
<1>10. \A u \in AllTrades : u # t => SameRows(u)
  <2> SUFFICES ASSUME NEW u \in AllTrades, u # t PROVE SameRows(u)
    OBVIOUS
  <2>1. \A i \in 1..Len(ledgerRows) : i \in 1..Len(ledgerRows')
    BY <1>4, <1>8
  <2>2. RowsOf(u)' = RowsOf(u)
    BY <1>4, <1>5, <2>1 DEF RowsOf
  <2> QED BY <1>4, <2>2 DEF SameRows, RowsOf
<1>11. \A i \in RowsOf(t)' : i = Len(ledgerRows) + 1 /\ ledgerRows'[i] = row
  BY <1>4, <1>9 DEF RowsOf
<1>12. t \notin unclosed /\ t \notin settled /\ t # NotClosed
  BY <1>1, KindsApart DEF BackfillInv, RecordsKnown
<1>13. RowKept(t)'
  <2>1. CloseOf(t)' = NotClosed
    BY <1>1, <1>2 DEF CloseOf
  <2>2. \A i \in RowsOf(t)' : NewestOpen(i)'
    <3>1. \A k \in 1..Len(ledgerRows') : k <= Len(ledgerRows) + 1
      BY <1>4, <1>8
    <3> QED BY <1>11, <3>1 DEF NewestOpen
  <2> QED BY <1>1, <1>5, <1>11, <1>12, <2>1, <2>2 DEF RowKept
<1>14. ASSUME NEW u \in ShadowTradesAll, Undisturbed(u) /\ u # t /\ record[u] = "open",
              NEW i \in RowsOf(u)
       PROVE  NewestOpen(i)'
  <2>1. t \notin ShadowTradesAll
    BY <1>14
  <2>2. NewestOpen(i)
    BY <1>14, KindsApart DEF BackfillInv, RowKept
  <2> QED BY <1>4, <1>5, <2>1, <2>2 DEF NewestOpen
<1> HIDE DEF Touches
<1> QED BY <1>1, <1>4, <1>7, <1>10, <1>12, <1>13, <1>14, BotStep

LEMMA OpensOne ==
    ASSUME BackfillInv, NEW mirrored \in BOOLEAN,
           (\E i \in 1..NPaperTrades : OpensPaper(i, mirrored))
             \/ (\E i \in 1..NShadowTrades : OpensShadow(i, mirrored))
    PROVE  BackfillInv'
<1>1. record \in [AllTrades -> {"none", "open", "closed", "lost"}]
  BY DEF BackfillInv, LedgerTyped
<1>2. ASSUME NEW i \in 1..NPaperTrades, OpensPaper(i, mirrored)
      PROVE  BackfillInv'
  <2> DEFINE t == PaperTrade(i)
  <2>1. t \in AllTrades /\ t \notin ShadowTradesAll
    BY TradesAre, KindsApart
  <2>2. OpensTrade(t, mirrored)
    BY <1>2 DEF OpensPaper
  <2> HIDE DEF t
  <2>3. \A u \in ShadowTradesAll : record'[u] = record[u]
    BY <1>1, <2>1, <2>2 DEF OpensTrade
  <2>4. OneShadowOpen'
    BY <2>3, TradesAre DEF BackfillInv, OneShadowOpen
  <2> QED BY <2>1, <2>2, <2>4, OpensStep
<1>3. ASSUME NEW i \in 1..NShadowTrades, OpensShadow(i, mirrored)
      PROVE  BackfillInv'
  <2> DEFINE t == ShadowTrade(i)
  <2>1. t \in ShadowTradesAll /\ t \in AllTrades /\ t[2] = i
    BY TradesAre, KindsApart
  <2>2. OpensTrade(t, mirrored) /\ \A k \in 1..(i - 1) : record[ShadowTrade(k)] \notin {"none", "open"}
    BY <1>3 DEF OpensShadow
  <2> HIDE DEF t
  <2>3. record[t] = "none" /\ \A u \in AllTrades : record'[u] = IF u = t THEN "open" ELSE record[u]
    BY <1>1, <2>1, <2>2 DEF OpensTrade
  <2>4. NShadowTrades \in Nat /\ \A a, b \in 1..NShadowTrades :
            a < b /\ record[ShadowTrade(b)] # "none" => record[ShadowTrade(a)] # "none"
    BY TradesAre DEF BackfillInv, OneShadowOpen
  <2>5. \A u \in ShadowTradesAll : record[u] # "open"
    <3> SUFFICES ASSUME NEW u \in ShadowTradesAll, record[u] = "open" PROVE FALSE
      OBVIOUS
    <3>1. u[2] \in 1..NShadowTrades /\ u = ShadowTrade(u[2])
      BY TradesAre
    <3> DEFINE k == u[2]
    <3>2. k \in 1..NShadowTrades /\ record[ShadowTrade(k)] = "open"
      BY <3>1
    <3> HIDE DEF k
    <3>3. CASE k < i
      <4>1. k \in 1..(i - 1)
        BY <2>4, <3>2, <3>3
      <4> QED BY <2>2, <3>2, <4>1
    <3>4. CASE k = i
      BY <2>3, <3>2, <3>4 DEF t
    <3>5. CASE i < k
      BY <2>3, <2>4, <3>2, <3>5 DEF t
    <3> QED BY <2>4, <3>2, <3>3, <3>4, <3>5
  <2>6. OneShadowOpen'
    <3>1. \A u, v \in ShadowTradesAll : record'[u] = "open" /\ record'[v] = "open" => u = v
      BY <2>3, <2>5, KindsApart
    <3>2. ASSUME NEW a \in 1..NShadowTrades, NEW b \in 1..NShadowTrades,
                 a < b, record'[ShadowTrade(b)] # "none"
          PROVE  record'[ShadowTrade(a)] # "none"
      <4>1. ShadowTrade(a) \in AllTrades /\ ShadowTrade(b) \in AllTrades
        BY TradesAre, KindsApart
      <4>2. CASE record[ShadowTrade(b)] # "none"
        BY <2>3, <2>4, <3>2, <4>1, <4>2
      <4>3. CASE record[ShadowTrade(b)] = "none"
        <5>1. ShadowTrade(b) = t
          BY <2>3, <3>2, <4>1, <4>3
        <5>2. b = i
          BY <2>1, <5>1, TradesAre
        <5>3. a \in 1..(i - 1)
          BY <2>4, <3>2, <5>2
        <5> QED BY <2>2, <2>3, <4>1, <5>3
      <4> QED BY <4>2, <4>3
    <3> QED BY <3>1, <3>2 DEF OneShadowOpen
  <2> QED BY <2>1, <2>2, <2>5, <2>6, OpensStep
<1> QED BY <1>2, <1>3

\* close_entry writes the newest open row of the trades it may close, if there is one.
OpenOf(C) == {i \in 1..Len(ledgerRows) : ledgerRows[i].by = NotClosed /\ ledgerRows[i].of \in C}

LEMMA CloseNewestIs ==
    ASSUME ledgerRows \in Seq(LedgerLines), NEW t \in AllTrades, NEW C
    PROVE  \/ OpenOf(C) = {} /\ CloseNewest(t, C) = ledgerRows
           \/ \E m \in OpenOf(C) :
                /\ \A k \in OpenOf(C) : k <= m
                /\ CloseNewest(t, C) \in Seq(LedgerLines)
                /\ Len(CloseNewest(t, C)) = Len(ledgerRows)
                /\ CloseNewest(t, C)[m] = Row(ledgerRows[m].of, t)
                /\ \A i \in 1..Len(ledgerRows) : i # m => CloseNewest(t, C)[i] = ledgerRows[i]
<1>1. CASE OpenOf(C) = {}
  BY <1>1 DEF CloseNewest, OpenOf
<1>2. CASE OpenOf(C) # {}
  <2> DEFINE m == CHOOSE i \in OpenOf(C) : \A k \in OpenOf(C) : k <= i
  <2>1. OpenOf(C) \subseteq Nat
    BY DEF OpenOf
  <2>2. \E i \in OpenOf(C) : \A k \in OpenOf(C) : k <= i
    <3> DEFINE n == Len(ledgerRows)
               Down == {n - i : i \in OpenOf(C)}
    <3>1. n \in Nat /\ \A i \in OpenOf(C) : i \in 1..n
      BY DEF OpenOf
    <3> HIDE DEF n
    <3>2. Down \in SUBSET Nat /\ Down # {}
      BY <1>2, <3>1
    <3>3. PICK d \in Down : \A e \in Down : d <= e
      BY <3>2, LeastOf
    <3>4. PICK i \in OpenOf(C) : d = n - i
      OBVIOUS
    <3>5. \A k \in OpenOf(C) : n - i <= n - k
      BY <3>3, <3>4
    <3>6. \A k \in OpenOf(C) : k <= i
      BY <3>1, <3>5
    <3> QED BY <3>6
  <2>3. m \in OpenOf(C) /\ \A k \in OpenOf(C) : k <= m
    BY <2>2
  <2>4. CloseNewest(t, C) = [ledgerRows EXCEPT ![m].by = t]
    BY <1>2 DEF CloseNewest, OpenOf
  <2> HIDE DEF m
  <2> DEFINE R == [ledgerRows EXCEPT ![m].by = t]
  <2>5. m \in 1..Len(ledgerRows) /\ ledgerRows[m] \in LedgerLines
    BY <2>3 DEF OpenOf
  <2>6. [ledgerRows[m] EXCEPT !.by = t] = Row(ledgerRows[m].of, t)
    BY <2>5 DEF LedgerLines, Row
  <2>7. Row(ledgerRows[m].of, t) \in LedgerLines
    BY <2>5 DEF LedgerLines, Row
  <2>8. R = [ledgerRows EXCEPT ![m] = Row(ledgerRows[m].of, t)]
    BY <2>6
  <2>9. /\ R \in Seq(LedgerLines) /\ Len(R) = Len(ledgerRows) /\ R[m] = Row(ledgerRows[m].of, t)
        /\ \A i \in 1..Len(ledgerRows) : i # m => R[i] = ledgerRows[i]
    <3> HIDE DEF R
    <3>1. PICK e \in LedgerLines : e = Row(ledgerRows[m].of, t)
      BY <2>7
    <3>2. R = [ledgerRows EXCEPT ![m] = e]
      BY <2>8, <3>1
    <3>3. ledgerRows \in [1..Len(ledgerRows) -> LedgerLines]
      OBVIOUS
    <3>4. R \in [1..Len(ledgerRows) -> LedgerLines]
      BY <2>5, <3>2, <3>3
    <3>5. R \in Seq(LedgerLines) /\ Len(R) = Len(ledgerRows)
      BY <3>4
    <3> QED BY <2>5, <3>1, <3>2, <3>3, <3>5
  <2> QED BY <2>3, <2>4, <2>9
<1> QED BY <1>1, <1>2

LEMMA ClosesStep ==
    ASSUME BackfillInv, NEW t \in AllTrades, NEW r \in {"closed", "lost"}, NEW mirrored \in BOOLEAN,
           NEW C, t \in C, C = {t} \/ (C = ShadowTradesAll /\ t \in ShadowTradesAll),
           mirrored => r = "closed", r = "lost" => t \in ShadowTradesAll,
           record[t] = "open", record' = [record EXCEPT ![t] = r],
           ledgerRows' = IF mirrored THEN CloseNewest(t, C) ELSE ledgerRows,
           unclosed' = IF mirrored THEN unclosed ELSE unclosed \cup {t},
           Touches(t), job' = job, settled' = settled
    PROVE  BackfillInv'
<1>1. record \in [AllTrades -> {"none", "open", "closed", "lost"}] /\ ledgerRows \in Seq(LedgerLines)
  BY DEF BackfillInv, LedgerTyped
<1>2. \A u \in AllTrades : record'[u] = IF u = t THEN r ELSE record[u]
  BY <1>1
<1>3. t \notin unclosed /\ t # NotClosed
  BY KindsApart DEF BackfillInv, RecordsKnown
<1>4. \A i \in 1..Len(ledgerRows) : /\ ledgerRows[i].of \in AllTrades
                                    /\ ledgerRows[i].by \in AllTrades \cup {NotClosed}
                                    /\ record[ledgerRows[i].of] # "none"
  <2>1. \A i \in 1..Len(ledgerRows) : ledgerRows[i] \in LedgerLines
    BY <1>1
  <2> QED BY <2>1 DEF BackfillInv, RecordsKnown, LedgerLines
\* A row that is open and of an undisturbed trade is of a trade that is open.
<1>5. ASSUME NEW u \in AllTrades, Undisturbed(u), u \in C, NEW i \in RowsOf(u), ledgerRows[i].by = NotClosed
      PROVE  u = t
  <2>1. RowKept(u)
    BY <1>5 DEF BackfillInv
  <2>2. CASE u \in ShadowTradesAll
    <3>1. u \notin unclosed
      BY <1>5, <2>2 DEF Undisturbed
    <3>2. CloseOf(u) = NotClosed
      BY <1>5, <2>1, <3>1 DEF RowKept
    <3>3. record[u] # "closed"
      BY <3>2, KindsApart, <1>5 DEF CloseOf
    <3>4. record[u] # "lost"
      BY <2>2, <3>1, <1>5 DEF BackfillInv, RecordsKnown
    <3>5. record[u] # "none"
      BY <1>4, <1>5 DEF RowsOf
    <3>6. record[u] = "open"
      BY <1>1, <3>3, <3>4, <3>5
    <3> QED BY <1>5, <2>2, <3>6 DEF BackfillInv, OneShadowOpen
  <2>3. CASE u \notin ShadowTradesAll
    BY <1>5, <2>3
  <2> QED BY <2>2, <2>3
\* What the step writes, if anything: one open row.
<1> DEFINE Writes(m) ==
        /\ mirrored /\ m \in OpenOf(C) /\ \A k \in OpenOf(C) : k <= m
        /\ ledgerRows' \in Seq(LedgerLines) /\ Len(ledgerRows') = Len(ledgerRows)
        /\ ledgerRows'[m] = Row(ledgerRows[m].of, t)
        /\ \A i \in 1..Len(ledgerRows) : i # m => ledgerRows'[i] = ledgerRows[i]
<1>6. \/ ledgerRows' = ledgerRows /\ (mirrored => OpenOf(C) = {})
      \/ \E m \in 1..Len(ledgerRows) : Writes(m)
  <2>1. CASE ~mirrored
    BY <2>1
  <2>2. CASE mirrored
    <3>1. ledgerRows' = CloseNewest(t, C)
      BY <2>2
    <3>2. CASE OpenOf(C) = {} /\ CloseNewest(t, C) = ledgerRows
      BY <3>1, <3>2
    <3>3. CASE ~(OpenOf(C) = {} /\ CloseNewest(t, C) = ledgerRows)
      <4>1. PICK m \in OpenOf(C) :
                /\ \A k \in OpenOf(C) : k <= m
                /\ CloseNewest(t, C) \in Seq(LedgerLines)
                /\ Len(CloseNewest(t, C)) = Len(ledgerRows)
                /\ CloseNewest(t, C)[m] = Row(ledgerRows[m].of, t)
                /\ \A i \in 1..Len(ledgerRows) : i # m => CloseNewest(t, C)[i] = ledgerRows[i]
        BY <1>1, <3>3, CloseNewestIs
      <4>2. m \in 1..Len(ledgerRows)
        BY DEF OpenOf
      <4>3. Writes(m)
        BY <2>2, <3>1, <4>1
      <4> QED BY <4>2, <4>3
    <3> QED BY <3>2, <3>3
  <2> QED BY <2>1, <2>2
<1>7. /\ ledgerRows' \in Seq(LedgerLines) /\ Len(ledgerRows') = Len(ledgerRows)
      /\ \A i \in 1..Len(ledgerRows) : /\ ledgerRows'[i].of = ledgerRows[i].of
                                       /\ ledgerRows'[i] = ledgerRows[i] \/ Writes(i)
  <2>1. CASE ledgerRows' = ledgerRows
    BY <1>1, <2>1
  <2>2. CASE \E m \in 1..Len(ledgerRows) : Writes(m)
    <3>1. PICK m \in 1..Len(ledgerRows) : Writes(m)
      BY <2>2
    <3>2. /\ ledgerRows' \in Seq(LedgerLines) /\ Len(ledgerRows') = Len(ledgerRows)
          /\ ledgerRows'[m] = Row(ledgerRows[m].of, t)
          /\ \A i \in 1..Len(ledgerRows) : i # m => ledgerRows'[i] = ledgerRows[i]
      BY <3>1
    <3>3. Row(ledgerRows[m].of, t).of = ledgerRows[m].of
      BY DEF Row
    <3> HIDE DEF Writes
    <3> QED BY <3>1, <3>2, <3>3
  <2> QED BY <1>6, <2>1, <2>2
<1>8. \A u \in AllTrades : RowsOf(u)' = RowsOf(u)
  BY <1>7 DEF RowsOf
<1>9. ASSUME NEW u \in AllTrades, Undisturbed(u), u # t
      PROVE  SameRows(u)
  <2>1. ASSUME NEW i \in RowsOf(u)
        PROVE  ledgerRows'[i] = ledgerRows[i]
    <3> SUFFICES ASSUME ledgerRows'[i] # ledgerRows[i] PROVE FALSE
      OBVIOUS
    <3>1. i \in 1..Len(ledgerRows) /\ ledgerRows[i].of = u
      BY DEF RowsOf
    <3>2. i \in OpenOf(C)
      BY <1>7, <3>1
    <3>3. u \in C /\ ledgerRows[i].by = NotClosed
      BY <3>1, <3>2 DEF OpenOf
    <3> QED BY <1>5, <1>9, <3>3
  <2> QED BY <1>8, <2>1 DEF SameRows
<1>10. \A i \in 1..Len(ledgerRows') : record'[ledgerRows'[i].of] # "none"
  BY <1>2, <1>4, <1>7
<1>11. OneShadowOpen'
  <2>1. \A u \in AllTrades : (record'[u] = "open" => record[u] = "open") /\ (record'[u] # "none" <=> record[u] # "none")
    BY <1>2
  <2>2. \A u \in ShadowTradesAll : u \in AllTrades
    BY KindsApart
  <2>3. \A i \in 1..NShadowTrades : ShadowTrade(i) \in AllTrades
    BY TradesAre, KindsApart
  <2>4. OneShadowOpen
    BY DEF BackfillInv
  <2>5. \A u, v \in ShadowTradesAll : record'[u] = "open" /\ record'[v] = "open" => u = v
    BY <2>1, <2>2, <2>4 DEF OneShadowOpen
  <2>6. \A i, k \in 1..NShadowTrades :
            i < k /\ record'[ShadowTrade(k)] # "none" => record'[ShadowTrade(i)] # "none"
    BY <2>1, <2>3, <2>4 DEF OneShadowOpen
  <2> QED BY <2>5, <2>6 DEF OneShadowOpen
<1>12. ASSUME NEW u \in ShadowTradesAll, Undisturbed(u) /\ u # t /\ record[u] = "open", NEW i \in RowsOf(u)
       PROVE  NewestOpen(i)'
  <2>1. t \notin ShadowTradesAll
    BY <1>12 DEF BackfillInv, OneShadowOpen
  <2>2. NewestOpen(i)
    BY <1>12, KindsApart DEF BackfillInv, RowKept
  <2>3. \A k \in 1..Len(ledgerRows) : ledgerRows[k].of \in ShadowTradesAll => ledgerRows'[k] = ledgerRows[k]
    BY <1>7, <2>1 DEF OpenOf
  <2> QED BY <1>7, <2>2, <2>3 DEF NewestOpen
<1>13. ASSUME Undisturbed(t)'
       PROVE  RowKept(t)'
  <2>1. Undisturbed(t) /\ RowKept(t)
    BY <1>13 DEF Undisturbed, Touches, BackfillInv
  <2>2. \A i \in RowsOf(t) : ledgerRows[i].by = NotClosed
    BY <1>3, <2>1 DEF RowKept, CloseOf
  <2>3. ASSUME NEW i \in RowsOf(t), t \notin unclosed'
        PROVE  ledgerRows'[i].by = CloseOf(t)'
    <3>1. mirrored /\ r = "closed"
      BY <2>3
    <3>2. CloseOf(t)' = t
      BY <1>2, <3>1 DEF CloseOf
    <3>3. i \in OpenOf(C) /\ i \in 1..Len(ledgerRows)
      BY <2>2 DEF OpenOf, RowsOf
    <3>4. PICK m \in 1..Len(ledgerRows) : Writes(m)
      BY <1>6, <3>1, <3>3
    <3>5. m = i
      <4>1. i <= m
        BY <3>3, <3>4
      <4>2. CASE C = {t}
        BY <2>1, <3>4, <4>2 DEF OpenOf, RowsOf, RowKept
      <4>3. CASE C = ShadowTradesAll /\ t \in ShadowTradesAll
        <5>1. NewestOpen(i)
          BY <2>1, <4>3 DEF RowKept
        <5>2. m <= i
          BY <3>4, <4>3, <5>1 DEF NewestOpen, OpenOf
        <5> QED BY <3>3, <4>1, <5>2
      <4> QED BY <4>2, <4>3
    <3> QED BY <3>2, <3>4, <3>5 DEF Row
  <2>4. record'[t] # "open"
    BY <1>2
  <2>5. /\ \A i, k \in RowsOf(t)' : i = k
        /\ \A i \in RowsOf(t)' : t \in unclosed' \/ ledgerRows'[i].by = CloseOf(t)'
        /\ t \in settled' => RowsOf(t)' # {}
    BY <1>8, <2>1, <2>3 DEF RowKept
  <2> QED BY <2>4, <2>5 DEF RowKept
<1>14. unclosed' \in {unclosed, unclosed \cup {t}} /\ (t \in ShadowTradesAll /\ r = "lost" => t \in unclosed')
  OBVIOUS
<1> HIDE DEF Touches, Writes
<1> QED BY <1>7, <1>9, <1>10, <1>11, <1>12, <1>13, <1>14, BotStep

LEMMA ClosesOne ==
    ASSUME BackfillInv,
           \/ \E i \in 1..NPaperTrades, mirrored \in BOOLEAN : ClosesPaper(i, mirrored)
           \/ \E i \in 1..NShadowTrades, how \in {"mirrored", "unmirrored", "lost"} : ClosesShadow(i, how)
    PROVE  BackfillInv'
<1>1. ASSUME NEW i \in 1..NPaperTrades, NEW mirrored \in BOOLEAN, ClosesPaper(i, mirrored)
      PROVE  BackfillInv'
  <2>1. PICK t \in AllTrades : t = PaperTrade(i)
    BY TradesAre, KindsApart
  <2>2. /\ record[t] = "open" /\ record' = [record EXCEPT ![t] = "closed"]
        /\ ledgerRows' = IF mirrored THEN CloseNewest(t, {t}) ELSE ledgerRows
        /\ unclosed' = IF mirrored THEN unclosed ELSE unclosed \cup {t}
        /\ Touches(t) /\ job' = job /\ settled' = settled
    BY <1>1, <2>1 DEF ClosesPaper
  <2>3. PICK C : C = {t}
    OBVIOUS
  <2>4. ledgerRows' = IF mirrored THEN CloseNewest(t, C) ELSE ledgerRows
    BY <2>2, <2>3
  <2>5. PICK r \in {"closed", "lost"} : r = "closed"
    OBVIOUS
  <2>6. record' = [record EXCEPT ![t] = r] /\ t \in C /\ r # "lost"
    BY <2>2, <2>3, <2>5
  <2> QED BY <2>2, <2>3, <2>4, <2>5, <2>6, ClosesStep
<1>2. ASSUME NEW i \in 1..NShadowTrades, NEW how \in {"mirrored", "unmirrored", "lost"}, ClosesShadow(i, how)
      PROVE  BackfillInv'
  <2>1. PICK t \in AllTrades : t = ShadowTrade(i) /\ t \in ShadowTradesAll
    BY TradesAre, KindsApart
  <2>2. PICK r \in {"closed", "lost"} : r = IF how = "lost" THEN "lost" ELSE "closed"
    OBVIOUS
  <2>3. PICK mirrored \in BOOLEAN : mirrored <=> how = "mirrored"
    OBVIOUS
  <2>4. /\ record[t] = "open" /\ record' = [record EXCEPT ![t] = r]
        /\ ledgerRows' = IF how = "mirrored" THEN CloseNewest(t, ShadowTradesAll) ELSE ledgerRows
        /\ unclosed' = IF how = "mirrored" THEN unclosed ELSE unclosed \cup {t}
        /\ Touches(t) /\ job' = job /\ settled' = settled
    BY <1>2, <2>1, <2>2 DEF ClosesShadow
  <2>5. PICK C : C = ShadowTradesAll
    OBVIOUS
  <2>6. /\ ledgerRows' = IF mirrored THEN CloseNewest(t, C) ELSE ledgerRows
        /\ unclosed' = IF mirrored THEN unclosed ELSE unclosed \cup {t}
    BY <2>3, <2>4, <2>5
  <2>7. mirrored => r = "closed"
    BY <2>2, <2>3
  <2> QED BY <2>1, <2>4, <2>5, <2>6, <2>7, ClosesStep
<1> QED BY <1>1, <1>2

----
(* A run of the script reads. *)
LEMMA StepsStep ==
    ASSUME BackfillInv, NEW j \in Jobs, NEW next \in JobRow, Steps(j, next),
           next.pc # "idle" => JobHolds(next)
    PROVE  BackfillInv'
<1>1. /\ job' = [job EXCEPT ![j] = next] /\ record' = record /\ ledgerRows' = ledgerRows
      /\ touched' = touched /\ settled' = settled /\ unclosed' = unclosed
  BY DEF Steps
<1>2. LedgerTyped'
  BY <1>1 DEF BackfillInv, LedgerTyped
<1>3. RecordsKnown' /\ OneShadowOpen'
  BY <1>1 DEF BackfillInv, RecordsKnown, OneShadowOpen
<1>4. \A t : RowsOf(t)' = RowsOf(t) /\ CloseOf(t)' = CloseOf(t) /\ (Undisturbed(t)' <=> Undisturbed(t))
  BY <1>1 DEF RowsOf, CloseOf, Undisturbed
<1>5. \A t \in AllTrades : Undisturbed(t)' => RowKept(t)'
  <2>1. \A i : NewestOpen(i)' <=> NewestOpen(i)
    BY <1>1 DEF NewestOpen
  <2> QED BY <1>1, <1>4, <2>1 DEF BackfillInv, RowKept
<1>6. ASSUME NEW J, JobHolds(J)
      PROVE  JobHolds(J)'
  <2>1. \A k \in 1..Len(J.staged) : StagedRight(J.pc, J.staged[k])'
    BY <1>1, <1>6 DEF JobHolds, StagedRight
  <2>2. \A t \in AllTrades : Undisturbed(t)' => JobKnows(J, t)'
    BY <1>1, <1>4, <1>6 DEF JobHolds, JobKnows
  <2>3. \A t \in AllTrades : Undisturbed(t)' => JobStages(J, t)'
    BY <1>1, <1>4, <1>6 DEF JobHolds, JobStages, StagedOf
  <2> QED BY <1>1, <1>6, <2>1, <2>2, <2>3 DEF JobHolds
<1>7. ASSUME NEW k \in AtWork'
      PROVE  JobHolds(job[k])'
  <2>0. job \in [Jobs -> JobRow]
    BY DEF BackfillInv, LedgerTyped
  <2>1. PICK J : J = job'[k]
    OBVIOUS
  <2>2. k \in Jobs /\ J.pc # "idle"
    BY <2>1 DEF AtWork
  <2>3. JobHolds(J)
    <3>1. CASE k = j
      BY <1>1, <2>0, <2>1, <2>2, <3>1
    <3>2. CASE k # j
      <4>1. J = job[k] /\ k \in AtWork
        BY <1>1, <2>0, <2>1, <2>2, <3>2 DEF AtWork
      <4> QED BY <4>1 DEF BackfillInv
    <3> QED BY <3>1, <3>2
  <2>4. JobHolds(J)'
    BY <1>6, <2>3
  <2> QED BY <2>1, <2>4
<1> QED BY <1>2, <1>3, <1>5, <1>7 DEF BackfillInv

\* _existing_keys knows, of every trade, which rows it has.
LEMMA KeysKnow ==
    ASSUME BackfillInv
    PROVE  [ExistingKeys EXCEPT !.pc = "paper"] \in JobRow /\ JobHolds([ExistingKeys EXCEPT !.pc = "paper"])
<1> DEFINE Mine(kind, open) == {k \in 1..Len(ledgerRows) : /\ ledgerRows[k].of[1] = kind
                                                           /\ (ledgerRows[k].by = NotClosed) = open}
           Of(kind, open) == {ledgerRows[i] : i \in Mine(kind, open)}
           paperRows == {r.of : r \in Of("PAPER", TRUE) \cup Of("PAPER", FALSE)}
           shadowOpen == {r.of : r \in Of("SHADOW", TRUE)}
           shadowClosed == Of("SHADOW", FALSE)
<1>1. ledgerRows \in Seq(LedgerLines) /\ \A i \in 1..Len(ledgerRows) : ledgerRows[i] \in LedgerLines
  BY DEF BackfillInv, LedgerTyped
<1>2. \A kind, open : Of(kind, open) \subseteq LedgerLines
  BY <1>1
<1>3. paperRows \subseteq AllTrades /\ shadowOpen \subseteq AllTrades /\ shadowClosed \subseteq LedgerLines
  <2>1. \A r \in LedgerLines : r.of \in AllTrades
    BY DEF LedgerLines
  <2> HIDE DEF Of
  <2> QED BY <1>2, <2>1
<1>4. RowKeys = [NoJob EXCEPT !.paperIds = paperRows, !.shadowOpen = shadowOpen,
                              !.shadowClosed = shadowClosed]
  BY Zenon DEF RowKeys
<1>5. NoJob \in JobRow /\ NoJob.staged = <<>> /\ NoJob.seen = {}
  <2>1. <<>> \in Seq(LedgerLines)
    OBVIOUS
  <2> QED BY <2>1 DEF NoJob, JobRow
<1>6. PICK J \in JobRow : /\ J = [ExistingKeys EXCEPT !.pc = "paper"]
                          /\ J.paperIds = paperRows /\ J.shadowOpen = shadowOpen
                          /\ J.shadowClosed = shadowClosed /\ J.staged = <<>> /\ J.seen = {}
  <2> DEFINE one == [NoJob EXCEPT !.paperIds = paperRows]
             two == [one EXCEPT !.shadowOpen = shadowOpen]
             three == [two EXCEPT !.shadowClosed = shadowClosed]
             four == [three EXCEPT !.pc = "paper"]
  <2> HIDE DEF paperRows, shadowOpen, shadowClosed
  <2>1. [ExistingKeys EXCEPT !.pc = "paper"] = four
    BY <1>4 DEF ExistingKeys
  <2>2. one \in JobRow /\ one.paperIds = paperRows /\ one.staged = <<>> /\ one.seen = {}
    BY <1>3, <1>5 DEF JobRow
  <2> HIDE DEF one
  <2>3. two \in JobRow /\ two.paperIds = paperRows /\ two.shadowOpen = shadowOpen /\ two.staged = <<>>
        /\ two.seen = {}
    BY <1>3, <2>2 DEF JobRow
  <2> HIDE DEF two
  <2>4. three \in JobRow /\ three.paperIds = paperRows /\ three.shadowOpen = shadowOpen
        /\ three.shadowClosed = shadowClosed /\ three.staged = <<>> /\ three.seen = {}
    BY <1>3, <2>3 DEF JobRow
  <2> HIDE DEF three
  <2>5. four \in JobRow /\ four.paperIds = paperRows /\ four.shadowOpen = shadowOpen
        /\ four.shadowClosed = shadowClosed /\ four.staged = <<>> /\ four.seen = {}
    BY <2>4 DEF JobRow
  <2> QED BY <2>1, <2>5
<1>7. ASSUME NEW t \in AllTrades
      PROVE  JobKnows(J, t)
  <2>1. ASSUME t \in PaperTradesAll
        PROVE  t \in paperRows <=> RowsOf(t) # {}
    <3>1. t[1] = "PAPER"
      BY <2>1, TradesAre
    <3>2. ASSUME t \in paperRows
          PROVE  RowsOf(t) # {}
      BY <3>2 DEF RowsOf
    <3>3. ASSUME NEW i \in RowsOf(t)
          PROVE  t \in paperRows
      <4>1. i \in 1..Len(ledgerRows) /\ ledgerRows[i].of = t
        BY DEF RowsOf
      <4>2. CASE ledgerRows[i].by = NotClosed
        BY <3>1, <4>1, <4>2
      <4>3. CASE ledgerRows[i].by # NotClosed
        BY <3>1, <4>1, <4>3
      <4> QED BY <4>2, <4>3
    <3> QED BY <3>2, <3>3
  <2>2. ASSUME t \in ShadowTradesAll
        PROVE  t \in shadowOpen <=> \E i \in RowsOf(t) : ledgerRows[i].by = NotClosed
    <3>1. t[1] = "SHADOW"
      BY <2>2, TradesAre
    <3> QED BY <3>1 DEF RowsOf
  <2>3. ASSUME t \in ShadowTradesAll
        PROVE  Row(t, t) \in shadowClosed <=> \E i \in RowsOf(t) : ledgerRows[i].by = t
    <3>1. t[1] = "SHADOW" /\ t # NotClosed
      BY <2>3, TradesAre, KindsApart
    <3>2. Row(t, t).of = t /\ Row(t, t).by = t
      BY DEF Row
    <3>3. ASSUME Row(t, t) \in shadowClosed
          PROVE  \E i \in RowsOf(t) : ledgerRows[i].by = t
      BY <3>2, <3>3 DEF RowsOf
    <3>4. ASSUME NEW i \in RowsOf(t), ledgerRows[i].by = t
          PROVE  Row(t, t) \in shadowClosed
      <4>1. i \in 1..Len(ledgerRows) /\ ledgerRows[i].of = t
        BY DEF RowsOf
      <4>2. ledgerRows[i] = Row(t, t)
        BY <1>1, <3>4, <4>1 DEF LedgerLines, Row
      <4>3. i \in Mine("SHADOW", FALSE)
        BY <3>1, <3>4, <4>1
      <4> QED BY <4>2, <4>3
    <3> QED BY <3>3, <3>4
  <2> HIDE DEF paperRows, shadowOpen, shadowClosed
  <2> QED BY <1>6, <2>1, <2>2, <2>3 DEF JobKnows
<1>8. J.staged = <<>> /\ J.seen = {} /\ Len(J.staged) = 0
  BY <1>6
<1>9. JobHolds(J)
  BY <1>7, <1>8 DEF JobHolds, JobStages, StagedOf
<1> QED BY <1>6, <1>9

LEMMA SequenceFrom ==
    ASSUME NEW S, NEW n \in Nat, NEW f \in [1..n -> S]
    PROVE  f \in Seq(S) /\ Len(f) = n
OBVIOUS

\* The rows staged from one source: one of every new trade.
Adds(before, all, new, close) ==
    /\ all \in Seq(LedgerLines) /\ Len(before) \in Nat
    /\ Len(before) <= Len(all) /\ Len(all) \in Nat
    /\ \A k \in 1..Len(before) : all[k] = before[k]
    /\ \A k \in 1..Len(all) : k \in 1..Len(before) \/ \E t \in new : all[k] = Row(t, close[t])
    /\ \A t \in new : \E k \in 1..Len(all) : all[k] = Row(t, close[t])
    /\ \A k, i \in 1..Len(all) :
            k \notin 1..Len(before) /\ i \notin 1..Len(before) /\ all[k].of = all[i].of => k = i

LEMMA RowsStaged ==
    ASSUME NEW new, new \subseteq PaperTradesAll \/ new \subseteq ShadowTradesAll, NEW close,
           \A t \in new : close[t] \in AllTrades \cup {NotClosed}, NEW before \in Seq(LedgerLines),
           NEW rows, rows = [k \in 1..Cardinality(new) |-> LET t == InOrder(new)[k] IN Row(t, close[t])]
    PROVE  Adds(before, before \o rows, new, close)
<1> DEFINE n == Cardinality(new)
           list == InOrder(new)
<1>1. /\ n \in Nat /\ list \in [1..n -> new] /\ (\A t \in new : \E k \in 1..n : list[k] = t)
      /\ \A i, k \in 1..n : list[i] = list[k] => i = k
  BY InOrderIs
<1>2. rows = [k \in 1..n |-> Row(list[k], close[list[k]])]
  OBVIOUS
<1> HIDE DEF n, list
<1>3. \A t \in new : t \in AllTrades /\ Row(t, close[t]) \in LedgerLines /\ Row(t, close[t]).of = t
  <2>1. \A t \in new : t \in AllTrades
    BY DEF AllTrades
  <2> QED BY <2>1 DEF Row, LedgerLines
<1>4. rows \in Seq(LedgerLines) /\ Len(rows) = n
  <2>1. \A k \in 1..n : Row(list[k], close[list[k]]) \in LedgerLines
    BY <1>1, <1>3
  <2>2. rows \in [1..n -> LedgerLines]
    BY <1>2, <2>1
  <2> QED BY <1>1, <2>2, SequenceFrom, ZenonT(60)
<1>5. /\ before \o rows \in Seq(LedgerLines) /\ Len(before) \in Nat
      /\ Len(before \o rows) = Len(before) + Len(rows)
      /\ \A k \in 1..Len(before) : (before \o rows)[k] = before[k]
      /\ \A k \in 1..Len(rows) : (before \o rows)[Len(before) + k] = rows[k]
  <2>1. rows \in Seq(LedgerLines) /\ before \in Seq(LedgerLines)
    BY <1>4
  <2>2. ASSUME NEW a \in Seq(LedgerLines), NEW b \in Seq(LedgerLines)
        PROVE  /\ a \o b \in Seq(LedgerLines) /\ Len(a) \in Nat /\ Len(a \o b) = Len(a) + Len(b)
               /\ \A k \in 1..Len(a) : (a \o b)[k] = a[k]
               /\ \A k \in 1..Len(b) : (a \o b)[Len(a) + k] = b[k]
    OBVIOUS
  <2> QED BY <2>1, <2>2
<1>6. \A k \in 1..n : rows[k] = Row(list[k], close[list[k]]) /\ rows[k].of = list[k] /\ list[k] \in new
  BY <1>1, <1>2, <1>3
<1> DEFINE all == before \o rows
<1> HIDE DEF all
<1>7. /\ all \in Seq(LedgerLines) /\ Len(all) = Len(before) + n
      /\ \A k \in 1..Len(before) : all[k] = before[k]
      /\ \A k \in 1..n : all[Len(before) + k] = rows[k]
  <2>1. /\ all \in Seq(LedgerLines) /\ Len(all) = Len(before) + Len(rows)
        /\ \A k \in 1..Len(before) : all[k] = before[k]
        /\ \A k \in 1..Len(rows) : all[Len(before) + k] = rows[k]
    BY <1>5 DEF all
  <2> QED BY <1>4, <2>1
<1>8. \A k \in 1..Len(all) : k \notin 1..Len(before) =>
            k - Len(before) \in 1..n /\ all[k] = rows[k - Len(before)]
  <2> SUFFICES ASSUME NEW k \in 1..Len(all), k \notin 1..Len(before)
               PROVE  k - Len(before) \in 1..n /\ all[k] = rows[k - Len(before)]
    OBVIOUS
  <2>1. k - Len(before) \in 1..n /\ Len(before) + (k - Len(before)) = k
    BY <1>1, <1>5, <1>7
  <2> QED BY <1>7, <2>1
<1>9. \A k \in 1..n : Len(before) + k \in 1..Len(all)
  BY <1>1, <1>5, <1>7
<1>10. \A t \in new : \E k \in 1..Len(all) : all[k] = Row(t, close[t])
  <2> SUFFICES ASSUME NEW t \in new PROVE \E k \in 1..Len(all) : all[k] = Row(t, close[t])
    OBVIOUS
  <2>1. PICK k \in 1..n : list[k] = t
    BY <1>1
  <2> QED BY <1>6, <1>7, <1>9, <2>1, ZenonT(60)
<1>11. \A k, i \in 1..Len(all) : k \notin 1..Len(before) /\ i \notin 1..Len(before) /\ all[k].of = all[i].of => k = i
  <2> SUFFICES ASSUME NEW k \in 1..Len(all), NEW i \in 1..Len(all), k \notin 1..Len(before),
                      i \notin 1..Len(before), all[k].of = all[i].of
               PROVE  k = i
    OBVIOUS
  <2>1. list[k - Len(before)] = list[i - Len(before)]
    BY <1>6, <1>8
  <2>2. k - Len(before) = i - Len(before)
    BY <1>1, <1>8, <2>1
  <2> QED BY <1>5, <2>2
<1>12. \A k \in 1..Len(all) : k \in 1..Len(before) \/ \E t \in new : all[k] = Row(t, close[t])
  <2> SUFFICES ASSUME NEW k \in 1..Len(all), k \notin 1..Len(before)
               PROVE  \E t \in new : all[k] = Row(t, close[t])
    OBVIOUS
  <2>1. PICK i \in 1..n : all[k] = rows[i]
    BY <1>8
  <2>2. list[i] \in new
    BY <1>1
  <2>3. all[k] = Row(list[i], close[list[i]])
    BY <1>6, <2>1
  <2> QED BY <2>2, <2>3
<1>13. Len(before) <= Len(all) /\ Len(all) \in Nat
  BY <1>1, <1>5, <1>7
<1> QED BY <1>5, <1>7, <1>10, <1>11, <1>12, <1>13 DEF Adds, all

\* A source is read and its new rows are staged.
LEMMA StagingStep ==
    ASSUME BackfillInv, NEW j \in Jobs, NEW pc \in {"csv", "open", "insert"}, NEW trades, NEW known, NEW close,
           trades \subseteq PaperTradesAll \/ trades \subseteq ShadowTradesAll,
           StagesNew(j, pc, trades, known, close), job[j].pc # "idle",
           \A t \in trades : close[t] \in AllTrades \cup {NotClosed},
           \A t \in trades \ known : StagedRight(pc, Row(t, close[t])),
           \A k \in 1..Len(job[j].staged) : StagedRight(pc, job[j].staged[k]),
           \A t \in trades : record[t] # "none",
           \A t \in trades : Undisturbed(t) =>
                /\ t \in known => RowsOf(t) # {}
                /\ t \notin known => RowsOf(t) = {} /\ close[t] = CloseOf(t) /\ StagedOf(job[j], t) = {}
    PROVE  BackfillInv'
<1>1. PICK J \in JobRow : J = job[j]
  BY DEF BackfillInv, LedgerTyped
<1>2. JobHolds(J) /\ J.pc # "idle"
  BY <1>1 DEF BackfillInv, AtWork
<1>3. PICK sound : sound = trades \ Malformed
  OBVIOUS
<1>4. PICK new : new = sound \ known
  OBVIOUS
<1>5. PICK rows : rows = [k \in 1..Cardinality(new) |-> LET t == InOrder(new)[k] IN Row(t, close[t])]
  OBVIOUS
<1>6. PICK before \in Seq(LedgerLines) : before = J.staged
  BY DEF JobRow
<1>7. PICK all : all = before \o rows
  OBVIOUS
<1>8. Adds(before, all, new, close)
  <2>1. new \subseteq PaperTradesAll \/ new \subseteq ShadowTradesAll
    BY <1>3, <1>4
  <2>2. \A t \in new : close[t] \in AllTrades \cup {NotClosed}
    BY <1>3, <1>4
  <2>3. Adds(before, before \o rows, new, close)
    BY <1>5, <2>1, <2>2, RowsStaged
  <2> QED BY <1>7, <2>3
<1>9. PICK next \in JobRow : /\ next = [J EXCEPT !.pc = pc, !.seen = @ \cup sound, !.staged = @ \o rows]
                             /\ next.pc = pc /\ next.seen = J.seen \cup sound /\ next.staged = all
                             /\ next.paperIds = J.paperIds /\ next.shadowOpen = J.shadowOpen
                             /\ next.shadowClosed = J.shadowClosed
  <2> DEFINE one == [J EXCEPT !.pc = pc]
             two == [one EXCEPT !.seen = J.seen \cup sound]
             three == [two EXCEPT !.staged = all]
  <2>1. one \in JobRow /\ one.pc = pc /\ one.seen = J.seen /\ one.staged = J.staged
        /\ one.paperIds = J.paperIds /\ one.shadowOpen = J.shadowOpen /\ one.shadowClosed = J.shadowClosed
    BY DEF JobRow
  <2>2. J.seen \cup sound \in SUBSET AllTrades
    BY <1>3, KindsApart DEF JobRow
  <2>3. [J EXCEPT !.pc = pc, !.seen = @ \cup sound, !.staged = @ \o rows] = three
    <3>1. [J EXCEPT !.pc = pc, !.seen = @ \cup sound, !.staged = @ \o rows]
            = [J EXCEPT !.pc = pc, !.seen = J.seen \cup sound, !.staged = J.staged \o rows]
      BY DEF JobRow
    <3> QED BY <1>6, <1>7, <3>1
  <2> HIDE DEF one
  <2>4. two \in JobRow /\ two.pc = pc /\ two.seen = J.seen \cup sound
        /\ two.paperIds = J.paperIds /\ two.shadowOpen = J.shadowOpen /\ two.shadowClosed = J.shadowClosed
    BY <2>1, <2>2 DEF JobRow
  <2> HIDE DEF two
  <2>5. three \in JobRow /\ three.pc = pc /\ three.seen = J.seen \cup sound /\ three.staged = all
        /\ three.paperIds = J.paperIds /\ three.shadowOpen = J.shadowOpen
        /\ three.shadowClosed = J.shadowClosed
    BY <1>8, <2>4 DEF JobRow, Adds
  <2> HIDE DEF three
  <2> QED BY <2>3, <2>5
<1>10. Steps(j, next)
  BY <1>1, <1>3, <1>4, <1>5, <1>9 DEF StagesNew
<1>11. \A t \in new : /\ t \in AllTrades /\ t \in trades /\ t \notin known
                      /\ Row(t, close[t]).of = t /\ Row(t, close[t]).by = close[t]
  BY <1>3, <1>4, KindsApart DEF Row
<1>12. ASSUME NEW k \in 1..Len(all)
       PROVE  StagedRight(pc, all[k])
  <2>1. CASE k \in 1..Len(before)
    BY <1>1, <1>6, <1>8, <2>1 DEF Adds
  <2>2. CASE k \notin 1..Len(before)
    BY <1>8, <1>11, <2>2 DEF Adds
  <2> QED BY <2>1, <2>2
<1>13. \A t \in AllTrades : t \in next.seen => record[t] # "none"
  BY <1>2, <1>3, <1>9 DEF JobHolds
<1>14. ASSUME NEW t \in AllTrades, Undisturbed(t)
       PROVE  JobKnows(next, t) /\ JobStages(next, t)
  <2>1. JobKnows(J, t) /\ JobStages(J, t)
    BY <1>2, <1>14 DEF JobHolds
  <2>2. JobKnows(next, t)
    BY <1>9, <2>1 DEF JobKnows
  <2>3. /\ \A i, k \in StagedOf(J, t) : i = k
        /\ \A k \in StagedOf(J, t) : RowsOf(t) = {} /\ before[k].by = CloseOf(t)
        /\ t \in J.seen => RowsOf(t) # {} \/ StagedOf(J, t) # {}
    BY <1>6, <2>1 DEF JobStages
  <2>4. \A k \in StagedOf(next, t) : /\ k \in 1..Len(all) /\ all[k].of = t
                                     /\ k \in 1..Len(before) => k \in StagedOf(J, t)
    BY <1>6, <1>8, <1>9 DEF StagedOf, Adds
  <2>5. \A k \in StagedOf(J, t) : k \in 1..Len(before) /\ k \in StagedOf(next, t)
    BY <1>6, <1>8, <1>9 DEF StagedOf, Adds
  <2>6. \A k \in StagedOf(next, t) : k \notin 1..Len(before) => t \in new /\ all[k].by = close[t]
    BY <1>8, <1>11, <2>4 DEF Adds
  <2>7. t \in new => RowsOf(t) = {} /\ close[t] = CloseOf(t) /\ StagedOf(J, t) = {}
    BY <1>1, <1>11, <1>14
  <2>8. \A i, k \in StagedOf(next, t) : i = k
    BY <1>8, <2>3, <2>4, <2>6, <2>7 DEF Adds
  <2>9. \A k \in StagedOf(next, t) : RowsOf(t) = {} /\ all[k].by = CloseOf(t)
    <3> SUFFICES ASSUME NEW k \in StagedOf(next, t)
                 PROVE  RowsOf(t) = {} /\ all[k].by = CloseOf(t)
      OBVIOUS
    <3>1. CASE k \in 1..Len(before)
      BY <1>8, <2>3, <2>4, <3>1 DEF Adds
    <3>2. CASE k \notin 1..Len(before)
      BY <2>6, <2>7, <3>2
    <3> QED BY <3>1, <3>2
  <2>10. ASSUME t \in next.seen
         PROVE  RowsOf(t) # {} \/ StagedOf(next, t) # {}
    <3>1. CASE t \in J.seen
      BY <2>3, <2>5, <3>1
    <3>2. CASE t \in sound /\ t \in known
      BY <1>3, <1>14, <3>2
    <3>3. CASE t \in new
      <4>1. PICK k \in 1..Len(all) : all[k] = Row(t, close[t])
        BY <1>8, <3>3 DEF Adds
      <4>2. k \in StagedOf(next, t)
        BY <1>9, <1>11, <3>3, <4>1 DEF StagedOf
      <4> QED BY <4>2
    <3> QED BY <1>4, <1>9, <2>10, <3>1, <3>2, <3>3
  <2>11. JobStages(next, t)
    BY <1>9, <2>8, <2>9, <2>10 DEF JobStages
  <2> QED BY <2>2, <2>11
<1>15. JobHolds(next)
  BY <1>9, <1>12, <1>13, <1>14 DEF JobHolds
<1> QED BY <1>10, <1>15, StepsStep

LEMMA ReadsOne ==
    ASSUME BackfillInv, NEW j \in Jobs, ReadsKeys(j) \/ ReadsPaper(j) \/ ReadsCsv(j) \/ ReadsOpen(j) \/ Aborts(j)
    PROVE  BackfillInv'
<1>1. PICK J \in JobRow : J = job[j]
  BY DEF BackfillInv, LedgerTyped
<1>2. J.pc # "idle" => JobHolds(J)
  BY <1>1 DEF BackfillInv, AtWork
<1>3. /\ \A t \in AllTrades : record[t] \in {"none", "open", "closed", "lost"}
      /\ \A k \in 1..Len(J.staged) : J.staged[k] \in LedgerLines
  <2>1. J.staged \in Seq(LedgerLines)
    BY DEF JobRow
  <2> QED BY <2>1 DEF BackfillInv, LedgerTyped
<1>4. CASE ReadsKeys(j)
  <2>1. Steps(j, [ExistingKeys EXCEPT !.pc = "paper"])
    BY <1>4 DEF ReadsKeys
  <2>2. PICK next : next = [ExistingKeys EXCEPT !.pc = "paper"]
    OBVIOUS
  <2>3. next \in JobRow /\ JobHolds(next) /\ Steps(j, next)
    BY <2>1, <2>2, KeysKnow
  <2> QED BY <2>3, StepsStep
<1>5. CASE Aborts(j)
  <2>1. Steps(j, NoJob)
    BY <1>5 DEF Aborts
  <2>2. NoJob \in JobRow /\ NoJob.pc = "idle"
    <3>1. <<>> \in Seq(LedgerLines)
      OBVIOUS
    <3> QED BY <3>1 DEF NoJob, JobRow
  <2>3. PICK next : next = NoJob
    OBVIOUS
  <2> QED BY <2>1, <2>2, <2>3, StepsStep
<1>6. CASE ReadsPaper(j)
  <2>1. PICK trades : trades = {t \in PaperTradesAll : record[t] \in {"open", "closed"}}
    OBVIOUS
  <2>2. PICK close : close = [t \in PaperTradesAll |-> IF record[t] = "closed" THEN t ELSE NotClosed]
    OBVIOUS
  <2>3. J.pc = "paper" /\ StagesNew(j, "csv", trades, J.paperIds, close)
    BY <1>1, <1>6, <2>1, <2>2 DEF ReadsPaper
  <2>4. JobHolds(J) /\ J.staged = <<>>
    BY <1>2, <2>3 DEF JobHolds
  <2>5. \A t \in trades : /\ t \in PaperTradesAll /\ t \in AllTrades /\ t \notin ShadowTradesAll
                          /\ record[t] # "none"
                          /\ close[t] = CloseOf(t) /\ close[t] \in AllTrades \cup {NotClosed}
    BY <2>1, <2>2, KindsApart DEF CloseOf
  <2>6. \A t \in trades : StagedRight("csv", Row(t, close[t]))
    BY <2>5 DEF StagedRight, Row
  <2>7. \A k \in 1..Len(J.staged) : FALSE
    BY <2>4
  <2>8. \A t \in trades : Undisturbed(t) => (t \in J.paperIds <=> RowsOf(t) # {}) /\ StagedOf(J, t) = {}
    BY <2>4, <2>5, <2>7 DEF JobHolds, JobKnows, StagedOf
  <2>9. trades \subseteq PaperTradesAll /\ job[j].pc # "idle"
    BY <1>1, <2>1, <2>3
  <2>10. PICK known : known = J.paperIds
    OBVIOUS
  <2> QED BY <1>1, <2>3, <2>5, <2>6, <2>7, <2>8, <2>9, <2>10, StagingStep
<1>7. CASE ReadsCsv(j)
  <2>1. PICK trades : trades = {t \in ShadowTradesAll : record[t] = "closed"}
    OBVIOUS
  <2>2. PICK close : close = [t \in ShadowTradesAll |-> t]
    OBVIOUS
  <2>3. PICK known : known = {t \in trades : Row(t, t) \in J.shadowClosed}
    OBVIOUS
  <2>4. J.pc = "csv" /\ StagesNew(j, "open", trades, known, close)
    BY <1>1, <1>7, <2>1, <2>2, <2>3 DEF ReadsCsv
  <2>5. JobHolds(J) /\ \A k \in 1..Len(J.staged) : StagedRight("csv", J.staged[k])
    BY <1>2, <2>4 DEF JobHolds
  <2>6. \A t \in trades : /\ t \in ShadowTradesAll /\ t \in AllTrades /\ t \notin PaperTradesAll
                          /\ t # NotClosed /\ record[t] = "closed"
                          /\ close[t] = t /\ CloseOf(t) = t
    BY <2>1, <2>2, KindsApart DEF CloseOf
  <2>7. \A t \in trades : StagedRight("open", Row(t, close[t]))
    BY <2>6 DEF StagedRight, Row
  <2>8. \A k \in 1..Len(J.staged) : StagedRight("open", J.staged[k]) /\ J.staged[k].of \in PaperTradesAll
    <3>1. \A k \in 1..Len(J.staged) : J.staged[k].of \in PaperTradesAll /\ J.staged[k].of \notin ShadowTradesAll
      BY <2>5, KindsApart DEF StagedRight
    <3> QED BY <2>5, <3>1 DEF StagedRight
  <2>9. ASSUME NEW t \in trades, Undisturbed(t)
        PROVE  (t \in known => RowsOf(t) # {}) /\ (t \notin known => RowsOf(t) = {}) /\ StagedOf(J, t) = {}
    <3>1. Row(t, t) \in J.shadowClosed <=> \E i \in RowsOf(t) : ledgerRows[i].by = t
      BY <2>5, <2>6, <2>9 DEF JobHolds, JobKnows
    <3>2. \A i \in RowsOf(t) : ledgerRows[i].by = t
      BY <2>6, <2>9 DEF BackfillInv, RowKept, Undisturbed
    <3>3. StagedOf(J, t) = {}
      BY <2>6, <2>8 DEF StagedOf
    <3> QED BY <2>3, <3>1, <3>2, <3>3
  <2>10. trades \subseteq ShadowTradesAll /\ job[j].pc # "idle"
    BY <1>1, <2>1, <2>4
  <2> QED BY <1>1, <2>4, <2>6, <2>7, <2>8, <2>9, <2>10, StagingStep
<1>8. CASE ReadsOpen(j)
  <2>1. PICK trades : trades = {t \in ShadowTradesAll : record[t] = "open"}
    OBVIOUS
  <2>2. PICK close : close = [t \in ShadowTradesAll |-> NotClosed]
    OBVIOUS
  <2>3. PICK known : known = J.shadowOpen
    OBVIOUS
  <2>4. J.pc = "open" /\ StagesNew(j, "insert", trades, known, close)
    BY <1>1, <1>8, <2>1, <2>2, <2>3 DEF ReadsOpen
  <2>5. JobHolds(J) /\ \A k \in 1..Len(J.staged) : StagedRight("open", J.staged[k])
    BY <1>2, <2>4 DEF JobHolds
  <2>6. \A t \in trades : /\ t \in ShadowTradesAll /\ t \in AllTrades /\ t \notin PaperTradesAll
                          /\ record[t] = "open" /\ close[t] = NotClosed /\ CloseOf(t) = NotClosed
    BY <2>1, <2>2, KindsApart DEF CloseOf
  <2>7. \A t \in trades : StagedRight("insert", Row(t, close[t]))
    BY <2>6 DEF StagedRight, Row
  <2>8. \A k \in 1..Len(J.staged) : StagedRight("insert", J.staged[k])
    BY <2>5 DEF StagedRight
  <2>9. ASSUME NEW t \in trades, Undisturbed(t)
        PROVE  (t \in known => RowsOf(t) # {}) /\ (t \notin known => RowsOf(t) = {}) /\ StagedOf(J, t) = {}
    <3>1. t \in J.shadowOpen <=> \E i \in RowsOf(t) : ledgerRows[i].by = NotClosed
      BY <2>5, <2>6, <2>9 DEF JobHolds, JobKnows
    <3>2. \A i \in RowsOf(t) : ledgerRows[i].by = NotClosed
      BY <2>6, <2>9 DEF BackfillInv, RowKept, Undisturbed
    <3>3. \A k \in StagedOf(J, t) : J.staged[k].of = t /\ J.staged[k].by = NotClosed /\ k \in 1..Len(J.staged)
      BY <2>5, <2>6, <2>9 DEF JobHolds, JobStages, StagedOf
    <3>4. StagedOf(J, t) = {}
      BY <2>5, <2>6, <3>3 DEF StagedRight
    <3> QED BY <2>3, <3>1, <3>2, <3>4
  <2>10. trades \subseteq ShadowTradesAll /\ job[j].pc # "idle"
    BY <1>1, <2>1, <2>4
  <2>11. \A t \in trades : record[t] # "none" /\ close[t] \in AllTrades \cup {NotClosed}
    BY <2>6
  <2> QED BY <1>1, <2>4, <2>6, <2>7, <2>8, <2>9, <2>10, <2>11, StagingStep
<1> QED BY <1>4, <1>5, <1>6, <1>7, <1>8

----
(* A run of the script writes. *)
LEMMA InsertsStep ==
    ASSUME BackfillInv, NEW j \in Jobs, Inserts(j)
    PROVE  BackfillInv'
<1>1. PICK J \in JobRow : J = job[j]
  BY DEF BackfillInv, LedgerTyped
<1>2. PICK staged \in Seq(LedgerLines) : staged = J.staged
  BY DEF JobRow
<1>3. PICK n \in Nat : n = Len(ledgerRows)
  BY DEF BackfillInv, LedgerTyped
<1>4. PICK others : others = {staged[k].of : k \in 1..Len(staged)}
  OBVIOUS
<1>5. /\ J.pc = "insert" /\ JobHolds(J)
      /\ ledgerRows' = ledgerRows \o staged /\ settled' = settled \cup J.seen
      /\ touched' = IF AtWork # {j} THEN touched \cup others ELSE touched
      /\ job' = [job EXCEPT ![j] = NoJob] /\ record' = record /\ unclosed' = unclosed
  <2>1. J.pc = "insert" /\ j \in AtWork
    BY <1>1 DEF Inserts, AtWork
  <2> QED BY <1>1, <1>2, <1>4, <2>1 DEF Inserts, BackfillInv
<1>6. /\ ledgerRows' \in Seq(LedgerLines) /\ Len(ledgerRows') = n + Len(staged) /\ Len(staged) \in Nat
      /\ \A k \in 1..n : ledgerRows'[k] = ledgerRows[k]
      /\ \A k \in 1..Len(staged) : ledgerRows'[n + k] = staged[k]
  <2>1. ledgerRows \in Seq(LedgerLines)
    BY DEF BackfillInv, LedgerTyped
  <2>2. ASSUME NEW a \in Seq(LedgerLines), NEW b \in Seq(LedgerLines)
        PROVE  /\ a \o b \in Seq(LedgerLines) /\ Len(a \o b) = Len(a) + Len(b) /\ Len(b) \in Nat
               /\ \A k \in 1..Len(a) : (a \o b)[k] = a[k]
               /\ \A k \in 1..Len(b) : (a \o b)[Len(a) + k] = b[k]
    OBVIOUS
  <2> QED BY <1>3, <1>5, <2>1, <2>2
<1>7. \A k \in 1..Len(ledgerRows') : \/ k \in 1..n
                                     \/ k - n \in 1..Len(staged) /\ ledgerRows'[k] = staged[k - n]
  <2> SUFFICES ASSUME NEW k \in 1..Len(ledgerRows'), k \notin 1..n
               PROVE  k - n \in 1..Len(staged) /\ ledgerRows'[k] = staged[k - n]
    OBVIOUS
  <2>1. k - n \in 1..Len(staged) /\ n + (k - n) = k
    BY <1>6
  <2> QED BY <1>6, <2>1
<1>8. /\ \A k \in 1..n : k \in 1..Len(ledgerRows')
      /\ \A k \in 1..Len(staged) : n + k \in 1..Len(ledgerRows')
  BY <1>6
<1>9. /\ \A k \in 1..Len(staged) : StagedRight("insert", staged[k]) /\ staged[k] \in LedgerLines
      /\ \A t \in AllTrades : t \in J.seen => record[t] # "none"
  BY <1>2, <1>5 DEF JobHolds
<1>10. LedgerTyped'
  <2>1. NoJob \in JobRow
    <3>1. <<>> \in Seq(LedgerLines)
      OBVIOUS
    <3> QED BY <3>1 DEF NoJob, JobRow
  <2> QED BY <1>5, <1>6, <2>1 DEF BackfillInv, LedgerTyped
<1>11. RecordsKnown' /\ OneShadowOpen'
  <2>1. \A i \in 1..n : record[ledgerRows[i].of] # "none"
    BY <1>3 DEF BackfillInv, RecordsKnown
  <2>2. ASSUME NEW i \in 1..Len(ledgerRows')
        PROVE  record[ledgerRows'[i].of] # "none"
    <3>1. \A k \in 1..Len(staged) : record[staged[k].of] # "none"
      BY <1>9 DEF StagedRight
    <3>2. CASE i \in 1..n
      BY <1>6, <2>1, <3>2
    <3>3. CASE \E k \in 1..Len(staged) : i = n + k
      BY <1>6, <3>1, <3>3
    <3> QED BY <1>7, <3>2, <3>3
  <2>3. \A t \in AllTrades : t \in settled' => record[t] # "none"
    BY <1>5, <1>9 DEF BackfillInv, RecordsKnown
  <2>4. OneShadowOpen'
    BY <1>5 DEF BackfillInv, OneShadowOpen
  <2> QED BY <1>5, <2>2, <2>3, <2>4 DEF BackfillInv, RecordsKnown
\* The rows of a trade afterwards: those it had, and the one staged of it, if any.
<1>12. \A t : /\ RowsOf(t) = {i \in 1..n : ledgerRows[i].of = t}
              /\ StagedOf(J, t) = {k \in 1..Len(staged) : staged[k].of = t}
  BY <1>2, <1>3 DEF RowsOf, StagedOf
<1>13. ASSUME NEW t, NEW i \in RowsOf(t)'
       PROVE  \/ i \in RowsOf(t) /\ ledgerRows'[i] = ledgerRows[i]
              \/ i - n \in StagedOf(J, t) /\ ledgerRows'[i] = staged[i - n] /\ i \notin 1..n
  <2>1. i \in 1..Len(ledgerRows') /\ ledgerRows'[i].of = t
    BY DEF RowsOf
  <2>2. CASE i \in 1..n
    BY <1>6, <1>12, <2>1, <2>2
  <2>3. CASE i \notin 1..n
    BY <1>7, <1>12, <2>1, <2>3
  <2> QED BY <2>2, <2>3
<1>14. ASSUME NEW t
       PROVE  /\ \A i \in RowsOf(t) : i \in RowsOf(t)'
              /\ \A k \in StagedOf(J, t) : n + k \in RowsOf(t)'
  <2>1. RowsOf(t)' = {i \in 1..Len(ledgerRows') : ledgerRows'[i].of = t}
    BY DEF RowsOf
  <2>2. ASSUME NEW i \in RowsOf(t)
        PROVE  i \in RowsOf(t)'
    <3>1. i \in 1..n /\ ledgerRows[i].of = t
      BY <1>12
    <3>2. i \in 1..Len(ledgerRows') /\ ledgerRows'[i].of = t
      BY <1>6, <1>8, <3>1
    <3> QED BY <2>1, <3>2
  <2>3. ASSUME NEW k \in StagedOf(J, t)
        PROVE  n + k \in RowsOf(t)'
    <3>1. k \in 1..Len(staged) /\ staged[k].of = t
      BY <1>12
    <3>2. n + k \in 1..Len(ledgerRows') /\ ledgerRows'[n + k].of = t
      BY <1>6, <1>8, <3>1
    <3> QED BY <2>1, <3>2
  <2> QED BY <2>2, <2>3
<1>15. \A t : Undisturbed(t)' => Undisturbed(t)
  BY <1>5 DEF Undisturbed
<1>16. ASSUME NEW t \in AllTrades, Undisturbed(t)'
       PROVE  RowKept(t)'
  <2>1. Undisturbed(t) /\ RowKept(t) /\ JobStages(J, t)
    BY <1>5, <1>15, <1>16 DEF BackfillInv, JobHolds
  <2>2. /\ \A i, k \in StagedOf(J, t) : i = k
        /\ \A k \in StagedOf(J, t) : RowsOf(t) = {} /\ staged[k].by = CloseOf(t)
        /\ t \in J.seen => RowsOf(t) # {} \/ StagedOf(J, t) # {}
    BY <1>2, <2>1 DEF JobStages
  <2>3. \A i \in RowsOf(t)' : i \in Int
    BY DEF RowsOf
  <2>4. ASSUME NEW i \in RowsOf(t)', NEW k \in RowsOf(t)'
        PROVE  i = k
    <3>1. CASE i \in RowsOf(t) /\ k \in RowsOf(t)
      BY <2>1, <3>1 DEF RowKept
    <3>2. CASE i - n \in StagedOf(J, t) /\ k - n \in StagedOf(J, t)
      <4>1. i - n = k - n
        BY <2>2, <3>2
      <4> QED BY <2>3, <4>1
    <3> QED BY <1>13, <2>2, <3>1, <3>2
  <2>5. CloseOf(t)' = CloseOf(t)
    BY <1>5 DEF CloseOf
  <2>6. ASSUME NEW i \in RowsOf(t)'
        PROVE  t \in unclosed' \/ ledgerRows'[i].by = CloseOf(t)'
    BY <1>5, <1>13, <2>1, <2>2, <2>5, ZenonT(60) DEF RowKept
  <2>7. ASSUME t \in settled'
        PROVE  RowsOf(t)' # {}
    <3>1. RowsOf(t) # {} \/ StagedOf(J, t) # {}
      BY <1>5, <2>1, <2>2, <2>7 DEF RowKept
    <3> QED BY <1>14, <3>1
  <2>8. ASSUME t \in ShadowTradesAll, record'[t] = "open", NEW i \in RowsOf(t)'
        PROVE  NewestOpen(i)'
    <3>1. ASSUME NEW k \in 1..Len(staged), staged[k].of \in ShadowTradesAll, staged[k].by = NotClosed
          PROVE  k \in StagedOf(J, t)
      <4>1. \/ record[staged[k].of] = "open"
            \/ \A u \in ShadowTradesAll : record[u] = "open" => u \in touched
        BY <1>9, <3>1 DEF StagedRight
      <4>2. t \notin touched /\ record[t] = "open"
        BY <1>5, <2>1, <2>8 DEF Undisturbed
      <4>3. staged[k].of = t
        BY <2>8, <3>1, <4>1, <4>2 DEF BackfillInv, OneShadowOpen
      <4> QED BY <1>12, <4>3
    <3>2. ASSUME NEW k \in 1..Len(ledgerRows'), ledgerRows'[k].of \in ShadowTradesAll,
                 ledgerRows'[k].by = NotClosed
          PROVE  k <= i
      <4>1. CASE k \in 1..n
        <5>1. CASE i \in RowsOf(t)
          <6>1. NewestOpen(i) /\ ledgerRows'[k] = ledgerRows[k]
            BY <1>5, <1>6, <2>1, <2>8, <4>1, <5>1 DEF RowKept
          <6> QED BY <1>3, <3>2, <4>1, <6>1 DEF NewestOpen
        <5>2. CASE i \notin 1..n
          <6>1. i \in 1..Len(ledgerRows')
            BY DEF RowsOf
          <6> QED BY <4>1, <5>2, <6>1
        <5> QED BY <1>13, <5>1, <5>2
      <4>2. CASE k \notin 1..n
        <5>1. k - n \in StagedOf(J, t)
          BY <1>7, <3>1, <3>2, <4>2
        <5>2. n + (k - n) = k
          OBVIOUS
        <5>3. k \in RowsOf(t)'
          BY <1>14, <5>1, <5>2
        <5>4. k = i
          BY <2>4, <5>3
        <5> QED BY <5>4
      <4> QED BY <4>1, <4>2
    <3> QED BY <3>2 DEF NewestOpen
  <2> QED BY <2>4, <2>6, <2>7, <2>8 DEF RowKept
<1>17. ASSUME NEW i \in AtWork'
       PROVE  JobHolds(job[i])'
  <2>1. i \in Jobs /\ i # j /\ i \in AtWork /\ job'[i] = job[i]
    BY <1>5 DEF AtWork, NoJob, BackfillInv, LedgerTyped
  <2>2. PICK K : K = job[i]
    OBVIOUS
  <2>3. JobHolds(K) /\ touched' = touched \cup others
    BY <1>5, <2>1, <2>2 DEF BackfillInv
  <2>4. \A k \in 1..Len(K.staged) : StagedRight(K.pc, K.staged[k])'
    BY <1>5, <2>3 DEF JobHolds, StagedRight
  <2>5. ASSUME NEW t \in AllTrades, Undisturbed(t)'
        PROVE  JobKnows(K, t)' /\ JobStages(K, t)'
    <3>1. Undisturbed(t) /\ t \notin others
      BY <1>15, <2>3, <2>5 DEF Undisturbed
    <3>2. JobKnows(K, t) /\ JobStages(K, t)
      BY <2>3, <3>1 DEF JobHolds
    <3>3. StagedOf(J, t) = {}
      BY <1>4, <1>12, <3>1
    <3>4. RowsOf(t)' = RowsOf(t)
      BY <1>13, <1>14, <3>3
    <3>5. \A k \in RowsOf(t) : ledgerRows'[k] = ledgerRows[k]
      BY <1>6, <1>12
    <3>6. CloseOf(t)' = CloseOf(t)
      BY <1>5 DEF CloseOf
    <3>7. JobKnows(K, t)'
      BY <3>2, <3>4, <3>5 DEF JobKnows
    <3>8. JobStages(K, t)'
      BY <3>2, <3>4, <3>6 DEF JobStages, StagedOf
    <3> QED BY <3>7, <3>8
  <2>6. JobHolds(K)'
    BY <1>5, <2>3, <2>4, <2>5 DEF JobHolds
  <2> QED BY <2>1, <2>2, <2>6
<1> QED BY <1>10, <1>11, <1>16, <1>17 DEF BackfillInv

LEMMA BackfillStarts == LedgerInit => BackfillInv
<1> SUFFICES ASSUME LedgerInit PROVE BackfillInv
  OBVIOUS
<1>1. NoJob \in JobRow /\ NoJob.pc = "idle"
  <2>1. <<>> \in Seq(LedgerLines)
    OBVIOUS
  <2> QED BY <2>1 DEF NoJob, JobRow
<1>2. ledgerRows \in Seq(LedgerLines) /\ Len(ledgerRows) = 0
  BY DEF LedgerInit
<1>3. LedgerTyped
  BY <1>1, <1>2 DEF LedgerInit, LedgerTyped
<1>4. \A t \in AllTrades : record[t] = "none" /\ t \notin settled /\ t \notin unclosed
  BY DEF LedgerInit
<1>5. RecordsKnown
  BY <1>2, <1>4 DEF RecordsKnown
<1>6. OneShadowOpen
  BY <1>4, TradesAre, KindsApart DEF OneShadowOpen
<1>7. \A t \in AllTrades : RowKept(t)
  BY <1>2, <1>4 DEF RowKept, RowsOf
<1>8. AtWork = {}
  BY <1>1 DEF LedgerInit, AtWork
<1> QED BY <1>3, <1>5, <1>6, <1>7, <1>8 DEF BackfillInv

LEMMA BackfillStutters == BackfillInv /\ UNCHANGED ledgerVars => BackfillInv'
<1> SUFFICES ASSUME BackfillInv, UNCHANGED ledgerVars PROVE BackfillInv'
  OBVIOUS
<1>1. /\ job' = job /\ record' = record /\ ledgerRows' = ledgerRows
      /\ touched' = touched /\ settled' = settled /\ unclosed' = unclosed
  BY DEF ledgerVars
<1>2. LedgerTyped' /\ RecordsKnown' /\ OneShadowOpen'
  BY <1>1 DEF BackfillInv, LedgerTyped, RecordsKnown, OneShadowOpen
<1>3. \A t : RowsOf(t)' = RowsOf(t) /\ CloseOf(t)' = CloseOf(t) /\ (Undisturbed(t)' <=> Undisturbed(t))
  BY <1>1 DEF RowsOf, CloseOf, Undisturbed
<1>4. \A t \in AllTrades : Undisturbed(t)' => RowKept(t)'
  <2>1. \A i : NewestOpen(i)' <=> NewestOpen(i)
    BY <1>1 DEF NewestOpen
  <2> QED BY <1>1, <1>3, <2>1 DEF BackfillInv, RowKept
<1>5. ASSUME NEW j \in AtWork'
      PROVE  JobHolds(job[j])'
  <2>1. PICK J : J = job[j]
    OBVIOUS
  <2>2. j \in AtWork /\ job'[j] = J /\ JobHolds(J)
    BY <1>1, <2>1 DEF AtWork, BackfillInv
  <2>3. \A k \in 1..Len(J.staged) : StagedRight(J.pc, J.staged[k])'
    BY <1>1, <2>2 DEF JobHolds, StagedRight
  <2>4. \A t \in AllTrades : Undisturbed(t)' => JobKnows(J, t)' /\ JobStages(J, t)'
    BY <1>1, <1>3, <2>2 DEF JobHolds, JobKnows, JobStages, StagedOf
  <2>5. JobHolds(J)'
    BY <1>1, <2>2, <2>3, <2>4 DEF JobHolds
  <2> QED BY <2>2, <2>5
<1> QED BY <1>2, <1>4, <1>5 DEF BackfillInv

LEMMA BackfillGoesOn == BackfillInv /\ [LedgerNext]_ledgerVars => BackfillInv'
<1> SUFFICES ASSUME BackfillInv, LedgerNext PROVE BackfillInv'
  BY BackfillStutters
<1>1. CASE \E mirrored \in BOOLEAN : \/ \E i \in 1..NPaperTrades : OpensPaper(i, mirrored)
                                     \/ \E i \in 1..NShadowTrades : OpensShadow(i, mirrored)
  BY <1>1, OpensOne
<1>2. CASE \/ \E i \in 1..NPaperTrades, mirrored \in BOOLEAN : ClosesPaper(i, mirrored)
           \/ \E i \in 1..NShadowTrades, how \in {"mirrored", "unmirrored", "lost"} : ClosesShadow(i, how)
  BY <1>2, ClosesOne
<1>3. CASE \E j \in Jobs : ReadsKeys(j) \/ ReadsPaper(j) \/ ReadsCsv(j) \/ ReadsOpen(j) \/ Aborts(j)
  BY <1>3, ReadsOne
<1>4. CASE \E j \in Jobs : Inserts(j)
  BY <1>4, InsertsStep
<1> QED BY <1>1, <1>2, <1>3, <1>4 DEF LedgerNext

LEMMA BackfillMeans == BackfillInv => BackfilledOnce
<1> SUFFICES ASSUME BackfillInv, NEW t \in AllTrades \ touched,
                    ~(t \in ShadowTradesAll /\ t \in unclosed)
             PROVE  /\ Cardinality(RowsOf(t)) <= 1
                    /\ t \in settled =>
                        \E i \in RowsOf(t) : \/ t \in unclosed
                                             \/ ledgerRows[i].by = (IF record[t] = "closed" THEN t ELSE NotClosed)
  BY DEF BackfilledOnce
<1>1. RowKept(t)
  BY DEF BackfillInv, Undisturbed
<1>2. CASE RowsOf(t) = {}
  <2>1. Cardinality(RowsOf(t)) = 0
    BY <1>2, FS_EmptySet
  <2> QED BY <1>1, <1>2, <2>1 DEF RowKept
<1>3. CASE RowsOf(t) # {}
  <2>1. PICK i : i \in RowsOf(t)
    BY <1>3
  <2>2. RowsOf(t) = {i}
    BY <1>1, <2>1 DEF RowKept
  <2>3. Cardinality(RowsOf(t)) = 1
    BY <2>2, FS_Singleton
  <2>4. t \in unclosed \/ ledgerRows[i].by = CloseOf(t)
    BY <1>1, <2>1 DEF RowKept
  <2> QED BY <2>1, <2>3, <2>4 DEF CloseOf
<1> QED BY <1>2, <1>3

THEOREM BackfilledHolds == LedgerSpec => []BackfilledOnce
BY BackfillStarts, BackfillGoesOn, BackfillMeans, PTL DEF LedgerSpec

----
----
(* The walk through a frame: where the next window is cut, every row that    *)
(* can still be tested on lies behind the rows trained on so far.            *)
\* Where the training rows of the next window end: a row or a date.
EndOf(from, length) == from + length * (IF scheme.kind = "months" THEN MonthDays ELSE 1)
Rows == 1..NRows

\* Two dates in the order of training and testing, where the scheme does not share them.
Precedes(i, j) ==
    frame[i] < frame[j] \/ (frame[i] = frame[j] /\ (scheme.kind = "days" \/ (scheme.kind = "champion" /\ ~Distinct)))

\* What is tested on in a window whose training ends here, or in a later one.
Ahead(end, j) ==
    \/ scheme.kind = "rows" /\ j >= end + scheme.embargo
    \/ scheme.kind \in {"months", "days"} /\ frame[j] >= end
    \/ scheme.kind = "champion" /\ \E k \in Rows : k = end + scheme.embargo /\ frame[k] <= frame[j]

\* Whether the scheme tests no row twice.
Single == (scheme.kind # "champion" \/ Distinct) /\ (scheme.step >= scheme.test \/ scheme.kind \in {"days", "split"})

Slices == [train : SUBSET Rows, test : SUBSET Rows]

\* What was trained on lies before, and what was tested on is not, ahead.
Passed(w, end) ==
    /\ \A i \in w.train, j \in Rows : Ahead(end, j) => Precedes(i, j)
    /\ Single => \A i \in w.test : Ahead(end, i) => scheme.kind = "days" /\ frame[i] = end

\* One window before another one, or the same.
Follows(v, w) == \A i \in v.train, j \in w.test : Precedes(i, j)
Apart(v, w) ==
    Single => \A i \in v.test \cap w.test : scheme.kind = "days" /\ \A j \in w.test : frame[i] <= frame[j]

\* The distance of training and testing.
Gap(w) ==
    (scheme.kind \in {"rows", "months"} \/ (scheme.kind = "champion" /\ Distinct)) =>
        Min(w.test) - Max(w.train) - 1 = scheme.purge + scheme.embargo

AllPassed(ws, end) == \A w \in 1..Len(ws) : Passed(ws[w], end)

CutSound(from, length, ws, pc) ==
    /\ from \in Nat /\ length \in Nat \ {0}
    /\ scheme.kind # "months" => length = scheme.train
    /\ scheme.kind = "rows" => from >= 1
    /\ scheme.kind = "champion" => from > scheme.warmup
    /\ scheme.kind = "split" => ws = <<>> \/ pc # "cut"
    /\ pc = "cut" /\ scheme.kind # "split" => AllPassed(ws, EndOf(from, length))

WindowsSound(ws) ==
    /\ ws \in Seq(Slices)
    /\ \A w \in 1..Len(ws) : Gap(ws[w]) /\ Follows(ws[w], ws[w])
    /\ \A v, w \in 1..Len(ws) : v < w => Follows(ws[v], ws[w]) /\ Apart(ws[v], ws[w])

Walks == [pc : {"cut", "train", "test", "done", "raised"}, window : Nat \ {0}]
RunIds == Nat \X {"none", "train", "test"}
Reports == [train : RunIds, test : RunIds]
Reported(w) ==
    /\ Cardinality(windows[w].train) >= MinRows => told[w].train = <<w, "train">>
    /\ told[w].test # NoRun =>
           told[w].test = IF Cardinality(windows[w].test) >= MinRows THEN <<w, "test">> ELSE told[w].train

ReportsSound ==
    /\ walk \in Walks
    /\ counted \in RunIds /\ told \in Seq(Reports) /\ Len(told) <= Len(windows)
    /\ walk.pc = "cut" => told = <<>> /\ walk.window = 1
    /\ walk.pc = "train" => Len(told) = walk.window - 1
    /\ walk.pc = "test" => Len(told) = walk.window /\ told[walk.window] = [train |-> counted, test |-> NoRun]
    /\ \A w \in 1..Len(told) : Reported(w)

WalkInv ==
    /\ frame \in DateFrames /\ scheme \in Schemes
    /\ CutSound(cut, span, windows, walk.pc) /\ WindowsSound(windows) /\ ReportsSound

WalkConst == frame \in DateFrames /\ scheme \in Schemes

\* What the assumptions say of the frame and the scheme at hand.
LEMMA FrameFacts ==
    ASSUME WalkConst
    PROVE  /\ NRows \in Nat \ {0} /\ \A i \in Rows : frame[i] \in Nat
           /\ \A i, j \in Rows : i <= j => frame[i] <= frame[j]
<1>1. frame \in Seq(Nat) /\ frame # <<>> /\ \A i, j \in 1..Len(frame) : i <= j => frame[i] <= frame[j]
  BY WalkForwardAssumption DEF WalkConst
<1> QED BY <1>1 DEF NRows, Rows

LEMMA SchemeFacts ==
    ASSUME WalkConst
    PROVE  /\ scheme.kind \in {"rows", "months", "days", "champion", "split"} /\ scheme.anchored \in BOOLEAN
           /\ scheme.train \in Nat \ {0} /\ scheme.test \in Nat \ {0} /\ scheme.step \in Nat \ {0}
           /\ scheme.purge \in Nat /\ scheme.embargo \in Nat /\ scheme.warmup \in Nat /\ scheme.extension \in Nat
           /\ scheme.kind \in {"rows", "champion"} => scheme.purge < scheme.train
           /\ scheme.kind = "rows" => scheme.embargo < scheme.test
           /\ scheme.kind = "months" => scheme.embargo = 0
           /\ MonthDays \in Nat \ {0}
  BY WalkForwardAssumption DEF WalkConst

----
\* The least and the greatest number of a set.
LEMMA MinIs ==
    ASSUME NEW S \in SUBSET Nat, NEW x \in S, \A y \in S : x <= y
    PROVE  Min(S) = x
<1>1. \E z \in S : \A y \in S : z <= y
  OBVIOUS
<1>2. Min(S) \in S /\ \A y \in S : Min(S) <= y
  BY <1>1, Zenon DEF Min
<1>3. Min(S) \in Nat /\ x \in Nat /\ Min(S) <= x /\ x <= Min(S)
  BY <1>2
<1> QED BY <1>3

LEMMA MaxIs ==
    ASSUME NEW S \in SUBSET Nat, NEW x \in S, \A y \in S : x >= y
    PROVE  Max(S) = x
<1>1. \E z \in S : \A y \in S : z >= y
  OBVIOUS
<1>2. Max(S) \in S /\ \A y \in S : Max(S) >= y
  BY <1>1, Zenon DEF Max
<1>3. Max(S) \in Nat /\ x \in Nat /\ Max(S) >= x /\ x >= Max(S)
  BY <1>2
<1> QED BY <1>3

LEMMA MinOf ==
    ASSUME NEW S \in SUBSET Nat, S # {}
    PROVE  Min(S) \in S /\ \A y \in S : Min(S) <= y
<1>1. \E z \in S : \A y \in S : z <= y
  BY LeastOf
<1> QED BY <1>1, Zenon DEF Min

LEMMA MaxOf ==
    ASSUME NEW n \in Nat, NEW S \in SUBSET (1..n), S # {}
    PROVE  Max(S) \in S /\ \A y \in S : Max(S) >= y
<1> DEFINE T == {k \in Nat : n - k \in S}
<1>1. PICK s \in S : TRUE
  OBVIOUS
<1>2. n - s \in T
  BY <1>1
<1>3. PICK k \in T : \A y \in T : k <= y
  BY <1>2, LeastOf
<1>4. ASSUME NEW y \in S PROVE n - k >= y
  <2>1. y \in Nat /\ y <= n
    OBVIOUS
  <2>2. PICK j \in Nat : j = n - y /\ n - j = y
    BY <2>1
  <2>3. j \in T
    BY <2>2
  <2>4. k <= j /\ k \in Nat
    BY <1>3, <2>3
  <2> HIDE DEF T
  <2> QED BY <2>1, <2>2, <2>4
<1>5. n - k \in S
  BY <1>3
<1>6. \E z \in S : \A y \in S : z >= y
  BY <1>4, <1>5
<1> QED BY <1>6, Zenon DEF Max

----
\* Ahead of a later end lies less.
LEMMA AheadShrinks ==
    ASSUME WalkConst, NEW end \in Nat, NEW next \in Nat, end < next, NEW j \in Rows, Ahead(next, j),
           scheme.kind = "rows" => end >= 1, scheme.kind = "champion" => end >= 1
    PROVE  Ahead(end, j) /\ (scheme.kind = "days" => frame[j] # end)
<1>1. CASE scheme.kind = "rows"
  BY <1>1, SchemeFacts DEF Ahead, Rows
<1>2. CASE scheme.kind \in {"months", "days"}
  BY <1>2, FrameFacts DEF Ahead
<1>3. CASE scheme.kind = "champion"
  <2>1. PICK k \in Rows : k = next + scheme.embargo /\ frame[k] <= frame[j]
    BY <1>3 DEF Ahead
  <2>2. PICK i \in Nat : i = end + scheme.embargo
    BY SchemeFacts
  <2>3. i \in Rows /\ i <= k
    BY <1>3, <2>1, <2>2, SchemeFacts, FrameFacts DEF Rows
  <2>4. frame[i] <= frame[k]
    BY <2>1, <2>3, FrameFacts
  <2>5. frame[i] <= frame[j]
    BY <2>1, <2>3, <2>4, FrameFacts
  <2> QED BY <1>3, <2>2, <2>3, <2>5 DEF Ahead
<1> QED BY <1>1, <1>2, <1>3 DEF Ahead

LEMMA StaysPassed ==
    ASSUME WalkConst, NEW end \in Nat, NEW next \in Nat, end < next, NEW w \in Slices, Passed(w, end),
           scheme.kind = "rows" => end >= 1, scheme.kind = "champion" => end >= 1
    PROVE  Passed(w, next)
<1>1. w.train \subseteq Rows /\ w.test \subseteq Rows
  BY DEF Slices
<1>2. ASSUME NEW i \in w.train, NEW j \in Rows, Ahead(next, j) PROVE Precedes(i, j)
  <2>1. Ahead(end, j)
    BY <1>2, AheadShrinks
  <2> QED BY <2>1 DEF Passed
<1>3. ASSUME Single, NEW i \in w.test, Ahead(next, i) PROVE scheme.kind = "days" /\ frame[i] = next
  <2>1. i \in Rows
    BY <1>1
  <2>2. Ahead(end, i) /\ (scheme.kind = "days" => frame[i] # end)
    BY <1>3, <2>1, AheadShrinks
  <2> QED BY <1>3, <2>2 DEF Passed
<1> QED BY <1>2, <1>3 DEF Passed

\* What a window has to be like to be cut when the training ends here and the next one's there.
Fresh(w, end, next) ==
    /\ w \in Slices /\ Gap(w)
    /\ \A i \in w.train, j \in Rows : Ahead(end, j) => Precedes(i, j)
    /\ \A j \in w.test : Ahead(end, j)
    /\ Single => \A i \in w.test : Ahead(next, i) => scheme.kind = "days" /\ frame[i] = next

LEMMA FreshFollows ==
    ASSUME WalkConst, NEW end \in Nat, NEW next \in Nat, end < next, NEW w \in Slices, Fresh(w, end, next),
           scheme.kind = "rows" => end >= 1, scheme.kind = "champion" => end >= 1
    PROVE  /\ Follows(w, w) /\ Passed(w, next)
           /\ \A v \in Slices : Passed(v, end) => Follows(v, w) /\ Apart(v, w)
<1>1. w.train \subseteq Rows /\ w.test \subseteq Rows
  BY DEF Slices
<1>2. Follows(w, w)
  BY <1>1 DEF Fresh, Follows
<1>3. ASSUME NEW i \in w.train, NEW j \in Rows, Ahead(next, j) PROVE Precedes(i, j)
  <2>1. Ahead(end, j)
    BY <1>3, AheadShrinks
  <2> QED BY <2>1 DEF Fresh
<1>4. Passed(w, next)
  BY <1>3 DEF Fresh, Passed
<1>5. ASSUME NEW v \in Slices, Passed(v, end) PROVE Follows(v, w) /\ Apart(v, w)
  <2>1. Follows(v, w)
    BY <1>1, <1>5 DEF Passed, Fresh, Follows
  <2>2. ASSUME Single, NEW i \in v.test \cap w.test
        PROVE  scheme.kind = "days" /\ \A j \in w.test : frame[i] <= frame[j]
    <3>1. scheme.kind = "days" /\ frame[i] = end
      BY <1>5, <2>2 DEF Passed, Fresh
    <3>2. ASSUME NEW j \in w.test PROVE frame[i] <= frame[j]
      BY <3>1, <3>2 DEF Fresh, Ahead
    <3> QED BY <3>1, <3>2
  <2> QED BY <2>1, <2>2 DEF Apart
<1> QED BY <1>2, <1>4, <1>5

----
(* The windows that are cut. *)

LEMMA SlicesOfRows ==
    \A a, b : RowsIn(a, b) \subseteq Rows /\ RowsDated(a, b) \subseteq Rows
  BY DEF RowsIn, RowsDated, Rows

\* The first and the last row of a slice.
LEMMA RowsInEnds ==
    ASSUME WalkConst, NEW a \in Nat, NEW b \in Nat, 1 <= a, a < b, b <= NRows + 1
    PROVE  Min(RowsIn(a, b)) = a /\ Max(RowsIn(a, b)) = b - 1
<1>1. PICK n \in Nat : n = NRows
  BY FrameFacts
<1>2. PICK S : S = RowsIn(a, b)
  OBVIOUS
<1>3. S \in SUBSET Nat /\ \A i \in Nat : i \in S <=> 1 <= i /\ i <= n /\ a <= i /\ i < b
  BY <1>1, <1>2 DEF RowsIn
<1>4. PICK z \in Nat : z = b - 1
  OBVIOUS
<1>5. a \in S /\ z \in S /\ (\A y \in S : a <= y) /\ \A y \in S : z >= y
  BY <1>1, <1>3, <1>4
<1>6. Min(S) = a
  BY <1>5, MinIs
<1>7. Max(S) = z
  BY <1>5, MaxIs
<1> QED BY <1>2, <1>4, <1>6, <1>7

LEMMA RowsFresh ==
    ASSUME WalkConst, scheme.kind = "rows", NEW from \in Nat, 1 <= from, NEW end \in Nat, NEW next \in Nat,
           end = from + scheme.train, next = end + scheme.step, end + scheme.test <= NRows + 1,
           NEW w, w = [train |-> RowsIn(from, end - scheme.purge),
                       test |-> RowsIn(end + scheme.embargo, end + scheme.test)],
           ~(frame[Min(w.test)] <= frame[Max(w.train)])
    PROVE  Fresh(w, end, next)
<1>1. PICK last \in Nat : last = end - scheme.purge
  BY SchemeFacts
<1>2. PICK first \in Nat : first = end + scheme.embargo
  BY SchemeFacts
<1>3. PICK stop \in Nat : stop = end + scheme.test
  BY SchemeFacts
<1>4. from < last /\ last <= end /\ end <= first /\ first < stop /\ stop <= NRows + 1
  BY <1>1, <1>2, <1>3, SchemeFacts
<1>5. NRows \in Nat
  BY FrameFacts
<1>6. w.train = RowsIn(from, last) /\ w.test = RowsIn(first, stop)
  BY <1>1, <1>2, <1>3
<1>7. Max(w.train) = last - 1
  BY <1>4, <1>5, <1>6, RowsInEnds
<1>8. Min(w.test) = first
  BY <1>4, <1>5, <1>6, RowsInEnds
<1>9. w \in Slices
  BY <1>6, SlicesOfRows DEF Slices
<1>10. Gap(w)
  BY <1>1, <1>2, <1>7, <1>8, SchemeFacts DEF Gap
<1>11. PICK x \in Rows : x = last - 1
  BY <1>4, <1>5 DEF Rows
<1>12. first \in Rows /\ frame[first] \in Nat /\ frame[x] \in Nat /\ frame[x] < frame[first]
  BY <1>4, <1>5, <1>7, <1>8, <1>11, FrameFacts DEF Rows
<1>13. ASSUME NEW i \in w.train, NEW j \in Rows, Ahead(end, j) PROVE Precedes(i, j)
  <2>1. i \in Rows /\ i <= x /\ first <= j
    BY <1>2, <1>6, <1>11, <1>13, <1>4 DEF RowsIn, Rows, Ahead
  <2>2. frame[i] <= frame[x]
    BY <2>1, FrameFacts
  <2>3. frame[first] <= frame[j]
    BY <2>1, <1>12, FrameFacts
  <2>4. frame[i] \in Nat /\ frame[j] \in Nat
    BY <2>1, FrameFacts
  <2> QED BY <2>2, <2>3, <2>4, <1>12 DEF Precedes
<1>14. ASSUME NEW j \in w.test PROVE Ahead(end, j) /\ j < stop /\ j \in Nat
  BY <1>2, <1>6, <1>5 DEF RowsIn, Ahead
<1>15. ASSUME Single, NEW i \in w.test PROVE ~Ahead(next, i)
  <2>1. i < stop /\ i \in Nat
    BY <1>14
  <2>2. ~(i >= next + scheme.embargo)
    BY <2>1, <1>3, <1>15, SchemeFacts DEF Single
  <2> QED BY <2>2 DEF Ahead
<1> QED BY <1>9, <1>10, <1>13, <1>14, <1>15 DEF Fresh

\* Training ends as many rows before the first test as are purged.
LEMMA PurgedGap ==
    ASSUME WalkConst, NEW a \in Nat, NEW end \in Nat, NEW stop \in Nat, NEW T, NEW S, NEW R,
           R = RowsDated(a, end), S = Purged(R), T = RowsDated(end, stop), S # {}, T # {}
    PROVE  Min(T) - Max(S) - 1 = scheme.purge
<1>1. PICK n \in Nat : n = NRows
  BY FrameFacts
<1>2. R \subseteq 1..n /\ S \subseteq R /\ T \subseteq 1..n
  BY <1>1, Zenon DEF RowsDated, Purged
<1>3. S \in SUBSET (1..n) /\ T \in SUBSET Nat
  BY <1>1, <1>2
<1>4. PICK x : x = Max(S)
  OBVIOUS
<1>5. PICK y : y = Min(T)
  OBVIOUS
<1>6. x \in S /\ \A i \in S : x >= i
  BY <1>3, <1>4, MaxOf
<1>7. y \in T /\ \A i \in T : y <= i
  BY <1>3, <1>5, MinOf
<1>8. x \in Rows /\ y \in Rows /\ x \in Nat /\ y \in Nat /\ x >= 1 /\ y <= n
  BY <1>1, <1>2, <1>6, <1>7 DEF Rows
<1>9. frame[x] \in Nat /\ frame[y] \in Nat /\ a <= frame[x] /\ frame[x] < end /\ end <= frame[y] /\ frame[y] < stop
  BY <1>2, <1>6, <1>7, <1>8, FrameFacts DEF RowsDated
<1>10. x < y
  BY <1>8, <1>9, FrameFacts
<1>11. \A j \in Rows : j \in R => j < y
  <2>1. ASSUME NEW j \in Rows, j \in R PROVE j < y
    <3>1. frame[j] < end /\ frame[j] \in Nat /\ j \in Nat
      BY <2>1, FrameFacts DEF RowsDated, Rows
    <3> QED BY <3>1, <1>8, <1>9, FrameFacts
  <2> QED BY <2>1
<1>12. \A j \in Rows : x <= j /\ j < y => j \in R
  <2>1. ASSUME NEW j \in Rows, x <= j, j < y PROVE j \in R
    <3>1. frame[x] <= frame[j] /\ frame[j] <= frame[y] /\ frame[j] \in Nat
      BY <2>1, <1>8, FrameFacts DEF Rows
    <3>2. j \notin T
      BY <2>1, <1>7, <1>8 DEF Rows
    <3>3. j \in 1..NRows
      BY DEF Rows
    <3>4. ~(end <= frame[j])
      BY <3>1, <3>2, <3>3, <1>9 DEF RowsDated
    <3> QED BY <3>1, <3>3, <3>4, <1>9 DEF RowsDated
  <2> QED BY <2>1
<1>13. \A k \in Nat : x <= k /\ k < y => {j \in R : j > k} = (k + 1)..(y - 1)
  <2>1. ASSUME NEW k \in Nat, x <= k, k < y PROVE {j \in R : j > k} = (k + 1)..(y - 1)
    <3>1. ASSUME NEW j \in R, j > k PROVE j \in (k + 1)..(y - 1)
      <4>1. j \in Rows /\ j \in Nat
        BY <1>1, <1>2 DEF Rows
      <4> QED BY <3>1, <4>1, <1>8, <1>11
    <3>2. ASSUME NEW j \in (k + 1)..(y - 1) PROVE j \in R /\ j > k
      <4>1. j \in Rows
        BY <1>1, <1>8, <2>1 DEF Rows
      <4> QED BY <4>1, <1>8, <1>12, <2>1
    <3> QED BY <3>1, <3>2
  <2> QED BY <2>1
<1>14. \A k \in Nat : x <= k /\ k < y => Cardinality({j \in R : j > k}) = y - 1 - k
  <2>1. ASSUME NEW k \in Nat, x <= k, k < y PROVE Cardinality({j \in R : j > k}) = y - 1 - k
    <3>1. PICK b \in Int : b = k + 1
      OBVIOUS
    <3>2. PICK c \in Int : c = y - 1
      BY <1>8
    <3>3. Cardinality(b..c) = IF b > c THEN 0 ELSE c - b + 1
      BY FS_Interval
    <3>4. {j \in R : j > k} = b..c
      BY <1>13, <2>1, <3>1, <3>2
    <3>5. Cardinality({j \in R : j > k}) = Cardinality(b..c)
      BY <3>4, Zenon
    <3>6. (IF b > c THEN 0 ELSE c - b + 1) = y - 1 - k
      BY <3>1, <3>2, <2>1, <1>8
    <3> QED BY <3>3, <3>5, <3>6, Zenon
  <2> QED BY <2>1
<1>15. y - 1 - x >= scheme.purge
  <2>1. Cardinality({j \in R : j > x}) >= scheme.purge
    BY <1>6 DEF Purged
  <2>2. Cardinality({j \in R : j > x}) = y - 1 - x
    BY <1>8, <1>10, <1>14
  <2> QED BY <2>1, <2>2
<1>16. ~(y - 1 - x > scheme.purge)
  <2> SUFFICES ASSUME y - 1 - x > scheme.purge PROVE FALSE
    OBVIOUS
  <2>1. PICK k \in Nat : k = x + 1
    BY <1>8
  <2>2. scheme.purge \in Nat
    BY SchemeFacts
  <2>3. x <= k /\ k < y /\ k \in Rows /\ y - 1 - k >= scheme.purge
    BY <1>1, <1>8, <2>1, <2>2 DEF Rows
  <2>4. k \in R
    BY <1>12, <2>3
  <2>5. Cardinality({j \in R : j > k}) = y - 1 - k
    BY <1>14, <2>3
  <2>6. k \in S
    BY <2>3, <2>4, <2>5 DEF Purged
  <2> QED BY <1>6, <1>8, <2>1, <2>6
<1>17. y - x - 1 = scheme.purge
  BY <1>8, <1>15, <1>16, SchemeFacts
<1> QED BY <1>4, <1>5, <1>17

LEMMA MonthsFresh ==
    ASSUME WalkConst, scheme.kind = "months", NEW from \in Nat, NEW end \in Nat, NEW stop \in Nat, NEW next \in Nat,
           scheme.step >= scheme.test => stop <= next,
           NEW w, w = [train |-> Purged(RowsDated(from, end)), test |-> RowsDated(end, stop)],
           w.train # {}, w.test # {}
    PROVE  Fresh(w, end, next)
<1>1. w.train \subseteq RowsDated(from, end) /\ w.test = RowsDated(end, stop)
  BY DEF Purged
<1>2. w \in Slices
  <2>1. w.train \subseteq Rows /\ w.test \subseteq Rows
    BY <1>1, SlicesOfRows
  <2> QED BY <2>1 DEF Slices
<1>3. Gap(w)
  <2>1. PICK R : R = RowsDated(from, end)
    OBVIOUS
  <2>2. w.train = Purged(R)
    BY <2>1
  <2>3. Min(w.test) - Max(w.train) - 1 = scheme.purge
    BY <1>1, <2>1, <2>2, PurgedGap
  <2>4. scheme.embargo = 0 /\ scheme.purge \in Nat
    BY SchemeFacts
  <2> QED BY <2>3, <2>4 DEF Gap
<1>4. \A i \in w.train : frame[i] < end
  BY <1>1 DEF RowsDated
<1>5. \A j \in w.test : end <= frame[j] /\ frame[j] < stop /\ frame[j] \in Nat
  BY <1>1, FrameFacts DEF RowsDated, Rows
<1>6. ASSUME NEW i \in w.train, NEW j \in Rows, Ahead(end, j) PROVE Precedes(i, j)
  <2>1. frame[j] >= end /\ frame[j] \in Nat
    BY <1>6, FrameFacts DEF Ahead
  <2>2. i \in Rows /\ frame[i] < end
    BY <1>1, <1>4, SlicesOfRows
  <2>3. frame[i] \in Nat
    BY <2>2, FrameFacts
  <2> QED BY <2>1, <2>2, <2>3 DEF Precedes
<1>7. \A j \in w.test : Ahead(end, j)
  BY <1>5 DEF Ahead
<1>8. ASSUME Single, NEW i \in w.test PROVE ~Ahead(next, i)
  <2>1. stop <= next
    BY <1>8 DEF Single
  <2>2. ~(frame[i] >= next)
    BY <1>5, <2>1
  <2> QED BY <2>2 DEF Ahead
<1> QED BY <1>2, <1>3, <1>6, <1>7, <1>8 DEF Fresh

LEMMA DaysFresh ==
    ASSUME WalkConst, scheme.kind = "days", NEW from \in Nat, NEW end \in Nat, NEW next \in Nat,
           NEW w, w = [train |-> RowsDated(from, end + 1), test |-> RowsDated(end, next + 1)]
    PROVE  Fresh(w, end, next)
<1>1. w \in Slices
  BY SlicesOfRows DEF Slices
<1>2. Gap(w)
  BY DEF Gap
<1>3. ASSUME NEW i \in w.train, NEW j \in Rows, Ahead(end, j) PROVE Precedes(i, j)
  <2>1. i \in Rows /\ frame[i] < end + 1
    BY DEF RowsDated, Rows
  <2>2. frame[i] \in Nat /\ frame[j] \in Nat
    BY <2>1, FrameFacts
  <2>3. frame[i] <= frame[j]
    BY <1>3, <2>1, <2>2 DEF Ahead
  <2> QED BY <2>2, <2>3 DEF Precedes
<1>4. \A j \in w.test : Ahead(end, j)
  BY DEF RowsDated, Ahead
<1>5. ASSUME NEW i \in w.test, Ahead(next, i) PROVE frame[i] = next
  <2>1. i \in Rows /\ frame[i] < next + 1
    BY DEF RowsDated, Rows
  <2>2. frame[i] \in Nat
    BY <2>1, FrameFacts
  <2> QED BY <1>5, <2>1, <2>2 DEF Ahead
<1> QED BY <1>1, <1>2, <1>3, <1>4, <1>5 DEF Fresh

LEMMA ChampionFresh ==
    ASSUME WalkConst, scheme.kind = "champion", NEW from \in Nat, from > scheme.warmup, NEW end \in Nat,
           NEW first \in Nat, NEW stop \in Nat, NEW next \in Nat,
           end = from + scheme.train, first = end + scheme.embargo, stop = first + scheme.test,
           next = end + scheme.step, stop <= NRows + 1,
           NEW w, w = [train |-> RowsIn(from - scheme.warmup, end - scheme.purge),
                       test |-> RowsIn(first - scheme.warmup, stop + scheme.extension)
                                \cap RowsDated(frame[first], frame[stop - 1] + 1)]
    PROVE  Fresh(w, end, next)
<1>1. PICK last \in Nat : last = end - scheme.purge
  BY SchemeFacts
<1>2. PICK n \in Nat : n = NRows
  BY FrameFacts
<1>3. PICK start \in Nat : start = from - scheme.warmup
  BY SchemeFacts
<1>4. PICK final \in Nat : final = stop - 1
  BY SchemeFacts
<1>5. 1 <= start /\ start < last /\ last <= end /\ end <= first /\ first <= final /\ final <= n
  BY <1>1, <1>2, <1>3, <1>4, SchemeFacts
<1>6. first \in Rows /\ final \in Rows /\ frame[first] \in Nat /\ frame[final] \in Nat
  BY <1>2, <1>5, FrameFacts DEF Rows
<1>7. w.train = RowsIn(start, last)
  BY <1>1, <1>3
<1>8. w \in Slices
  BY SlicesOfRows DEF Slices
<1>9. \A i \in Rows : i \in w.test <=> /\ first - scheme.warmup <= i /\ i < stop + scheme.extension
                                      /\ frame[first] <= frame[i] /\ frame[i] <= frame[final]
  <2>1. ASSUME NEW i \in Rows
        PROVE  i \in w.test <=> /\ first - scheme.warmup <= i /\ i < stop + scheme.extension
                                /\ frame[first] <= frame[i] /\ frame[i] <= frame[final]
    <3>1. i \in 1..NRows /\ frame[i] \in Nat
      BY FrameFacts DEF Rows
    <3>2. frame[i] < frame[final] + 1 <=> frame[i] <= frame[final]
      BY <3>1, <1>6
    <3> QED BY <3>1, <3>2, <1>4 DEF RowsIn, RowsDated
  <2> QED BY <2>1
<1>10. w.test \subseteq Rows
  BY <1>8 DEF Slices
<1>11. ASSUME Distinct, NEW i \in Rows, NEW j \in Rows, i < j PROVE frame[i] < frame[j]
  <2>1. frame[i] # frame[j]
    BY <1>11 DEF Distinct, Rows
  <2> QED BY <1>11, <2>1, FrameFacts DEF Rows
<1>12. ASSUME Distinct PROVE \A i \in Rows : i \in w.test <=> first <= i /\ i <= final
  <2>1. ASSUME NEW i \in Rows, first <= i, i <= final PROVE i \in w.test
    <3>1. frame[first] <= frame[i] /\ frame[i] <= frame[final]
      BY <1>6, <2>1, FrameFacts
    <3>2. first - scheme.warmup <= i /\ i < stop + scheme.extension
      BY <1>4, <2>1, SchemeFacts DEF Rows
    <3> QED BY <1>9, <3>1, <3>2
  <2>2. ASSUME NEW i \in w.test PROVE first <= i /\ i <= final
    <3>1. i \in Rows /\ frame[first] <= frame[i] /\ frame[i] <= frame[final] /\ frame[i] \in Nat
      BY <1>9, <1>10, FrameFacts
    <3>2. ~(i < first)
      BY <1>6, <1>11, <1>12, <3>1
    <3>3. ~(final < i)
      BY <1>6, <1>11, <1>12, <3>1
    <3> QED BY <1>2, <3>1, <3>2, <3>3 DEF Rows
  <2> QED BY <2>1, <2>2
<1>13. Gap(w)
  <2> SUFFICES ASSUME Distinct PROVE Min(w.test) - Max(w.train) - 1 = scheme.purge + scheme.embargo
    BY DEF Gap
  <2>1. Max(w.train) = last - 1
    <3>1. last <= NRows + 1
      BY <1>2, <1>5
    <3> QED BY <3>1, <1>5, <1>7, RowsInEnds
  <2>2. first \in w.test /\ \A i \in w.test : first <= i
    BY <1>5, <1>6, <1>10, <1>12 DEF Rows
  <2>3. w.test \in SUBSET Nat
    BY <1>10 DEF Rows
  <2>4. Min(w.test) = first
    BY <2>2, <2>3, MinIs
  <2> QED BY <2>1, <2>4, <1>1, SchemeFacts
<1>14. ASSUME NEW i \in w.train, NEW j \in Rows, Ahead(end, j) PROVE Precedes(i, j)
  <2>1. frame[first] <= frame[j]
    BY <1>14 DEF Ahead
  <2>2. i \in Rows /\ i < first
    BY <1>5, <1>7 DEF RowsIn, Rows
  <2>3. frame[i] <= frame[first] /\ frame[i] \in Nat /\ frame[j] \in Nat
    BY <2>2, <1>6, FrameFacts DEF Rows
  <2>4. Distinct => frame[i] < frame[first]
    BY <2>2, <1>6, <1>11
  <2> QED BY <2>1, <2>3, <2>4, <1>6 DEF Precedes
<1>15. \A j \in w.test : Ahead(end, j)
  BY <1>6, <1>9, <1>10 DEF Ahead
<1>16. ASSUME Single, NEW i \in w.test PROVE ~Ahead(next, i)
  <2>1. Distinct /\ scheme.step >= scheme.test
    BY <1>16 DEF Single
  <2>2. i \in Rows /\ frame[i] <= frame[final]
    BY <1>9, <1>10
  <2>3. ASSUME NEW k \in Rows, k = next + scheme.embargo PROVE ~(frame[k] <= frame[i])
    <3>1. final < k
      BY <1>4, <2>1, <2>3, SchemeFacts
    <3>2. frame[final] < frame[k]
      BY <1>6, <1>11, <2>1, <3>1
    <3>3. frame[k] \in Nat /\ frame[i] \in Nat
      BY <2>2, FrameFacts
    <3> QED BY <1>6, <2>2, <3>2, <3>3
  <2> QED BY <2>3 DEF Ahead
<1> QED BY <1>8, <1>13, <1>14, <1>15, <1>16 DEF Fresh

----
(* The step that cuts a window. *)

\* A window appended is in order with all before it.
LEMMA AppendedSound ==
    ASSUME WalkConst, NEW ws, WindowsSound(ws), NEW end \in Nat, NEW next \in Nat, end < next,
           NEW w, Fresh(w, end, next), AllPassed(ws, end), scheme.kind = "rows" => end >= 1, scheme.kind = "champion" => end >= 1
    PROVE  WindowsSound(Append(ws, w)) /\ AllPassed(Append(ws, w), next)
<1>1. ws \in Seq(Slices) /\ w \in Slices /\ Gap(w)
  BY DEF WindowsSound, Fresh
<1>2. Follows(w, w) /\ Passed(w, next) /\ \A v \in Slices : Passed(v, end) => Follows(v, w) /\ Apart(v, w)
  BY <1>1, FreshFollows
<1>3. PICK n \in Nat : n = Len(ws)
  BY <1>1
<1>4. PICK more : more = Append(ws, w)
  OBVIOUS
<1>5. more \in Seq(Slices) /\ Len(more) = n + 1 /\ more[n + 1] = w /\ \A v \in 1..n : more[v] = ws[v]
  BY <1>1, <1>3, <1>4
<1>6. \A v \in 1..n : ws[v] \in Slices
  BY <1>1, <1>3
<1>7. \A v \in 1..n : Passed(ws[v], end)
  BY <1>3 DEF AllPassed
<1>8. ASSUME NEW v \in 1..(n + 1) PROVE Gap(more[v]) /\ Follows(more[v], more[v]) /\ Passed(more[v], next)
  <2>1. CASE v = n + 1
    BY <2>1, <1>1, <1>2, <1>5
  <2>2. CASE v \in 1..n
    <3>1. Gap(ws[v]) /\ Follows(ws[v], ws[v])
      BY <2>2, <1>3 DEF WindowsSound
    <3>2. Passed(ws[v], next)
      BY <2>2, <1>6, <1>7, StaysPassed
    <3> QED BY <2>2, <3>1, <3>2, <1>5
  <2> QED BY <2>1, <2>2
<1>9. ASSUME NEW u \in 1..(n + 1), NEW v \in 1..(n + 1), u < v
      PROVE  Follows(more[u], more[v]) /\ Apart(more[u], more[v])
  <2>1. CASE v = n + 1
    <3>1. u \in 1..n
      BY <1>9, <2>1
    <3>2. more[u] \in Slices /\ Passed(more[u], end)
      BY <3>1, <1>5, <1>6, <1>7
    <3> QED BY <2>1, <3>2, <1>2, <1>5
  <2>2. CASE v \in 1..n
    <3>1. u \in 1..n
      BY <1>9, <2>2
    <3>2. Follows(ws[u], ws[v]) /\ Apart(ws[u], ws[v])
      BY <3>1, <2>2, <1>9, <1>3 DEF WindowsSound
    <3> QED BY <2>2, <3>1, <3>2, <1>5
  <2> QED BY <2>1, <2>2
<1>10. WindowsSound(more)
  BY <1>5, <1>8, <1>9 DEF WindowsSound
<1>11. AllPassed(more, next)
  BY <1>5, <1>8 DEF AllPassed
<1> QED BY <1>4, <1>10, <1>11

\* What has been passed stays so when the walk goes on.
LEMMA AllStayPassed ==
    ASSUME WalkConst, NEW ws \in Seq(Slices), NEW end \in Nat, NEW next \in Nat, end < next, AllPassed(ws, end),
           scheme.kind = "rows" => end >= 1, scheme.kind = "champion" => end >= 1
    PROVE  AllPassed(ws, next)
<1>1. ASSUME NEW v \in 1..Len(ws) PROVE Passed(ws[v], next)
  <2>1. ws[v] \in Slices /\ Passed(ws[v], end)
    BY DEF AllPassed
  <2> QED BY <2>1, StaysPassed
<1> QED BY <1>1 DEF AllPassed

\* A position further on in the frame, and how far the tests of a window may reach.
LEMMA EndMoves ==
    ASSUME WalkConst, NEW from \in Nat, NEW length \in Nat, NEW step \in Nat \ {0}, NEW more \in Nat
    PROVE  /\ EndOf(from, length) \in Nat
           /\ scheme.kind # "months" => EndOf(from, length) = from + length
           /\ scheme.kind = "months" => EndOf(from, length) = from + length * MonthDays
           /\ EndOf(from + step * MonthDays, length) = from + step * MonthDays + (EndOf(from, length) - from)
           /\ scheme.kind = "months" => EndOf(from, length + step) = EndOf(from, length) + step * MonthDays
           /\ step * MonthDays \in Nat \ {0} /\ more * MonthDays \in Nat
           /\ step >= more => more * MonthDays <= step * MonthDays
<1>1. PICK m \in Nat \ {0} : m = MonthDays
  BY SchemeFacts
<1>2. length * m \in Nat /\ more * m \in Nat
  BY <1>1
<1>3. step * m \in Nat \ {0}
  <2>1. step >= 1 /\ m >= 1
    BY <1>1
  <2>2. step * m >= 1
    BY <2>1, <1>1
  <2> QED BY <2>2, <1>1
<1>4. (length + step) * m = length * m + step * m
  BY <1>1
<1>5. step >= more => more * m <= step * m
  BY <1>1
<1> QED BY <1>1, <1>2, <1>3, <1>4, <1>5 DEF EndOf

LEMMA EndPlain ==
    ASSUME scheme.kind # "months", NEW from \in Nat, NEW length \in Nat
    PROVE  EndOf(from, length) = from + length
  BY DEF EndOf

\* What a step makes of the position and the windows.
Sound(from, length, ws, pc) == CutSound(from, length, ws, pc) /\ WindowsSound(ws)
Cutting == WalkConst /\ walk.pc = "cut" /\ walk \in Walks /\ Sound(cut, span, windows, "cut")

LEMMA SoundOver ==
    ASSUME Cutting, NEW pc \in {"train", "done", "raised"}, CutsOver(pc)
    PROVE  Sound(cut', span', windows', walk'.pc)
<1>1. cut' = cut /\ span' = span /\ windows' = windows /\ walk'.pc = pc
  BY DEF CutsOver, Cutting, Walks
<1>2. Sound(cut, span, windows, pc)
  BY DEF Cutting, Sound, CutSound
<1> QED BY <1>1, <1>2

\* A window is added, and the walk goes on behind it.
LEMMA SoundCut ==
    ASSUME Cutting, scheme.kind # "split", NEW train, NEW test, NEW from \in Nat, NEW length \in Nat \ {0},
           NEW next \in Nat, Cut(train, test), cut' = from, span' = length,
           EndOf(from, length) = next, EndOf(cut, span) < next, from >= cut,
           scheme.kind # "months" => length = scheme.train,
           \A w : w = [train |-> train, test |-> test] => Fresh(w, EndOf(cut, span), next)
    PROVE  Sound(cut', span', windows', walk'.pc)
<1>1. PICK w : w = [train |-> train, test |-> test]
  OBVIOUS
<1>2. windows' = Append(windows, w) /\ walk'.pc = "cut"
  BY <1>1 DEF Cut, Cutting
<1>3. WalkConst /\ WindowsSound(windows) /\ CutSound(cut, span, windows, "cut")
  BY DEF Cutting, Sound
<1>4. /\ cut \in Nat /\ span \in Nat
      /\ (scheme.kind = "rows" => cut >= 1) /\ (scheme.kind = "champion" => cut > scheme.warmup)
  BY <1>3 DEF CutSound
<1>5. PICK end \in Nat : end = EndOf(cut, span)
  BY <1>3, <1>4, EndMoves
<1>6. AllPassed(windows, end) /\ end < next /\ Fresh(w, end, next)
  BY <1>1, <1>3, <1>5 DEF CutSound
<1>7. scheme.kind # "months" => end = cut + span
  BY <1>3, <1>4, <1>5, EndMoves
<1>8. (scheme.kind = "rows" => end >= 1) /\ (scheme.kind = "champion" => end >= 1)
  BY <1>3, <1>4, <1>7, SchemeFacts
<1>9. WindowsSound(Append(windows, w)) /\ AllPassed(Append(windows, w), next)
  BY <1>3, <1>6, <1>8, AppendedSound
<1>10. (scheme.kind = "rows" => from >= 1) /\ (scheme.kind = "champion" => from > scheme.warmup)
  BY <1>3, <1>4, SchemeFacts
<1>11. CutSound(from, length, Append(windows, w), "cut")
  BY <1>9, <1>10 DEF CutSound
<1> QED BY <1>2, <1>9, <1>11 DEF Sound

\* The validator's windows.
LEMMA CutsRowsSound ==
    ASSUME Cutting, CutsRows
    PROVE  Sound(cut', span', windows', walk'.pc)
<1>1. WalkConst /\ scheme.kind = "rows" /\ cut \in Nat /\ cut >= 1 /\ span = scheme.train
  BY DEF Cutting, Sound, CutSound, CutsRows
<1>2. PICK end \in Nat : end = cut + scheme.train
  BY <1>1, SchemeFacts
<1>3. PICK train : train = RowsIn(cut, end - scheme.purge)
  OBVIOUS
<1>4. PICK test : test = RowsIn(end + scheme.embargo, end + scheme.test)
  OBVIOUS
<1>5. \/ CutsOver("train") \/ CutsOver("raised")
      \/ /\ ~(end + scheme.test > NRows + 1) /\ ~(frame[Min(test)] <= frame[Max(train)])
         /\ Cut(train, test) /\ MovesBy(scheme.step)
  BY <1>2, <1>3, <1>4, Zenon DEF CutsRows
<1>6. CASE CutsOver("train") \/ CutsOver("raised")
  BY <1>6, SoundOver
<1>7. CASE /\ ~(end + scheme.test > NRows + 1) /\ ~(frame[Min(test)] <= frame[Max(train)])
           /\ Cut(train, test) /\ MovesBy(scheme.step)
  <2>1. PICK from \in Nat : from = cut + scheme.step
    BY <1>1, SchemeFacts
  <2>2. cut' = from /\ span' = span
    BY <1>7, <2>1 DEF MovesBy
  <2>3. EndOf(cut, span) = end /\ span \in Nat \ {0}
    BY <1>1, <1>2, SchemeFacts, EndPlain
  <2>4. PICK next \in Nat : next = end + scheme.step
    BY SchemeFacts, <1>1
  <2>5. EndOf(from, span) = next
    <3>1. EndOf(from, span) = from + span
      BY <1>1, <2>1, <2>3, EndPlain
    <3>2. scheme.train \in Nat /\ scheme.test \in Nat /\ scheme.step \in Nat
      BY <1>1, SchemeFacts
    <3>3. from + span = next
      BY <1>1, <1>2, <3>2, <2>1, <2>4
    <3> QED BY <3>1, <3>3
  <2>6. end < next /\ from >= cut
    BY <1>1, <2>1, <2>4, SchemeFacts
  <2>7. end + scheme.test <= NRows + 1
    BY <1>1, <1>7, SchemeFacts, FrameFacts
  <2>8. ASSUME NEW w, w = [train |-> train, test |-> test] PROVE Fresh(w, end, next)
    <3>1. w = [train |-> RowsIn(cut, end - scheme.purge), test |-> RowsIn(end + scheme.embargo, end + scheme.test)]
      BY <2>8, <1>3, <1>4
    <3>2. w.train = train /\ w.test = test
      BY <2>8
    <3>3. ~(frame[Min(w.test)] <= frame[Max(w.train)])
      BY <1>7, <3>2
    <3> QED BY <1>1, <1>2, <2>4, <2>7, <3>1, <3>3, RowsFresh
  <2> QED BY <1>1, <1>7, <2>2, <2>3, <2>5, <2>6, <2>8, SoundCut
<1> QED BY <1>5, <1>6, <1>7

\* The optimizer's windows.
LEMMA CutsDaysSound ==
    ASSUME Cutting, CutsDays
    PROVE  Sound(cut', span', windows', walk'.pc)
<1>1. WalkConst /\ scheme.kind = "days" /\ cut \in Nat /\ span = scheme.train
  BY DEF Cutting, Sound, CutSound, CutsDays
<1>2. PICK end \in Nat : end = cut + scheme.train
  BY <1>1, SchemeFacts
<1>3. PICK stop \in Nat : stop = end + scheme.test
  BY <1>1, SchemeFacts
<1>4. CutsOver("done") \/ (Cut(RowsDated(cut, end + 1), RowsDated(end, stop + 1)) /\ MovesBy(scheme.test))
  BY <1>2, <1>3 DEF CutsDays
<1>5. CASE CutsOver("done")
  BY <1>5, SoundOver
<1>6. CASE Cut(RowsDated(cut, end + 1), RowsDated(end, stop + 1)) /\ MovesBy(scheme.test)
  <2>1. PICK from \in Nat : from = cut + scheme.test
    BY <1>1, SchemeFacts
  <2>2. cut' = from /\ span' = span
    BY <1>6, <2>1 DEF MovesBy
  <2>3. EndOf(cut, span) = end /\ span \in Nat \ {0}
    BY <1>1, <1>2, SchemeFacts, EndPlain
  <2>4. EndOf(from, span) = stop
    <3>1. EndOf(from, span) = from + span
      BY <1>1, <2>1, <2>3, EndPlain
    <3>2. scheme.train \in Nat /\ scheme.test \in Nat /\ scheme.step \in Nat
      BY <1>1, SchemeFacts
    <3>3. from + span = stop
      BY <1>1, <1>2, <3>2, <2>1, <1>3
    <3> QED BY <3>1, <3>3
  <2>5. end < stop /\ from >= cut
    BY <1>1, <1>3, <2>1, SchemeFacts
  <2>6. \A w : w = [train |-> RowsDated(cut, end + 1), test |-> RowsDated(end, stop + 1)] => Fresh(w, end, stop)
    BY <1>1, DaysFresh
  <2> QED BY <1>1, <1>6, <2>2, <2>3, <2>4, <2>5, <2>6, SoundCut
<1> QED BY <1>4, <1>5, <1>6

\* The recalibration's windows.
LEMMA CutsChampionSound ==
    ASSUME Cutting, CutsChampion
    PROVE  Sound(cut', span', windows', walk'.pc)
<1>1. WalkConst /\ scheme.kind = "champion" /\ cut \in Nat /\ cut > scheme.warmup /\ span = scheme.train
  BY DEF Cutting, Sound, CutSound, CutsChampion
<1>2. PICK end \in Nat : end = cut + scheme.train
  BY <1>1, SchemeFacts
<1>3. PICK first \in Nat : first = end + scheme.embargo
  BY <1>1, SchemeFacts
<1>4. PICK stop \in Nat : stop = first + scheme.test
  BY <1>1, SchemeFacts
<1>5. PICK train : train = RowsIn(cut - scheme.warmup, end - scheme.purge)
  OBVIOUS
<1>6. PICK test : test = RowsIn(first - scheme.warmup, stop + scheme.extension)
                         \cap RowsDated(frame[first], frame[stop - 1] + 1)
  OBVIOUS
<1>7. CutsOver("done") \/ (~(stop > NRows + 1) /\ Cut(train, test) /\ MovesBy(scheme.step))
  BY <1>2, <1>3, <1>4, <1>5, <1>6, Zenon DEF CutsChampion
<1>8. CASE CutsOver("done")
  BY <1>8, SoundOver
<1>9. CASE ~(stop > NRows + 1) /\ Cut(train, test) /\ MovesBy(scheme.step)
  <2>1. PICK from \in Nat : from = cut + scheme.step
    BY <1>1, SchemeFacts
  <2>2. cut' = from /\ span' = span
    BY <1>9, <2>1 DEF MovesBy
  <2>3. EndOf(cut, span) = end /\ span \in Nat \ {0}
    BY <1>1, <1>2, SchemeFacts, EndPlain
  <2>4. PICK next \in Nat : next = end + scheme.step
    BY SchemeFacts, <1>1
  <2>5. EndOf(from, span) = next
    <3>1. EndOf(from, span) = from + span
      BY <1>1, <2>1, <2>3, EndPlain
    <3>2. scheme.train \in Nat /\ scheme.test \in Nat /\ scheme.step \in Nat
      BY <1>1, SchemeFacts
    <3>3. from + span = next
      BY <1>1, <1>2, <3>2, <2>1, <2>4
    <3> QED BY <3>1, <3>3
  <2>6. end < next /\ from >= cut
    BY <1>1, <2>1, <2>4, SchemeFacts
  <2>7. stop <= NRows + 1
    BY <1>1, <1>9, FrameFacts
  <2>8. ASSUME NEW w, w = [train |-> train, test |-> test] PROVE Fresh(w, end, next)
    <3>1. w = [train |-> RowsIn(cut - scheme.warmup, end - scheme.purge),
               test |-> RowsIn(first - scheme.warmup, stop + scheme.extension)
                        \cap RowsDated(frame[first], frame[stop - 1] + 1)]
      BY <2>8, <1>5, <1>6
    <3> QED BY <1>1, <1>2, <1>3, <1>4, <2>4, <2>7, <3>1, ChampionFresh
  <2> QED BY <1>1, <1>9, <2>2, <2>3, <2>5, <2>6, <2>8, SoundCut
<1> QED BY <1>7, <1>8, <1>9

\* Products of natural numbers: a span of months is a number of days, longer for more months.
LEMMA Distributes ==
    ASSUME NEW a \in Nat, NEW b \in Nat, NEW m \in Nat
    PROVE  (a + b) * m = a * m + b * m
OBVIOUS

LEMMA ProductNat ==
    ASSUME NEW a \in Nat, NEW m \in Nat
    PROVE  a * m \in Nat
OBVIOUS

LEMMA ProductPositive ==
    ASSUME NEW a \in Nat \ {0}, NEW m \in Nat \ {0}
    PROVE  a * m \in Nat \ {0}
OBVIOUS

LEMMA ProductMonotone ==
    ASSUME NEW a \in Nat, NEW b \in Nat, NEW m \in Nat, a <= b
    PROVE  a * m <= b * m
OBVIOUS

\* The backtest's windows; one without rows is passed over.
LEMMA CutsMonthsSound ==
    ASSUME Cutting, CutsMonths
    PROVE  Sound(cut', span', windows', walk'.pc)
<1>1. /\ WalkConst /\ scheme.kind = "months" /\ cut \in Nat /\ span \in Nat \ {0} /\ WindowsSound(windows)
      /\ AllPassed(windows, EndOf(cut, span))
  BY DEF Cutting, Sound, CutSound, CutsMonths
<1>a. MonthDays \in Nat \ {0} /\ scheme.test \in Nat \ {0} /\ scheme.step \in Nat \ {0}
  BY <1>1, SchemeFacts
<1>b. PICK far \in Nat : far = span * MonthDays
  BY <1>1, <1>a, ProductNat
<1>c. EndOf(cut, span) = cut + span * MonthDays
  BY <1>1 DEF EndOf
<1>2. PICK end \in Nat : end = EndOf(cut, span)
  BY <1>1, <1>b, <1>c
<1>3. end = cut + span * MonthDays
  BY <1>2, <1>c
<1>4. PICK reach \in Nat : reach = scheme.test * MonthDays
  BY <1>a, ProductNat
<1>5. PICK stride \in Nat \ {0} : stride = scheme.step * MonthDays
  BY <1>a, ProductPositive
<1>6. PICK stop \in Nat : stop = end + reach
  OBVIOUS
<1>7. PICK next \in Nat : next = end + stride
  OBVIOUS
<1>8. scheme.step >= scheme.test => stop <= next
  <2>1. scheme.step >= scheme.test => reach <= stride
    BY <1>a, <1>4, <1>5, ProductMonotone
  <2> QED BY <2>1, <1>6, <1>7
<1>9. PICK train : train = Purged(RowsDated(cut, end))
  OBVIOUS
<1>10. PICK test : test = RowsDated(end, stop)
  OBVIOUS
<1>11. \/ CutsOver("done")
       \/ /\ IF train # {} /\ test # {} THEN Cut(train, test) ELSE UNCHANGED <<windows, walk>>
          /\ IF scheme.anchored THEN span' = span + scheme.step /\ UNCHANGED cut ELSE MovesBy(stride)
  BY <1>3, <1>4, <1>5, <1>6, <1>9, <1>10, Zenon DEF CutsMonths
<1>12. CASE CutsOver("done")
  BY <1>12, SoundOver
<1>13. CASE /\ IF train # {} /\ test # {} THEN Cut(train, test) ELSE UNCHANGED <<windows, walk>>
            /\ IF scheme.anchored THEN span' = span + scheme.step /\ UNCHANGED cut ELSE MovesBy(stride)
  <2>1. \/ cut' = cut /\ span' = span + scheme.step
        \/ cut' = cut + stride /\ span' = span
    BY <1>13 DEF MovesBy
  <2>2. PICK from \in Nat : from = cut'
    BY <1>1, <2>1
  <2>3. PICK length \in Nat \ {0} : length = span'
    BY <1>1, <2>1, SchemeFacts
  <2>4. EndOf(from, length) = next
    <3>1. CASE from = cut /\ length = span + scheme.step
      <4>1. EndOf(from, length) = cut + (span + scheme.step) * MonthDays
        BY <3>1, <1>1 DEF EndOf
      <4>2. (span + scheme.step) * MonthDays = span * MonthDays + scheme.step * MonthDays
        BY <1>1, <1>a, Distributes
      <4>3. EndOf(from, length) = cut + (far + stride)
        BY <4>1, <4>2, <1>b, <1>5, Zenon
      <4>4. end = cut + far
        BY <1>3, <1>b, Zenon
      <4>5. cut + (far + stride) = next
        BY <4>4, <1>1, <1>7
      <4> QED BY <4>3, <4>5
    <3>2. CASE from = cut + stride /\ length = span
      <4>1. EndOf(from, length) = from + far
        BY <3>2, <1>1, <1>b DEF EndOf
      <4>2. end = cut + far
        BY <1>3, <1>b, Zenon
      <4>3. from + far = next
        BY <3>2, <4>2, <1>1, <1>7
      <4> QED BY <4>1, <4>3
    <3> QED BY <2>1, <2>2, <2>3, <3>1, <3>2
  <2>5. end < next /\ from >= cut
    BY <1>1, <1>7, <2>1, <2>2
  <2>6. CASE train # {} /\ test # {}
    <3>1. Cut(train, test)
      BY <1>13, <2>6
    <3>2. ASSUME NEW w, w = [train |-> train, test |-> test] PROVE Fresh(w, end, next)
      <4>1. w = [train |-> Purged(RowsDated(cut, end)), test |-> RowsDated(end, stop)]
        BY <3>2, <1>9, <1>10
      <4>2. w.train # {} /\ w.test # {}
        BY <3>2, <2>6
      <4> QED BY <1>1, <1>8, <4>1, <4>2, MonthsFresh
    <3> QED BY <1>1, <1>2, <2>2, <2>3, <2>4, <2>5, <3>1, <3>2, SoundCut
  <2>7. CASE ~(train # {} /\ test # {})
    <3>1. windows' = windows /\ walk'.pc = "cut"
      BY <1>13, <2>7 DEF Cutting
    <3>2. windows \in Seq(Slices)
      BY <1>1 DEF WindowsSound
    <3>3. AllPassed(windows, next)
      BY <1>1, <1>2, <2>5, <3>2, AllStayPassed
    <3>4. CutSound(from, length, windows, "cut")
      BY <1>1, <2>4, <3>3 DEF CutSound
    <3> QED BY <1>1, <2>2, <2>3, <3>1, <3>4 DEF Sound
  <2> QED BY <2>6, <2>7
<1> QED BY <1>11, <1>12, <1>13

----
(* The split by shares of the dates. *)

FrameDays == {frame[i] : i \in 1..NRows}
DaysBefore(i) == {d \in FrameDays : d < frame[i]}
UntilDay(n) == {i \in 1..NRows : Cardinality(DaysBefore(i)) < n}

LEMMA FrameDaysFinite ==
    ASSUME WalkConst
    PROVE  /\ IsFiniteSet(FrameDays) /\ Cardinality(FrameDays) \in Nat
           /\ \A i \in Rows : IsFiniteSet(DaysBefore(i)) /\ Cardinality(DaysBefore(i)) \in Nat
<1>1. PICK n \in Nat : n = NRows
  BY FrameFacts
<1>2. IsFiniteSet(1..n)
  BY FS_Interval
<1>3. PICK f : f = [i \in 1..n |-> frame[i]]
  OBVIOUS
<1>4. f \in Surjection(1..n, FrameDays)
  BY <1>1, <1>3 DEF Surjection, FrameDays
<1>5. IsFiniteSet(FrameDays)
  BY <1>2, <1>4, FS_Surjection
<1>6. ASSUME NEW i \in Rows PROVE IsFiniteSet(DaysBefore(i)) /\ Cardinality(DaysBefore(i)) \in Nat
  <2>1. DaysBefore(i) \in SUBSET FrameDays
    BY DEF DaysBefore
  <2>2. IsFiniteSet(DaysBefore(i))
    BY <1>5, <2>1, FS_Subset
  <2> QED BY <2>2, FS_CardinalityType
<1> QED BY <1>5, <1>6, FS_CardinalityType

\* Rows of the first days lie before the other ones.
LEMMA UntilInOrder ==
    ASSUME WalkConst, NEW a \in Int, NEW b \in Int, a <= b
    PROVE  /\ UntilDay(a) \subseteq UntilDay(b) /\ UntilDay(b) \subseteq Rows
           /\ \A i \in UntilDay(a), j \in Rows : j \notin UntilDay(b) => frame[i] < frame[j]
<1>1. ASSUME NEW i \in UntilDay(a) PROVE i \in UntilDay(b)
  <2>1. i \in Rows
    BY DEF UntilDay, Rows
  <2>2. Cardinality(DaysBefore(i)) \in Nat
    BY <2>1, FrameDaysFinite
  <2> QED BY <2>2 DEF UntilDay
<1>2. ASSUME NEW i \in UntilDay(a), NEW j \in Rows, j \notin UntilDay(b) PROVE frame[i] < frame[j]
  <2> SUFFICES ASSUME ~(frame[i] < frame[j]) PROVE FALSE
    OBVIOUS
  <2>1. i \in Rows
    BY DEF UntilDay, Rows
  <2>2. frame[j] <= frame[i] /\ frame[i] \in Nat /\ frame[j] \in Nat
    BY <2>1, FrameFacts
  <2>3. \A d \in FrameDays : d \in Nat
    BY FrameFacts DEF FrameDays, Rows
  <2>4. DaysBefore(j) \in SUBSET DaysBefore(i)
    BY <2>2, <2>3 DEF DaysBefore
  <2>5. IsFiniteSet(DaysBefore(i)) /\ Cardinality(DaysBefore(i)) \in Nat /\ Cardinality(DaysBefore(j)) \in Nat
    BY <2>1, FrameDaysFinite
  <2>6. Cardinality(DaysBefore(j)) <= Cardinality(DaysBefore(i))
    BY <2>4, <2>5, FS_Subset
  <2>7. Cardinality(DaysBefore(i)) < a
    BY DEF UntilDay
  <2>8. ~(Cardinality(DaysBefore(j)) < b)
    BY <1>2 DEF UntilDay, Rows
  <2> QED BY <2>5, <2>6, <2>7, <2>8
<1> QED BY <1>1, <1>2 DEF UntilDay, Rows

PartOf(from, upto) == [train |-> UntilDay(from), test |-> UntilDay(upto) \ UntilDay(from)]

\* The three parts follow one another.
LEMMA PartsSound ==
    ASSUME WalkConst, scheme.kind = "split", NEW a \in Int, NEW b \in Int, NEW c \in Int, NEW d \in Int, a <= b, b <= c,
           NEW ws, ws = <<PartOf(a, b), PartOf(b, c), PartOf(c, d)>>
    PROVE  WindowsSound(ws)
<1>1. UntilDay(a) \subseteq UntilDay(b) /\ UntilDay(b) \subseteq UntilDay(c) /\ UntilDay(c) \subseteq Rows
      /\ UntilDay(a) \subseteq Rows /\ UntilDay(b) \subseteq Rows /\ UntilDay(d) \subseteq Rows
  BY UntilInOrder
<1>2. \A x \in {a, b, c}, y \in Int : PartOf(x, y).train = UntilDay(x) /\ PartOf(x, y).test = UntilDay(y) \ UntilDay(x)
  BY DEF PartOf
<1>3. PartOf(a, b) \in Slices /\ PartOf(b, c) \in Slices /\ PartOf(c, d) \in Slices
  BY <1>1 DEF PartOf, Slices
<1>4. ws \in Seq(Slices) /\ Len(ws) = 3 /\ ws[1] = PartOf(a, b) /\ ws[2] = PartOf(b, c) /\ ws[3] = PartOf(c, d)
  BY <1>3
<1>6. ASSUME NEW x \in {a, b, c}, NEW y \in {a, b, c}, NEW u \in {b, c, d}, NEW z \in {b, c, d}, x <= y
      PROVE  Follows(PartOf(x, u), PartOf(y, z))
  <2>1. PartOf(x, u).train = UntilDay(x) /\ PartOf(y, z).test = UntilDay(z) \ UntilDay(y) /\ UntilDay(z) \subseteq Rows
    BY <1>1, <1>2
  <2>2. \A i \in UntilDay(x), j \in Rows : j \notin UntilDay(y) => frame[i] < frame[j]
    BY <1>6, UntilInOrder
  <2> QED BY <2>1, <2>2 DEF Follows, Precedes
<1>7. Apart(PartOf(a, b), PartOf(b, c)) /\ Apart(PartOf(a, b), PartOf(c, d)) /\ Apart(PartOf(b, c), PartOf(c, d))
  BY <1>1, <1>2 DEF Apart
<1>8. \A w : Gap(w)
  BY DEF Gap
<1>9. ASSUME NEW w \in 1..3 PROVE Gap(ws[w]) /\ Follows(ws[w], ws[w])
  <2>1. w = 1 \/ w = 2 \/ w = 3
    OBVIOUS
  <2>2. Follows(ws[1], ws[1]) /\ Follows(ws[2], ws[2]) /\ Follows(ws[3], ws[3])
    BY <1>4, <1>6
  <2> QED BY <2>1, <2>2, <1>8
<1>10. ASSUME NEW v \in 1..3, NEW w \in 1..3, v < w PROVE Follows(ws[v], ws[w]) /\ Apart(ws[v], ws[w])
  <2>1. (v = 1 /\ w = 2) \/ (v = 1 /\ w = 3) \/ (v = 2 /\ w = 3)
    BY <1>10
  <2>2. a <= c
    OBVIOUS
  <2>3. Follows(ws[1], ws[2]) /\ Follows(ws[1], ws[3]) /\ Follows(ws[2], ws[3])
    BY <1>4, <1>6, <2>2
  <2> QED BY <2>1, <2>3, <1>4, <1>7
<1> QED BY <1>4, <1>9, <1>10 DEF WindowsSound

LEMMA AtLeastOne ==
    ASSUME NEW x \in Int
    PROVE  Max({1, x}) \in Nat \ {0}
<1>1. \E z \in {1, x} : \A y \in {1, x} : z >= y
  <2>1. CASE x >= 1
    BY <2>1
  <2>2. CASE ~(x >= 1)
    BY <2>2
  <2> QED BY <2>1, <2>2
<1>2. Max({1, x}) \in {1, x} /\ \A y \in {1, x} : Max({1, x}) >= y
  BY <1>1, Zenon DEF Max
<1>3. PICK m : m = Max({1, x})
  OBVIOUS
<1>4. (m = 1 \/ m = x) /\ m >= 1
  BY <1>2, <1>3
<1> QED BY <1>3, <1>4

\* The data set is split once.
LEMMA CutsSharesSound ==
    ASSUME Cutting, CutsShares
    PROVE  Sound(cut', span', windows', walk'.pc)
<1> DEFINE Share(pct) == Max({1, (Cardinality(FrameDays) * pct) \div 100})
<1>1. /\ WalkConst /\ scheme.kind = "split" /\ WindowsSound(windows) /\ cut \in Nat /\ span \in Nat \ {0}
      /\ CutSound(cut, span, windows, "cut")
  BY DEF Cutting, Sound, CutSound, CutsShares
<1>2. PICK days \in Nat : days = Cardinality(FrameDays)
  BY <1>1, FrameDaysFinite
<1>3. \A pct \in Nat : Share(pct) \in Nat \ {0}
  <2>1. ASSUME NEW pct \in Nat PROVE Share(pct) \in Nat \ {0}
    <3>1. PICK x \in Int : x = (days * pct) \div 100
      OBVIOUS
    <3>2. Share(pct) = Max({1, x})
      BY <1>2, <3>1
    <3> QED BY <3>2, AtLeastOne
  <2> QED BY <2>1
<1>4. PICK a \in Nat \ {0} : a = Share(scheme.train)
  BY <1>1, <1>3, SchemeFacts
<1>5. PICK v \in Nat \ {0} : v = Share(scheme.test)
  BY <1>1, <1>3, SchemeFacts
<1>6. PICK c \in Nat \ {0} : c = Share(scheme.step)
  BY <1>1, <1>3, SchemeFacts
<1>7. PICK b \in Nat : b = a + v
  OBVIOUS
<1>8. PICK e \in Nat : e = b + c
  OBVIOUS
<1>9. PICK ws : ws = <<PartOf(a, b), PartOf(b, e), PartOf(e, days)>>
  OBVIOUS
<1> HIDE DEF Share
<1>10. \/ windows' = ws /\ walk' = [walk EXCEPT !.pc = "done"] /\ UNCHANGED <<cut, span>>
       \/ CutsOver("raised")
  BY <1>2, <1>4, <1>5, <1>6, <1>7, <1>8, <1>9 DEF CutsShares, PartOf, UntilDay, DaysBefore, FrameDays, Share
<1>11. CASE windows' = ws /\ walk' = [walk EXCEPT !.pc = "done"] /\ UNCHANGED <<cut, span>>
  <2>1. a <= b /\ b <= e
    BY <1>7, <1>8
  <2>2. WindowsSound(ws)
    BY <1>1, <1>9, <2>1, PartsSound
  <2>3. walk'.pc = "done"
    BY <1>11 DEF Cutting, Walks
  <2>4. CutSound(cut, span, ws, "done")
    BY <1>1 DEF CutSound
  <2> QED BY <1>11, <2>2, <2>3, <2>4 DEF Sound
<1>12. CASE CutsOver("raised")
  BY <1>12, SoundOver
<1> QED BY <1>10, <1>11, <1>12

----
LEMMA CutsWindowSound ==
    ASSUME Cutting, CutsRows \/ CutsMonths \/ CutsDays \/ CutsChampion \/ CutsShares
    PROVE  Sound(cut', span', windows', walk'.pc)
  BY CutsRowsSound, CutsMonthsSound, CutsDaysSound, CutsChampionSound, CutsSharesSound

\* The frame and the scheme stay, so what is said of the windows is.
LEMMA SoundPrimed ==
    ASSUME UNCHANGED <<frame, scheme>>, WalkConst, Sound(cut', span', windows', walk'.pc)
    PROVE  WalkConst' /\ Sound(cut, span, windows, walk.pc)'
<1>1. frame' = frame /\ scheme' = scheme
  OBVIOUS
<1>2. WalkConst'
  BY <1>1 DEF WalkConst
<1>3. CutSound(cut, span, windows, walk.pc)'
  <2>1. CutSound(cut', span', windows', walk'.pc)
    BY DEF Sound
  <2> QED BY <1>1, <2>1 DEF CutSound, AllPassed, EndOf, Passed, Ahead, Precedes, Single, Rows, NRows, Distinct
<1>4. WindowsSound(windows)'
  <2>1. WindowsSound(windows')
    BY DEF Sound
  <2> QED
    BY <1>1, <2>1, SMTT(30) DEF WindowsSound, Follows, Apart, Gap, Ahead, Precedes, Single, Slices, Rows, NRows, Distinct
<1> QED BY <1>2, <1>3, <1>4 DEF Sound

LEMMA WalkInitial ==
    ASSUME WalkForwardInit
    PROVE  WalkInv
<1>1. WalkConst /\ windows = <<>> /\ told = <<>> /\ walk = [pc |-> "cut", window |-> 1] /\ counted = NoRun
      /\ span = scheme.train
  BY DEF WalkForwardInit, WalkConst
<1>2. cut \in Nat /\ (scheme.kind = "rows" => cut >= 1) /\ (scheme.kind = "champion" => cut > scheme.warmup)
  <2>1. 1 \in Rows
    BY <1>1, FrameFacts DEF Rows
  <2>2. frame[1] \in Nat
    BY <1>1, <2>1, FrameFacts
  <2>3. CASE scheme.kind \in {"rows", "split"}
    BY <2>3 DEF WalkForwardInit
  <2>4. CASE scheme.kind = "champion"
    <3>1. cut = scheme.warmup + 1
      BY <2>4 DEF WalkForwardInit
    <3> QED BY <1>1, <2>4, <3>1, SchemeFacts
  <2>5. CASE scheme.kind \in {"months", "days"}
    <3>1. cut = frame[1]
      BY <2>5 DEF WalkForwardInit
    <3> QED BY <2>2, <2>5, <3>1
  <2> QED BY <1>1, <2>3, <2>4, <2>5, SchemeFacts
<1>3. <<>> \in Seq(Slices) /\ <<>> \in Seq(Reports) /\ Len(<<>>) = 0
  OBVIOUS
<1>4. WindowsSound(windows) /\ AllPassed(windows, EndOf(cut, span))
  BY <1>1, <1>3 DEF WindowsSound, AllPassed
<1>5. CutSound(cut, span, windows, walk.pc)
  BY <1>1, <1>2, <1>4, SchemeFacts DEF CutSound
<1>6. ReportsSound
  <2>1. walk.pc = "cut" /\ walk.window = 1 /\ walk \in Walks
    BY <1>1 DEF Walks
  <2>2. counted \in RunIds
    BY <1>1 DEF NoRun, RunIds
  <2>3. Len(told) = 0 /\ told \in Seq(Reports) /\ Len(windows) = 0
    BY <1>1, <1>3
  <2> QED BY <1>1, <2>1, <2>2, <2>3 DEF ReportsSound
<1> QED BY <1>1, <1>4, <1>5, <1>6 DEF WalkInv, WalkConst

----
(* The reports of the runs. *)

\* A cut leaves the walk at its place or ends it.
LEMMA CutsWalk ==
    ASSUME Cutting, CutsWindow
    PROVE  walk' = walk \/ \E pc \in {"train", "done", "raised"} : walk' = [walk EXCEPT !.pc = pc]
<1>1. CASE CutsRows
  BY <1>1, Zenon DEF CutsRows, CutsOver, Cut
<1>2. CASE CutsMonths
  BY <1>2, Zenon DEF CutsMonths, CutsOver, Cut
<1>3. CASE CutsDays
  BY <1>3, Zenon DEF CutsDays, CutsOver, Cut
<1>4. CASE CutsChampion
  BY <1>4, Zenon DEF CutsChampion, CutsOver, Cut
<1>5. CASE CutsShares
  BY <1>5, Zenon DEF CutsShares, CutsOver
<1> QED BY <1>1, <1>2, <1>3, <1>4, <1>5 DEF CutsWindow

LEMMA CutsWindowKeeps ==
    ASSUME WalkInv, CutsWindow
    PROVE  WalkInv'
<1>1. Cutting /\ ReportsSound
  BY DEF WalkInv, CutsWindow, Cutting, WalkConst, Sound, ReportsSound
<1>2. UNCHANGED <<frame, scheme, counted, told>>
  BY DEF CutsWindow
<1>3. Sound(cut', span', windows', walk'.pc)
  BY <1>1, CutsWindowSound DEF CutsWindow
<1>4. WalkConst' /\ Sound(cut, span, windows, walk.pc)'
  BY <1>1, <1>2, <1>3, SoundPrimed DEF Cutting
<1>5. ReportsSound'
  <2>1. walk \in Walks /\ walk.pc = "cut" /\ told = <<>> /\ walk.window = 1 /\ counted \in RunIds
    BY <1>1 DEF ReportsSound, Cutting
  <2>2. walk' \in Walks /\ walk'.window = 1 /\ walk'.pc \in {"cut", "train", "done", "raised"}
    BY <1>1, <2>1, CutsWalk DEF Walks
  <2>3. told' = <<>> /\ Len(told') = 0 /\ told' \in Seq(Reports) /\ counted' \in RunIds
    BY <1>2, <2>1
  <2>4. Len(windows') \in Nat
    BY <1>3 DEF Sound, WindowsSound
  <2> QED BY <2>2, <2>3, <2>4 DEF ReportsSound
<1> QED BY <1>4, <1>5 DEF WalkInv, WalkConst, Sound

\* The windows of a run are rows of the frame, and there are finitely many.
LEMMA RowsCounted ==
    ASSUME WalkInv, NEW w \in 1..Len(windows)
    PROVE  Cardinality(windows[w].train) \in Nat /\ Cardinality(windows[w].test) \in Nat
<1>1. PICK n \in Nat : n = NRows
  BY FrameFacts DEF WalkInv, WalkConst
<1>2. IsFiniteSet(1..n)
  BY FS_Interval
<1>3. windows[w] \in Slices
  BY DEF WalkInv, WindowsSound
<1>4. windows[w].train \in SUBSET (1..n) /\ windows[w].test \in SUBSET (1..n)
  BY <1>1, <1>3 DEF Slices, Rows
<1>5. IsFiniteSet(windows[w].train) /\ IsFiniteSet(windows[w].test)
  BY <1>2, <1>4, FS_Subset
<1> QED BY <1>5, FS_CardinalityType

\* A run leaves alone what the windows are made from.
LEMMA RunsKeep ==
    ASSUME WalkInv, UNCHANGED <<frame, scheme, cut, span, windows>>, walk.pc # "cut", walk'.pc # "cut"
    PROVE  WalkConst' /\ CutSound(cut, span, windows, walk.pc)' /\ WindowsSound(windows)'
<1>1. CutSound(cut, span, windows, walk'.pc) /\ WindowsSound(windows) /\ WalkConst
  BY DEF WalkInv, CutSound, WalkConst
<1>2. Sound(cut', span', windows', walk'.pc)
  BY <1>1 DEF Sound
<1>3. UNCHANGED <<frame, scheme>>
  OBVIOUS
<1>4. WalkConst' /\ Sound(cut, span, windows, walk.pc)'
  BY <1>1, <1>2, <1>3, SoundPrimed
<1> QED BY <1>4 DEF Sound

\* A training run is reported with its own diagnostics, or with those held.
LEMMA TrainsKeeps ==
    ASSUME WalkInv, Trains
    PROVE  WalkInv'
<1>1. PICK n \in Nat \ {0} : n = walk.window
  BY DEF WalkInv, ReportsSound, Walks
<1>2. /\ walk \in Walks /\ counted \in RunIds /\ told \in Seq(Reports) /\ Len(told) = n - 1 /\ walk.pc = "train"
      /\ n <= Len(windows) /\ Len(windows) \in Nat
  BY <1>1 DEF WalkInv, ReportsSound, WindowsSound, Trains
<1>3. walk' \in Walks /\ walk'.pc = "test" /\ walk'.window = n
  BY <1>1, <1>2 DEF Trains, Walks
<1>4. WalkConst' /\ CutSound(cut, span, windows, walk.pc)' /\ WindowsSound(windows)'
  BY <1>2, <1>3, RunsKeep DEF Trains
<1>5. counted' = IF Cardinality(windows[n].train) < MinRows THEN counted ELSE <<n, "train">>
  BY <1>1 DEF Trains, Counts
<1>6. counted' \in RunIds
  BY <1>1, <1>2, <1>5 DEF RunIds
<1>7. PICK r : r = [train |-> counted', test |-> NoRun]
  OBVIOUS
<1>8. r \in Reports /\ r.train = counted' /\ r.test = NoRun
  BY <1>6, <1>7 DEF Reports, RunIds, NoRun
<1>9. told' = Append(told, r)
  BY <1>7 DEF Trains
<1>10. told' \in Seq(Reports) /\ Len(told') = n /\ told'[n] = r /\ \A w \in 1..(n - 1) : told'[w] = told[w]
  BY <1>2, <1>8, <1>9
<1>11. windows' = windows
  BY DEF Trains
<1>12. ASSUME NEW w \in 1..n PROVE Reported(w)'
  <2>1. CASE w = n
    <3>1. n \in 1..Len(windows)
      BY <1>1, <1>2
    <3>2. Cardinality(windows[n].train) \in Nat
      BY <3>1, RowsCounted
    <3>3. MinRows \in Nat
      BY WalkForwardAssumption
    <3>4. Cardinality(windows[n].train) >= MinRows => counted' = <<n, "train">>
      BY <1>5, <3>2, <3>3
    <3> QED BY <2>1, <3>4, <1>8, <1>10, <1>11 DEF Reported, NoRun
  <2>2. CASE w \in 1..(n - 1)
    <3>1. Reported(w)
      BY <2>2, <1>2 DEF WalkInv, ReportsSound
    <3> QED BY <2>2, <3>1, <1>10, <1>11 DEF Reported, NoRun
  <2> QED BY <2>1, <2>2
<1>13. ReportsSound'
  BY <1>2, <1>3, <1>6, <1>7, <1>10, <1>11, <1>12 DEF ReportsSound
<1> QED BY <1>4, <1>13 DEF WalkInv, WalkConst

\* A test run that gives up at once is given those of its training run.
LEMMA TestsKeeps ==
    ASSUME WalkInv, Tests
    PROVE  WalkInv'
<1>1. PICK n \in Nat \ {0} : n = walk.window
  BY DEF WalkInv, ReportsSound, Walks
<1>2. /\ walk \in Walks /\ counted \in RunIds /\ told \in Seq(Reports) /\ Len(told) = n /\ walk.pc = "test"
      /\ n <= Len(windows) /\ Len(windows) \in Nat /\ told[n] = [train |-> counted, test |-> NoRun]
  BY <1>1 DEF WalkInv, ReportsSound, WindowsSound, Tests
<1>3. walk' \in Walks /\ walk'.pc = "train" /\ walk'.window = n + 1
  BY <1>1, <1>2 DEF Tests, Walks
<1>4. WalkConst' /\ CutSound(cut, span, windows, walk.pc)' /\ WindowsSound(windows)'
  BY <1>2, <1>3, RunsKeep DEF Tests
<1>5. counted' = IF Cardinality(windows[n].test) < MinRows THEN counted ELSE <<n, "test">>
  BY <1>1 DEF Tests, Counts
<1>6. counted' \in RunIds
  BY <1>1, <1>2, <1>5 DEF RunIds
<1>7. PICK r : r = [train |-> counted, test |-> counted']
  OBVIOUS
<1>8. r \in Reports /\ r.train = counted /\ r.test = counted' /\ told[n].train = counted
  BY <1>2, <1>6, <1>7 DEF Reports
<1>9. told' = [told EXCEPT ![n] = r]
  <2>1. told' = [told EXCEPT ![n].test = counted']
    BY <1>1 DEF Tests
  <2>2. [told[n] EXCEPT !.test = counted'] = r
    BY <1>2, <1>7
  <2> QED BY <2>1, <2>2
<1>10. /\ told' \in Seq(Reports) /\ Len(told') = n /\ told'[n] = r /\ told'[n].train = told[n].train
       /\ \A w \in 1..(n - 1) : told'[w] = told[w]
  BY <1>2, <1>8, <1>9
<1>11. windows' = windows
  BY DEF Tests
<1>12. ASSUME NEW w \in 1..n PROVE Reported(w)'
  <2>1. Reported(w)
    BY <1>2 DEF WalkInv, ReportsSound
  <2>2. CASE w = n
    <3>1. Cardinality(windows[n].test) \in Nat /\ MinRows \in Nat
      <4>1. n \in 1..Len(windows)
        BY <1>1, <1>2
      <4>2. Cardinality(windows[n].test) \in Nat
        BY <4>1, RowsCounted, Zenon
      <4> QED BY <4>2, WalkForwardAssumption
    <3>2. counted' = IF Cardinality(windows[n].test) >= MinRows THEN <<n, "test">> ELSE counted
      BY <1>5, <3>1
    <3>3. Cardinality(windows[n].train) >= MinRows => told'[n].train = <<n, "train">>
      BY <2>1, <2>2, <1>10 DEF Reported
    <3> QED BY <2>2, <3>2, <3>3, <1>8, <1>10, <1>11 DEF Reported
  <2>3. CASE w \in 1..(n - 1)
    BY <2>1, <2>3, <1>10, <1>11 DEF Reported, NoRun
  <2> QED BY <2>2, <2>3
<1>13. ReportsSound'
  BY <1>2, <1>3, <1>6, <1>10, <1>11, <1>12 DEF ReportsSound
<1> QED BY <1>4, <1>13 DEF WalkInv, WalkConst

----
\* What the invariant says of two windows.
LEMMA PairsOrdered ==
    ASSUME WalkInv, NEW p \in Pairs
    PROVE  /\ p[1] \in 1..Len(windows) /\ p[2] \in 1..Len(windows) /\ p[1] <= p[2]
           /\ windows[p[1]] \in Slices /\ windows[p[2]] \in Slices
           /\ Follows(windows[p[1]], windows[p[2]])
           /\ p[1] # p[2] => Apart(windows[p[1]], windows[p[2]])
<1>1. windows \in Seq(Slices)
  BY DEF WalkInv, WindowsSound
<1>2. p[1] \in 1..Len(windows) /\ p[2] \in 1..Len(windows) /\ p[1] <= p[2]
  BY DEF Pairs
<1>3. PICK v \in 1..Len(windows) : v = p[1]
  BY <1>2
<1>4. PICK w \in 1..Len(windows) : w = p[2]
  BY <1>2
<1>5. windows[v] \in Slices /\ windows[w] \in Slices
  BY <1>1
<1>6. CASE v = w
  <2>1. Follows(windows[v], windows[w])
    BY <1>6 DEF WalkInv, WindowsSound
  <2> QED BY <1>2, <1>3, <1>4, <1>5, <1>6, <2>1
<1>7. CASE v # w
  <2>1. v < w
    BY <1>2, <1>3, <1>4, <1>7, <1>1
  <2>2. Follows(windows[v], windows[w]) /\ Apart(windows[v], windows[w])
    BY <2>1 DEF WalkInv, WindowsSound
  <2> QED BY <1>2, <1>3, <1>4, <1>5, <2>2
<1> QED BY <1>6, <1>7

\* The least and the last row of a window are rows of it.
LEMMA SliceEnds ==
    ASSUME WalkConst, NEW w \in Slices
    PROVE  /\ w.train # {} => Max(w.train) \in w.train
           /\ w.test # {} => Min(w.test) \in w.test /\ \A i \in w.test : Min(w.test) <= i
<1>1. PICK n \in Nat : n = NRows
  BY FrameFacts
<1>2. w.train \in SUBSET (1..n) /\ w.test \in SUBSET (1..n) /\ w.test \in SUBSET Nat
  BY <1>1 DEF Slices, Rows
<1> QED BY <1>2, MaxOf, MinOf

\* The invariant gives the property.
LEMMA WalkTrue ==
    ASSUME WalkInv
    PROVE  NoLookAhead
<1>1. WalkConst
  BY DEF WalkInv, WalkConst
<1>2. TestsAfterTraining
  <2>1. ASSUME NEW p \in Pairs, windows[p[1]].train # {}, windows[p[2]].test # {}
        PROVE  Precedes(LastTrained(p[1]), FirstTested(p[2]))
    <3>1. windows[p[1]] \in Slices /\ windows[p[2]] \in Slices /\ Follows(windows[p[1]], windows[p[2]])
      BY PairsOrdered
    <3>2. LastTrained(p[1]) \in windows[p[1]].train /\ FirstTested(p[2]) \in windows[p[2]].test
      BY <1>1, <2>1, <3>1, SliceEnds DEF LastTrained, FirstTested
    <3> QED BY <3>1, <3>2 DEF Follows
  <2> QED BY <2>1 DEF TestsAfterTraining, Precedes
<1>3. GapIsKept
  <2>1. \A w \in 1..Len(windows) : Gap(windows[w])
    BY DEF WalkInv, WindowsSound
  <2> QED BY <2>1 DEF Gap, GapIsKept, FirstTested, LastTrained
<1>4. TestedOnce
  <2>1. ASSUME Single, NEW p \in Pairs, p[1] # p[2], NEW i \in windows[p[1]].test \cap windows[p[2]].test
        PROVE  scheme.kind = "days" /\ frame[i] = frame[FirstTested(p[2])]
    <3>1. windows[p[2]] \in Slices /\ Apart(windows[p[1]], windows[p[2]])
      BY <2>1, PairsOrdered
    <3>2. PICK k : k = FirstTested(p[2])
      OBVIOUS
    <3>3. k \in windows[p[2]].test /\ k <= i
      BY <1>1, <2>1, <3>1, <3>2, SliceEnds DEF FirstTested
    <3>4. scheme.kind = "days" /\ frame[i] <= frame[k]
      BY <2>1, <3>1, <3>3 DEF Apart
    <3>5. i \in Rows /\ k \in Rows
      BY <2>1, <3>1, <3>3 DEF Slices
    <3>6. frame[k] <= frame[i] /\ frame[k] \in Nat /\ frame[i] \in Nat
      BY <1>1, <3>3, <3>5, FrameFacts
    <3> QED BY <3>2, <3>4, <3>6
  <2> QED BY <2>1 DEF TestedOnce, Single
<1>5. ReportsOwnRun
  BY DEF WalkInv, ReportsSound, Reported, ReportsOwnRun
<1> QED BY <1>2, <1>3, <1>4, <1>5 DEF NoLookAhead

\* The invariant holds at first and is kept by every step.
LEMMA WalkInductive ==
    /\ WalkForwardInit => WalkInv
    /\ WalkInv /\ [WalkForwardNext]_walkVars => WalkInv'
<1>1. WalkForwardInit => WalkInv
  BY WalkInitial
<1>2. ASSUME WalkInv, WalkForwardNext PROVE WalkInv'
  BY <1>2, CutsWindowKeeps, TrainsKeeps, TestsKeeps DEF WalkForwardNext
<1>3. ASSUME WalkInv, UNCHANGED walkVars PROVE WalkInv'
  <2>1. /\ frame' = frame /\ scheme' = scheme /\ cut' = cut /\ span' = span /\ windows' = windows
        /\ walk' = walk /\ counted' = counted /\ told' = told
    BY <1>3 DEF walkVars
  <2>2. WalkConst /\ Sound(cut, span, windows, walk.pc) /\ ReportsSound
    BY <1>3 DEF WalkInv, WalkConst, Sound
  <2>3. Sound(cut', span', windows', walk'.pc)
    BY <2>1, <2>2
  <2>4. WalkConst' /\ Sound(cut, span, windows, walk.pc)'
    BY <2>1, <2>2, <2>3, SoundPrimed
  <2>5. ReportsSound'
    BY <2>1, <2>2 DEF ReportsSound, Reported
  <2> QED BY <2>4, <2>5 DEF WalkInv, WalkConst, Sound
<1> QED BY <1>1, <1>2, <1>3

\* However the rows of a frame are cut, for every frame, scheme and length of a month: no window tests a date
\* on which it or an earlier one was trained, the gap between training and testing is kept, no row is
\* tested twice where the steps are as long as the tests, and the diagnostics reported for a run are its
\* own (build_windows, _build_windows, walk_forward_validation, iter_windows, split_dataset, run).
THEOREM LooksNotAhead == WalkForwardSpec => []NoLookAhead
<1>1. WalkForwardInit => WalkInv
  BY WalkInductive
<1>2. WalkInv /\ [WalkForwardNext]_walkVars => WalkInv'
  BY WalkInductive
<1>3. WalkInv => NoLookAhead
  BY WalkTrue
<1> QED BY <1>1, <1>2, <1>3, PTL DEF WalkForwardSpec

----
(* The repaired profits: what a run has listed was left without a profit,    *)
(* what it has found drifting still has the profit that it read, so that a   *)
(* write of two runs at once is the same write.                             *)
PaperRow == [dir : {"long", "short", "unknown"}, entry : Int, exit : Int \cup {Unset}, profit : Int \cup {Unset}]

Untouched(t) ==
    papers[t].exit = Unset => papers[t].profit = Unset /\ left[t] = Unset /\ audit[t] = <<>>
RepairedOnly(t) ==
    (papers[t].profit # left[t] /\ left[t] = Unset) => Verdict(papers[t]) = "REPAIRED"
QuarantineLasts(t) ==
    \A i \in 1..Len(audit[t]) : audit[t][i].status \in Quarantines =>
        Verdict(papers[t]) # "REPAIRED" /\ left[t] = Unset /\ Left(papers[t])
RewriteTold(t) ==
    papers[t].profit # left[t] =>
        /\ papers[t].profit = OwnProfit(papers[t])
        /\ left[t] = Unset \/ Amount(left[t] - OwnProfit(papers[t])) > FeeDelta
        /\ \E i \in 1..Len(audit[t]) : /\ audit[t][i].status \in Rewrites
                                       /\ audit[t][i].old = left[t]
                                       /\ audit[t][i].new = papers[t].profit
Listed(t) == Left(papers[t]) /\ left[t] = Unset
Drifted(t, read) ==
    /\ Left(papers[t]) /\ read = left[t] /\ left[t] \in Int
    /\ Amount(left[t] - OwnProfit(papers[t])) > FeeDelta

RowInv(t) == Untouched(t) /\ RepairedOnly(t) /\ QuarantineLasts(t) /\ RewriteTold(t)
RunInv(s, t) ==
    /\ (repair[s].pc = "listed" /\ t \in repair[s].staged) => Listed(t)
    /\ (repair[s].pc = "drifting" /\ t \in repair[s].staged) => Drifted(t, repair[s].read[t])
PnlInv ==
    /\ PnlTypeOK /\ GuardNeverTrips
    /\ \A t \in RepairIds : RowInv(t) /\ \A s \in Repairs : RunInv(s, t)

LEMMA OwnProfitTyped ==
    ASSUME NEW r \in PaperRow, r.exit # Unset
    PROVE  OwnProfit(r) \in Int
<1>1. r.entry \in Int /\ r.exit \in Int
  BY DEF PaperRow
<1>2. CASE r.entry <= 0
  BY <1>1, <1>2 DEF OwnProfit
<1>3. CASE r.entry > 0
  <2>1. \A x \in Int : x \div r.entry \in Int
    BY <1>1, <1>3
  <2>2. Gain(r) \in Int
    <3>1. ((IF r.dir = "short" THEN r.entry - r.exit ELSE r.exit - r.entry) * 10000) \in Int
      BY <1>1
    <3> QED BY <2>1, <3>1 DEF Gain
  <2>3. Costs(r) \in Int
    <3>1. (IF r.dir = "short" THEN PurchaseCost * r.exit + SaleCost * r.entry
             ELSE PurchaseCost * r.entry + SaleCost * r.exit) \in Int
      BY <1>1 DEF PurchaseCost, SaleCost
    <3> QED BY <2>1, <3>1 DEF Costs
  <2> QED BY <1>1, <1>3, <2>2, <2>3 DEF OwnProfit
<1> QED BY <1>1, <1>2, <1>3

\* What a row's prices give does not depend on its profit.
LEMMA ProfitAside ==
    ASSUME NEW r \in PaperRow
    PROVE  /\ WithOwnProfit(r).profit = OwnProfit(r)
           /\ WithOwnProfit(r).dir = r.dir /\ WithOwnProfit(r).entry = r.entry
           /\ WithOwnProfit(r).exit = r.exit
           /\ OwnProfit(WithOwnProfit(r)) = OwnProfit(r) /\ Verdict(WithOwnProfit(r)) = Verdict(r)
           /\ Left(WithOwnProfit(r)) = Left(r)
           /\ r.exit # Unset => WithOwnProfit(r) \in PaperRow
<1> DEFINE o == WithOwnProfit(r)
<1>1. /\ o.profit = OwnProfit(r) /\ o.dir = r.dir /\ o.entry = r.entry /\ o.exit = r.exit
      /\ o = [dir |-> r.dir, entry |-> r.entry, exit |-> r.exit, profit |-> OwnProfit(r)]
  BY DEF WithOwnProfit, PaperRow
<1> HIDE DEF o
<1>2. OwnProfit(o) = OwnProfit(r)
  BY <1>1 DEF OwnProfit, Gain, Costs
<1>3. Verdict(o) = Verdict(r) /\ Left(o) = Left(r)
  BY <1>1, <1>2 DEF Verdict, Left
<1>4. ASSUME r.exit # Unset PROVE o \in PaperRow
  <2>1. OwnProfit(r) \in Int
    BY <1>4, OwnProfitTyped
  <2> QED BY <1>1, <2>1 DEF PaperRow
<1> QED BY <1>1, <1>2, <1>3, <1>4 DEF o

LEMMA PnlBegins == PnlInit => PnlInv
<1> SUFFICES ASSUME PnlInit PROVE PnlInv
  OBVIOUS
<1> USE DEF PnlInit
<1>1. \A r \in LegacyTrades : r \in PaperRow /\ (r.exit = Unset => r.profit = Unset)
  <2> SUFFICES ASSUME NEW r \in LegacyTrades PROVE r \in PaperRow /\ (r.exit = Unset => r.profit = Unset)
    OBVIOUS
  <2>1. /\ r = [dir |-> r.dir, entry |-> r.entry, exit |-> r.exit, profit |-> r.profit]
        /\ r.dir \in {"long", "short", "unknown"} /\ r.entry \in Int
        /\ r.exit \in Int \cup {Unset} /\ r.profit \in Int \cup {Unset}
        /\ r.exit = Unset => r.profit = Unset
    BY PnlRepairAssumption
  <2> QED BY <2>1 DEF PaperRow
<1>2. \A t \in RepairIds : papers[t] \in PaperRow /\ left[t] = papers[t].profit /\ audit[t] = <<>>
  BY <1>1
<1>3. \A s \in Repairs : repair[s].pc = "idle" /\ repair[s] \in [pc : {"idle", "checked", "listed", "applied", "drifting"},
                               staged : SUBSET RepairIds, drift : BOOLEAN,
                               read : [RepairIds -> Int \cup {Unset}]]
  BY DEF AtEase, Repairing, NothingRead
<1>4. PnlTypeOK
  <2>1. papers \in [RepairIds -> PaperRow] /\ left \in [RepairIds -> Int \cup {Unset}]
    BY <1>2 DEF PaperRow
  <2>2. repair \in [Repairs -> [pc : {"idle", "checked", "listed", "applied", "drifting"},
                               staged : SUBSET RepairIds, drift : BOOLEAN,
                               read : [RepairIds -> Int \cup {Unset}]]]
    BY <1>3
  <2>3. audit \in [RepairIds -> Seq([old : Int \cup {Unset}, new : Int \cup {Unset},
                                    status : Quarantines \cup Rewrites])]
    OBVIOUS
  <2> QED BY <2>1, <2>2, <2>3 DEF PnlTypeOK, PaperRow
<1>5. \A t \in RepairIds : RowInv(t)
  BY <1>1, <1>2 DEF RowInv, Untouched, RepairedOnly, QuarantineLasts, RewriteTold
<1>6. \A t \in RepairIds, s \in Repairs : RunInv(s, t)
  BY <1>3 DEF RunInv
<1> QED BY <1>4, <1>5, <1>6 DEF PnlInv, GuardNeverTrips

LEMMA PnlMeans == PnlInv => RepairSound
<1> SUFFICES ASSUME PnlInv PROVE RepairSound
  OBVIOUS
<1>1. RewritesAudited
  BY DEF PnlInv, RowInv, RewriteTold, RewritesAudited
<1>2. QuarantineHolds
  <2> SUFFICES ASSUME NEW t \in RepairIds, NEW i \in 1..Len(audit[t]), audit[t][i].status \in Quarantines
               PROVE  Lacking(papers[t])
    BY DEF QuarantineHolds
  <2>1. Verdict(papers[t]) # "REPAIRED" /\ left[t] = Unset /\ Left(papers[t])
    BY DEF PnlInv, RowInv, QuarantineLasts
  <2>2. papers[t].profit = Unset
    BY <2>1 DEF PnlInv, RowInv, RepairedOnly
  <2> QED BY <2>1, <2>2 DEF Lacking
<1> QED BY <1>1, <1>2 DEF PnlInv, RepairSound

\* The rows that a step leaves alone stay as they were.
LEMMA RowStays ==
    ASSUME NEW t \in RepairIds, RowInv(t), papers'[t] = papers[t], left'[t] = left[t], audit'[t] = audit[t]
    PROVE  RowInv(t)'
BY DEF RowInv, Untouched, RepairedOnly, QuarantineLasts, RewriteTold, Left

RunType == [pc : {"idle", "checked", "listed", "applied", "drifting"}, staged : SUBSET RepairIds,
            drift : BOOLEAN, read : [RepairIds -> Int \cup {Unset}]]

\* A run goes on, whatever it has staged being listed or drifted; the tables stand.
LEMMA RunMoves ==
    ASSUME PnlInv, NEW s \in Repairs, NEW new \in RunType,
           repair' = [repair EXCEPT ![s] = new], UNCHANGED <<papers, audit, left>>,
           guarded' = guarded \/ (guarded' = TRUE /\ \A t \in RepairIds : ~Lacking(papers[t])),
           \A t \in new.staged : /\ new.pc = "listed" => Listed(t)
                                 /\ new.pc = "drifting" => Drifted(t, new.read[t])
    PROVE  PnlInv'
<1>1. repair \in [Repairs -> RunType]
  BY DEF PnlInv, PnlTypeOK, RunType
<1>2. repair'[s] = new /\ \A q \in Repairs \ {s} : repair'[q] = repair[q]
  BY <1>1
<1>3. PnlTypeOK'
  <2>1. repair' \in [Repairs -> RunType]
    BY <1>1
  <2>2. guarded' \in BOOLEAN
    BY DEF PnlInv, PnlTypeOK
  <2> QED BY <2>1, <2>2 DEF PnlInv, PnlTypeOK, RunType
<1>4. GuardNeverTrips'
  BY DEF PnlInv, GuardNeverTrips, Lacking, Left
<1>5. \A t \in RepairIds : RowInv(t)'
  BY RowStays DEF PnlInv
<1>6. ASSUME NEW t \in RepairIds, NEW q \in Repairs PROVE RunInv(q, t)'
  <2>1. CASE q = s
    BY <1>2, <2>1 DEF RunInv, Listed, Drifted, Left
  <2>2. CASE q # s
    BY <1>2, <2>2 DEF PnlInv, RunInv, Listed, Drifted, Left
  <2> QED BY <2>1, <2>2
<1> QED BY <1>3, <1>4, <1>5, <1>6 DEF PnlInv

Entry == [old : Int \cup {Unset}, new : Int \cup {Unset}, status : Quarantines \cup Rewrites]

\* A row that gets the profit of its own prices, beside an entry that says so.
LEMMA RowRewritten ==
    ASSUME NEW t \in RepairIds, RowInv(t), papers[t] \in PaperRow, audit[t] \in Seq(Entry), NEW e \in Entry,
           papers'[t] = WithOwnProfit(papers[t]), left'[t] = left[t], audit'[t] = Append(audit[t], e),
           Left(papers[t]), e.status \in Rewrites, e.old = left[t], e.new = OwnProfit(papers[t]),
           left[t] = Unset => Verdict(papers[t]) = "REPAIRED",
           left[t] = Unset \/ Amount(left[t] - OwnProfit(papers[t])) > FeeDelta
    PROVE  RowInv(t)'
<1> DEFINE n == Len(audit[t])
<1>1. /\ Len(audit'[t]) = n + 1 /\ n \in Nat /\ audit'[t][n + 1] = e
      /\ \A i \in 1..n : audit'[t][i] = audit[t][i]
  OBVIOUS
<1>2. /\ papers'[t].profit = OwnProfit(papers[t]) /\ OwnProfit(papers'[t]) = OwnProfit(papers[t])
      /\ Verdict(papers'[t]) = Verdict(papers[t]) /\ papers'[t].exit = papers[t].exit
      /\ papers'[t].exit # Unset
  BY ProfitAside DEF Left
<1>3. Untouched(t)'
  BY <1>2 DEF Untouched
<1>4. RepairedOnly(t)'
  BY <1>2 DEF RepairedOnly
<1>5. QuarantineLasts(t)'
  <2> SUFFICES ASSUME NEW i \in 1..Len(audit'[t]), audit'[t][i].status \in Quarantines
               PROVE  Verdict(papers'[t]) # "REPAIRED" /\ left[t] = Unset /\ Left(papers'[t])
    BY DEF QuarantineLasts
  <2>1. e.status \notin Quarantines
    BY DEF Quarantines, Rewrites
  <2>2. i \in 1..n
    BY <1>1, <2>1
  <2> QED BY <1>1, <1>2, <2>2 DEF RowInv, QuarantineLasts, Left
<1>6. RewriteTold(t)'
  <2>1. n + 1 \in 1..Len(audit'[t]) /\ audit'[t][n + 1].status \in Rewrites /\ audit'[t][n + 1].old = left'[t]
        /\ audit'[t][n + 1].new = papers'[t].profit
    BY <1>1, <1>2
  <2>2. left'[t] = Unset \/ Amount(left'[t] - OwnProfit(papers'[t])) > FeeDelta
    BY <1>2
  <2> QED BY <1>2, <2>1, <2>2 DEF RewriteTold
<1> QED BY <1>3, <1>4, <1>5, <1>6 DEF RowInv

\* A row that is quarantined.
LEMMA RowQuarantined ==
    ASSUME NEW t \in RepairIds, RowInv(t), audit[t] \in Seq(Entry), NEW e \in Entry,
           papers'[t] = papers[t], left'[t] = left[t], audit'[t] = Append(audit[t], e),
           Listed(t), Verdict(papers[t]) # "REPAIRED"
    PROVE  RowInv(t)'
<1> DEFINE n == Len(audit[t])
<1>1. /\ Len(audit'[t]) = n + 1 /\ n \in Nat /\ audit'[t][n + 1] = e
      /\ \A i \in 1..n : audit'[t][i] = audit[t][i]
  OBVIOUS
<1>2. Left(papers[t]) /\ left[t] = Unset /\ papers[t].profit = left[t]
  BY DEF Listed, RowInv, RepairedOnly
<1>3. Untouched(t)' /\ RepairedOnly(t)' /\ RewriteTold(t)'
  BY <1>2 DEF Untouched, RepairedOnly, RewriteTold, Left
<1>4. QuarantineLasts(t)'
  BY <1>2 DEF QuarantineLasts
<1> QED BY <1>3, <1>4 DEF RowInv

\* A write of a run, row by row.
LEMMA RunWrites ==
    ASSUME PnlInv, NEW s \in Repairs, NEW new \in RunType, new.pc = "applied",
           repair' = [repair EXCEPT ![s] = new], UNCHANGED <<guarded, left>>,
           papers' \in [RepairIds -> PaperRow], audit' \in [RepairIds -> Seq(Entry)],
           \A t \in RepairIds : /\ papers'[t] \in {papers[t], WithOwnProfit(papers[t])}
                                /\ RowInv(t)'
    PROVE  PnlInv'
<1>1. repair \in [Repairs -> RunType] /\ papers \in [RepairIds -> PaperRow]
  BY DEF PnlInv, PnlTypeOK, RunType, PaperRow
<1>2. repair'[s] = new /\ \A q \in Repairs \ {s} : repair'[q] = repair[q]
  BY <1>1
<1>3. PnlTypeOK'
  <2>1. repair' \in [Repairs -> RunType]
    BY <1>1
  <2> QED BY <2>1 DEF PnlInv, PnlTypeOK, RunType, PaperRow, Entry
<1>4. ASSUME NEW t \in RepairIds
      PROVE  /\ Left(papers'[t]) = Left(papers[t]) /\ OwnProfit(papers'[t]) = OwnProfit(papers[t])
             /\ Lacking(papers'[t]) => Lacking(papers[t])
  <2>1. papers[t] \in PaperRow
    BY <1>1
  <2>2. CASE papers'[t] = papers[t]
    BY <2>2
  <2>3. CASE papers'[t] = WithOwnProfit(papers[t])
    <3>1. Left(papers'[t]) = Left(papers[t]) /\ OwnProfit(papers'[t]) = OwnProfit(papers[t])
      BY <2>1, <2>3, ProfitAside
    <3>2. ~Lacking(papers'[t])
      <4>1. CASE papers[t].exit = Unset
        BY <2>3, <3>1, <4>1 DEF Lacking, Left
      <4>2. CASE papers[t].exit # Unset
        <5>1. papers'[t].profit = OwnProfit(papers[t]) /\ OwnProfit(papers[t]) \in Int
          BY <2>1, <2>3, <4>2, ProfitAside, OwnProfitTyped
        <5> QED BY <5>1, PnlRepairAssumption DEF Lacking
      <4> QED BY <4>1, <4>2
    <3> QED BY <3>1, <3>2
  <2> QED BY <2>2, <2>3
<1>5. GuardNeverTrips'
  BY <1>4 DEF PnlInv, GuardNeverTrips
<1>6. ASSUME NEW t \in RepairIds, NEW q \in Repairs PROVE RunInv(q, t)'
  <2>1. CASE q = s
    BY <1>2, <2>1 DEF RunInv
  <2>2. CASE q # s
    <3>1. repair'[q] = repair[q] /\ RunInv(q, t)
      BY <1>2, <2>2 DEF PnlInv
    <3>2. Listed(t) => Listed(t)'
      BY <1>4 DEF Listed
    <3>3. \A x : Drifted(t, x) => Drifted(t, x)'
      BY <1>4 DEF Drifted
    <3> QED BY <3>1, <3>2, <3>3 DEF RunInv, Drifted, Listed
  <2> QED BY <2>1, <2>2
<1> QED BY <1>3, <1>5, <1>6 DEF PnlInv

LEMMA AppliesKeeps ==
    ASSUME PnlInv, NEW s \in Repairs, AppliesRepairs(s)
    PROVE  PnlInv'
<1> DEFINE mine == repair[s].staged
           mended == {t \in mine : Verdict(papers[t]) = "REPAIRED"}
           entry(t) == [old |-> Unset, new |-> IF t \in mended THEN OwnProfit(papers[t]) ELSE Unset,
                        status |-> Verdict(papers[t])]
           new == Repairing("applied", {}, NothingRead, repair[s].drift)
<1>1. /\ repair[s].pc = "listed" /\ mine \in SUBSET RepairIds /\ repair[s].drift \in BOOLEAN
      /\ papers \in [RepairIds -> PaperRow] /\ audit \in [RepairIds -> Seq(Entry)]
  BY DEF AppliesRepairs, PnlInv, PnlTypeOK, PaperRow, Entry
<1>2. /\ audit' = [t \in RepairIds |-> IF t \in mine THEN Append(audit[t], entry(t)) ELSE audit[t]]
      /\ papers' = [t \in RepairIds |-> IF t \in mended THEN WithOwnProfit(papers[t]) ELSE papers[t]]
      /\ repair' = [repair EXCEPT ![s] = new] /\ UNCHANGED <<guarded, left>>
  BY DEF AppliesRepairs, Audited
<1>3. new \in RunType /\ new.pc = "applied"
  BY <1>1 DEF Repairing, RunType, NothingRead
<1>4. ASSUME NEW t \in mine
      PROVE  /\ Listed(t) /\ papers[t] \in PaperRow /\ OwnProfit(papers[t]) \in Int /\ entry(t) \in Entry
             /\ RowInv(t) /\ Left(papers[t]) /\ left[t] = Unset
  <2>1. t \in RepairIds /\ Listed(t)
    BY <1>1 DEF PnlInv, RunInv
  <2>2. OwnProfit(papers[t]) \in Int
    BY <1>1, <2>1, OwnProfitTyped DEF Listed, Left
  <2>3. Verdict(papers[t]) \in Quarantines \cup Rewrites
    BY DEF Verdict, Quarantines, Rewrites
  <2> QED BY <1>1, <2>1, <2>2, <2>3 DEF Entry, PnlInv, Listed
<1> HIDE DEF new
<1>5. ASSUME NEW t \in RepairIds
      PROVE  /\ papers'[t] \in PaperRow /\ audit'[t] \in Seq(Entry) /\ RowInv(t)'
             /\ papers'[t] \in {papers[t], WithOwnProfit(papers[t])}
  <2>1. papers[t] \in PaperRow /\ audit[t] \in Seq(Entry) /\ RowInv(t) /\ left'[t] = left[t]
    BY <1>1, <1>2 DEF PnlInv
  <2>2. CASE t \notin mine
    <3>1. papers'[t] = papers[t] /\ audit'[t] = audit[t]
      BY <1>2, <2>2
    <3> QED BY <2>1, <3>1, RowStays
  <2>3. CASE t \in mended
    <3>1. PICK e : e = entry(t)
      OBVIOUS
    <3>2. /\ papers'[t] = WithOwnProfit(papers[t]) /\ audit'[t] = Append(audit[t], e)
          /\ Verdict(papers[t]) = "REPAIRED" /\ e.status \in Rewrites /\ e.old = Unset
          /\ e.new = OwnProfit(papers[t])
      BY <1>2, <2>3, <3>1 DEF Rewrites
    <3>3. /\ e \in Entry /\ Left(papers[t]) /\ left[t] = Unset
      BY <1>4, <2>3, <3>1
    <3>4. RowInv(t)'
      BY <2>1, <3>2, <3>3, RowRewritten
    <3>5. papers'[t] \in PaperRow
      BY <2>1, <3>2, <3>3, ProfitAside DEF Left
    <3>6. audit'[t] \in Seq(Entry)
      BY <2>1, <3>2, <3>3
    <3> QED BY <3>2, <3>4, <3>5, <3>6
  <2>4. CASE t \in mine \ mended
    <3>1. PICK e : e = entry(t)
      OBVIOUS
    <3>2. papers'[t] = papers[t] /\ audit'[t] = Append(audit[t], e) /\ Verdict(papers[t]) # "REPAIRED"
      BY <1>2, <2>4, <3>1
    <3>3. e \in Entry /\ Listed(t)
      BY <1>4, <2>4, <3>1
    <3>4. RowInv(t)'
      BY <2>1, <3>2, <3>3, RowQuarantined
    <3> QED BY <2>1, <3>2, <3>3, <3>4
  <2> QED BY <2>2, <2>3, <2>4
<1>6. papers' \in [RepairIds -> PaperRow] /\ audit' \in [RepairIds -> Seq(Entry)]
  BY <1>2, <1>5
<1> QED BY <1>2, <1>3, <1>5, <1>6, RunWrites

LEMMA DriftKeeps ==
    ASSUME PnlInv, NEW s \in Repairs, RepairsDrift(s)
    PROVE  PnlInv'
<1> DEFINE mine == repair[s].staged
           entry(t) == [old |-> repair[s].read[t], new |-> OwnProfit(papers[t]), status |-> "DRIFT_REPAIRED"]
           new == Repairing("applied", {}, NothingRead, FALSE)
<1>1. /\ repair[s].pc = "drifting" /\ mine \in SUBSET RepairIds
      /\ papers \in [RepairIds -> PaperRow] /\ audit \in [RepairIds -> Seq(Entry)]
  BY DEF RepairsDrift, PnlInv, PnlTypeOK, PaperRow, Entry
<1>2. /\ audit' = [t \in RepairIds |-> IF t \in mine THEN Append(audit[t], entry(t)) ELSE audit[t]]
      /\ papers' = [t \in RepairIds |-> IF t \in mine THEN WithOwnProfit(papers[t]) ELSE papers[t]]
      /\ repair' = [repair EXCEPT ![s] = new] /\ UNCHANGED <<guarded, left>>
  BY DEF RepairsDrift, Audited
<1>3. new \in RunType /\ new.pc = "applied"
  BY DEF Repairing, RunType, NothingRead
<1>4. ASSUME NEW t \in mine
      PROVE  /\ Drifted(t, repair[s].read[t]) /\ OwnProfit(papers[t]) \in Int /\ entry(t) \in Entry
  <2>1. t \in RepairIds /\ Drifted(t, repair[s].read[t])
    BY <1>1 DEF PnlInv, RunInv
  <2>2. OwnProfit(papers[t]) \in Int
    BY <1>1, <2>1, OwnProfitTyped DEF Drifted, Left
  <2> QED BY <2>1, <2>2 DEF Entry, Drifted, Rewrites
<1> HIDE DEF new
<1>5. ASSUME NEW t \in RepairIds
      PROVE  /\ papers'[t] \in PaperRow /\ audit'[t] \in Seq(Entry) /\ RowInv(t)'
             /\ papers'[t] \in {papers[t], WithOwnProfit(papers[t])}
  <2>1. papers[t] \in PaperRow /\ audit[t] \in Seq(Entry) /\ RowInv(t) /\ left'[t] = left[t]
    BY <1>1, <1>2 DEF PnlInv
  <2>2. CASE t \notin mine
    <3>1. papers'[t] = papers[t] /\ audit'[t] = audit[t]
      BY <1>2, <2>2
    <3> QED BY <2>1, <3>1, RowStays
  <2>3. CASE t \in mine
    <3>1. PICK e : e = entry(t)
      OBVIOUS
    <3>2. /\ papers'[t] = WithOwnProfit(papers[t]) /\ audit'[t] = Append(audit[t], e)
          /\ e.status \in Rewrites /\ e.old = repair[s].read[t] /\ e.new = OwnProfit(papers[t])
      BY <1>2, <2>3, <3>1 DEF Rewrites
    <3>3. /\ e \in Entry /\ Left(papers[t]) /\ e.old = left[t] /\ left[t] \in Int
          /\ Amount(left[t] - OwnProfit(papers[t])) > FeeDelta
      BY <1>4, <2>3, <3>1, <3>2 DEF Drifted
    <3>4. left[t] # Unset
      BY <3>3, PnlRepairAssumption
    <3>5. RowInv(t)'
      BY <2>1, <3>2, <3>3, <3>4, RowRewritten
    <3>6. papers'[t] \in PaperRow
      BY <2>1, <3>2, <3>3, ProfitAside DEF Left
    <3>7. audit'[t] \in Seq(Entry)
      BY <2>1, <3>2, <3>3
    <3> QED BY <3>2, <3>5, <3>6, <3>7
  <2> QED BY <2>2, <2>3
<1>6. papers' \in [RepairIds -> PaperRow] /\ audit' \in [RepairIds -> Seq(Entry)]
  BY <1>2, <1>5
<1> QED BY <1>2, <1>3, <1>5, <1>6, RunWrites

LEMMA ClosesKeeps ==
    ASSUME PnlInv, NEW t \in RepairIds, NEW price \in ExitPrices, ClosesRow(t, price)
    PROVE  PnlInv'
<1> DEFINE before == [papers[t] EXCEPT !.exit = price]
           closed == WithOwnProfit(before)
<1>1. /\ papers \in [RepairIds -> PaperRow] /\ audit \in [RepairIds -> Seq(Entry)]
      /\ left \in [RepairIds -> Int \cup {Unset}] /\ repair \in [Repairs -> RunType]
      /\ papers[t].exit = Unset /\ price \in Int
      /\ papers' = [papers EXCEPT ![t] = closed] /\ left' = [left EXCEPT ![t] = closed.profit]
      /\ UNCHANGED <<audit, repair, guarded>>
  <2>1. /\ papers \in [RepairIds -> PaperRow] /\ audit \in [RepairIds -> Seq(Entry)]
        /\ left \in [RepairIds -> Int \cup {Unset}] /\ repair \in [Repairs -> RunType]
    BY DEF PnlInv, PnlTypeOK, PaperRow, Entry, RunType
  <2>2. price \in Int
    BY PnlRepairAssumption
  <2>3. /\ papers[t].exit = Unset /\ UNCHANGED <<audit, repair, guarded>>
        /\ papers' = [papers EXCEPT ![t] = closed] /\ left' = [left EXCEPT ![t] = closed.profit]
    BY DEF ClosesRow, Left
  <2> QED BY <2>1, <2>2, <2>3
<1>2. before \in PaperRow /\ before.exit = price /\ price # Unset
  BY <1>1, PnlRepairAssumption, ZenonT(60) DEF PaperRow
<1>3. /\ closed \in PaperRow /\ closed.profit = OwnProfit(before) /\ closed.profit \in Int
      /\ closed.exit = price
  BY <1>2, ProfitAside, OwnProfitTyped
<1> HIDE DEF closed
<1>4. PnlTypeOK'
  BY <1>1, <1>3 DEF PnlInv, PnlTypeOK, PaperRow
<1>5. audit[t] = <<>> /\ papers'[t] = closed /\ left'[t] = closed.profit
  BY <1>1 DEF PnlInv, RowInv, Untouched
<1>6. ASSUME NEW u \in RepairIds PROVE RowInv(u)'
  <2>1. CASE u = t
    <3>1. audit'[t] = <<>>
      BY <1>1, <1>5
    <3> QED BY <1>2, <1>3, <1>5, <2>1, <3>1
            DEF RowInv, Untouched, RepairedOnly, QuarantineLasts, RewriteTold
  <2>2. CASE u # t
    BY <1>1, <2>2, RowStays DEF PnlInv
  <2> QED BY <2>1, <2>2
<1>7. GuardNeverTrips'
  BY <1>1, <1>3, PnlRepairAssumption DEF PnlInv, GuardNeverTrips, Lacking
<1>8. ASSUME NEW u \in RepairIds, NEW s \in Repairs PROVE RunInv(s, u)'
  <2>1. CASE u = t
    BY <1>1, <2>1 DEF PnlInv, RunInv, Listed, Drifted, Left
  <2>2. CASE u # t
    BY <1>1, <2>2 DEF PnlInv, RunInv, Listed, Drifted, Left
  <2> QED BY <2>1, <2>2
<1> QED BY <1>4, <1>6, <1>7, <1>8 DEF PnlInv

LEMMA RunsKeepPnl ==
    ASSUME PnlInv, NEW s \in Repairs,
           \/ \E allowed, drift \in BOOLEAN : CrossChecks(s, allowed, drift)
           \/ \E chosen \in SUBSET RepairIds : ListsLacking(s, chosen)
           \/ FindsDrift(s) \/ AddsGuard(s) \/ LeavesRepair(s)
    PROVE  PnlInv'
<1>1. repair[s] \in RunType /\ papers \in [RepairIds -> PaperRow]
  BY DEF PnlInv, PnlTypeOK, RunType, PaperRow
<1>2. ASSUME NEW pc \in {"idle", "checked", "listed", "applied", "drifting"}, NEW staged \in SUBSET RepairIds,
             NEW read \in [RepairIds -> Int \cup {Unset}], NEW drift \in BOOLEAN
      PROVE  /\ Repairing(pc, staged, read, drift) \in RunType
             /\ Repairing(pc, staged, read, drift).pc = pc
             /\ Repairing(pc, staged, read, drift).staged = staged
             /\ Repairing(pc, staged, read, drift).read = read
  BY DEF Repairing, RunType
<1>3. NothingRead \in [RepairIds -> Int \cup {Unset}]
  BY DEF NothingRead
<1>4. AtEase \in RunType /\ AtEase.staged = {}
  <2>1. AtEase = [pc |-> "idle", staged |-> {}, read |-> NothingRead, drift |-> FALSE]
    BY DEF AtEase, Repairing
  <2> QED BY <1>3, <2>1 DEF RunType
<1>5. CASE \E allowed, drift \in BOOLEAN : CrossChecks(s, allowed, drift)
  <2>1. PICK allowed \in BOOLEAN, drift \in BOOLEAN : CrossChecks(s, allowed, drift)
    BY <1>5
  <2>2. PICK new : new = Repairing("checked", {}, NothingRead, drift)
    OBVIOUS
  <2>3. new \in RunType /\ new.staged = {}
    BY <1>2, <1>3, <2>2
  <2>4. repair' = [repair EXCEPT ![s] = new] /\ UNCHANGED <<papers, audit, guarded, left>>
    BY <2>1, <2>2 DEF CrossChecks
  <2> QED BY <2>3, <2>4, RunMoves
<1>6. CASE \E chosen \in SUBSET RepairIds : ListsLacking(s, chosen)
  <2>1. PICK chosen \in SUBSET RepairIds : ListsLacking(s, chosen)
    BY <1>6
  <2>2. PICK new : new = Repairing("listed", chosen, NothingRead, repair[s].drift)
    OBVIOUS
  <2>3. new \in RunType /\ new.pc = "listed" /\ new.staged = chosen
    <3>1. repair[s].drift \in BOOLEAN
      BY <1>1 DEF RunType
    <3> QED BY <1>2, <1>3, <2>2, <3>1
  <2>4. repair' = [repair EXCEPT ![s] = new] /\ UNCHANGED <<papers, audit, guarded, left>>
    BY <2>1, <2>2 DEF ListsLacking
  <2>5. \A t \in chosen : Listed(t)
    <3> SUFFICES ASSUME NEW t \in chosen PROVE Listed(t)
      OBVIOUS
    <3>1. Left(papers[t]) /\ papers[t].profit = Unset
      BY <2>1 DEF ListsLacking, Lacking
    <3>2. left[t] = Unset
      <4>1. SUFFICES ASSUME left[t] # Unset PROVE FALSE
        OBVIOUS
      <4>2. papers[t].profit = OwnProfit(papers[t])
        BY <3>1, <4>1 DEF PnlInv, RowInv, RewriteTold
      <4>3. OwnProfit(papers[t]) \in Int
        BY <1>1, <3>1, OwnProfitTyped DEF Left
      <4> QED BY <3>1, <4>2, <4>3, PnlRepairAssumption
    <3> QED BY <3>1, <3>2 DEF Listed
  <2> QED BY <2>3, <2>4, <2>5, RunMoves
<1>7. CASE FindsDrift(s)
  <2> DEFINE found == {t \in RepairIds : Drifts(papers[t]) /\ Amount(OwnProfit(papers[t])) <= Outlier}
             read == [t \in RepairIds |-> papers[t].profit]
  <2>0. found \in SUBSET RepairIds
    OBVIOUS
  <2>1. PICK new : new = Repairing("drifting", found, read, TRUE)
    OBVIOUS
  <2>2. read \in [RepairIds -> Int \cup {Unset}]
    BY <1>1 DEF PaperRow
  <2>3. new \in RunType /\ new.pc = "drifting" /\ new.staged = found /\ new.read = read
    <3>1. \A f \in SUBSET RepairIds, g \in [RepairIds -> Int \cup {Unset}] :
              /\ Repairing("drifting", f, g, TRUE) \in RunType
              /\ Repairing("drifting", f, g, TRUE).pc = "drifting"
              /\ Repairing("drifting", f, g, TRUE).staged = f /\ Repairing("drifting", f, g, TRUE).read = g
      BY DEF Repairing, RunType
    <3> HIDE DEF found, read
    <3> QED BY <2>0, <2>1, <2>2, <3>1
  <2>4. repair' = [repair EXCEPT ![s] = new] /\ UNCHANGED <<papers, audit, guarded, left>>
    BY <1>7, <2>1 DEF FindsDrift
  <2>5. ASSUME NEW t \in found PROVE Drifted(t, new.read[t])
    <3>1. /\ t \in RepairIds /\ Left(papers[t]) /\ papers[t].profit # Unset
          /\ Amount(papers[t].profit - OwnProfit(papers[t])) > FeeDelta
      BY DEF Drifts, Comparable
    <3>2. papers[t].profit \in Int
      BY <1>1, <3>1 DEF PaperRow
    <3>3. papers[t].profit # OwnProfit(papers[t])
      <4>1. SUFFICES ASSUME papers[t].profit = OwnProfit(papers[t]) PROVE FALSE
        OBVIOUS
      <4>2. Amount(papers[t].profit - OwnProfit(papers[t])) = 0
        BY <3>2, <4>1 DEF Amount
      <4> QED BY <3>1, <4>2 DEF FeeDelta
    <3>4. papers[t].profit = left[t]
      BY <3>1, <3>3 DEF PnlInv, RowInv, RewriteTold
    <3> QED BY <2>3, <3>1, <3>2, <3>4 DEF Drifted
  <2> QED BY <2>3, <2>4, <2>5, RunMoves
<1>8. CASE AddsGuard(s)
  BY <1>4, <1>8, RunMoves DEF AddsGuard
<1>9. CASE LeavesRepair(s)
  BY <1>4, <1>9, RunMoves DEF LeavesRepair
<1> QED BY <1>5, <1>6, <1>7, <1>8, <1>9

LEMMA PnlStep == PnlInv /\ [PnlNext]_pnlVars => PnlInv'
<1>1. ASSUME PnlInv, PnlNext PROVE PnlInv'
  <2>1. CASE \E t \in RepairIds, price \in ExitPrices : ClosesRow(t, price)
    BY <1>1, <2>1, ClosesKeeps
  <2>2. ASSUME NEW s \in Repairs, AppliesRepairs(s) \/ RepairsDrift(s) PROVE PnlInv'
    BY <1>1, <2>2, AppliesKeeps, DriftKeeps
  <2>3. ASSUME NEW s \in Repairs,
               \/ \E allowed, drift \in BOOLEAN : CrossChecks(s, allowed, drift)
               \/ \E chosen \in SUBSET RepairIds : ListsLacking(s, chosen)
               \/ FindsDrift(s) \/ AddsGuard(s) \/ LeavesRepair(s)
        PROVE  PnlInv'
    BY <1>1, <2>3, RunsKeepPnl
  <2> QED BY <1>1, <2>1, <2>2, <2>3 DEF PnlNext
<1>2. ASSUME PnlInv, UNCHANGED pnlVars PROVE PnlInv'
  <2>1. /\ papers' = papers /\ audit' = audit /\ repair' = repair /\ guarded' = guarded /\ left' = left
    BY <1>2 DEF pnlVars
  <2>2. PnlTypeOK' /\ GuardNeverTrips'
    BY <1>2, <2>1 DEF PnlInv, PnlTypeOK, GuardNeverTrips
  <2>3. \A t \in RepairIds : RowInv(t)'
    BY <1>2, <2>1, RowStays DEF PnlInv
  <2>4. \A t \in RepairIds, s \in Repairs : RunInv(s, t)'
    BY <1>2, <2>1 DEF PnlInv, RunInv, Listed, Drifted
  <2> QED BY <2>2, <2>3, <2>4 DEF PnlInv
<1> QED BY <1>1, <1>2

\* However many trades there are, and runs of the script beside the bot: what it wrote is what the row's own
\* prices give and stands in the audit table, what it quarantined it left alone, and the constraint
\* that it adds is never violated (run_backfill, _repair_drifted_rows, add_check_constraint).
THEOREM RepairHolds == PnlSpec => []RepairSound
<1> QED BY PnlBegins, PnlStep, PnlMeans, PTL DEF PnlSpec

----
(* The import: what a run has staged is in the table only if another wrote   *)
(* it since, and what it has been offered is in the table or staged.         *)
StagedFresh ==
    \A i \in Importers : importer[i].pc = "insert" =>
        \A k \in importer[i].staged : k \in KeysIn(sharedRows) => k \in raced
OfferedKept ==
    \A i \in Importers :
        /\ importer[i].pc = "next" => importer[i].seen \cup importer[i].offered \subseteq KeysIn(sharedRows)
        /\ importer[i].pc = "insert" =>
              importer[i].seen \cup importer[i].offered \subseteq KeysIn(sharedRows) \cup importer[i].staged

SourceInPlace ==
    \A i \in Importers :
        /\ importer[i].pc # "idle" => importer[i].source >= 1
        /\ importer[i].pc = "insert" => importer[i].source <= NSources

ImportInv == ImportTypeOK /\ ImportSound /\ StagedFresh /\ OfferedKept /\ SourceInPlace

\* The keys of a table that rows are added to.
LEMMA KeysAdded ==
    ASSUME NEW rows, NEW keys, NEW from
    PROVE  KeysIn(rows \cup FromFile(keys, from)) = KeysIn(rows) \cup keys
<1>1. ASSUME NEW k \in keys PROVE k \in KeysIn(rows \cup FromFile(keys, from))
  <2>1. [key |-> k, from |-> from] \in FromFile(keys, from)
    BY DEF FromFile
  <2>2. [key |-> k, from |-> from].key = k
    OBVIOUS
  <2> QED BY <2>1, <2>2 DEF KeysIn
<1>2. \A row \in FromFile(keys, from) : row.key \in keys
  BY DEF FromFile
<1> QED BY <1>1, <1>2 DEF KeysIn

\* Rows of one file with the same key are one row.
LEMMA FileRows ==
    ASSUME NEW keys, NEW from
    PROVE  /\ \A r1, r2 \in FromFile(keys, from) : r1.key = r2.key => r1 = r2
           /\ \A r \in FromFile(keys, from) : r.key \in keys
BY DEF FromFile

\* Rows whose keys the table has only where they were raced for may be added.
LEMMA AddedSound ==
    ASSUME ImportTypeOK, ImportedOnce, KeyStaysUnique,
           NEW keys \in SUBSET ImportKeys, NEW from \in 0..NSources, NEW races, raced \subseteq races,
           \A k \in keys : k \in KeysIn(sharedRows) => k \in races /\ ~isKey
    PROVE  LET added == sharedRows \cup FromFile(keys, from)
           IN  /\ added \subseteq [key : ImportKeys, from : 0..NSources]
               /\ \A r1, r2 \in added : r1.key = r2.key /\ r1 # r2 => r1.key \in races
               /\ isKey => \A r1, r2 \in added : r1.key = r2.key => r1 = r2
<1> DEFINE added == sharedRows \cup FromFile(keys, from)
<1>1. FromFile(keys, from) \subseteq [key : ImportKeys, from : 0..NSources]
  BY DEF FromFile
<1>2. \A r \in sharedRows : r.key \in KeysIn(sharedRows)
  BY DEF KeysIn
<1>3. ASSUME NEW r1 \in added, NEW r2 \in added, r1.key = r2.key, r1 # r2
      PROVE  r1.key \in races /\ ~isKey
  <2>1. CASE r1 \in sharedRows /\ r2 \in sharedRows
    BY <1>3, <2>1 DEF ImportedOnce, KeyStaysUnique
  <2>2. CASE r1 \notin sharedRows \/ r2 \notin sharedRows
    <3>1. r1.key \in keys
      BY <1>3, <2>2, FileRows
    <3>2. r1.key \in KeysIn(sharedRows)
      <4>1. r1 \in sharedRows \/ r2 \in sharedRows
        BY <1>3, FileRows
      <4> QED BY <1>2, <1>3, <4>1
    <3> QED BY <3>1, <3>2
  <2> QED BY <2>1, <2>2
<1>4. added \subseteq [key : ImportKeys, from : 0..NSources]
  BY <1>1 DEF ImportTypeOK
<1> QED BY <1>3, <1>4

LEMMA ImportBegins == ImportInit => ImportInv
<1> SUFFICES ASSUME ImportInit PROVE ImportInv
  OBVIOUS
<1> USE DEF ImportInit
<1>1. \A i \in Importers : importer[i].pc = "idle"
  BY DEF NoImport, Importing
<1>2. ImportTypeOK
  BY ImportAssumption DEF ImportTypeOK, NoImport, Importing
<1>3. ImportSound
  BY DEF ImportSound, ImportedOnce, NothingLeftOut, KeyStaysUnique
<1>4. StagedFresh /\ OfferedKept /\ SourceInPlace
  BY <1>1 DEF StagedFresh, OfferedKept, SourceInPlace
<1> QED BY <1>2, <1>3, <1>4 DEF ImportInv

LEMMA BotSavesKeeps ==
    ASSUME ImportInv, NEW k \in ImportKeys, BotSaves(k)
    PROVE  ImportInv'
<1>1. /\ sharedRows' = sharedRows \cup FromFile({k}, 0) /\ raced \subseteq raced' /\ raced' \subseteq ImportKeys
      /\ UNCHANGED <<contents, isKey, importer, imported>>
  BY DEF ImportTypeOK, ImportInv, BotSaves
<1>2. KeysIn(sharedRows') = KeysIn(sharedRows) \cup {k} /\ k \notin KeysIn(sharedRows)
  BY <1>1, KeysAdded DEF BotSaves
<1>3. /\ sharedRows' \subseteq [key : ImportKeys, from : 0..NSources]
      /\ \A r1, r2 \in sharedRows' : r1.key = r2.key /\ r1 # r2 => r1.key \in raced'
      /\ isKey => \A r1, r2 \in sharedRows' : r1.key = r2.key => r1 = r2
  <2>1. 0 \in 0..NSources
    BY ImportAssumption
  <2>2. \A x \in {k} : x \in KeysIn(sharedRows) => x \in raced' /\ ~isKey
    BY <1>2
  <2>3. {k} \in SUBSET ImportKeys
    OBVIOUS
  <2>4. ImportTypeOK /\ ImportedOnce /\ KeyStaysUnique
    BY DEF ImportInv, ImportSound
  <2> HIDE DEF ImportInv
  <2> QED BY <1>1, <2>1, <2>2, <2>3, <2>4, AddedSound
<1>4. ImportTypeOK' /\ ImportedOnce' /\ KeyStaysUnique'
  BY <1>1, <1>3 DEF ImportTypeOK, ImportedOnce, KeyStaysUnique, ImportInv
<1>5. NothingLeftOut'
  BY <1>1, <1>2 DEF NothingLeftOut, ImportSound, ImportInv
<1>6. StagedFresh'
  <2> SUFFICES ASSUME NEW i \in Importers, importer[i].pc = "insert", NEW x \in importer[i].staged,
                      x \in KeysIn(sharedRows')
               PROVE  x \in raced'
    BY <1>1 DEF StagedFresh
  <2>1. CASE x = k
    BY <2>1 DEF BotSaves
  <2>2. CASE x # k
    BY <1>1, <1>2, <2>2 DEF StagedFresh, ImportInv
  <2> QED BY <2>1, <2>2
<1>7. OfferedKept' /\ SourceInPlace'
  BY <1>1, <1>2 DEF OfferedKept, SourceInPlace, ImportInv
<1> QED BY <1>4, <1>5, <1>6, <1>7 DEF ImportSound, ImportInv

\* What one run does to itself while the table stands.
LEMMA OneMoves ==
    ASSUME ImportInv, NEW i \in Importers, NEW new,
           importer' = [importer EXCEPT ![i] = new],
           UNCHANGED <<contents, isKey, sharedRows, raced>>,
           imported' \subseteq ImportKeys, imported' \subseteq KeysIn(sharedRows),
           new \in [pc : {"idle", "next", "insert"}, source : 0..NSources + 1, seen : SUBSET ImportKeys,
                    staged : SUBSET ImportKeys, offered : SUBSET ImportKeys],
           new.pc = "insert" => \A k \in new.staged : k \in KeysIn(sharedRows) => k \in raced,
           new.pc # "idle" => new.source >= 1, new.pc = "insert" => new.source <= NSources,
           new.pc = "next" => new.seen \cup new.offered \subseteq KeysIn(sharedRows),
           new.pc = "insert" => new.seen \cup new.offered \subseteq KeysIn(sharedRows) \cup new.staged
    PROVE  ImportInv'
<1> USE DEF ImportInv
<1>1. importer \in [Importers -> [pc : {"idle", "next", "insert"}, source : 0..NSources + 1,
                                  seen : SUBSET ImportKeys, staged : SUBSET ImportKeys,
                                  offered : SUBSET ImportKeys]]
  BY DEF ImportTypeOK
<1>2. importer'[i] = new /\ \A j \in Importers \ {i} : importer'[j] = importer[j]
  BY <1>1
<1>3. ImportTypeOK'
  BY <1>1 DEF ImportTypeOK
<1>4. ImportSound'
  BY DEF ImportSound, ImportedOnce, NothingLeftOut, KeyStaysUnique, KeysIn
<1>5. KeysIn(sharedRows)' = KeysIn(sharedRows)
  BY DEF KeysIn
<1>6. StagedFresh'
  BY <1>2, <1>5 DEF StagedFresh
<1>7. OfferedKept' /\ SourceInPlace'
  BY <1>2, <1>5 DEF OfferedKept, SourceInPlace
<1> QED BY <1>3, <1>4, <1>6, <1>7

LEMMA ImporterIs ==
    ASSUME ImportTypeOK, NEW i \in Importers
    PROVE  importer[i] \in [pc : {"idle", "next", "insert"}, source : 0..NSources + 1,
                            seen : SUBSET ImportKeys, staged : SUBSET ImportKeys,
                            offered : SUBSET ImportKeys]
BY DEF ImportTypeOK

LEMMA ReadsTableKeeps ==
    ASSUME ImportInv, NEW i \in Importers, ReadsTable(i)
    PROVE  ImportInv'
<1> DEFINE run == importer[i]
           fresh == contents[run.source] \ (KeysIn(sharedRows) \cup run.seen)
           new == Importing("insert", run.source, run.seen \cup fresh, fresh,
                            run.offered \cup contents[run.source])
<1>1. /\ run.pc = "next" /\ run.source \in 0..NSources + 1
      /\ run.seen \in SUBSET ImportKeys /\ run.offered \in SUBSET ImportKeys
      /\ run.seen \cup run.offered \subseteq KeysIn(sharedRows)
      /\ importer' = [importer EXCEPT ![i] = new]
      /\ UNCHANGED <<contents, isKey, sharedRows, raced, imported>>
  BY ImporterIs DEF ImportInv, OfferedKept, ReadsTable
<1>2. contents[run.source] \subseteq ImportKeys
  <2>1. run.source \in Sources
    BY <1>1, ImportAssumption DEF ReadsTable, ImportInv, SourceInPlace, Sources
  <2> QED BY <2>1 DEF ImportInv, ImportTypeOK
<1>3. new = [pc |-> "insert", source |-> run.source, seen |-> run.seen \cup fresh, staged |-> fresh,
             offered |-> run.offered \cup contents[run.source]]
  BY DEF Importing
<1> HIDE DEF new
<1>4. imported \subseteq ImportKeys /\ imported \subseteq KeysIn(sharedRows)
  BY DEF ImportInv, ImportTypeOK, ImportSound, NothingLeftOut
<1>5. new \in [pc : {"idle", "next", "insert"}, source : 0..NSources + 1, seen : SUBSET ImportKeys,
               staged : SUBSET ImportKeys, offered : SUBSET ImportKeys]
  BY <1>1, <1>2, <1>3
<1>6. new.pc = "insert" /\ \A k \in new.staged : k \notin KeysIn(sharedRows)
  BY <1>3
<1>7. new.seen \cup new.offered \subseteq KeysIn(sharedRows) \cup new.staged
  BY <1>1, <1>3
<1>8. new.source >= 1 /\ new.source <= NSources
  BY <1>1, <1>3 DEF ReadsTable, ImportInv, SourceInPlace
<1> QED BY <1>1, <1>4, <1>5, <1>6, <1>7, <1>8, OneMoves

LEMMA InsertsRowsKeeps ==
    ASSUME ImportInv, NEW i \in Importers, InsertsRows(i)
    PROVE  ImportInv'
<1> DEFINE run == importer[i]
           mine == run.staged
           new == Importing("next", run.source + 1, run.seen, {}, run.offered)
<1>1. /\ run.pc = "insert" /\ run.source \in 0..NSources + 1 /\ mine \in SUBSET ImportKeys
      /\ run.seen \in SUBSET ImportKeys /\ run.offered \in SUBSET ImportKeys
      /\ run.seen \cup run.offered \subseteq KeysIn(sharedRows) \cup mine
      /\ importer' = [importer EXCEPT ![i] = new]
      /\ sharedRows' = sharedRows \cup FromFile(mine, run.source)
      /\ raced \subseteq raced' /\ raced' \subseteq ImportKeys
      /\ UNCHANGED <<contents, isKey, imported>>
  BY ImporterIs DEF ImportInv, OfferedKept, InsertsRows, ImportTypeOK
<1>2. run.source \in 1..NSources /\ run.source + 1 \in 0..NSources + 1
  BY <1>1, ImportAssumption DEF ImportInv, SourceInPlace
<1>3. new = [pc |-> "next", source |-> run.source + 1, seen |-> run.seen, staged |-> {},
             offered |-> run.offered]
  BY DEF Importing
<1> HIDE DEF new
<1>4. /\ importer'[i] = new /\ \A j \in Importers \ {i} : importer'[j] = importer[j]
      /\ importer' \in [Importers -> [pc : {"idle", "next", "insert"}, source : 0..NSources + 1,
                                      seen : SUBSET ImportKeys, staged : SUBSET ImportKeys,
                                      offered : SUBSET ImportKeys]]
  BY <1>1, <1>2, <1>3 DEF ImportInv, ImportTypeOK
<1>5. KeysIn(sharedRows') = KeysIn(sharedRows) \cup mine
  BY <1>1, KeysAdded
<1>6. /\ sharedRows' \subseteq [key : ImportKeys, from : 0..NSources]
      /\ \A r1, r2 \in sharedRows' : r1.key = r2.key /\ r1 # r2 => r1.key \in raced'
      /\ isKey => \A r1, r2 \in sharedRows' : r1.key = r2.key => r1 = r2
  <2>1. run.source \in 0..NSources
    BY <1>2
  <2>2. \A x \in mine : x \in KeysIn(sharedRows) => x \in raced' /\ ~isKey
    BY <1>1 DEF ImportInv, StagedFresh, InsertsRows
  <2>3. ImportTypeOK /\ ImportedOnce /\ KeyStaysUnique
    BY DEF ImportInv, ImportSound
  <2> QED BY <1>1, <2>1, <2>2, <2>3, AddedSound
<1>7. ImportTypeOK' /\ ImportedOnce' /\ KeyStaysUnique'
  BY <1>1, <1>4, <1>6 DEF ImportTypeOK, ImportedOnce, KeyStaysUnique, ImportInv
<1>8. NothingLeftOut'
  BY <1>1, <1>5 DEF NothingLeftOut, ImportSound, ImportInv
<1>9. StagedFresh'
  <2> SUFFICES ASSUME NEW j \in Importers, importer'[j].pc = "insert", NEW x \in importer'[j].staged,
                      x \in KeysIn(sharedRows')
               PROVE  x \in raced'
    BY DEF StagedFresh
  <2>1. j # i /\ importer'[j] = importer[j]
    BY <1>3, <1>4
  <2>2. CASE x \in mine
    <3>1. HasRead(i) # {}
      BY <2>1 DEF HasRead
    <3> QED BY <2>2, <3>1 DEF InsertsRows
  <2>3. CASE x \notin mine
    BY <1>1, <1>5, <2>1, <2>3 DEF StagedFresh, ImportInv
  <2> QED BY <2>2, <2>3
<1>10. OfferedKept' /\ SourceInPlace'
  <2> SUFFICES ASSUME NEW j \in Importers
               PROVE  /\ importer'[j].pc = "next" =>
                            importer'[j].seen \cup importer'[j].offered \subseteq KeysIn(sharedRows')
                      /\ importer'[j].pc = "insert" =>
                            importer'[j].seen \cup importer'[j].offered
                                \subseteq KeysIn(sharedRows') \cup importer'[j].staged
                      /\ importer'[j].pc # "idle" => importer'[j].source >= 1
                      /\ importer'[j].pc = "insert" => importer'[j].source <= NSources
    BY DEF OfferedKept, SourceInPlace
  <2>1. CASE j = i
    <3>1. /\ importer'[i].pc = "next" /\ importer'[i].source = run.source + 1
          /\ importer'[i].seen = run.seen /\ importer'[i].offered = run.offered
      BY <1>3, <1>4
    <3>2. run.seen \cup run.offered \subseteq KeysIn(sharedRows')
      BY <1>1, <1>5
    <3>3. run.source + 1 >= 1
      BY <1>2
    <3> QED BY <2>1, <3>1, <3>2, <3>3
  <2>2. CASE j # i
    BY <1>4, <1>5, <2>2 DEF OfferedKept, SourceInPlace, ImportInv
  <2> QED BY <2>1, <2>2
<1> QED BY <1>7, <1>8, <1>9, <1>10 DEF ImportSound, ImportInv

LEMMA ImportStep == ImportInv /\ [ImportNext]_importVars => ImportInv'
<1> USE ImportAssumption
<1>1. ASSUME ImportInv, NEW i \in Importers,
             BeginsImport(i) \/ ImportDies(i) \/ SkipsSource(i) \/ EndsImport(i)
      PROVE  ImportInv'
  <2>1. PICK run : run = importer[i]
    OBVIOUS
  <2>2. /\ run \in [pc : {"idle", "next", "insert"}, source : 0..NSources + 1, seen : SUBSET ImportKeys,
                     staged : SUBSET ImportKeys, offered : SUBSET ImportKeys]
        /\ run.pc = "next" => run.seen \cup run.offered \subseteq KeysIn(sharedRows)
        /\ run.pc # "idle" => run.source >= 1
    BY <1>1, <2>1, ImporterIs DEF ImportInv, OfferedKept, SourceInPlace
  <2>3. imported \subseteq ImportKeys /\ imported \subseteq KeysIn(sharedRows)
    BY <1>1 DEF ImportInv, ImportTypeOK, ImportSound, NothingLeftOut
  <2>4. CASE BeginsImport(i)
    <3> DEFINE new == Importing("next", 1, {}, {}, {})
    <3>1. new = [pc |-> "next", source |-> 1, seen |-> {}, staged |-> {}, offered |-> {}]
      BY DEF Importing, NoImport
    <3>2. /\ importer' = [importer EXCEPT ![i] = new]
          /\ UNCHANGED <<contents, isKey, sharedRows, raced, imported>>
      BY <2>4 DEF BeginsImport
    <3> HIDE DEF new
    <3>3. new \in [pc : {"idle", "next", "insert"}, source : 0..NSources + 1, seen : SUBSET ImportKeys,
                   staged : SUBSET ImportKeys, offered : SUBSET ImportKeys]
      BY <3>1
    <3>4. new.pc = "next" /\ new.source = 1 /\ new.seen \cup new.offered = {}
      BY <3>1
    <3>5. new.pc # "insert" /\ new.source >= 1 /\ new.seen \cup new.offered \subseteq KeysIn(sharedRows)
      BY <3>4
    <3>6. /\ imported' \subseteq ImportKeys /\ imported' \subseteq KeysIn(sharedRows)
          /\ UNCHANGED <<contents, isKey, sharedRows, raced>>
      BY <2>3, <3>2
    <3> QED BY <1>1, <3>2, <3>3, <3>5, <3>6, OneMoves
  <2>5. CASE ImportDies(i) \/ EndsImport(i)
    <3>1. /\ importer' = [importer EXCEPT ![i] = NoImport]
          /\ UNCHANGED <<contents, isKey, sharedRows, raced>>
          /\ imported' \subseteq imported \cup (IF run.pc = "next" THEN run.offered ELSE {})
      BY <2>1, <2>5 DEF ImportDies, EndsImport
    <3>2. imported' \subseteq ImportKeys /\ imported' \subseteq KeysIn(sharedRows)
      BY <2>2, <2>3, <3>1
    <3>3. /\ NoImport \in [pc : {"idle", "next", "insert"}, source : 0..NSources + 1,
                            seen : SUBSET ImportKeys, staged : SUBSET ImportKeys,
                            offered : SUBSET ImportKeys]
          /\ NoImport.pc = "idle"
      BY DEF Importing, NoImport
    <3> QED BY <1>1, <3>1, <3>2, <3>3, OneMoves
  <2>6. CASE SkipsSource(i)
    <3> DEFINE new == Importing("next", run.source + 1, run.seen, {}, run.offered)
    <3>1. /\ importer' = [importer EXCEPT ![i] = new] /\ run.pc = "next" /\ run.source <= NSources
          /\ UNCHANGED <<contents, isKey, sharedRows, raced, imported>>
      BY <2>1, <2>6 DEF SkipsSource
    <3>2. new = [pc |-> "next", source |-> run.source + 1, seen |-> run.seen, staged |-> {},
                 offered |-> run.offered]
      BY DEF Importing
    <3> HIDE DEF new
    <3>3. run.source + 1 \in 0..NSources + 1 /\ run.source + 1 >= 1
      BY <2>2, <3>1
    <3>4. new \in [pc : {"idle", "next", "insert"}, source : 0..NSources + 1, seen : SUBSET ImportKeys,
                   staged : SUBSET ImportKeys, offered : SUBSET ImportKeys]
      BY <2>2, <3>2, <3>3
    <3> QED BY <1>1, <2>2, <2>3, <3>1, <3>2, <3>3, <3>4, OneMoves
  <2> QED BY <1>1, <2>4, <2>5, <2>6
<1>2. ASSUME ImportInv, UNCHANGED importVars PROVE ImportInv'
  BY <1>2 DEF importVars, ImportInv, ImportTypeOK, ImportSound, ImportedOnce, NothingLeftOut,
              KeyStaysUnique, StagedFresh, OfferedKept, SourceInPlace, KeysIn
<1> QED BY <1>1, <1>2, BotSavesKeeps, ReadsTableKeeps, InsertsRowsKeeps DEF ImportNext

\* Whatever the files, the runs of the script and the rows of the bot: no key gets a second row unless it
\* was raced for, a primary key never has two, and a run that ends has left nothing out (import_table).
THEOREM ImportHolds == ImportSpec => []ImportSound
<1>1. ImportInv => ImportSound
  BY DEF ImportInv
<1> QED BY <1>1, ImportBegins, ImportStep, PTL DEF ImportSpec

----
(* The searches: the best is held for what it was tried with, and no rated   *)
(* candidate of the window for more; a rounded fitness is compared with one   *)
(* that is not, which is a comparison of rounded ones.                       *)
BestHeld ==
    best # NoneYet =>
        \E e \in tried[lap] : /\ e.params = best.params /\ e.result.given
                              /\ best.score = HeldFor(e.result) /\ best.rated = Rated(e.result)
NoneBetter ==
    \A f \in tried[lap] : Rated(f.result) =>
        best # NoneYet /\ best.rated /\ HeldFor(f.result) <= best.score
AlwaysTheSame == \A w \in Laps : \A e, f \in tried[w] : e.params = f.params => e.result = f.result
LapsInOrder ==
    /\ \A x \in reported : x.lap < lap \/ (x.lap = lap /\ searchAt = "over")
    /\ \A w \in Laps : w > lap => tried[w] = {}
    /\ searchAt = "test" => best # NoneYet

SearchInv == SearchTypeOK /\ BestHeld /\ NoneBetter /\ AlwaysTheSame /\ LapsInOrder /\ ReportedWereBest

LEMMA ResultTyped ==
    ASSUME NEW r \in Backtests
    PROVE  r.given \in BOOLEAN /\ r.ret \in Int /\ r.edge \in Nat /\ r.edge > 0 /\ r.trades \in Nat
BY SearchAssumption

LEMMA FitnessTyped ==
    ASSUME NEW r \in Backtests
    PROVE  Fitness(r) \in Int
BY ResultTyped DEF Fitness

LEMMA Quotient ==
    ASSUME NEW d \in Nat, d > 0, NEW x \in Int
    PROVE  /\ x \div d \in Int /\ (x \div d) * d <= x /\ x < (x \div d) * d + d
<1>1. x \div d \in Int /\ d * (x \div d) <= x /\ x < d * (x \div d) + d
  OBVIOUS
<1>2. PICK q \in Int : q = x \div d
  BY <1>1
<1>3. d * q = q * d
  OBVIOUS
<1> QED BY <1>1, <1>2, <1>3

LEMMA LessMultiple ==
    ASSUME NEW d \in Nat, d > 0, NEW a \in Int, NEW b \in Int, a * d < b * d + d
    PROVE  a <= b
<1>1. SUFFICES ASSUME a > b PROVE FALSE
  OBVIOUS
<1>2. (a - b - 1) * d >= 0
  BY <1>1
<1> QED BY <1>2

LEMMA RoundedMonotone ==
    ASSUME NEW x \in Int, NEW y \in Int, x <= y
    PROVE  Rounded(x) \in Int /\ Rounded(x) <= Rounded(y)
<1>1. Grain \in Nat /\ Grain > 0 /\ 2 * Grain \in Nat /\ 2 * Grain > 0
  BY SearchAssumption
<1> DEFINE a == (2 * x + Grain) \div (2 * Grain)
           b == (2 * y + Grain) \div (2 * Grain)
<1>2. /\ a \in Int /\ a * (2 * Grain) <= 2 * x + Grain /\ 2 * x + Grain < a * (2 * Grain) + 2 * Grain
      /\ b \in Int /\ b * (2 * Grain) <= 2 * y + Grain /\ 2 * y + Grain < b * (2 * Grain) + 2 * Grain
  BY <1>1, Quotient
<1> HIDE DEF a, b
<1>3. a <= b
  BY <1>1, <1>2, LessMultiple
<1>4. a * Grain <= b * Grain
  BY <1>1, <1>2, <1>3
<1> QED BY <1>1, <1>2, <1>4 DEF Rounded, a, b

LEMMA RoundedAgain ==
    ASSUME NEW x \in Int
    PROVE  Rounded(x) \in Int /\ Rounded(Rounded(x)) = Rounded(x)
<1>1. Grain \in Nat /\ Grain > 0 /\ 2 * Grain \in Nat /\ 2 * Grain > 0
  BY SearchAssumption
<1> DEFINE a == (2 * x + Grain) \div (2 * Grain)
           b == (2 * (a * Grain) + Grain) \div (2 * Grain)
<1>2. a \in Int
  BY <1>1, Quotient
<1> HIDE DEF a
<1>3. a * Grain \in Int /\ 2 * (a * Grain) = a * (2 * Grain)
  BY <1>1, <1>2
<1>4. b \in Int /\ b * (2 * Grain) <= 2 * (a * Grain) + Grain /\ 2 * (a * Grain) + Grain < b * (2 * Grain) + 2 * Grain
  BY <1>1, <1>3, Quotient
<1> HIDE DEF b
<1>5. b <= a
  <2>1. b * (2 * Grain) < a * (2 * Grain) + 2 * Grain
    BY <1>1, <1>2, <1>3, <1>4
  <2> QED BY <1>1, <1>2, <1>4, <2>1, LessMultiple
<1>6. a <= b
  <2>1. a * (2 * Grain) < b * (2 * Grain) + 2 * Grain
    BY <1>1, <1>2, <1>3, <1>4
  <2> QED BY <1>1, <1>2, <1>4, <2>1, LessMultiple
<1>7. a = b
  BY <1>2, <1>4, <1>5, <1>6
<1>8. Rounded(x) = a * Grain
  BY DEF Rounded, a
<1>9. Rounded(a * Grain) = b * Grain
  BY DEF Rounded, b
<1> QED BY <1>1, <1>2, <1>3, <1>7, <1>8, <1>9

\* What loses against the best is held for no more, and the best for no more than what beats it.
LEMMA HeldCompares ==
    ASSUME NEW r \in Backtests, NEW e \in Backtests
    PROVE  /\ HeldFor(r) \in Int
           /\ Fitness(r) <= HeldFor(e) => HeldFor(r) <= HeldFor(e)
           /\ Fitness(r) > HeldFor(e) => HeldFor(e) <= HeldFor(r)
<1>1. Fitness(r) \in Int /\ Fitness(e) \in Int
  BY FitnessTyped
<1>2. CASE search = "recalibrate"
  <2>1. HeldFor(r) = Rounded(Fitness(r)) /\ HeldFor(e) = Rounded(Fitness(e))
    BY <1>2 DEF HeldFor
  <2>2. /\ Rounded(Fitness(e)) \in Int /\ Rounded(Rounded(Fitness(e))) = Rounded(Fitness(e))
        /\ Rounded(Fitness(r)) \in Int
    BY <1>1, RoundedAgain
  <2>3. ASSUME Fitness(r) <= HeldFor(e) PROVE HeldFor(r) <= HeldFor(e)
    BY <1>1, <2>1, <2>2, <2>3, RoundedMonotone
  <2>4. ASSUME Fitness(r) > HeldFor(e) PROVE HeldFor(e) <= HeldFor(r)
    <3>1. Rounded(Fitness(e)) <= Fitness(r)
      BY <1>1, <2>1, <2>2, <2>4
    <3> QED BY <1>1, <2>1, <2>2, <3>1, RoundedMonotone
  <2> QED BY <2>1, <2>2, <2>3, <2>4
<1>3. CASE search # "recalibrate"
  BY <1>1, <1>3 DEF HeldFor
<1> QED BY <1>2, <1>3

LEMMA SearchBegins == SearchInit => SearchInv
<1> SUFFICES ASSUME SearchInit PROVE SearchInv
  OBVIOUS
<1> USE DEF SearchInit
<1>1. 1 \in Laps
  BY SearchAssumption DEF Laps
<1>2. SearchTypeOK
  BY <1>1 DEF SearchTypeOK, NoneYet
<1> QED BY <1>1, <1>2 DEF SearchInv, BestHeld, NoneBetter, AlwaysTheSame, LapsInOrder, ReportedWereBest

LEMMA SearchMeans == SearchInv => SearchesSound
<1> SUFFICES ASSUME SearchInv PROVE SearchesSound
  OBVIOUS
<1>0. lap \in Laps /\ tried \in [Laps -> SUBSET [params : Drawable, result : Backtests]]
      /\ reported \subseteq [lap : Laps, params : Drawable]
  BY DEF SearchInv, SearchTypeOK
<1>1. BestIsBest
  <2>1. ASSUME best # NoneYet PROVE \E e \in tried[lap] : e.params = best.params /\ BestOf(lap, e)
    <3>1. PICK e \in tried[lap] : /\ e.params = best.params /\ e.result.given
                                  /\ best.score = HeldFor(e.result) /\ best.rated = Rated(e.result)
      BY <2>1 DEF SearchInv, BestHeld
    <3>2. BestOf(lap, e)
      BY <3>1 DEF BestOf, SearchInv, NoneBetter
    <3> QED BY <3>1, <3>2
  <2>2. ASSUME best = NoneYet PROVE \A f \in tried[lap] : ~Rated(f.result)
    BY <2>2 DEF SearchInv, NoneBetter
  <2> QED BY <2>1, <2>2 DEF BestIsBest
<1>2. LosersNeverWin
  <2> SUFFICES ASSUME search # "recalibrate", NEW x \in reported, NEW e \in tried[x.lap], NEW f \in tried[x.lap],
                      e.params = x.params, e.result.ret <= 0, Rated(f.result), f.result.ret > 0
               PROVE  FALSE
    <3>1. \A f \in tried[lap] : TRUE
      OBVIOUS
    <3>2. ASSUME NEW x \in reported, NEW f \in tried[x.lap] PROVE f.result.ret \in Int
      BY <1>0, ResultTyped
    <3> QED BY <3>2 DEF LosersNeverWin
  <2>1. x.lap \in Laps /\ e.result \in Backtests /\ f.result \in Backtests
    BY <1>0
  <2>2. PICK g \in tried[x.lap] : g.params = x.params /\ BestOf(x.lap, g)
    BY DEF SearchInv, ReportedWereBest
  <2>3. g.result = e.result
    BY <2>1, <2>2 DEF SearchInv, AlwaysTheSame
  <2>4. Fitness(f.result) <= Fitness(e.result)
    BY <2>2, <2>3 DEF BestOf, HeldFor
  <2>5. Fitness(e.result) <= 0
    BY <2>1, ResultTyped DEF Fitness
  <2>6. Fitness(f.result) > 0
    <3>1. /\ f.result.ret \in Int /\ f.result.ret > 0 /\ f.result.edge \in Nat /\ f.result.edge > 0
          /\ f.result.trades \in Nat /\ f.result.trades > 0
      BY <2>1, ResultTyped DEF Rated
    <3>2. Fitness(f.result) = f.result.ret * f.result.edge
      BY <3>1 DEF Fitness
    <3>3. \A a, b \in Int : (a > 0 /\ b > 0) => a * b > 0
      OBVIOUS
    <3> QED BY <3>1, <3>2, <3>3
  <2>7. Fitness(e.result) \in Int /\ Fitness(f.result) \in Int
    BY <2>1, FitnessTyped
  <2> QED BY <2>4, <2>5, <2>6, <2>7
<1> QED BY <1>1, <1>2 DEF SearchInv, SearchesSound

\* A candidate is tried in the window at work.
LEMMA TriesKeeps ==
    ASSUME SearchInv, NEW p \in Drawable, NEW r \in Backtests, Tries(p, r)
    PROVE  SearchInv'
<1> DEFINE new == [params |-> p, result |-> r]
           won == [params |-> p, score |-> HeldFor(r), rated |-> Rated(r)]
<1>1. /\ lap \in Laps /\ tried \in [Laps -> SUBSET [params : Drawable, result : Backtests]]
      /\ search \in {"grid", "random", "recalibrate"} /\ draws \in Nat
      /\ best \in [params : Drawable \cup {Nobody}, score : Int, rated : BOOLEAN]
      /\ reported \subseteq [lap : Laps, params : Drawable] /\ lap \in Int
  BY DEF SearchInv, SearchTypeOK, Laps
<1>2. /\ searchAt = "search" /\ search' = search /\ lap' = lap /\ searchAt' = searchAt /\ reported' = reported
      /\ tried' = [tried EXCEPT ![lap] = tried[lap] \cup {new}] /\ draws' = draws + 1
      /\ best' = IF r.given /\ Beats(r) THEN won ELSE best
      /\ \A e \in tried[lap] : e.params = p => e.result = r
  BY DEF Tries
<1>3. /\ tried'[lap] = tried[lap] \cup {new} /\ \A w \in Laps \ {lap} : tried'[w] = tried[w]
      /\ new.params = p /\ new.result = r
      /\ tried' \in [Laps -> SUBSET [params : Drawable, result : Backtests]]
  BY <1>1, <1>2
<1>4. /\ won # NoneYet /\ won.params = p /\ won.score = HeldFor(r) /\ won.rated = Rated(r)
      /\ won \in [params : Drawable \cup {Nobody}, score : Int, rated : BOOLEAN]
  <2>1. HeldFor(r) \in Int
    BY HeldCompares
  <2>2. Rated(r) \in BOOLEAN
    BY ResultTyped DEF Rated
  <2> QED BY <2>1, <2>2, SearchAssumption DEF NoneYet
<1> HIDE DEF new, won
<1>5. /\ \A e : Rated(e)' = Rated(e) /\ HeldFor(e)' = HeldFor(e) /\ Fitness(e)' = Fitness(e)
  BY <1>2 DEF Rated, HeldFor, Fitness
<1>6. SearchTypeOK'
  <2>1. best' \in [params : Drawable \cup {Nobody}, score : Int, rated : BOOLEAN]
    BY <1>1, <1>2, <1>4
  <2> QED BY <1>1, <1>2, <1>3, <2>1 DEF SearchInv, SearchTypeOK
<1>7. BestHeld' /\ NoneBetter'
  <2>1. CASE r.given /\ Beats(r)
    <3>1. best' = won
      BY <1>2, <2>1
    <3>2. BestHeld'
      <4>1. new \in tried'[lap'] /\ new.params = best'.params /\ new.result.given
            /\ best'.score = HeldFor(new.result)' /\ best'.rated = Rated(new.result)'
        BY <1>2, <1>3, <1>4, <1>5, <2>1, <3>1
      <4> QED BY <1>5, <4>1 DEF BestHeld
    <3>3. NoneBetter'
      <4> SUFFICES ASSUME NEW f \in tried'[lap], Rated(f.result)
                   PROVE  Rated(r) /\ HeldFor(f.result) <= HeldFor(r)
        BY <1>2, <1>4, <1>5, <3>1 DEF NoneBetter
      <4>1. HeldFor(r) \in Int
        BY HeldCompares
      <4>2. CASE f = new
        BY <1>3, <4>1, <4>2
      <4>3. CASE f \in tried[lap]
        <5>1. best # NoneYet /\ best.rated /\ HeldFor(f.result) <= best.score
          BY <4>3 DEF SearchInv, NoneBetter
        <5>2. PICK e \in tried[lap] : best.score = HeldFor(e.result)
          BY <5>1 DEF SearchInv, BestHeld
        <5>3. Rated(r) /\ Fitness(r) > best.score
          BY <2>1, <5>1 DEF Beats
        <5>4. e.result \in Backtests /\ f.result \in Backtests
          BY <1>1, <4>3
        <5>5. HeldFor(e.result) <= HeldFor(r) /\ HeldFor(e.result) \in Int /\ HeldFor(f.result) \in Int
          BY <5>2, <5>3, <5>4, HeldCompares
        <5> QED BY <4>1, <5>1, <5>2, <5>3, <5>5
      <4> QED BY <1>3, <4>2, <4>3
    <3> QED BY <3>2, <3>3
  <2>2. CASE ~(r.given /\ Beats(r))
    <3>1. best' = best
      BY <1>2, <2>2
    <3>2. BestHeld'
      <4> SUFFICES ASSUME best # NoneYet PROVE BestHeld'
        BY <3>1 DEF BestHeld
      <4>1. PICK e \in tried[lap] : /\ e.params = best.params /\ e.result.given
                                    /\ best.score = HeldFor(e.result) /\ best.rated = Rated(e.result)
        BY DEF SearchInv, BestHeld
      <4> QED BY <1>2, <1>3, <1>5, <3>1, <4>1 DEF BestHeld
    <3>3. NoneBetter'
      <4> SUFFICES ASSUME NEW f \in tried'[lap], Rated(f.result)
                   PROVE  best # NoneYet /\ best.rated /\ HeldFor(f.result) <= best.score
        BY <1>2, <1>5, <3>1 DEF NoneBetter
      <4>1. CASE f \in tried[lap]
        BY <4>1 DEF SearchInv, NoneBetter
      <4>2. CASE f = new
        <5>1. Rated(r) /\ r.given
          BY <1>3, <4>2 DEF Rated
        <5>2. best # NoneYet /\ best.rated /\ ~(Fitness(r) > best.score)
          BY <2>2, <5>1 DEF Beats
        <5>3. PICK e \in tried[lap] : best.score = HeldFor(e.result)
          BY <5>2 DEF SearchInv, BestHeld
        <5>4. e.result \in Backtests
          BY <1>1
        <5>5. Fitness(r) \in Int /\ HeldFor(e.result) \in Int
          BY <5>4, FitnessTyped, HeldCompares
        <5>6. HeldFor(r) <= HeldFor(e.result)
          BY <5>2, <5>3, <5>4, <5>5, HeldCompares
        <5> QED BY <1>3, <4>2, <5>2, <5>3, <5>6
      <4> QED BY <1>3, <4>1, <4>2
    <3> QED BY <3>2, <3>3
  <2> QED BY <2>1, <2>2
<1>8. AlwaysTheSame'
  <2> SUFFICES ASSUME NEW w \in Laps, NEW e \in tried'[w], NEW f \in tried'[w], e.params = f.params
               PROVE  e.result = f.result
    BY DEF AlwaysTheSame
  <2>1. CASE w # lap
    BY <1>3, <2>1 DEF SearchInv, AlwaysTheSame
  <2>2. CASE w = lap
    <3>1. ASSUME NEW g \in tried'[lap] PROVE g \in tried[lap] \/ g = new
      BY <1>3
    <3> QED BY <1>2, <1>3, <2>2, <3>1 DEF SearchInv, AlwaysTheSame
  <2> QED BY <2>1, <2>2
<1>9. LapsInOrder'
  BY <1>1, <1>2, <1>3 DEF SearchInv, LapsInOrder, Laps
<1>10. ReportedWereBest'
  <2>1. \A x \in reported : x.lap \in Laps /\ x.lap # lap
    BY <1>1, <1>2 DEF SearchInv, LapsInOrder, Laps
  <2> SUFFICES ASSUME NEW x \in reported
               PROVE  \E e \in tried'[x.lap] : e.params = x.params /\ BestOf(x.lap, e)'
    BY <1>2 DEF ReportedWereBest
  <2>2. PICK e \in tried[x.lap] : e.params = x.params /\ BestOf(x.lap, e)
    BY DEF SearchInv, ReportedWereBest
  <2>3. tried'[x.lap] = tried[x.lap]
    BY <1>3, <2>1
  <2>4. BestOf(x.lap, e)'
    BY <1>5, <2>2, <2>3 DEF BestOf
  <2> QED BY <2>2, <2>3, <2>4
<1> QED BY <1>6, <1>7, <1>8, <1>9, <1>10 DEF SearchInv

LEMMA SearchStep == SearchInv /\ [SearchNext]_searchVars => SearchInv'
<1> SUFFICES ASSUME SearchInv, [SearchNext]_searchVars PROVE SearchInv'
  OBVIOUS
<1>0. /\ lap \in Laps /\ tried \in [Laps -> SUBSET [params : Drawable, result : Backtests]]
      /\ search \in {"grid", "random", "recalibrate"} /\ draws \in Nat
      /\ best \in [params : Drawable \cup {Nobody}, score : Int, rated : BOOLEAN]
      /\ reported \subseteq [lap : Laps, params : Drawable] /\ lap \in Int /\ NLaps \in Nat
  BY SearchAssumption DEF SearchInv, SearchTypeOK, Laps
<1>t. search' = search => \A e : Rated(e)' = Rated(e) /\ HeldFor(e)' = HeldFor(e)
  BY DEF Rated, HeldFor, Fitness
<1>b. ASSUME search' = search, tried' = tried, NEW w, NEW e PROVE BestOf(w, e)' = BestOf(w, e)
  BY <1>b, <1>t DEF BestOf
<1>k. ASSUME search' = search, tried' = tried, lap' = lap, best' = best
      PROVE  BestHeld' /\ NoneBetter' /\ AlwaysTheSame'
  BY <1>k, <1>t DEF SearchInv, BestHeld, NoneBetter, AlwaysTheSame
<1>1. CASE \E p \in Drawable, r \in Backtests : Tries(p, r)
  BY <1>1, TriesKeeps
<1>2. CASE EndsSearch
  <2> USE <1>2 DEF EndsSearch
  <2>1. SearchTypeOK'
    BY <1>0 DEF SearchTypeOK
  <2>2. LapsInOrder'
    BY DEF SearchInv, LapsInOrder
  <2>3. ReportedWereBest'
    BY <1>b DEF SearchInv, ReportedWereBest
  <2> QED BY <1>k, <2>1, <2>2, <2>3 DEF SearchInv
<1>3. ASSUME NEW r \in Backtests, TestsFound(r) PROVE SearchInv'
  <2>1. /\ searchAt = "test" /\ searchAt' = "over" /\ UNCHANGED <<search, lap, draws, tried, best>>
        /\ reported' \in {reported, reported \cup {[lap |-> lap, params |-> best.params]}}
    BY <1>3 DEF TestsFound
  <2>2. best # NoneYet
    BY <2>1 DEF SearchInv, LapsInOrder
  <2>3. PICK e \in tried[lap] : e.params = best.params /\ BestOf(lap, e)
    BY <2>2, SearchMeans DEF SearchesSound, BestIsBest
  <2>4. best.params \in Drawable
    BY <1>0, <2>3
  <2>5. SearchTypeOK'
    BY <1>0, <2>1, <2>4 DEF SearchTypeOK
  <2>6. LapsInOrder'
    BY <1>0, <2>1 DEF SearchInv, LapsInOrder
  <2>7. ReportedWereBest'
    <3> SUFFICES ASSUME NEW x \in reported'
                 PROVE  \E g \in tried[x.lap] : g.params = x.params /\ BestOf(x.lap, g)
      BY <1>b, <2>1 DEF ReportedWereBest
    <3>1. CASE x \in reported
      BY <3>1 DEF SearchInv, ReportedWereBest
    <3>2. CASE x = [lap |-> lap, params |-> best.params]
      BY <2>3, <3>2
    <3> QED BY <2>1, <3>1, <3>2
  <2> QED BY <1>k, <2>1, <2>5, <2>6, <2>7 DEF SearchInv
<1>4. CASE NextWindow
  <2>1. /\ searchAt = "over" /\ lap < NLaps /\ lap' = lap + 1 /\ searchAt' = "search" /\ draws' = 0
        /\ best' = NoneYet /\ search' = search /\ tried' = tried /\ reported' = reported
    BY <1>4 DEF NextWindow
  <2>2. lap + 1 \in Laps /\ tried[lap + 1] = {}
    BY <1>0, <2>1 DEF Laps, SearchInv, LapsInOrder
  <2>3. SearchTypeOK'
    BY <1>0, <2>1, <2>2 DEF SearchTypeOK, NoneYet
  <2>4. BestHeld' /\ NoneBetter' /\ AlwaysTheSame'
    BY <2>1, <2>2 DEF BestHeld, NoneBetter, SearchInv, AlwaysTheSame
  <2>5. LapsInOrder'
    <3>1. \A x \in reported : x.lap \in Int
      BY <1>0 DEF Laps
    <3> QED BY <1>0, <2>1, <3>1 DEF SearchInv, LapsInOrder, Laps
  <2>6. ReportedWereBest'
    BY <1>b, <2>1 DEF SearchInv, ReportedWereBest
  <2> QED BY <2>3, <2>4, <2>5, <2>6 DEF SearchInv
<1>5. CASE UNCHANGED searchVars
  <2> USE <1>5 DEF searchVars
  <2>1. SearchTypeOK' /\ LapsInOrder'
    BY DEF SearchInv, SearchTypeOK, LapsInOrder
  <2>2. ReportedWereBest'
    BY <1>b DEF SearchInv, ReportedWereBest
  <2> QED BY <1>k, <2>1, <2>2 DEF SearchInv
<1> QED BY <1>1, <1>2, <1>3, <1>4, <1>5 DEF SearchNext

\* However many windows, candidates and results there are, a search ends with the best that it tried
\* on its own rows, and a window's test is reported with it
\* (_evaluate_combination, walk_forward_validation, WalkForwardValidator.run, cmd_search).
THEOREM SearchesHold == SearchSpec => []SearchesSound
<1> QED BY SearchBegins, SearchStep, SearchMeans, PTL DEF SearchSpec

----
(* The meta-model's directory: a training that is alone in it has left in    *)
(* its files what it saved, so that its manifest names one training; what a   *)
(* load from a sound directory has read so far is what still stands there.    *)
Got(pc) ==
    CASE pc = "model" -> {"columns"}
      [] pc = "calibrator" -> {"columns", "model"}
      [] pc = "training" -> {"columns", "model", "calibrator"}
      [] pc = "metrics" -> {"columns", "model", "calibrator", "training"}
      [] pc = "done" -> Read
      [] OTHER -> {}
FileOf(a) == IF a = "model" THEN ModelName(manifest.native) ELSE a
Named == Saved \cup {ModelName(manifest.native)}

AloneIn(t) == training[t].pc # 0 /\ training[t].alone => \A u \in Trainers \ {t} : training[u].pc = 0
SavedOwn(t) ==
    training[t].pc # 0 /\ training[t].alone =>
        \A k \in 1..5 : k < training[t].pc => files[Saves(training[t].native)[k]] = training[t].run
OneManifest ==
    manifest.state = "whole" /\ manifest.alone => \A a, b \in Named : manifest.hash[a] = manifest.hash[b]
UnderWay == loading.pc \notin {"idle", "done"}
ReadSoFar ==
    UnderWay /\ loading.sound =>
        /\ Intact /\ manifest.alone /\ ~Beside
        /\ \A a \in Got(loading.pc) : loading.got[a] = files[FileOf(a)]
FilesCounted ==
    /\ \A n \in FileNames : files[n] \in 0..trained \cup {Torn}
    /\ \A t \in Trainers : training[t].run <= trained
ReadCounted ==
    /\ \A a \in Got(loading.pc) : loading.got[a] \in 1..trained
    /\ "calibrator" \in Got(loading.pc) => loading.got["calibrator"] \notin flatRuns
    /\ flatRuns \subseteq 1..trained

ArtifactInv ==
    /\ ArtifactTypeOK /\ OneManifest /\ ReadSoFar /\ LoadedTogether /\ FilesCounted /\ ReadCounted
    /\ \A t \in Trainers : AloneIn(t) /\ SavedOwn(t)

TrainType == [pc : 0..6, run : 0..NTrainings, native : BOOLEAN, alone : BOOLEAN]
ManifestType == [state : {"none", "whole", "torn"}, hash : [FileNames -> Contents],
                 native : BOOLEAN, signed : BOOLEAN, alone : BOOLEAN]
LoadType == [pc : {"idle", "columns", "model", "calibrator", "training", "metrics", "done"},
             native : BOOLEAN, sound : BOOLEAN, got : [Read -> Contents]]

LEMMA ArtifactTyped ==
    ASSUME ArtifactTypeOK
    PROVE  /\ files \in [FileNames -> Contents] /\ manifest \in ManifestType /\ loading \in LoadType
           /\ training \in [Trainers -> TrainType] /\ trained \in 0..NTrainings /\ flatRuns \subseteq Trainings
           /\ NTrainings \in Nat /\ trained \in Nat
BY ArtifactAssumption DEF ArtifactTypeOK, TrainType, ManifestType, LoadType

LEMMA NamesApart ==
    /\ Read = {"calibrator", "columns", "training", "metrics", "model"}
    /\ FileNames = {"calibrator", "columns", "training", "metrics", "ubj", "joblib"}
    /\ \A native \in BOOLEAN : ModelName(native) \in {"ubj", "joblib"}
    /\ \A native \in BOOLEAN, k \in 1..5 : Saves(native)[k] \in FileNames
    /\ \A native \in BOOLEAN : \A n \in Saved \cup {ModelName(native)} : \E k \in 1..5 : Saves(native)[k] = n
    /\ \A native \in BOOLEAN : \A k, l \in 1..5 : Saves(native)[k] = Saves(native)[l] => k = l
<1>1. \A native \in BOOLEAN :
        /\ Saves(native)[1] = ModelName(native) /\ Saves(native)[2] = "calibrator" /\ Saves(native)[3] = "columns"
        /\ Saves(native)[4] = "training" /\ Saves(native)[5] = "metrics"
  BY DEF Saves
<1>2. \A native \in BOOLEAN : ModelName(native) \in {"ubj", "joblib"}
  BY DEF ModelName
<1>3. 1..5 = {1, 2, 3, 4, 5}
  OBVIOUS
<1> QED BY <1>1, <1>2, <1>3 DEF Read, FileNames, Saved

LEMMA ArtifactBegins == ArtifactInit => ArtifactInv
<1> SUFFICES ASSUME ArtifactInit PROVE ArtifactInv
  OBVIOUS
<1> USE DEF ArtifactInit
<1>1. 0 \in Contents /\ 0 \in 0..NTrainings
  BY ArtifactAssumption DEF Contents, Torn
<1>2. NoFiles \in [FileNames -> Contents] /\ \A n \in FileNames : NoFiles[n] = 0
  BY <1>1 DEF NoFiles
<1>3. manifest \in ManifestType /\ manifest.state = "none"
  BY <1>2 DEF NoManifest, Manifest, ManifestType
<1>4. \A t \in Trainers : training[t] \in TrainType /\ training[t].pc = 0 /\ training[t].run = 0
  <2>1. Resting0 = [pc |-> 0, run |-> 0, native |-> TRUE, alone |-> TRUE] /\ 0 \in 0..6
    BY DEF Resting0, TrainerAt
  <2>2. Resting0 \in TrainType /\ Resting0.pc = 0 /\ Resting0.run = 0
    BY <1>1, <2>1 DEF TrainType
  <2> HIDE DEF Resting0
  <2> QED BY <2>2
<1>5. loading \in LoadType /\ loading.pc = "idle"
  BY <1>1 DEF NoLoad, Loads, LoadType
<1>6. ArtifactTypeOK
  <2>1. training \in [Trainers -> TrainType]
    BY <1>4
  <2> QED BY <1>1, <1>2, <1>3, <1>5, <2>1 DEF ArtifactTypeOK, TrainType, ManifestType, LoadType
<1>7. Got(loading.pc) = {}
  BY <1>5 DEF Got
<1> QED BY <1>2, <1>3, <1>4, <1>5, <1>6, <1>7
        DEF ArtifactInv, OneManifest, ReadSoFar, UnderWay, LoadedTogether, FilesCounted, ReadCounted, AloneIn, SavedOwn

LEMMA ArtifactMeans == ArtifactInv => ArtifactsCohere
<1> SUFFICES ASSUME ArtifactInv PROVE ArtifactsCohere
  OBVIOUS
<1>1. ASSUME loading.pc = "done"
      PROVE  /\ \A a \in Read : loading.got[a] \in Trainings
             /\ loading.got["calibrator"] \notin flatRuns
  <2>1. Got(loading.pc) = Read /\ "calibrator" \in Read
    BY <1>1, NamesApart DEF Got
  <2>2. trained \in 0..NTrainings /\ NTrainings \in Nat
    BY ArtifactTyped DEF ArtifactInv
  <2> QED BY <2>1, <2>2 DEF ArtifactInv, ReadCounted, Trainings
<1> QED BY <1>1 DEF ArtifactInv, ArtifactsCohere, LoadedWhole

\* After a write no load under way counts as one from a sound directory.
LEMMA DisturbsKeeps ==
    ASSUME ArtifactInv, Disturbs, UNCHANGED <<trained, flatRuns>>
    PROVE  loading' \in LoadType /\ ReadSoFar' /\ LoadedTogether' /\ ReadCounted'
<1>1. loading \in LoadType
  BY ArtifactTyped DEF ArtifactInv
<1>2. /\ loading'.pc = loading.pc /\ loading'.got = loading.got /\ loading'.native = loading.native
      /\ loading'.sound = (loading.sound /\ loading.pc \in {"idle", "done"})
      /\ loading' = [pc |-> loading'.pc, native |-> loading'.native, sound |-> loading'.sound, got |-> loading'.got]
  BY DEF Disturbs, Loads
<1>3. loading' \in LoadType
  BY <1>1, <1>2 DEF LoadType
<1>4. ReadSoFar'
  BY <1>2 DEF ReadSoFar, UnderWay
<1>5. LoadedTogether' /\ ReadCounted'
  BY <1>2 DEF ArtifactInv, LoadedTogether, ReadCounted
<1> QED BY <1>3, <1>4, <1>5

\* A training begins: it is alone if nobody else was at it, and nobody else is from now on.
LEMMA TrainingBegins ==
    ASSUME ArtifactInv, NEW t \in Trainers, NEW native \in BOOLEAN, NEW even \in BOOLEAN,
           TrainsModel(t, native, even)
    PROVE  ArtifactInv'
<1>1. /\ files \in [FileNames -> Contents] /\ manifest \in ManifestType /\ loading \in LoadType
      /\ training \in [Trainers -> TrainType] /\ trained \in 0..NTrainings /\ flatRuns \subseteq Trainings
      /\ NTrainings \in Nat /\ trained \in Nat
  BY ArtifactTyped DEF ArtifactInv
<1>2. /\ trained < NTrainings /\ trained' = trained + 1 /\ flatRuns' \in {flatRuns, flatRuns \cup {trained + 1}}
      /\ files' = files /\ manifest' = manifest /\ loading' = loading
      /\ training' = [u \in Trainers |->
            IF u = t THEN TrainerAt(1, trained + 1, native, AtTraining = {})
            ELSE TrainerAt(training[u].pc, training[u].run, training[u].native, FALSE)]
  BY DEF TrainsModel
<1>3. /\ training'[t].pc = 1 /\ training'[t].run = trained + 1 /\ training'[t].native = native
      /\ training'[t].alone = (AtTraining = {}) /\ training'[t] \in TrainType
  <2>1. training'[t] = [pc |-> 1, run |-> trained + 1, native |-> native, alone |-> (AtTraining = {})]
    BY <1>2 DEF TrainerAt
  <2>2. (AtTraining = {}) \in BOOLEAN /\ trained + 1 \in 0..NTrainings
    BY <1>1, <1>2
  <2> QED BY <2>1, <2>2 DEF TrainType
<1>4. ASSUME NEW u \in Trainers \ {t}
      PROVE  /\ training'[u].pc = training[u].pc /\ training'[u].run = training[u].run
             /\ ~training'[u].alone /\ training'[u] \in TrainType
  <2>1. training'[u] = [pc |-> training[u].pc, run |-> training[u].run, native |-> training[u].native, alone |-> FALSE]
    BY <1>2, <1>4 DEF TrainerAt
  <2>2. training[u] \in TrainType
    BY <1>1
  <2> QED BY <2>1, <2>2 DEF TrainType
<1>5. ArtifactTypeOK'
  <2>1. training' \in [Trainers -> TrainType]
    <3>1. \A u \in Trainers : training'[u] \in TrainType
      BY <1>3, <1>4
    <3>2. training' = [u \in Trainers |-> training'[u]]
      BY <1>2
    <3> QED BY <3>1, <3>2
  <2>2. trained' \in 0..NTrainings /\ flatRuns' \subseteq Trainings
    BY <1>1, <1>2 DEF Trainings
  <2> QED BY <1>1, <1>2, <2>1, <2>2 DEF ArtifactTypeOK, TrainType, ManifestType, LoadType
<1>6. OneManifest' /\ ReadSoFar' /\ LoadedTogether'
  BY <1>2 DEF ArtifactInv, OneManifest, Named, ReadSoFar, UnderWay, Intact, Beside, FileOf, LoadedTogether
<1>7. FilesCounted'
  <2>1. \A n \in FileNames : files'[n] \in 0..trained' \cup {Torn}
    BY <1>1, <1>2 DEF ArtifactInv, FilesCounted
  <2>2. \A u \in Trainers : training[u].run <= trained /\ training[u].run \in Nat
    BY <1>1 DEF ArtifactInv, FilesCounted, TrainType
  <2>3. \A u \in Trainers : training'[u].run <= trained'
    <3> SUFFICES ASSUME NEW u \in Trainers PROVE training'[u].run <= trained + 1
      BY <1>2
    <3>1. CASE u = t
      BY <1>1, <1>3, <3>1
    <3>2. CASE u # t
      BY <1>1, <1>4, <2>2, <3>2
    <3> QED BY <3>1, <3>2
  <2> QED BY <2>1, <2>3 DEF FilesCounted
<1>8. ReadCounted'
  BY <1>1, <1>2 DEF ArtifactInv, ReadCounted
<1>9. ASSUME NEW u \in Trainers PROVE AloneIn(u)' /\ SavedOwn(u)'
  <2>1. CASE u = t
    <3>1. AloneIn(t)'
      <4> SUFFICES ASSUME AtTraining = {}, NEW v \in Trainers \ {t} PROVE training'[v].pc = 0
        BY <1>3 DEF AloneIn
      <4>1. training[v].pc = 0
        BY DEF AtTraining
      <4> QED BY <1>4, <4>1
    <3>2. SavedOwn(t)'
      BY <1>3 DEF SavedOwn
    <3> QED BY <2>1, <3>1, <3>2
  <2>2. CASE u # t
    BY <1>4, <2>2 DEF AloneIn, SavedOwn
  <2> QED BY <2>1, <2>2
<1> QED BY <1>5, <1>6, <1>7, <1>8, <1>9 DEF ArtifactInv

LEMMA SavesKeeps ==
    ASSUME ArtifactInv, NEW t \in Trainers, SavesFile(t)
    PROVE  ArtifactInv'
<1>1. /\ files \in [FileNames -> Contents] /\ manifest \in ManifestType /\ loading \in LoadType
      /\ training \in [Trainers -> TrainType] /\ trained \in 0..NTrainings /\ flatRuns \subseteq Trainings
      /\ NTrainings \in Nat /\ trained \in Nat
  BY ArtifactTyped DEF ArtifactInv
<1> DEFINE pc == training[t].pc
           run == training[t].run
           native == training[t].native
           name == Saves(native)[pc]
<1>2. /\ pc \in 1..5 /\ files' = [files EXCEPT ![name] = run]
      /\ training' = [training EXCEPT ![t] = TrainerAt(pc + 1, run, native, training[t].alone)]
      /\ Disturbs /\ manifest' = manifest /\ trained' = trained /\ flatRuns' = flatRuns
  BY DEF SavesFile
<1>3. /\ pc \in 1..5 /\ run \in 0..trained /\ native \in BOOLEAN /\ training[t].alone \in BOOLEAN
      /\ name \in FileNames /\ run \in Contents
  <2>1. /\ run \in 0..NTrainings /\ native \in BOOLEAN /\ training[t].alone \in BOOLEAN
    BY <1>1 DEF TrainType
  <2>2. run <= trained
    BY DEF ArtifactInv, FilesCounted
  <2>3. name \in FileNames
    BY <1>2, <2>1, NamesApart
  <2> QED BY <1>1, <1>2, <2>1, <2>2, <2>3 DEF Contents, Torn
<1>4. /\ training'[t].pc = pc + 1 /\ training'[t].run = run /\ training'[t].native = native
      /\ training'[t].alone = training[t].alone /\ training'[t] \in TrainType
      /\ \A u \in Trainers \ {t} : training'[u] = training[u]
  <2>1. training'[t] = [pc |-> pc + 1, run |-> run, native |-> native, alone |-> training[t].alone]
    BY <1>1, <1>2 DEF TrainerAt
  <2>2. pc + 1 \in 0..6 /\ run \in 0..NTrainings
    BY <1>1, <1>3
  <2> QED BY <1>1, <1>2, <1>3, <2>1, <2>2 DEF TrainType
<1>5. /\ files'[name] = run /\ \A n \in FileNames \ {name} : files'[n] = files[n]
      /\ files' \in [FileNames -> Contents]
  BY <1>1, <1>2, <1>3
<1>6. loading' \in LoadType /\ ReadSoFar' /\ LoadedTogether' /\ ReadCounted'
  BY <1>2, DisturbsKeeps
<1> HIDE DEF pc, run, native, name
<1>7. ArtifactTypeOK'
  <2>1. training' \in [Trainers -> TrainType]
    BY <1>1, <1>2, <1>4
  <2> QED BY <1>1, <1>2, <1>5, <1>6, <2>1 DEF ArtifactTypeOK, TrainType, ManifestType, LoadType
<1>8. OneManifest'
  BY <1>2 DEF ArtifactInv, OneManifest, Named
<1>9. FilesCounted'
  <2>1. \A u \in Trainers : training'[u].run <= trained
    BY <1>1, <1>3, <1>4 DEF ArtifactInv, FilesCounted
  <2>2. \A n \in FileNames : files'[n] \in 0..trained \cup {Torn}
    BY <1>3, <1>5 DEF ArtifactInv, FilesCounted
  <2> QED BY <1>2, <2>1, <2>2 DEF FilesCounted
<1>10. ASSUME NEW u \in Trainers PROVE AloneIn(u)' /\ SavedOwn(u)'
  <2>1. CASE u = t
    <3>1. AloneIn(t)'
      <4>1. pc # 0
        BY <1>3
      <4> QED BY <1>4, <4>1 DEF ArtifactInv, AloneIn, pc
    <3>2. SavedOwn(t)'
      <4> SUFFICES ASSUME training[t].alone, NEW k \in 1..5, k < pc + 1
                   PROVE  files'[Saves(native)[k]] = run
        BY <1>4 DEF SavedOwn
      <4>1. CASE k = pc
        BY <1>5, <4>1 DEF name
      <4>2. CASE k # pc
        <5>1. k < pc /\ pc # 0
          BY <1>3, <4>2
        <5>2. files[Saves(native)[k]] = run
          BY <5>1 DEF ArtifactInv, SavedOwn, pc, run, native
        <5>3. Saves(native)[k] # name /\ Saves(native)[k] \in FileNames
          BY <1>3, <4>2, NamesApart DEF name
        <5> QED BY <1>5, <5>2, <5>3
      <4> QED BY <4>1, <4>2
    <3> QED BY <2>1, <3>1, <3>2
  <2>2. CASE u # t
    <3>1. ~(training[u].pc # 0 /\ training[u].alone)
      BY <1>3, <2>2 DEF ArtifactInv, AloneIn, pc
    <3> QED BY <1>4, <2>2, <3>1 DEF AloneIn, SavedOwn
  <2> QED BY <2>1, <2>2
<1> QED BY <1>6, <1>7, <1>8, <1>9, <1>10 DEF ArtifactInv

\* A trainer has stopped: what holds of the others holds of them still.
LEMMA StopsKeeps ==
    ASSUME ArtifactInv, NEW t \in Trainers, training' = [training EXCEPT ![t] = Resting0], trained' = trained,
           \A u \in Trainers \ {t} : training[u].pc # 0 /\ training[u].alone => UNCHANGED files
    PROVE  /\ training' \in [Trainers -> TrainType] /\ \A u \in Trainers : training'[u].run <= trained'
           /\ \A u \in Trainers : AloneIn(u)' /\ SavedOwn(u)'
<1>1. training \in [Trainers -> TrainType] /\ NTrainings \in Nat /\ trained \in Nat
  BY ArtifactTyped DEF ArtifactInv
<1>2. training'[t] \in TrainType /\ training'[t].pc = 0 /\ training'[t].run = 0
  BY <1>1 DEF Resting0, TrainerAt, TrainType
<1>3. \A u \in Trainers \ {t} : training'[u] = training[u]
  BY <1>1
<1>4. training' \in [Trainers -> TrainType]
  BY <1>1, <1>2
<1>5. \A u \in Trainers : training'[u].run <= trained'
  BY <1>1, <1>2, <1>3 DEF ArtifactInv, FilesCounted
<1>6. ASSUME NEW u \in Trainers PROVE AloneIn(u)' /\ SavedOwn(u)'
  <2>1. CASE u = t
    BY <1>2, <2>1 DEF AloneIn, SavedOwn
  <2>2. CASE u # t
    <3>1. AloneIn(u)'
      BY <1>2, <1>3, <2>2 DEF ArtifactInv, AloneIn
    <3>2. SavedOwn(u)'
      BY <1>3, <2>2 DEF ArtifactInv, SavedOwn
    <3> QED BY <3>1, <3>2
  <2> QED BY <2>1, <2>2
<1> QED BY <1>4, <1>5, <1>6

LEMMA ManifestKeeps ==
    ASSUME ArtifactInv, NEW t \in Trainers, NEW signed \in BOOLEAN, SavesManifest(t, signed)
    PROVE  ArtifactInv'
<1> DEFINE native == training[t].native
           named == Saved \cup {ModelName(native)}
           hash == [n \in FileNames |-> IF n \in named THEN files[n] ELSE 0]
<1>1. /\ files \in [FileNames -> Contents] /\ manifest \in ManifestType /\ loading \in LoadType
      /\ training \in [Trainers -> TrainType] /\ trained \in 0..NTrainings /\ flatRuns \subseteq Trainings
      /\ NTrainings \in Nat /\ trained \in Nat
  BY ArtifactTyped DEF ArtifactInv
<1>2. /\ training[t].pc = 6 /\ manifest' = Manifest("whole", hash, native, signed, training[t].alone)
      /\ training' = [training EXCEPT ![t] = Resting0]
      /\ Disturbs /\ files' = files /\ trained' = trained /\ flatRuns' = flatRuns
  BY DEF SavesManifest
<1>3. native \in BOOLEAN /\ training[t].alone \in BOOLEAN
  BY <1>1 DEF TrainType
<1>4. /\ manifest'.state = "whole" /\ manifest'.hash = hash /\ manifest'.native = native
      /\ manifest'.alone = training[t].alone /\ manifest' \in ManifestType
  <2>1. manifest' = [state |-> "whole", hash |-> hash, native |-> native, signed |-> signed, alone |-> training[t].alone]
    BY <1>2 DEF Manifest
  <2>2. hash \in [FileNames -> Contents]
    <3>1. 0 \in Contents
      BY <1>1 DEF Contents, Torn
    <3> QED BY <1>1, <3>1
  <2> HIDE DEF hash
  <2> QED BY <1>3, <2>1, <2>2 DEF ManifestType
<1>5. loading' \in LoadType /\ ReadSoFar' /\ LoadedTogether' /\ ReadCounted'
  BY <1>2, DisturbsKeeps
<1>6. /\ training' \in [Trainers -> TrainType] /\ \A u \in Trainers : training'[u].run <= trained'
      /\ \A u \in Trainers : AloneIn(u)' /\ SavedOwn(u)'
  BY <1>2, StopsKeeps
<1>7. ArtifactTypeOK'
  BY <1>1, <1>2, <1>4, <1>5, <1>6 DEF ArtifactTypeOK, TrainType, ManifestType, LoadType
<1>8. OneManifest'
  <2> SUFFICES ASSUME training[t].alone, NEW a \in named, NEW b \in named PROVE hash[a] = hash[b]
    BY <1>4 DEF OneManifest, Named
  <2>1. ASSUME NEW n \in named PROVE hash[n] = training[t].run
    <3>1. PICK k \in 1..5 : Saves(native)[k] = n
      BY <1>3, <2>1, NamesApart
    <3>2. k < 6
      OBVIOUS
    <3>3. files[n] = training[t].run
      BY <1>2, <3>1, <3>2 DEF ArtifactInv, SavedOwn
    <3>4. n \in FileNames
      BY <1>3, <3>1, NamesApart
    <3> QED BY <2>1, <3>3, <3>4
  <2> QED BY <2>1
<1>9. FilesCounted'
  BY <1>2, <1>6 DEF ArtifactInv, FilesCounted
<1> QED BY <1>5, <1>6, <1>7, <1>8, <1>9 DEF ArtifactInv

LEMMA DiesKeeps ==
    ASSUME ArtifactInv, NEW t \in Trainers, NEW torn \in BOOLEAN, TrainerDies(t, torn)
    PROVE  ArtifactInv'
<1>1. /\ files \in [FileNames -> Contents] /\ manifest \in ManifestType /\ loading \in LoadType
      /\ training \in [Trainers -> TrainType] /\ trained \in 0..NTrainings /\ flatRuns \subseteq Trainings
      /\ NTrainings \in Nat /\ trained \in Nat
  BY ArtifactTyped DEF ArtifactInv
<1> DEFINE pc == training[t].pc
           name == Saves(training[t].native)[pc]
           broken == Manifest("torn", NoFiles, TRUE, FALSE, TRUE)
<1>2. /\ pc # 0 /\ training' = [training EXCEPT ![t] = Resting0]
      /\ files' = IF torn /\ pc \in 1..5 THEN [files EXCEPT ![name] = Torn] ELSE files
      /\ manifest' = IF torn /\ pc = 6 THEN broken ELSE manifest
      /\ (torn => Disturbs) /\ (~torn => loading' = loading)
      /\ trained' = trained /\ flatRuns' = flatRuns
  BY DEF TrainerDies
<1>3. Torn \in Contents /\ 0 \in Contents
  BY <1>1 DEF Contents, Torn
<1>4. broken \in ManifestType /\ broken.state = "torn"
  <2>1. NoFiles \in [FileNames -> Contents]
    BY <1>3 DEF NoFiles
  <2> QED BY <2>1 DEF Manifest, ManifestType
<1> HIDE DEF broken
<1>5. files' \in [FileNames -> Contents] /\ \A n \in FileNames : files'[n] \in {files[n], Torn}
  BY <1>1, <1>2, <1>3
<1>6. ASSUME NEW u \in Trainers \ {t}, training[u].pc # 0, training[u].alone PROVE FALSE
  BY <1>2, <1>6 DEF ArtifactInv, AloneIn
<1>7. /\ training' \in [Trainers -> TrainType] /\ \A u \in Trainers : training'[u].run <= trained'
      /\ \A u \in Trainers : AloneIn(u)' /\ SavedOwn(u)'
  BY <1>2, <1>6, StopsKeeps
<1>8. loading' \in LoadType /\ ReadSoFar' /\ LoadedTogether' /\ ReadCounted'
  <2>1. CASE torn
    BY <1>2, <2>1, DisturbsKeeps
  <2>2. CASE ~torn
    <3>1. files' = files /\ manifest' = manifest /\ loading' = loading /\ trained' = trained /\ flatRuns' = flatRuns
      BY <1>2, <2>2
    <3> QED BY <1>1, <3>1
            DEF ArtifactInv, ReadSoFar, UnderWay, Intact, Beside, FileOf, LoadedTogether, ReadCounted
  <2> QED BY <2>1, <2>2
<1>9. manifest' \in ManifestType /\ OneManifest'
  BY <1>1, <1>2, <1>4 DEF ArtifactInv, OneManifest, Named
<1>10. ArtifactTypeOK'
  BY <1>1, <1>2, <1>5, <1>7, <1>8, <1>9 DEF ArtifactTypeOK, TrainType, ManifestType, LoadType
<1>11. FilesCounted'
  BY <1>2, <1>5, <1>7 DEF ArtifactInv, FilesCounted
<1> QED BY <1>7, <1>8, <1>9, <1>10, <1>11 DEF ArtifactInv

\* The load goes on while the directory stands.
LEMMA LoadMoves ==
    ASSUME ArtifactInv, UNCHANGED <<files, manifest, training, trained, flatRuns>>,
           loading' \in LoadType, ReadSoFar', LoadedTogether', ReadCounted'
    PROVE  ArtifactInv'
<1>1. /\ files' = files /\ manifest' = manifest /\ training' = training /\ trained' = trained /\ flatRuns' = flatRuns
  OBVIOUS
<1>2. ArtifactTypeOK'
  BY <1>1 DEF ArtifactInv, ArtifactTypeOK, LoadType
<1>3. OneManifest' /\ FilesCounted' /\ \A t \in Trainers : AloneIn(t)' /\ SavedOwn(t)'
  BY <1>1 DEF ArtifactInv, OneManifest, Named, FilesCounted, AloneIn, SavedOwn
<1> QED BY <1>2, <1>3 DEF ArtifactInv

LEMMA VerifiesKeeps ==
    ASSUME ArtifactInv, NEW trust \in TrustModes, NEW native \in BOOLEAN, NEW verifiable \in BOOLEAN,
           Verifies(trust, native, verifiable)
    PROVE  ArtifactInv'
<1>1. /\ UNCHANGED <<files, manifest, training, trained, flatRuns>>
      /\ loading' = Loads("columns", native, manifest.state # "none" /\ manifest.alone /\ ~Beside, NoLoad.got)
      /\ manifest.state # "none" => Intact
  BY DEF Verifies
<1>2. NoLoad.got \in [Read -> Contents]
  BY ArtifactAssumption DEF NoLoad, Loads, Contents, Torn
<1>3. /\ loading'.pc = "columns" /\ loading'.sound = (manifest.state # "none" /\ manifest.alone /\ ~Beside)
      /\ loading' \in LoadType
  <2>1. PICK sound \in BOOLEAN : sound = (manifest.state # "none" /\ manifest.alone /\ ~Beside)
    OBVIOUS
  <2>2. PICK got \in [Read -> Contents] : got = NoLoad.got
    BY <1>2
  <2>3. loading' = [pc |-> "columns", native |-> native, sound |-> sound, got |-> got]
    BY <1>1, <2>1, <2>2 DEF Loads
  <2> QED BY <2>1, <2>3 DEF LoadType
<1>4. Got(loading'.pc) = {}
  BY <1>3 DEF Got
<1>5. ReadSoFar'
  BY <1>1, <1>3, <1>4 DEF ReadSoFar, Intact, Beside
<1>6. LoadedTogether' /\ ReadCounted'
  BY <1>1, <1>3, <1>4 DEF ArtifactInv, LoadedTogether, ReadCounted
<1> QED BY <1>1, <1>3, <1>5, <1>6, LoadMoves

\* A file is read, of which it is known what stands in it.
LEMMA ReadsKeeps ==
    ASSUME ArtifactInv,
           NEW pc \in {"columns", "model", "calibrator", "training", "metrics"},
           NEW then \in {"model", "calibrator", "training", "metrics", "done"},
           NEW name \in FileNames, NEW as \in Read, Reads(pc, name, as, then),
           Got(then) = Got(pc) \cup {as}, as \notin Got(pc), Got(then) \subseteq Read,
           loading.sound => name = FileOf(as),
           as = "calibrator" => files[name] \notin flatRuns,
           then = "done" => Got(pc) \cup {as} = Read
    PROVE  ArtifactInv'
<1>1. /\ files \in [FileNames -> Contents] /\ manifest \in ManifestType /\ loading \in LoadType
      /\ training \in [Trainers -> TrainType] /\ trained \in 0..NTrainings /\ flatRuns \subseteq Trainings
      /\ NTrainings \in Nat /\ trained \in Nat
  BY ArtifactTyped DEF ArtifactInv
<1> DEFINE got == [loading.got EXCEPT ![as] = files[name]]
<1>2. /\ loading.pc = pc /\ files[name] \in Trainings
      /\ loading' = Loads(then, loading.native, loading.sound, got)
      /\ UNCHANGED <<files, manifest, training, trained, flatRuns>>
  BY DEF Reads
<1>3. loading.got \in [Read -> Contents] /\ loading.native \in BOOLEAN /\ loading.sound \in BOOLEAN
  BY <1>1 DEF LoadType
<1>4. /\ got \in [Read -> Contents] /\ got[as] = files[name]
      /\ \A a \in Read \ {as} : got[a] = loading.got[a]
  BY <1>1, <1>3
<1> HIDE DEF got
<1>5. /\ loading'.pc = then /\ loading'.sound = loading.sound /\ loading'.got = got /\ loading' \in LoadType
  BY <1>2, <1>3, <1>4 DEF Loads, LoadType
<1>6. files[name] \in 1..trained
  BY <1>1, <1>2 DEF ArtifactInv, FilesCounted, Trainings, Torn
<1>7. \A a \in Got(then) : a = as \/ (a \in Got(pc) /\ got[a] = loading.got[a])
  BY <1>4
<1>8. ReadCounted'
  <2>1. \A a \in Got(then) : got[a] \in 1..trained
    BY <1>2, <1>4, <1>6, <1>7 DEF ArtifactInv, ReadCounted
  <2>2. "calibrator" \in Got(then) => got["calibrator"] \notin flatRuns
    BY <1>2, <1>4, <1>7 DEF ArtifactInv, ReadCounted
  <2> QED BY <1>2, <1>5, <2>1, <2>2 DEF ArtifactInv, ReadCounted
<1>9. UnderWay
  BY <1>2 DEF UnderWay
<1>10. ASSUME loading.sound
       PROVE  /\ Intact /\ manifest.alone /\ ~Beside /\ \A a \in Got(then) : got[a] = files[FileOf(a)]
  <2>1. /\ Intact /\ manifest.alone /\ ~Beside /\ \A a \in Got(pc) : loading.got[a] = files[FileOf(a)]
    BY <1>2, <1>9, <1>10 DEF ArtifactInv, ReadSoFar
  <2> QED BY <1>4, <1>7, <1>10, <2>1
<1>11. ReadSoFar'
  BY <1>2, <1>5, <1>10, ZenonT(60) DEF ReadSoFar, Intact, Beside, FileOf
<1>12. LoadedTogether'
  <2> SUFFICES ASSUME then = "done", loading.sound, NEW a \in Read, NEW b \in Read
               PROVE  got[a] = got[b]
    BY <1>5 DEF LoadedTogether
  <2>1. ASSUME NEW c \in Read PROVE FileOf(c) \in Named /\ got[c] = manifest.hash[FileOf(c)]
    <3>1. FileOf(c) \in Named
      BY DEF FileOf, Named, Read
    <3> QED BY <1>10, <3>1 DEF Intact, Named
  <2>2. manifest.hash[FileOf(a)] = manifest.hash[FileOf(b)]
    BY <1>10, <2>1 DEF ArtifactInv, OneManifest, Intact
  <2> QED BY <2>1, <2>2
<1> QED BY <1>2, <1>5, <1>8, <1>11, <1>12, LoadMoves

LEMMA GotGrows ==
    /\ Got("columns") = {} /\ Got("model") = {"columns"} /\ Got("calibrator") = {"columns", "model"}
    /\ Got("training") = {"columns", "model", "calibrator"}
    /\ Got("metrics") = {"columns", "model", "calibrator", "training"} /\ Got("done") = Read
    /\ Got("idle") = {}
BY DEF Got

LEMMA ReadingKeeps ==
    ASSUME ArtifactInv, ReadsColumns \/ ReadsModel \/ ReadsCalibrator \/ ReadsTraining \/ ReadsMetrics
    PROVE  ArtifactInv'
<1>1. CASE ReadsColumns
  BY <1>1, ReadsKeeps, GotGrows, NamesApart DEF ReadsColumns, FileOf
<1>2. CASE ReadsModel
  <2>1. loading.pc = "model" /\ loading.pc \notin {"idle", "done"}
    BY <1>2 DEF ReadsModel, Reads
  <2>2. manifest.native \in BOOLEAN
    BY ArtifactTyped DEF ArtifactInv, ManifestType
  <2>3. loading.sound => /\ files[ModelName(manifest.native)] # 0
                         /\ ~manifest.native => files["ubj"] = 0
    BY <2>1 DEF ArtifactInv, ReadSoFar, UnderWay, Intact, Beside
  <2>4. CASE files["ubj"] # 0 /\ Reads("model", "ubj", "model", "calibrator")
    <3>1. loading.sound => FileOf("model") = "ubj"
      BY <2>2, <2>3, <2>4 DEF FileOf, ModelName
    <3> QED BY <2>4, <3>1, ReadsKeeps, GotGrows, NamesApart
  <2>5. CASE files["ubj"] = 0 /\ Reads("model", "joblib", "model", "calibrator")
    <3>1. loading.sound => FileOf("model") = "joblib"
      BY <2>2, <2>3, <2>5 DEF FileOf, ModelName
    <3> QED BY <2>5, <3>1, ReadsKeeps, GotGrows, NamesApart
  <2> QED BY <1>2, <2>4, <2>5 DEF ReadsModel
<1>3. CASE ReadsCalibrator
  BY <1>3, ReadsKeeps, GotGrows, NamesApart DEF ReadsCalibrator, FileOf
<1>4. CASE ReadsTraining
  BY <1>4, ReadsKeeps, GotGrows, NamesApart DEF ReadsTraining, FileOf
<1>5. CASE ReadsMetrics
  BY <1>5, ReadsKeeps, GotGrows, NamesApart DEF ReadsMetrics, FileOf
<1> QED BY <1>1, <1>2, <1>3, <1>4, <1>5

LEMMA LoadFailsKeeps ==
    ASSUME ArtifactInv, LoadFails
    PROVE  ArtifactInv'
<1>1. UNCHANGED <<files, manifest, training, trained, flatRuns>> /\ loading' = NoLoad
  BY DEF LoadFails
<1>2. loading' \in LoadType /\ loading'.pc = "idle"
  BY <1>1, ArtifactAssumption DEF NoLoad, Loads, LoadType, Contents, Torn
<1>3. ReadSoFar' /\ LoadedTogether' /\ ReadCounted'
  BY <1>1, <1>2, GotGrows DEF ArtifactInv, ReadSoFar, UnderWay, LoadedTogether, ReadCounted
<1> QED BY <1>1, <1>2, <1>3, LoadMoves

LEMMA ArtifactStep == ArtifactInv /\ [ArtifactNext]_artifactVars => ArtifactInv'
<1>1. ASSUME ArtifactInv, NEW t \in Trainers,
             \/ \E native, even \in BOOLEAN : TrainsModel(t, native, even)
             \/ SavesFile(t)
             \/ \E signed \in BOOLEAN : SavesManifest(t, signed)
             \/ \E torn \in BOOLEAN : TrainerDies(t, torn)
      PROVE  ArtifactInv'
  BY <1>1, TrainingBegins, SavesKeeps, ManifestKeeps, DiesKeeps
<1>2. ASSUME ArtifactInv, ArtifactNext PROVE ArtifactInv'
  BY <1>1, <1>2, VerifiesKeeps, ReadingKeeps, LoadFailsKeeps DEF ArtifactNext
<1>3. ASSUME ArtifactInv, UNCHANGED artifactVars PROVE ArtifactInv'
  <2>1. UNCHANGED <<files, manifest, training, trained, flatRuns>> /\ loading' = loading
    BY <1>3 DEF artifactVars
  <2>2. loading' \in LoadType
    BY <1>3, <2>1, ArtifactTyped DEF ArtifactInv
  <2>3. ReadSoFar' /\ LoadedTogether' /\ ReadCounted'
    BY <1>3, <2>1 DEF ArtifactInv, ReadSoFar, UnderWay, Intact, Beside, FileOf, LoadedTogether, ReadCounted
  <2> QED BY <1>3, <2>1, <2>2, <2>3, LoadMoves
<1> QED BY <1>2, <1>3

\* However many trainings there are and processes that train, and wherever one dies: a load that verified the
\* manifest of a sound directory gives out the files of one training, whole
\* (save_artifacts, load_artifacts, _verify_artifact_manifest).
THEOREM ArtifactsHold == ArtifactSpec => []ArtifactsCohere
<1> QED BY ArtifactBegins, ArtifactStep, ArtifactMeans, PTL DEF ArtifactSpec

----
\* The four scripts: what each writes is written once and on the rows it chose, for any number of
\* its runs beside the bot (backfill_trade_ledger, backfill_signal_outcomes, backfill_paper_pnl,
\* import_sqlite_to_postgres).
THEOREM BackfillsHold == (LedgerSpec /\ OutcomeSpec /\ PnlSpec /\ ImportSpec) => []BackfillsSound
<1>1. BackfilledOnce /\ BackfillKeepsFaith /\ RepairSound /\ ImportSound => BackfillsSound
  BY DEF BackfillsSound
<1> QED BY <1>1, BackfilledHolds, FaithHolds, RepairHolds, ImportHolds, PTL

\* The search and the directory of the meta-model together, for every space of parameters, number of
\* windows, trainings and loads.
THEOREM LearntHolds == (SearchSpec /\ ArtifactSpec) => []LearntSound
<1>1. SearchesSound /\ ArtifactsCohere => LearntSound
  BY DEF LearntSound
<1> QED
  BY <1>1, SearchesHold, ArtifactsHold, PTL
=============================================================================
