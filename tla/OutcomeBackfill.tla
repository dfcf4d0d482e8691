---------------------------- MODULE OutcomeBackfill ----------------------------
(***************************************************************************)
(* The script backfill_signal_outcomes over SignalReplayEngine: signals      *)
(* whose outcome is PENDING are replayed on the daily bars after them, and   *)
(* what is decided is written, while the bot goes on: days pass, and the     *)
(* live tracker writes outcomes of its own.                                 *)
(*                                                                         *)
(* All signals are of one ticker; its bars are numbered by trading days, and *)
(* the bar of the day under way changes until the day is over.  Costs and    *)
(* everything computed from a trade but its exit are left out.              *)
(***************************************************************************)
EXTENDS Naturals, Sequences

CONSTANTS
    DayBars,       \* bound on the prices of a day: [o, h, l, c]
    Setups,        \* bound on signals: [dir, actionable, price, stop, target], 0 for no level
    NSignals,      \* bound on signals, numbered by their row id
    TimeoutBars,   \* timeout_bars
    LastTradingDay,
    NoBar

Directions == {"long", "short", "none"}

ASSUME OutcomeAssumption ==
    /\ {NSignals, TimeoutBars, LastTradingDay} \subseteq Nat /\ TimeoutBars > 0
    /\ \A b \in DayBars : /\ {b.o, b.h, b.l, b.c} \subseteq Nat /\ 0 < b.l
                          /\ b.l <= b.o /\ b.l <= b.c /\ b.o <= b.h /\ b.c <= b.h
    /\ \A s \in Setups : s.dir \in Directions /\ {s.price, s.stop, s.target} \subseteq Nat
    /\ NoBar \notin DayBars

VARIABLES
    quotes,      \* the bars of the days that are over
    forming,     \* the bar of the day under way
    signal,      \* the rows of signals: setup, day, decision and outcome_source
    backfill,    \* what the script is doing
    trackedNow,  \* history: signals the live tracker has written
    crossed,     \* history: those it wrote while the script had them in hand
    early        \* history: signals that were decided on a bar that was not final

outcomeVars == <<quotes, forming, signal, backfill, trackedNow, crossed, early>>

SignalIds == 1..NSignals
Pending == [outcome |-> "PENDING", at |-> 0]
NotTracked == [outcome |-> "NOT_TRACKED", at |-> 0]
Tracked == [outcome |-> "LIVE", at |-> 0]
NoSetup == [dir |-> "none", actionable |-> FALSE, price |-> 0, stop |-> 0, target |-> 0]
NoSignal == [setup |-> NoSetup, day |-> 0, decision |-> Pending, source |-> "absent"]
AtRest == [pc |-> "idle", loaded |-> {}, seen |-> <<>>, partial |-> FALSE]

OutcomeTypeOK ==
    /\ Len(quotes) <= LastTradingDay /\ \A i \in 1..Len(quotes) : quotes[i] \in DayBars
    /\ forming \in DayBars \cup {NoBar}
    /\ \A i \in SignalIds : /\ signal[i].setup \in Setups \cup {NoSetup}
                            /\ signal[i].source \in {"absent", "none", "live_tracker", "backfill_daily"}
    /\ backfill.pc \in {"idle", "loaded", "decided"} /\ backfill.loaded \subseteq SignalIds
    /\ trackedNow \subseteq SignalIds /\ crossed \subseteq trackedNow /\ early \subseteq SignalIds

OutcomeInit ==
    /\ quotes = <<>> /\ forming = NoBar
    /\ signal = [i \in SignalIds |-> NoSignal]
    /\ backfill = AtRest
    /\ trackedNow = {} /\ crossed = {} /\ early = {}

-----------------------------------------------------------------------------
(* simulate_single_signal and classify_signals, for a signal of a day on given bars. *)

\* validate_geometry and is_actionable.
Geometric(s) ==
    /\ s.actionable /\ 0 < s.stop /\ 0 < s.target /\ 0 < s.price
    /\ \/ s.dir = "long" /\ s.stop < s.price /\ s.price < s.target
       \/ s.dir = "short" /\ s.target < s.price /\ s.price < s.stop

AtStop(s, p) == IF s.dir = "long" THEN p <= s.stop ELSE p >= s.stop
AtTarget(s, p) == IF s.dir = "long" THEN p >= s.target ELSE p <= s.target
Worst(s, b) == IF s.dir = "long" THEN b.l ELSE b.h
Best(s, b) == IF s.dir = "long" THEN b.h ELSE b.l

\* What a bar does to the position: a gap at the open first, but not in the bar of the entry;
\* then the stop before the target.
ExitIn(s, b, first) ==
    IF ~first /\ AtStop(s, b.o) THEN [outcome |-> "STOP_HIT", at |-> b.o]
    ELSE IF ~first /\ AtTarget(s, b.o) THEN [outcome |-> "TARGET_HIT", at |-> b.o]
    ELSE IF AtStop(s, Worst(s, b)) THEN [outcome |-> "STOP_HIT", at |-> s.stop]
    ELSE IF AtTarget(s, Best(s, b)) THEN [outcome |-> "TARGET_HIT", at |-> s.target]
    ELSE Pending

\* The position is entered at the open of the first bar after the signal's day, unless that is
\* beyond a level, and is left in the first bar that reaches one or at the end of its time.  It
\* stays PENDING (WINDOW_OPEN, NO_DATA) as long as the bars do not tell.
Replayed(s, day, bs) ==
    LET entry == day + 1
        last == IF entry + TimeoutBars - 1 < Len(bs) THEN entry + TimeoutBars - 1 ELSE Len(bs)
        exits == {i \in entry..last : ExitIn(s, bs[i], i = entry) # Pending}
    IN  IF ~Geometric(s) THEN NotTracked
        ELSE IF Len(bs) < entry THEN Pending
        ELSE IF AtStop(s, bs[entry].o) \/ AtTarget(s, bs[entry].o) THEN NotTracked
        ELSE IF exits # {}
             THEN LET i == CHOOSE i \in exits : \A j \in exits : i <= j
                  IN  ExitIn(s, bs[i], i = entry)
        ELSE IF last < entry + TimeoutBars - 1 THEN Pending
        ELSE [outcome |-> "TIMEOUT", at |-> bs[last].c]

-----------------------------------------------------------------------------
(* The market, the scans and the live tracker. *)

\* A day opens; its bar shows what has been traded so far.
DayOpens(b) ==
    /\ forming = NoBar /\ Len(quotes) < LastTradingDay
    /\ forming' = b
    /\ UNCHANGED <<quotes, signal, backfill, trackedNow, crossed, early>>

\* The day is over; it may have gone further than the bar showed.
DayCloses(b) ==
    /\ forming # NoBar
    /\ b.o = forming.o /\ b.h >= forming.h /\ b.l <= forming.l
    /\ quotes' = Append(quotes, b) /\ forming' = NoBar
    /\ UNCHANGED <<signal, backfill, trackedNow, crossed, early>>

\* A scan saves a signal during the session.
SavesRow(i, s) ==
    /\ forming # NoBar /\ signal[i].source = "absent"
    /\ \A j \in SignalIds : j < i => signal[j].source # "absent"
    /\ signal' = [signal EXCEPT ![i] = [setup |-> s, day |-> Len(quotes) + 1,
                                        decision |-> Pending, source |-> "none"]]
    /\ UNCHANGED <<quotes, forming, backfill, trackedNow, crossed, early>>

\* update_outcomes: the tracker closes its position and writes the row, whatever it says.
Tracks(i) ==
    /\ signal[i].source # "absent" /\ i \notin trackedNow
    /\ signal[i].setup.dir = "long" /\ signal[i].setup.actionable
    /\ signal' = [signal EXCEPT ![i].decision = Tracked, ![i].source = "live_tracker"]
    /\ trackedNow' = trackedNow \cup {i}
    /\ crossed' = IF i \in backfill.loaded THEN crossed \cup {i} ELSE crossed
    /\ UNCHANGED <<quotes, forming, backfill, early>>

-----------------------------------------------------------------------------
(* The script. *)

\* load_pending_signals.
LoadsPending ==
    /\ backfill.pc = "idle"
    /\ backfill' = [AtRest EXCEPT !.pc = "loaded",
                      !.loaded = {i \in SignalIds : /\ signal[i].source # "absent"
                                                    /\ signal[i].decision = Pending}]
    /\ UNCHANGED <<quotes, forming, signal, trackedNow, crossed, early>>

\* load_bars: with the bar of the day under way, or without it where the source lags behind.
LoadsBars(partial) ==
    /\ backfill.pc = "loaded"
    /\ partial => forming # NoBar
    /\ backfill' = [backfill EXCEPT !.pc = "decided", !.partial = partial,
                                    !.seen = IF partial THEN Append(quotes, forming) ELSE quotes]
    /\ UNCHANGED <<quotes, forming, signal, trackedNow, crossed, early>>

\* The bars cannot be had: every signal with levels is NO_DATA.
LoadsNothing ==
    /\ backfill.pc = "loaded"
    /\ backfill' = [backfill EXCEPT !.pc = "decided"]
    /\ UNCHANGED <<quotes, forming, signal, trackedNow, crossed, early>>

DecisionFor(i) == Replayed(signal[i].setup, signal[i].day, backfill.seen)
Decides(i) == i \in backfill.loaded /\ DecisionFor(i) # Pending

\* The decision needed the bar that was not final.
NeededForming(i) ==
    /\ backfill.partial
    /\ Replayed(signal[i].setup, signal[i].day, SubSeq(backfill.seen, 1, Len(backfill.seen) - 1)) = Pending

\* apply_decisions: one transaction, by row id and without a look at what the row says now.
Applies ==
    /\ backfill.pc = "decided"
    /\ signal' = [i \in SignalIds |->
            IF Decides(i) THEN [signal[i] EXCEPT !.decision = DecisionFor(i), !.source = "backfill_daily"]
            ELSE signal[i]]
    /\ early' = early \cup {i \in SignalIds : Decides(i) /\ NeededForming(i)}
    /\ backfill' = AtRest
    /\ UNCHANGED <<quotes, forming, trackedNow, crossed>>

\* A dry run, or the script dies: nothing is written.
LeavesOff == /\ backfill.pc # "idle" /\ backfill' = AtRest
             /\ UNCHANGED <<quotes, forming, signal, trackedNow, crossed, early>>

OutcomeNext ==
    \/ \E b \in DayBars : DayOpens(b) \/ DayCloses(b)
    \/ \E i \in SignalIds : Tracks(i) \/ \E s \in Setups : SavesRow(i, s)
    \/ LoadsPending \/ (\E partial \in BOOLEAN : LoadsBars(partial)) \/ LoadsNothing
    \/ Applies \/ LeavesOff

OutcomeSpec == OutcomeInit /\ [][OutcomeNext]_outcomeVars

-----------------------------------------------------------------------------
\* A backfilled outcome is the one any later run with more bars would give, unless it was
\* decided on the bar of a day that was not over (data_ended, WINDOW_OPEN).
ScoreIsFinal ==
    \A i \in SignalIds :
        (signal[i].source = "backfill_daily" /\ i \notin early) =>
            signal[i].decision = Replayed(signal[i].setup, signal[i].day, quotes)

\* An outcome of the live tracker is replaced only if it was written while the script already
\* held the signal for pending (load_pending_signals, apply_decisions).
LiveOutcomeKept ==
    \A i \in trackedNow \ crossed : signal[i].source = "live_tracker"

\* What the script writes lasts, and what it finds stays (backfill_signal_outcomes).
BackfillKeepsFaith == ScoreIsFinal /\ LiveOutcomeKept
=============================================================================
