---------------------------- MODULE ExitSimulators ----------------------------
(***************************************************************************)
(* The functions of this repository that follow one position bar by bar to   *)
(* its exit, each written anew: the trade contract, the evaluator of a       *)
(* month, the edge diagnosis, the replay of signals; and of the study of      *)
(* trends the shared simulator, the independent one that is to verify it,     *)
(* and the one that enters at random bars.  They see the same bars here, one  *)
(* after the other.  Prices are whole numbers.                              *)
(***************************************************************************)
EXTENDS Integers, Sequences, FiniteSets, SequencesExt, FiniteSetsExt

CONSTANTS
    SimBars,         \* the bars that occur: [o, h, l, c, leave, atr, sig]
    Levels,          \* stops and targets of a position: [stop, target], 0 for none
    Mults,           \* multiples of the ATR that a stop trails by, NoTrail for none
    NoTrail,
    RewardRisk,      \* rr of the edge diagnosis
    HoldLimit,       \* max_hold_sessions, max_hold, timeout_bars
    StudyTrail, MaxStopPct, CushionPermille,
    Notional, ExecPct, FeePct, ExchangePct, StampPct, BsmvPct, MinCommission,
    NSimBars         \* bound on the bars

ASSUME SimulatorsAssumption ==
    /\ {RewardRisk, HoldLimit, NSimBars, StudyTrail} \subseteq Nat \ {0}
    /\ {MaxStopPct, CushionPermille, Notional, ExecPct, FeePct, ExchangePct, StampPct, BsmvPct, MinCommission} \subseteq Nat
    /\ \A b \in SimBars : {b.h, b.l, b.c, b.atr} \subseteq Nat /\ b.o \in Nat \ {0} /\ {b.leave, b.sig} \subseteq BOOLEAN
    /\ \A l \in Levels : {l.stop, l.target} \subseteq Nat
    /\ \A m \in Mults \ {NoTrail} : m \in Nat

VARIABLES
    setup,      \* the levels of the position, and whether the data is at its end
    seen,       \* how many bars were seen, the open of the first and the last of them, and
                \* whether a signal to leave was among the others (history)
    exits,      \* the exit found by each simulator of the levels
    stops,      \* cur_stop and the peak of the closes, for the two that trail
    studies     \* the position and the trades of each simulator of the trend study

simVars == <<setup, seen, exits, stops, studies>>

Followers == {"contract", "evaluator", "edge", "replay", "short"}
Students == {"shared", "independent", "random"}
Open == [reason |-> "open", at |-> 0, price |-> 0]
Flat == [in |-> FALSE, entry |-> 0, stop |-> 0, peak |-> 0, from |-> 0, trades |-> <<>>]

SimTypeOK ==
    /\ setup.trail \in Mults /\ setup.ended \in BOOLEAN
    /\ DOMAIN exits = Followers /\ \A f \in Followers : exits[f].at \in 0..HoldLimit
    /\ \A s \in Students : studies[s].from \in 0..NSimBars /\ studies[s].in \in BOOLEAN

SimInit ==
    /\ setup \in {[stop |-> l.stop, target |-> l.target, trail |-> t, ended |-> FALSE] : l \in Levels, t \in Mults}
    /\ seen = [n |-> 0, entry |-> 0, left |-> FALSE]
    /\ exits = [f \in Followers |-> Open]
    /\ stops = [f \in {"evaluator", "edge"} |-> [stop |-> setup.stop, peak |-> 0]]
    /\ studies = [s \in Students |-> Flat]

Exit(reason, at, price) == [reason |-> reason, at |-> at, price |-> price]

-----------------------------------------------------------------------------
(* Positions with levels; n is the number of the bar b, the first that of the entry. *)

\* calculate_trade_outcome: gaps first, the entry session among them, then within the bar.
ContractExit(n, b) ==
    LET stop == setup.stop > 0
        target == setup.target > 0
        stopHit == stop /\ b.l <= setup.stop
        targetHit == target /\ b.h >= setup.target
    IN  IF stop /\ b.o <= setup.stop THEN Exit("STOP_GAP", n, b.o)
        ELSE IF target /\ b.o >= setup.target THEN Exit("TARGET_GAP", n, b.o)
        ELSE IF stopHit /\ targetHit THEN Exit("SAME_BAR_STOP_FIRST", n, setup.stop)
        ELSE IF stopHit THEN Exit("STOP", n, setup.stop)
        ELSE IF targetHit THEN Exit("TARGET", n, setup.target)
        ELSE IF n = HoldLimit THEN Exit("MAX_HOLD", n, b.c)
        ELSE Open

\* _intrabar_exit of the evaluator.
IntrabarExitOf(stop, target, n, b) ==
    IF stop > 0 /\ b.o <= stop THEN Exit("STOP_GAP", n, b.o)
    ELSE IF target > 0 /\ b.o >= target THEN Exit("TARGET_GAP", n, b.o)
    ELSE IF stop > 0 /\ b.l <= stop THEN Exit("STOP_LOSS", n, stop)
    ELSE IF target > 0 /\ b.h >= target THEN Exit("TAKE_PROFIT", n, target)
    ELSE Open

\* _trail_update: the stop in force on a bar comes of the bar before.
Trailed(s, before) ==
    LET peak == Max({s.peak, before.c})
    IN  [peak |-> peak,
         stop |-> IF setup.trail = NoTrail \/ before.atr = 0 THEN s.stop
                  ELSE Max({s.stop, peak - setup.trail * before.atr})]

StopOnBar(s, n, b) == IF n = 1 THEN [s EXCEPT !.peak = b.c] ELSE Trailed(s, seen.last)

\* evaluate_ticker: a signal to leave counts at the open of every bar but the first.
EvaluatorExit(s, n, b) ==
    LET hit == IntrabarExitOf(s.stop, setup.target, n, b)
    IN  IF n > 1 /\ b.leave THEN Exit("SIGNAL_OPEN", n, b.o)
        ELSE IF hit # Open THEN hit
        ELSE IF n = HoldLimit THEN Exit("MAX_HOLD", n, b.c)
        ELSE Open

\* simulate_exit of the edge diagnosis derives its target from the entry.
EdgeTarget(entry) == IF entry > setup.stop THEN entry + RewardRisk * (entry - setup.stop) ELSE 0

EdgeExit(s, n, b) ==
    LET target == EdgeTarget(IF n = 1 THEN b.o ELSE seen.entry)
    IN  IF n > 1 /\ b.leave THEN Exit("SIGNAL_OPEN", n, b.o)
        ELSE IF s.stop > 0 /\ b.o <= s.stop THEN Exit("STOP_GAP", n, b.o)
        ELSE IF target > 0 /\ b.o >= target THEN Exit("TARGET_GAP", n, b.o)
        ELSE IF s.stop > 0 /\ b.l <= s.stop THEN Exit("STOP_LOSS", n, s.stop)
        ELSE IF target > 0 /\ b.h >= target THEN Exit("TAKE_PROFIT", n, target)
        ELSE IF n = HoldLimit THEN Exit("MAX_HOLD", n, b.c)
        ELSE Open

\* simulate_single_signal, long: an entry beyond a level is no trade.
ReplayExit(n, b) ==
    IF n = 1 /\ b.o <= setup.stop THEN Exit("skipped_gap_through_stop", n, b.o)
    ELSE IF n = 1 /\ b.o >= setup.target THEN Exit("skipped_gap_through_target", n, b.o)
    ELSE IF n > 1 /\ b.o <= setup.stop THEN Exit("SL", n, b.o)
    ELSE IF n > 1 /\ b.o >= setup.target THEN Exit("TP", n, b.o)
    ELSE IF b.l <= setup.stop THEN Exit("SL", n, setup.stop)
    ELSE IF b.h >= setup.target THEN Exit("TP", n, setup.target)
    ELSE IF n = HoldLimit THEN Exit("TIMEOUT", n, b.c)
    ELSE Open

\* The same for a short position, whose bars and levels are those of the long one upside down.
ShortExit(n, b) ==
    LET stop == -setup.stop target == -setup.target
        o == -b.o h == -b.l l == -b.h c == -b.c
    IN  IF n = 1 /\ o >= stop THEN Exit("skipped_gap_through_stop", n, o)
        ELSE IF n = 1 /\ o <= target THEN Exit("skipped_gap_through_target", n, o)
        ELSE IF n > 1 /\ o >= stop THEN Exit("SL", n, o)
        ELSE IF n > 1 /\ o <= target THEN Exit("TP", n, o)
        ELSE IF h >= stop THEN Exit("SL", n, stop)
        ELSE IF l <= target THEN Exit("TP", n, target)
        ELSE IF n = HoldLimit THEN Exit("TIMEOUT", n, c)
        ELSE Open

\* A signal is replayed only if its levels are on either side (validate_geometry).
Replayed == 0 < setup.stop /\ setup.stop < setup.target

-----------------------------------------------------------------------------
(* The trend study *)

\* The stop at the entry: 1.5 ATR, at most MaxStopPct away, and not nearer than the cushion.
FirstStop(entry, atr) ==
    LET near == Max({(2 * entry - 3 * atr) \div 2, (entry * (100 - MaxStopPct)) \div 100})
    IN  IF (entry - near) * 1000 < CushionPermille * entry
        THEN (entry * (1000 - CushionPermille)) \div 1000 ELSE near

Leaves(p, n, price) ==
    [p EXCEPT !.in = FALSE, !.trades = Append(@, [from |-> p.from, to |-> n, price |-> price])]

\* A form with a plausible bug: the bar of the entry is not looked at.
SharedSkipsEntryBar(p, n, b, before) ==
    LET stopNow == Max({p.stop, p.peak - StudyTrail * before.atr})
    IN  IF p.in THEN IF b.l <= stopNow THEN Leaves(p, n, Min({b.o, stopNow}))
                     ELSE [p EXCEPT !.peak = Max({@, b.c})]
        ELSE IF before.sig /\ before.atr # 0
        THEN [p EXCEPT !.in = TRUE, !.entry = b.o, !.stop = FirstStop(b.o, before.atr), !.peak = b.o, !.from = n]
        ELSE p

\* simulate_strategy of alpha_trend_sim, one bar.
SharedStep(p, n, b, before) ==
    LET stopNow == Max({p.stop, p.peak - StudyTrail * before.atr})
        first == FirstStop(b.o, before.atr)
        entered == [p EXCEPT !.in = TRUE, !.entry = b.o, !.stop = first, !.peak = b.o, !.from = n]
    IN  IF p.in THEN IF b.l <= stopNow THEN Leaves(p, n, Min({b.o, stopNow}))
                     ELSE [p EXCEPT !.peak = Max({@, b.c})]
        ELSE IF before.sig /\ before.atr # 0
        THEN IF b.l <= first THEN Leaves(entered, n, first) ELSE entered
        ELSE p

\* simulate_strategy of benchmark_independent, with lagged_peak and day0_stop.
IndependentStep(p, n, b, before) ==
    LET stopNow == Max({p.stop, p.peak - StudyTrail * before.atr})
        entered == [p EXCEPT !.in = TRUE, !.entry = b.o, !.stop = FirstStop(b.o, before.atr), !.peak = b.o, !.from = n]
    IN  IF ~p.in
        THEN IF ~(before.sig /\ before.atr # 0) THEN p
             ELSE IF b.l <= entered.stop THEN Leaves(entered, n, entered.stop) ELSE entered
        ELSE IF b.l <= stopNow THEN Leaves(p, n, IF b.o < stopNow THEN b.o ELSE stopNow)
        ELSE IF b.c > p.peak THEN [p EXCEPT !.peak = b.c] ELSE p

\* simulate_from_entry, entered where the shared simulator enters: it trails on the first bar
\* already, and the close of that bar raises the peak.
RandomStep(p, n, b, before) ==
    LET enters == ~p.in /\ ~studies["shared"].in /\ before.sig /\ before.atr # 0
        q == IF enters THEN [p EXCEPT !.in = TRUE, !.entry = b.o, !.stop = FirstStop(b.o, before.atr),
                                      !.peak = b.o, !.from = n]
             ELSE p
        stopNow == Max({q.stop, q.peak - StudyTrail * before.atr})
    IN  IF ~q.in THEN q
        ELSE IF b.l <= stopNow THEN Leaves(q, n, Min({b.o, stopNow}))
        ELSE [q EXCEPT !.peak = Max({@, b.c})]

-----------------------------------------------------------------------------
FollowedBy(f, n, b) ==
    CASE f = "contract" -> ContractExit(n, b)
      [] f = "evaluator" -> EvaluatorExit(StopOnBar(stops[f], n, b), n, b)
      [] f = "edge" -> EdgeExit(StopOnBar(stops[f], n, b), n, b)
      [] f = "replay" -> IF Replayed THEN ReplayExit(n, b) ELSE Open
      [] f = "short" -> IF Replayed THEN ShortExit(n, b) ELSE Open

StudiedBy(s, n, b) ==
    CASE s = "shared" -> SharedStep(studies[s], n, b, seen.last)
      [] s = "independent" -> IndependentStep(studies[s], n, b, seen.last)
      [] s = "random" -> RandomStep(studies[s], n, b, seen.last)

NextBar(b) ==
    LET n == seen.n + 1 IN
    /\ ~setup.ended /\ n <= NSimBars
    /\ seen' = [n |-> n, entry |-> IF n = 1 THEN b.o ELSE seen.entry, last |-> b,
                left |-> seen.left \/ (n > 1 /\ b.leave)]
    /\ exits' = [f \in Followers |-> IF exits[f] = Open /\ n <= HoldLimit THEN FollowedBy(f, n, b) ELSE exits[f]]
    /\ stops' = [f \in DOMAIN stops |-> IF exits[f] = Open THEN StopOnBar(stops[f], n, b) ELSE stops[f]]
    /\ studies' = IF n = 1 THEN studies ELSE [s \in Students |-> StudiedBy(s, n, b)]
    /\ UNCHANGED setup

\* What each says of a position that is open when the data ends.
AtEnd(f, n, b) ==
    CASE f = "contract" -> Exit("DATA_END", n, b.c)
      [] f = "evaluator" -> Exit("INCOMPLETE", n, 0)
      [] f = "edge" -> Exit("MAX_HOLD", n, b.c)
      [] f = "replay" -> IF Replayed THEN Exit("TIMEOUT", n, b.c) ELSE Open
      [] f = "short" -> IF Replayed THEN Exit("TIMEOUT", n, -b.c) ELSE Open

DataEnds ==
    LET n == seen.n b == seen.last IN
    /\ ~setup.ended /\ n > 0
    /\ setup' = [setup EXCEPT !.ended = TRUE]
    /\ exits' = [f \in Followers |-> IF exits[f] = Open THEN AtEnd(f, n, b) ELSE exits[f]]
    /\ studies' = [s \in Students |-> IF studies[s].in THEN Leaves(studies[s], n, b.c) ELSE studies[s]]
    /\ UNCHANGED <<seen, stops>>

SimNext == (\E b \in SimBars : NextBar(b)) \/ DataEnds

SimSpec == SimInit /\ [][SimNext]_simVars

-----------------------------------------------------------------------------
(* The money of calculate_trade_outcome.  Rates are percent, amounts 10^-6 of a lira. *)

Impact(shares, entry, exit) == shares * (entry + exit) * ExecPct * 10000

Commission(deployed) == Max({deployed * FeePct, MinCommission * 10000}) * 100

Economics(entry, exit) ==
    LET entryFill == entry * (100 + ExecPct)
        exitFill == exit * (100 - ExecPct)
        shares == (Notional * 10000) \div (entryFill * (100 + FeePct + ExchangePct))
        ways == <<shares * entryFill, shares * exitFill>>
        commission == Commission(ways[1]) + Commission(ways[2])
        fees == commission + (commission * BsmvPct) \div 100
                + (ways[1] + ways[2]) * ExchangePct * 100 + ways[2] * StampPct * 100
    IN  [shares |-> shares, deployed |-> ways[1],
         gross |-> shares * (exit - entry) * 1000000,
         profit |-> shares * (exitFill - entryFill) * 10000 - fees,
         total |-> fees + Impact(shares, entry, exit)]

-----------------------------------------------------------------------------
SamePlace(e, f) == e.at = f.at /\ e.price = f.price
Upright(e) == [e EXCEPT !.price = -@]
Plain == ~seen.left /\ setup.trail = NoTrail

\* Who follows the same levels leaves on the same bar at the same price: evaluator and contract as
\* long as no stop trails and no signal says to leave; replay and contract, where the replay refuses
\* what the contract leaves at the open of the entry; a short position and its reflection; the edge
\* diagnosis and the evaluator it mirrors whenever their targets are the same.  A trailing stop
\* never holds longer.  At the end of the data all but the evaluator name the last close.
LevelsAgree ==
    LET contract == exits["contract"] evaluator == exits["evaluator"]
        edge == exits["edge"] replay == exits["replay"]
        told == evaluator.reason # "INCOMPLETE"
    IN  /\ Plain /\ told => SamePlace(evaluator, contract)
        /\ ~told => contract.reason = "DATA_END" \/ ~Plain
        /\ Replayed => /\ SamePlace(replay, contract)
                       /\ Upright(exits["short"]) = replay
                       /\ (replay.reason \in {"skipped_gap_through_stop", "skipped_gap_through_target"})
                             <=> (contract.at = 1 /\ contract.reason \in {"STOP_GAP", "TARGET_GAP"})
        /\ seen.n > 0 /\ setup.target = EdgeTarget(seen.entry) /\ told => edge = evaluator
        /\ contract # Open /\ ~seen.left => evaluator # Open /\ evaluator.at <= contract.at

\* The independent simulator confirms the shared one (TEST 0); entered at the same bar the random
\* one, whose peak takes in the close of that bar, leaves no later.
StudiesAgree ==
    LET shared == studies["shared"].trades random == studies["random"].trades IN
    /\ studies["independent"].trades = shared
    /\ \A t \in Range(shared) : \E r \in Range(random) : r.from = t.from /\ r.to <= t.to

\* Where it does not leave on the bar of the entry, the random one leaves as the shared one: "run
\* the same exit engine" (simulate_from_entry).
SameEngine ==
    \A t \in Range(studies["shared"].trades), r \in Range(studies["random"].trades) :
        r.from = t.from /\ r.to > r.from => r = t

\* What a trade earns is what the prices gave less everything it cost, and no more than the notional
\* is put in.
MoneyAddsUp ==
    LET e == Economics(seen.entry, exits["contract"].price)
    IN  exits["contract"] # Open => e.profit = e.gross - e.total /\ e.deployed <= Notional * 100

\* The three together.
SimulatorsAgree == LevelsAgree /\ StudiesAgree /\ MoneyAddsUp
=============================================================================
