------------------------------- MODULE Backtest -------------------------------
(***************************************************************************)
(* Backtester runs a strategy over the bars of one ticker in one of two     *)
(* ways: _run_iterative goes from bar to bar, _run_vectorized jumps from     *)
(* entry to exit.  Which one is taken depends on the mode, so both have to   *)
(* make the same trades and the same equity curve of the same bars.         *)
(*                                                                         *)
(* The bars are chosen one by one while the iterative path walks over them;  *)
(* the vectorized path then jumps over the bars chosen.  A bar has its four  *)
(* prices and the signals of the day before; stop and target are the same   *)
(* for every entry, fees and slippage are left out, and the average range    *)
(* that the trailing stop keeps is constant.  The first two bars, whose      *)
(* signals _precalculate_signals clears, are left out.                       *)
(***************************************************************************)
EXTENDS Naturals, Sequences

CONSTANTS
    Shapes,         \* bound on the prices of a bar: [o, h, l, c]
    Stop, Target,   \* stop_loss and target_price of every entry
    Trails,         \* trailing_atr_mult times the range, Off for none
    Off,
    MaxHold,        \* max_hold_bars
    BarsPerDay,     \* bars in a day: one buy a day at most
    Capital,        \* initial_capital
    LastBar         \* bound on the bars that may carry a signal, numbered from 1

ASSUME BacktestAssumption ==
    /\ Stop \in Nat /\ Target \in Nat /\ 0 < Stop /\ Stop < Target
    /\ {MaxHold, BarsPerDay, Capital, LastBar} \subseteq Nat /\ MaxHold > 0 /\ BarsPerDay > 0
    /\ Off \notin Nat /\ Trails \subseteq Nat \cup {Off}
    /\ \A b \in Shapes : /\ {b.o, b.h, b.l, b.c} \subseteq Nat /\ 0 < b.l
                         /\ b.l <= b.o /\ b.l <= b.c /\ b.o <= b.h /\ b.c <= b.h

VARIABLES
    gap,       \* the distance the trailing stop keeps, of Trails
    bars,      \* the bars chosen so far
    walked,    \* the book of the iterative path
    jumped,    \* the book of the vectorized path
    cursor     \* the bar from which the vectorized path goes on

backtestVars == <<gap, bars, walked, jumped, cursor>>

Index == 1..LastBar
Signals == {"enter", "exit", "none"}
NoPosition == [entry |-> 0, price |-> 0, shares |-> 0, peak |-> 0, trail |-> 0]
NoExit == [at |-> 0, reason |-> "none", price |-> 0]

\* What a path keeps: the cash, the open position, the trades, the bar of the last buy and
\* the equity at the end of every bar.
NewBook == [cash |-> Capital, position |-> NoPosition, trades |-> <<>>, lastBuy |-> 0,
            equity |-> [i \in Index |-> Capital]]

BookOK(book) ==
    /\ book.cash \in Nat /\ book.position.shares \in Nat /\ book.lastBuy \in 0..LastBar
    /\ book.equity \in [Index -> Nat] /\ Len(book.trades) <= LastBar

BacktestTypeOK ==
    /\ gap \in Trails /\ Len(bars) <= LastBar /\ cursor \in 1..(LastBar + 1)
    /\ \A i \in 1..Len(bars) : bars[i].shape \in Shapes /\ bars[i].signal \in Signals
    /\ BookOK(walked) /\ BookOK(jumped)

Bar(i) == bars[i].shape
Signal(i) == bars[i].signal

BacktestInit ==
    /\ gap \in Trails /\ bars = <<>>
    /\ walked = NewBook /\ jumped = NewBook /\ cursor = 1

-----------------------------------------------------------------------------
(* Shared by both paths. *)

Held(book) == book.position # NoPosition

\* One buy a day.
MayBuy(book, i) == book.lastBuy = 0 \/ i - book.lastBuy >= BarsPerDay

\* _open_position: whole shares of all the cash, none if it does not reach.
Bought(book, i, bar) ==
    LET shares == book.cash \div bar.o
    IN  IF shares = 0 THEN book
        ELSE [book EXCEPT !.cash = @ - shares * bar.o, !.lastBuy = i,
                          !.position = [entry |-> i, price |-> bar.o, shares |-> shares,
                                        peak |-> bar.c, trail |-> 0]]

\* _close_position.
Sold(book, exit) ==
    LET p == book.position
    IN  [book EXCEPT !.cash = @ + p.shares * exit.price, !.position = NoPosition,
                     !.trades = Append(@, [entry |-> p.entry, bought |-> p.price,
                                           shares |-> p.shares, exit |-> exit])]

\* _simulate_intrabar_exit: gaps at the open first; of a stop and a target in the same bar the
\* stop counts.
IntrabarExit(p, i, bar) ==
    LET trailing == p.trail > Stop
        stop == IF trailing THEN p.trail ELSE Stop
        exit(reason, price) == [at |-> i, reason |-> reason, price |-> price]
    IN  CASE bar.o <= stop -> exit(IF trailing THEN "TRAILING_GAP" ELSE "STOP_GAP", bar.o)
          [] bar.o > stop /\ bar.o >= Target -> exit("TARGET_GAP", bar.o)
          [] bar.o > stop /\ bar.o < Target /\ bar.l <= stop ->
                exit(IF trailing THEN "TRAILING_STOP" ELSE "STOP_LOSS", stop)
          [] bar.l > stop /\ bar.o < Target /\ bar.h >= Target -> exit("TAKE_PROFIT", Target)
          [] OTHER -> NoExit

-----------------------------------------------------------------------------
(* _run_iterative: one bar. *)

\* An exit signal sells at the open.
ExitOnOpen(book, i, bar, signal) ==
    IF Held(book) /\ signal = "exit"
    THEN Sold(book, [at |-> i, reason |-> "SIGNAL_OPEN", price |-> bar.o]) ELSE book

EnterOnOpen(book, i, bar, signal) ==
    IF ~Held(book) /\ signal = "enter" /\ MayBuy(book, i) THEN Bought(book, i, bar) ELSE book

\* _apply_trailing, from the bar after the entry on: the stop of the next bar.
Ratcheted(p, bar) ==
    LET peak == IF bar.c > p.peak THEN bar.c ELSE p.peak
        trail == peak - gap
    IN  IF gap = Off THEN p
        ELSE [p EXCEPT !.peak = peak,
                       !.trail = IF trail > Stop /\ trail > @ THEN trail ELSE @]

WithinBar(book, i, bar) ==
    LET exit == IntrabarExit(book.position, i, bar)
    IN  IF ~Held(book) THEN book
        ELSE IF exit # NoExit THEN Sold(book, exit)
        ELSE IF book.position.entry < i
             THEN [book EXCEPT !.position = Ratcheted(@, bar)]
        ELSE book

\* A form with a plausible bug: the bar of the entry counts as a bar held.
TimeStopABarEarly(book, i, bar) ==
    IF Held(book) /\ i - book.position.entry + 1 >= MaxHold
    THEN Sold(book, [at |-> i, reason |-> "TIME_STOP", price |-> bar.c]) ELSE book

TimeStop(book, i, bar) ==
    IF Held(book) /\ i - book.position.entry >= MaxHold
    THEN Sold(book, [at |-> i, reason |-> "TIME_STOP", price |-> bar.c]) ELSE book

Marked(book, i, bar) ==
    [book EXCEPT !.equity[i] = book.cash + book.position.shares * bar.c]

FinalClose(book, bar) ==
    IF Held(book)
    THEN LET closed == Sold(book, [at |-> LastBar, reason |-> "FINAL_CLOSE", price |-> bar.c])
         IN  [closed EXCEPT !.equity[LastBar] = closed.cash]
    ELSE book

WalkBar(shape, signal) ==
    LET i == Len(bars) + 1
        opened == EnterOnOpen(ExitOnOpen(walked, i, shape, signal), i, shape, signal)
        done == Marked(TimeStop(WithinBar(opened, i, shape), i, shape), i, shape)
    IN  /\ i <= LastBar
        /\ bars' = Append(bars, [shape |-> shape, signal |-> signal])
        /\ walked' = IF i = LastBar THEN FinalClose(done, shape) ELSE done
        /\ UNCHANGED <<gap, jumped, cursor>>

-----------------------------------------------------------------------------
(* _run_vectorized: from one entry to its exit. *)

Highest(S) == CHOOSE x \in S : \A y \in S : y <= x
Lowest(S) == CHOOSE x \in S : \A y \in S : x <= y

\* _find_next_entry_index.
Candidates == {i \in cursor..LastBar : Signal(i) = "enter" /\ MayBuy(jumped, i)}

\* The stop in force during bar k: it follows the closes up to the bar before, that of the
\* entry among them.
StopPath(e, k) ==
    IF gap = Off THEN Stop
    ELSE Highest({Stop} \cup {Bar(j).c - gap : j \in e..(k - 1)})

\* _find_exit_index: the first bar after the entry at which something happens, or the time
\* stop if that comes first.
ExitAfter(e, p) ==
    LET event(k) == \/ Signal(k) = "exit"
                    \/ Bar(k).o <= StopPath(e, k) \/ Bar(k).l <= StopPath(e, k)
                    \/ Bar(k).o >= Target \/ Bar(k).h >= Target
        events == {k \in (e + 1)..LastBar : event(k)}
        first == Lowest(events)
        stop == StopPath(e, first)
        trailing == [p EXCEPT !.trail = IF stop > Stop THEN stop ELSE 0]
    IN  IF events = {} \/ first > e + MaxHold
        THEN IF e + MaxHold > LastBar THEN NoExit
             ELSE [at |-> e + MaxHold, reason |-> "TIME_STOP", price |-> Bar(e + MaxHold).c]
        ELSE IF Signal(first) = "exit"
        THEN [at |-> first, reason |-> "SIGNAL_OPEN", price |-> Bar(first).o]
        ELSE IntrabarExit(trailing, first, Bar(first))

Jumping == Len(bars) = LastBar /\ cursor <= LastBar

\* No entry is left: the cash stays what it is.
JumpToEnd ==
    /\ Jumping /\ Candidates = {}
    /\ jumped' = [jumped EXCEPT !.equity = [i \in Index |-> IF i >= cursor THEN jumped.cash ELSE @[i]]]
    /\ cursor' = LastBar + 1
    /\ UNCHANGED <<gap, bars, walked>>

\* An entry the cash does not reach for is passed over; else the position is closed in the bar
\* of its entry, at its exit, or at the last close.
JumpToExit ==
    LET e == Lowest(Candidates)
        book == Bought([jumped EXCEPT !.equity = [i \in Index |->
                          IF i \in cursor..(e - 1) THEN jumped.cash ELSE @[i]]], e, Bar(e))
        atOnce == IntrabarExit(book.position, e, Bar(e))
        exit == IF atOnce # NoExit THEN atOnce ELSE ExitAfter(e, book.position)
        last == IF exit = NoExit THEN LastBar ELSE exit.at
        marked == [book EXCEPT !.equity = [i \in Index |->
                     IF i \in e..last THEN book.cash + book.position.shares * Bar(i).c ELSE @[i]]]
        closed == Sold(marked, exit)
    IN  /\ Jumping /\ Candidates # {}
        /\ IF ~Held(book)
           THEN jumped' = [book EXCEPT !.equity[e] = book.cash] /\ cursor' = e + 1
           ELSE /\ jumped' = IF exit = NoExit THEN FinalClose(marked, Bar(LastBar))
                             ELSE [closed EXCEPT !.equity[last] = closed.cash]
                /\ cursor' = last + 1
        /\ UNCHANGED <<gap, bars, walked>>

BacktestNext ==
    \/ \E shape \in Shapes, signal \in Signals : WalkBar(shape, signal)
    \/ JumpToEnd \/ JumpToExit

BacktestSpec == BacktestInit /\ [][BacktestNext]_backtestVars

-----------------------------------------------------------------------------
\* The vectorized path holds the stop of an entry's own close against the next bar; the
\* iterative path does not ratchet in the bar of an entry.
RatchetsAtEntry(book) ==
    gap # Off /\ \E n \in 1..Len(book.trades) : Bar(book.trades[n].entry).c - gap > Stop

\* Both paths make the same trades for the same reasons, and the same equity at the end of
\* every bar, unless a trailing stop would already move in the bar of an entry
\* (_run_vectorized, _run_iterative).
PathsAgree ==
    (cursor > LastBar /\ ~RatchetsAtEntry(walked))
        => walked.trades = jumped.trades /\ walked.equity = jumped.equity
=============================================================================
