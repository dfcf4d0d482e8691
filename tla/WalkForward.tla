----------------------------- MODULE WalkForward -----------------------------
(***************************************************************************)
(* How the rows of one frame are cut into rows to train on and rows to test  *)
(* on: by rows (validation), by months, rolling or anchored (backtest), by   *)
(* days (optimizer), with a warm-up around them (recalibrate_champion), and  *)
(* once by shares of the dates (meta-model).  Rows may share a date.         *)
(*                                                                         *)
(* The validator then runs one backtester over all its windows, and reports  *)
(* the diagnostics it finds in it after each run.                            *)
(***************************************************************************)
EXTENDS Integers, Sequences, FiniteSets, FiniteSetsExt

CONSTANTS
    DateFrames, \* sequences of dates in order
    Schemes,    \* records: the kind and its lengths
    MonthDays,  \* the length of a month
    MinRows,    \* the rows without which a backtest gives up at once
    MinDates    \* the dates without which no data set is split

ASSUME WalkForwardAssumption ==
    /\ MonthDays \in Nat \ {0} /\ {MinRows, MinDates} \subseteq Nat
    /\ \A f \in DateFrames :
        f \in Seq(Nat) /\ f # <<>> /\ \A i, j \in 1..Len(f) : i <= j => f[i] <= f[j]
    /\ \A s \in Schemes :
        /\ s.kind \in {"rows", "months", "days", "champion", "split"} /\ s.anchored \in BOOLEAN
        /\ {s.train, s.test, s.step} \subseteq Nat \ {0}
        /\ {s.purge, s.embargo, s.warmup, s.extension} \subseteq Nat
        /\ s.kind \in {"rows", "champion"} => s.purge < s.train
        /\ s.kind = "rows" => s.embargo < s.test
        /\ s.kind = "months" => s.embargo = 0

VARIABLES
    frame, scheme,
    cut,      \* where the training rows of the next window begin: a row or a date
    span,     \* how far they reach, in the scheme's unit
    windows,  \* the windows so far: the rows to train on and to test on
    walk,     \* what the walk is doing, and with which window
    counted,  \* the run whose diagnostics the backtester holds
    told      \* the runs whose diagnostics are reported for each window

walkVars == <<frame, scheme, cut, span, windows, walk, counted, told>>

NRows == Len(frame)
RowsIn(from, upto) == {i \in 1..NRows : from <= i /\ i < upto}
RowsDated(from, upto) == {i \in 1..NRows : from <= frame[i] /\ frame[i] < upto}
NoRun == <<0, "none">>

WalkForwardTypeOK ==
    /\ scheme \in Schemes /\ \A i \in 1..NRows : frame[i] \in Nat
    /\ \A w \in 1..Len(windows) : windows[w].train \cup windows[w].test \subseteq 1..NRows
    /\ walk.pc \in {"cut", "train", "test", "done", "raised"} /\ walk.window \in 1..(Len(windows) + 1)
    /\ Len(told) <= Len(windows)

WalkForwardInit ==
    /\ frame \in DateFrames /\ scheme \in Schemes
    /\ cut = CASE scheme.kind \in {"rows", "split"} -> 1
               [] scheme.kind = "champion" -> scheme.warmup + 1
               [] OTHER -> frame[1]
    /\ span = scheme.train
    /\ windows = <<>> /\ told = <<>>
    /\ walk = [pc |-> "cut", window |-> 1] /\ counted = NoRun

-----------------------------------------------------------------------------
(* One window of each scheme. *)

Cut(train, test) == windows' = Append(windows, [train |-> train, test |-> test]) /\ UNCHANGED walk
CutsOver(pc) == walk' = [walk EXCEPT !.pc = pc] /\ UNCHANGED <<cut, span, windows>>
MovesBy(step) == cut' = cut + step /\ UNCHANGED span

\* build_windows of the validator: a test that begins on or before the last training date raises.
CutsRows ==
    LET end == cut + scheme.train
        train == RowsIn(cut, end - scheme.purge)
        test == RowsIn(end + scheme.embargo, end + scheme.test)
    IN  /\ scheme.kind = "rows"
        /\ IF end + scheme.test > NRows + 1 THEN CutsOver("train")
           ELSE IF frame[Min(test)] <= frame[Max(train)] THEN CutsOver("raised")
           ELSE Cut(train, test) /\ MovesBy(scheme.step)

\* Mutant of Purged: the first rows are dropped.
PurgedInFront(rows) == {i \in rows : Cardinality({j \in rows : j < i}) >= scheme.purge}

Purged(rows) == {i \in rows : Cardinality({j \in rows : j > i}) >= scheme.purge}

\* _build_windows: a window without rows is passed over.
CutsMonths ==
    LET end == cut + span * MonthDays
        stop == end + scheme.test * MonthDays
        train == Purged(RowsDated(cut, end))
        test == RowsDated(end, stop)
    IN  /\ scheme.kind = "months"
        /\ IF stop > frame[NRows] THEN CutsOver("done")
           ELSE /\ IF train # {} /\ test # {} THEN Cut(train, test) ELSE UNCHANGED <<windows, walk>>
                /\ IF scheme.anchored THEN span' = span + scheme.step /\ UNCHANGED cut
                   ELSE MovesBy(scheme.step * MonthDays)

\* walk_forward_validation of the optimizer: slices by date include both ends, and the number of
\* rows is compared with a number of days.
CutsDays ==
    LET end == cut + scheme.train
        stop == end + scheme.test
    IN  /\ scheme.kind = "days"
        /\ IF NRows < scheme.train + scheme.test \/ stop > frame[NRows] THEN CutsOver("done")
           ELSE Cut(RowsDated(cut, end + 1), RowsDated(end, stop + 1)) /\ MovesBy(scheme.test)

\* iter_windows: the frames reach over the window on both sides, and of the trades in the test
\* frame those count that were entered between the dates of the window's first and last row.
CutsChampion ==
    LET end == cut + scheme.train
        first == end + scheme.embargo
        stop == first + scheme.test
        testFrame == RowsIn(first - scheme.warmup, stop + scheme.extension)
    IN  /\ scheme.kind = "champion"
        /\ IF stop > NRows + 1 THEN CutsOver("done")
           ELSE /\ Cut(RowsIn(cut - scheme.warmup, end - scheme.purge),
                       testFrame \cap RowsDated(frame[first], frame[stop - 1] + 1))
                /\ MovesBy(scheme.step)

\* split_dataset: rows to fit, to validate, to calibrate and to test follow one another, and each
\* part judges what came of those before it.
CutsShares ==
    LET days == {frame[i] : i \in 1..NRows}
        Until(n) == {i \in 1..NRows : Cardinality({d \in days : d < frame[i]}) < n}
        Share(pct) == Max({1, (Cardinality(days) * pct) \div 100})
        fitted == Share(scheme.train)
        validated == fitted + Share(scheme.test)
        calibrated == validated + Share(scheme.step)
        Part(from, upto) == [train |-> Until(from), test |-> Until(upto) \ Until(from)]
        parts == <<Part(fitted, validated), Part(validated, calibrated),
                   Part(calibrated, Cardinality(days))>>
    IN  /\ scheme.kind = "split"
        /\ IF Cardinality(days) >= MinDates /\ \A p \in 1..3 : parts[p].test # {}
           THEN windows' = parts /\ walk' = [walk EXCEPT !.pc = "done"] /\ UNCHANGED <<cut, span>>
           ELSE CutsOver("raised")

CutsWindow ==
    /\ walk.pc = "cut"
    /\ CutsRows \/ CutsMonths \/ CutsDays \/ CutsChampion \/ CutsShares
    /\ UNCHANGED <<frame, scheme, counted, told>>

-----------------------------------------------------------------------------
(* WalkForwardValidator.run: one backtester serves all windows.  It counts anew in every run that  *)
(* does not give up at once (Backtester.run).                                                      *)

Counts(rows, part) ==
    counted' = IF Cardinality(rows) < MinRows THEN counted ELSE <<walk.window, part>>

Trains ==
    /\ walk.pc = "train" /\ walk.window <= Len(windows)
    /\ Counts(windows[walk.window].train, "train")
    /\ told' = Append(told, [train |-> counted', test |-> NoRun])
    /\ walk' = [walk EXCEPT !.pc = "test"]
    /\ UNCHANGED <<frame, scheme, cut, span, windows>>

Tests ==
    /\ walk.pc = "test"
    /\ Counts(windows[walk.window].test, "test")
    /\ told' = [told EXCEPT ![walk.window].test = counted']
    /\ walk' = [pc |-> "train", window |-> walk.window + 1]
    /\ UNCHANGED <<frame, scheme, cut, span, windows>>

WalkForwardNext == CutsWindow \/ Trains \/ Tests

WalkForwardSpec == WalkForwardInit /\ [][WalkForwardNext]_walkVars

-----------------------------------------------------------------------------
Distinct == \A i, j \in 1..NRows : i # j => frame[i] # frame[j]
LastTrained(w) == Max(windows[w].train)
FirstTested(w) == Min(windows[w].test)
Pairs == {p \in (1..Len(windows)) \X (1..Len(windows)) : p[1] <= p[2]}

\* "Hard no-leakage invariant": no window tests a date on which it or one before it was trained;
\* the optimizer shares the date of the boundary, and so may the recalibration where rows share
\* a date (build_windows, _build_windows, iter_windows, split_dataset).
TestsAfterTraining ==
    \A p \in Pairs :
        LET last == frame[LastTrained(p[1])]  first == frame[FirstTested(p[2])]
        IN  \/ windows[p[1]].train = {} \/ windows[p[2]].test = {}
            \/ last < first
            \/ last = first /\ (scheme.kind = "days" \/ (scheme.kind = "champion" /\ ~Distinct))

\* Between what a window is trained on and what it is tested on lie as many rows as purge and
\* embargo say.
GapIsKept ==
    (scheme.kind \in {"rows", "months"} \/ (scheme.kind = "champion" /\ Distinct)) =>
        \A w \in 1..Len(windows) : FirstTested(w) - LastTrained(w) - 1 = scheme.purge + scheme.embargo

\* Steps as long as the test test no row twice, but for the boundary of the optimizer.
TestedOnce ==
    (scheme.kind # "champion" \/ Distinct) =>
        \A p \in Pairs :
            p[1] # p[2] /\ (scheme.step >= scheme.test \/ scheme.kind \in {"days", "split"}) =>
                \A i \in windows[p[1]].test \cap windows[p[2]].test :
                    scheme.kind = "days" /\ frame[i] = frame[FirstTested(p[2])]

\* The diagnostics reported for a run are its own; one that gave up at once is given those of the
\* run before it.
ReportsOwnRun ==
    \A w \in 1..Len(told) :
        /\ Cardinality(windows[w].train) >= MinRows => told[w].train = <<w, "train">>
        /\ told[w].test # NoRun =>
               told[w].test = IF Cardinality(windows[w].test) >= MinRows THEN <<w, "test">> ELSE told[w].train

\* Nothing a window is tested on was seen in training, the gap around the boundary is kept, rows
\* count once and diagnostics are a run's own (the schemes above and WalkForwardValidator.run).
NoLookAhead == TestsAfterTraining /\ GapIsKept /\ TestedOnce /\ ReportsOwnRun
=============================================================================
