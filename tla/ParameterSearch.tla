---------------------------- MODULE ParameterSearch ----------------------------
(***************************************************************************)
(* The searches for parameters: StrategyOptimizer over a grid, or at random  *)
(* for every window of a walk forward, whose test is then run with what was  *)
(* found; and the search of recalibrate_champion, which compares with a      *)
(* rounded fitness.                                                         *)
(*                                                                         *)
(* A backtest says the same of the same parameters on the same rows.         *)
(***************************************************************************)
EXTENDS Integers

CONSTANTS
    Drawable,   \* the parameters in the search space
    NLaps,       \* bound on windows; a search by itself is the first
    Iterations,   \* n_iter, --iters
    Backtests,      \* bound on what a backtest gives: [given, ret, edge, trades]
    Grain,        \* what the recalibration rounds to
    MinPool,      \* the trades without which the recalibration counts a fitness as none
    Nobody        \* no parameters

\* A result that is not given is None.  The edge (Sharpe ratio times win rate, at least a tenth
\* each; a half and the win rate) is in hundredths.
ASSUME SearchAssumption ==
    /\ {NLaps, Iterations, Grain, MinPool} \subseteq Nat \ {0} /\ Nobody \notin Drawable
    /\ \A r \in Backtests : /\ r = [given |-> r.given, ret |-> r.ret, edge |-> r.edge, trades |-> r.trades]
                          /\ r.given \in BOOLEAN /\ r.ret \in Int /\ r.edge \in Nat \ {0} /\ r.trades \in Nat

VARIABLES
    search,    \* how candidates are drawn and compared
    lap,      \* the window at work
    searchAt,     \* "search", "test" or "over"
    draws,     \* the candidates drawn in it
    tried,     \* by window: what was tried on its training rows
    best,      \* the best so far: the parameters, the fitness they are held for, and whether it is one
    reported   \* the windows that have a result on their test rows, and its parameters

searchVars == <<search, lap, searchAt, draws, tried, best, reported>>

Laps == 1..NLaps
NoneYet == [params |-> Nobody, score |-> 0, rated |-> FALSE]

SearchTypeOK ==
    /\ search \in {"grid", "random", "recalibrate"} /\ lap \in Laps
    /\ searchAt \in {"search", "test", "over"} /\ draws \in Nat
    /\ tried \in [Laps -> SUBSET [params : Drawable, result : Backtests]]
    /\ best \in [params : Drawable \cup {Nobody}, score : Int, rated : BOOLEAN]
    /\ reported \subseteq [lap : Laps, params : Drawable]

SearchInit ==
    /\ search \in {"grid", "random", "recalibrate"} /\ lap = 1 /\ searchAt = "search" /\ draws = 0
    /\ tried = [w \in Laps |-> {}] /\ best = NoneYet /\ reported = {}

-----------------------------------------------------------------------------
\* _fitness_function and train_fitness, in hundredths.
Fitness(r) ==
    IF search # "recalibrate" /\ (r.ret <= 0 \/ r.trades = 0) THEN 100 * r.ret ELSE r.ret * r.edge

\* The optimizer wants a trade, the recalibration a number of them (else the fitness is -inf).
Rated(r) == r.given /\ (IF search = "recalibrate" THEN r.trades >= MinPool ELSE r.trades > 0)

\* round: half up stands for half to even.
Rounded(x) == ((2 * x + Grain) \div (2 * Grain)) * Grain

\* What a candidate is held for when it is the best.
HeldFor(r) == IF search = "recalibrate" THEN Rounded(Fitness(r)) ELSE Fitness(r)

\* What takes the place of the best: for the recalibration also the first, whatever it is.
Beats(r) ==
    \/ best = NoneYet /\ (search = "recalibrate" \/ Rated(r))
    \/ best # NoneYet /\ Rated(r) /\ (~best.rated \/ Fitness(r) > best.score)

\* _evaluate_combination, and an iteration of cmd_search.
Tries(p, r) ==
    /\ searchAt = "search"
    /\ IF search = "grid" THEN \A e \in tried[lap] : e.params # p ELSE draws < Iterations
    /\ \A e \in tried[lap] : e.params = p => e.result = r
    /\ search = "recalibrate" => r.given
    /\ tried' = [tried EXCEPT ![lap] = @ \cup {[params |-> p, result |-> r]}]
    /\ best' = IF r.given /\ Beats(r) THEN [params |-> p, score |-> HeldFor(r), rated |-> Rated(r)] ELSE best
    /\ draws' = draws + 1
    /\ UNCHANGED <<search, lap, searchAt, reported>>

\* The search is over; a window in which nothing was found is passed over, a grid has no test.
EndsSearch ==
    /\ searchAt = "search"
    /\ IF search = "grid" THEN \A p \in Drawable : \E e \in tried[lap] : e.params = p
       ELSE draws = Iterations
    /\ searchAt' = IF best = NoneYet \/ search = "grid" THEN "over" ELSE "test"
    /\ UNCHANGED <<search, lap, draws, tried, best, reported>>

\* The test with what was found; a test without a result is not reported.
TestsFound(r) ==
    /\ searchAt = "test"
    /\ reported' = IF r.given THEN reported \cup {[lap |-> lap, params |-> best.params]} ELSE reported
    /\ searchAt' = "over"
    /\ UNCHANGED <<search, lap, draws, tried, best>>

\* As if one optimizer went through all windows.
NextWindowWithOptimizerKept ==
    /\ searchAt = "over" /\ search = "random" /\ lap < NLaps
    /\ lap' = lap + 1 /\ searchAt' = "search" /\ draws' = 0
    /\ UNCHANGED <<search, tried, best, reported>>

\* The next window has an optimizer of its own (walk_forward_validation, WalkForwardValidator.run).
NextWindow ==
    /\ searchAt = "over" /\ search = "random" /\ lap < NLaps
    /\ lap' = lap + 1 /\ searchAt' = "search" /\ draws' = 0 /\ best' = NoneYet
    /\ UNCHANGED <<search, tried, reported>>

SearchNext ==
    \/ \E p \in Drawable, r \in Backtests : Tries(p, r)
    \/ EndsSearch \/ (\E r \in Backtests : TestsFound(r)) \/ NextWindow

SearchSpec == SearchInit /\ [][SearchNext]_searchVars

-----------------------------------------------------------------------------
\* e stands for what was tried with it, and nothing rated that was tried in the window is held
\* for more.
BestOf(w, e) ==
    /\ e \in tried[w] /\ e.result.given
    /\ \A f \in tried[w] : Rated(f.result) => Rated(e.result) /\ HeldFor(f.result) <= HeldFor(e.result)

\* What a search ends with was tried on the window's training rows and nothing that was tried
\* there is better, to the rounding of the recalibration; a search that tried something good
\* for anything ends with something (_evaluate_combination, cmd_search).
BestIsBest ==
    /\ best # NoneYet => \E e \in tried[lap] : e.params = best.params /\ BestOf(lap, e)
    /\ best = NoneYet => \A f \in tried[lap] : ~Rated(f.result)

\* The parameters a window's test is reported with are the best of its own search, not of an
\* earlier window's (walk_forward_validation, WalkForwardValidator.run).
ReportedWereBest == \A x \in reported : \E e \in tried[x.lap] : e.params = x.params /\ BestOf(x.lap, e)

\* A candidate that lost is never reported in place of one that won (_fitness_function).
LosersNeverWin ==
    search # "recalibrate" =>
        \A x \in reported : \A e, f \in tried[x.lap] :
            (e.params = x.params /\ e.result.ret <= 0 /\ Rated(f.result)) => f.result.ret <= 0

SearchesSound == BestIsBest /\ ReportedWereBest /\ LosersNeverWin
=============================================================================
