---------------------------- MODULE SignalDecision ----------------------------
(***************************************************************************)
(* StrategyEngine.analyze: how one candidate of a scan becomes a signal or   *)
(* a counted rejection.  Four components score its last bar; gates and caps  *)
(* correct their sum; penalties and the session correct the score again;     *)
(* only then the score is given a type, which risk, the higher timeframe and *)
(* the macro regime may still change.                                       *)
(*                                                                         *)
(* Scores are tenths of a point, and shares of a tenth are cut off.  A       *)
(* reading of the chart is positive where it speaks for a rise and 0 where   *)
(* it is missing or says nothing.                                           *)
(*                                                                         *)
(* Before it, strategy/regime.py: the regime that a history of bars is in.   *)
(* It is computed twice.  The live bot asks after each bar about the bars it *)
(* has (detect_regime, detect_macro_regime); a backtest computes all bars at *)
(* once when it has them all (benchmark_regime_series,                       *)
(* build_macro_regime_series) and looks its own bars up in the result.       *)
(* Indicators are causal and belong to a bar here; 0 stands for a missing    *)
(* one.                                                                     *)
(***************************************************************************)
EXTENDS Integers, Sequences, SequencesExt, FiniteSets, FiniteSetsExt

CONSTANTS
    Benchmarks,     \* MACRO_BENCHMARK_TICKERS
    Markets,        \* bound on the bars that the benchmarks have on a day
    Untraded,       \* a day without a bar
    LastMarketDay,  \* bound
    MinBars,        \* regime_min_bars and MACRO_REGIME_MIN_BARS
    TrendAdx, WeakAdx, DiRatioPct, MomentumPct,   \* _regime_thresholds
    SlopeLookback   \* slope_lookback

Bars == {m[b] : m \in Markets, b \in Benchmarks} \ {Untraded}

\* validate_strategy_params allows a ratio below 100, where a bar is bull and bear at once and
\* the two computations take it for different ones.
ASSUME RegimeAssumption ==
    /\ {MinBars, TrendAdx, WeakAdx, DiRatioPct, MomentumPct, SlopeLookback, LastMarketDay} \subseteq Nat
    /\ WeakAdx <= TrendAdx /\ 100 <= DiRatioPct /\ 0 < MinBars /\ 0 < SlopeLookback
    /\ Bars \subseteq [adx : Nat, plus : Nat, minus : Nat, momentum : Int, sma : Nat, ema : Nat]

VARIABLES
    marketDay,
    frames      \* the bars of each benchmark with their days

regimeVars == <<marketDay, frames>>

RegimeTypeOK ==
    /\ marketDay \in 0..LastMarketDay
    /\ \A b \in Benchmarks : \A i \in 1..Len(frames[b]) :
            frames[b][i].day \in 1..marketDay /\ frames[b][i].bar \in Bars

RegimeInit == marketDay = 0 /\ frames = [b \in Benchmarks |-> <<>>]

\* The market trades, or a paper does not.
MarketTrades(market) ==
    /\ marketDay < LastMarketDay
    /\ marketDay' = marketDay + 1
    /\ frames' = [b \in Benchmarks |->
                    IF market[b] = Untraded THEN frames[b]
                    ELSE Append(frames[b], [day |-> marketDay + 1, bar |-> market[b]])]

RegimeNext == \E market \in Markets : MarketTrades(market)

RegimeSpec == RegimeInit /\ [][RegimeNext]_regimeVars

-----------------------------------------------------------------------------
Rising(bar) ==
    \/ bar.adx >= TrendAdx /\ bar.plus * 100 > bar.minus * DiRatioPct
    \/ bar.adx \in WeakAdx..(TrendAdx - 1) /\ bar.momentum > MomentumPct /\ bar.plus > bar.minus
Falling(bar) ==
    \/ bar.adx >= TrendAdx /\ bar.minus * 100 > bar.plus * DiRatioPct
    \/ bar.adx \in WeakAdx..(TrendAdx - 1) /\ bar.momentum < -MomentumPct /\ bar.minus > bar.plus

\* detect_regime of a frame.
Detected(frame) ==
    LET bar == Last(frame).bar
    IN  IF Len(frame) < MinBars THEN "UNKNOWN"
        ELSE IF Rising(bar) THEN "BULL" ELSE IF Falling(bar) THEN "BEAR" ELSE "SIDEWAYS"

\* benchmark_regime_series of a frame: of less than MinBars, all but the last are unknown.
SeriesOf(frame) ==
    [i \in DOMAIN frame |->
        IF i < MinBars /\ i < Len(frame) THEN "UNKNOWN"
        ELSE IF Falling(frame[i].bar) THEN "BEAR"
        ELSE IF Rising(frame[i].bar) THEN "BULL" ELSE "SIDEWAYS"]

\* The slopes of the two averages up to bar i point in opposite directions.
SlopesOppose(frame, i) ==
    /\ i > SlopeLookback
    /\ LET slope(now, before) == now - before
           sma == slope(frame[i].bar.sma, frame[i - SlopeLookback].bar.sma)
           ema == slope(frame[i].bar.ema, frame[i - SlopeLookback].bar.ema)
       IN  (sma > 0 /\ ema < 0) \/ (sma < 0 /\ ema > 0)

\* What the score of the last bar of a frame is made in, and that of bar i of a backtest.
LiveRegime(frame) == IF SlopesOppose(frame, Len(frame)) THEN "SIDEWAYS" ELSE Detected(frame)
BacktestRegime(frame, i) == IF SlopesOppose(frame, i) THEN "SIDEWAYS" ELSE SeriesOf(frame)[i]

-----------------------------------------------------------------------------
TieBreak == [UNKNOWN |-> 1, BEAR |-> 2, SIDEWAYS |-> 3, BULL |-> 4]

\* aggregate_macro_regime: the most frequent vote; of several the one that ranks highest.
Aggregate(votes) ==
    LET count(r) == Cardinality({b \in DOMAIN votes : votes[b] = r})
        cast == {votes[b] : b \in DOMAIN votes}
    IN  IF cast = {} THEN "UNKNOWN"
        ELSE CHOOSE r \in cast : \A q \in cast \ {r} :
                count(q) < count(r) \/ (count(q) = count(r) /\ TieBreak[q] < TieBreak[r])

\* The bars of a frame, which is sorted, up to a day.
AsOf(frame, day) == SubSeq(frame, 1, Max({0} \cup {i \in DOMAIN frame : frame[i].day <= day}))

\* detect_macro_regime of the benchmarks whose frame is long enough.
LiveMacro(fs) ==
    LET voters == {b \in Benchmarks : Len(fs[b]) >= MinBars}
    IN  Aggregate([b \in voters |-> Detected(fs[b])])

\* A form with a plausible bug: a benchmark that is too young votes, too.
MacroOnWithYoung(day) ==
    LET votesOf(b) == SeriesOf(frames[b])[Len(AsOf(frames[b], day))]
        voters == {b \in Benchmarks : AsOf(frames[b], day) # <<>>}
    IN  Aggregate([b \in voters |-> votesOf(b)])

\* build_macro_regime_series at the last of its dates up to a day: the last vote of each
\* benchmark until then, from its bar MinBars on; before its first date the regime is unknown
\* (_apply_macro_entry_gate).
MacroOn(day) ==
    LET votesOf(b) == SeriesOf(frames[b])[Len(AsOf(frames[b], day))]
        voters == {b \in Benchmarks : Len(AsOf(frames[b], day)) >= MinBars}
    IN  Aggregate([b \in voters |-> votesOf(b)])

-----------------------------------------------------------------------------
\* With the bars that build_macro_regime_series demands, a backtest sees on every day the macro
\* regime that the live gate saw with the bars until then, and in a frame of at least MinBars
\* every score is made in the same regime (benchmark_regime_series, build_macro_regime_series).
RegimesAgree ==
    /\ (\A b \in Benchmarks : Len(frames[b]) >= MinBars) =>
            \A d \in 1..marketDay :
                MacroOn(d) = LiveMacro([b \in Benchmarks |-> AsOf(frames[b], d)])
    /\ \A b \in Benchmarks : Len(frames[b]) >= MinBars =>
            \A i \in 1..Len(frames[b]) :
                BacktestRegime(frames[b], i) = LiveRegime(SubSeq(frames[b], 1, i))

-----------------------------------------------------------------------------
(* The decision.                                                           *)

CONSTANTS
    Profiles,    \* StrategyParams of the profiles
    ChartsSeen,  \* bound on what a last bar reads
    Sessions,    \* bound on the session a candidate is in
    NDiagnosed,  \* bound on the rows of a window that are diagnosed
    StrongBuy, WeakBuy, WeakSell, StrongSell,   \* thresholds that no profile changes
    MaxSignalScore                              \* cap of categorize

ASSUME DecisionAssumption ==
    /\ {StrongBuy, WeakBuy, WeakSell, StrongSell, MaxSignalScore} \subseteq Int
    /\ \A p \in Profiles :
        /\ StrongSell <= p.sell /\ p.sell < WeakSell /\ WeakSell < 0
        /\ 0 < WeakBuy /\ WeakBuy < p.buy /\ p.buy <= StrongBuy
        /\ p.buy <= MaxSignalScore
        \* What penalties and the session can carry over to the other side is not acted on there.
        /\ 130 <= p.buy /\ p.sell <= -80
    /\ Profiles \subseteq
          [buy : Int, sell : Int, maxActionable : Int, sidewaysPct : Int, momentumPct : Int,
           counterTrendPct : Int, extra : Int, normalized : BOOLEAN, confirmOversold : BOOLEAN,
           unconfirmedPct : Int, confirmVolume : BOOLEAN, volumeGate : BOOLEAN, volumeCap : Int,
           chase : BOOLEAN, chaseCap : Int, rideCap : Int, agreement : BOOLEAN, agreementCap : Int]
    /\ ChartsSeen # {}
    /\ ChartsSeen \subseteq
          [rsi : -3..3, stochCross : Int, stochZone : Int, stochLean : Int, cci : Int,
           confirmed : BOOLEAN, hasAverage : BOOLEAN, above : BOOLEAN, wasAbove : BOOLEAN,
           slope : Int, hasSlope : BOOLEAN, adx : Int, di : Int, diCross : Int, smaCross : Int,
           smaTrend : Int, emaCross : Int, macdCross : Int, histogram : Int, heavy : BOOLEAN,
           spike : Int, priceVolume : Int, volumeTrend : Int, obv : Int, band : Int, near : Int,
           rsiDivergence : Int, macdDivergence : Int, stretched : Int, moving : BOOLEAN,
           regime : {"BULL", "BEAR", "SIDEWAYS", "UNKNOWN"}]
    /\ Sessions \subseteq
          [limit : Int, recovers : BOOLEAN, relative : Int, pace : Int, narrow : BOOLEAN]
    /\ NDiagnosed \in Nat
    /\ \A p \in Profiles : /\ {p.chaseCap, p.rideCap, p.volumeCap, p.agreementCap} \subseteq Nat
                            /\ p.sidewaysPct \in 0..100

VARIABLES
    profile,
    phase,      \* how far analyze has come
    candidate,  \* its chart, score and signal
    rejections, \* _current_rejection_counts
    blocks,     \* mtf_confluence_block_enabled, for a diagnosis of the same profile
    tally,      \* what a diagnosis has counted in the rows of a window
    logged      \* the rows it has logged: their score without the rule and with it

decisionVars == <<profile, phase, candidate, rejections>>
diagnosisVars == <<profile, blocks, tally, logged>>

BuyTypes == {"WEAK_BUY", "BUY", "STRONG_BUY"}
SellTypes == {"WEAK_SELL", "SELL", "STRONG_SELL"}
Types == BuyTypes \cup SellTypes \cup {"HOLD", "RADAR"}
Biases == {"LONG", "SHORT", "NEUTRAL"}

NoCandidate == [chart |-> CHOOSE c \in ChartsSeen : TRUE, combined |-> 0, score |-> 0, type |-> "HOLD",
                acts |-> FALSE, bias |-> "NEUTRAL", framed |-> FALSE]

DecisionTypeOK ==
    /\ profile \in Profiles /\ rejections \in 0..2
    /\ phase \in {"new", "scored", "adjusted", "classified", "sized", "signal", "published", "none"}
    /\ candidate.chart \in ChartsSeen /\ candidate.type \in Types /\ candidate.acts \in BOOLEAN
    /\ {candidate.score, candidate.combined} \subseteq -1000..1000
    /\ candidate.bias \in Biases /\ candidate.framed \in BOOLEAN

DecisionInit ==
    /\ profile \in Profiles /\ phase = "new" /\ rejections = 0 /\ candidate = NoCandidate

Clamped(low, x, high) == IF x < low THEN low ELSE IF x > high THEN high ELSE x
Sign(x) == IF x > 0 THEN 1 ELSE IF x < 0 THEN -1 ELSE 0
Share(x, pct) == Sign(x) * ((Sign(x) * x * pct) \div 100)

-----------------------------------------------------------------------------
(* The components. *)

\* Points of a reading from -2 to 2.
Graded(reading, weak, strong) == Sign(reading) * (IF Sign(reading) * reading = 2 THEN strong ELSE weak)

\* score_momentum; RSI and stochastic count for less in the conservative profiles, and an oversold
\* CCI may need the trend's confirmation.
RsiPoints(rsi) == <<-180, -140, -40, 0, 70, 140, 180>>[rsi + 4]
Oversold(p, c, points) ==
    IF p.confirmOversold /\ points > 0 /\ ~c.confirmed THEN Share(points, p.unconfirmedPct) ELSE points
MomentumScore(p, c) ==
    LET oscillators == RsiPoints(c.rsi) + 80 * c.stochCross + 60 * c.stochZone + 30 * c.stochLean
        cci == IF c.cci = 2 THEN Oversold(p, c, 80) ELSE Graded(c.cci, 40, 80)
    IN  Clamped(-450, Share(oscillators, p.momentumPct) + cci, 450)

\* A price on its side of the long average counts with the slope and in a trend, half below it.
AveragePoints(c) ==
    CASE ~c.hasAverage -> 0
      [] c.hasAverage /\ c.above /\ ~c.wasAbove -> 100
      [] c.hasAverage /\ ~c.above /\ c.wasAbove -> -100
      [] c.hasAverage /\ c.above /\ c.wasAbove ->
            IF (c.slope > 0 \/ ~c.hasSlope) /\ c.adx >= 20 THEN 100 ELSE 0
      [] OTHER -> IF (c.slope < 0 \/ ~c.hasSlope) /\ c.adx >= 20 THEN -50 ELSE 0

TrendScore(c) ==
    LET sma == IF c.smaCross # 0 THEN 120 * c.smaCross ELSE 30 * c.smaTrend
        adx == IF c.adx > 25 THEN 80 * c.di ELSE 30 * c.di
    IN  Clamped(-700, AveragePoints(c) + sma + 100 * c.emaCross + 120 * c.macdCross
                        + Graded(c.histogram, 30, 50) + adx + 60 * c.diCross, 700)

VolumeScore(c) ==
    Clamped(-260, (IF c.heavy THEN 80 ELSE 0) + 80 * c.spike + 20 * c.priceVolume
                    + 20 * c.volumeTrend + 40 * c.obv, 260)

StructureScore(p, c) ==
    LET bollinger == IF c.band = 2 THEN Oversold(p, c, 100) ELSE Graded(c.band, 50, 100)
    IN  Clamped(-500, bollinger + 60 * c.near + 150 * c.rsiDivergence + 120 * c.macdDivergence, 500)

Components(p, c) == <<MomentumScore(p, c), TrendScore(c), VolumeScore(c), StructureScore(p, c)>>

\* combine_component_scores: the sum, or the weighted shares of the caps.
Weighed(x, weight, cap) == Sign(x) * ((Sign(x) * x * weight) \div cap)
Combined(p, s) ==
    IF ~p.normalized THEN s[1] + s[2] + s[3] + s[4]
    ELSE Weighed(s[1], 150, 450) + Weighed(s[2], 600, 700) + Weighed(s[3], 150, 260)
            + Weighed(s[4], 100, 500)

-----------------------------------------------------------------------------
(* calculate_score_and_reasons. *)

\* A sum that the momentum carries against the trend is made with less of the momentum.
Suppressed(p, s) ==
    LET against == /\ Sign(s[1]) * Sign(s[2]) = -1
                   /\ Sign(Combined(p, s)) \notin {0, Sign(s[2])}
    IN  IF against THEN [s EXCEPT ![1] = Share(@, p.counterTrendPct)] ELSE s

\* _apply_chase_cap: no strong score for what has already run away.
ChaseCapped(p, c, s, score) ==
    LET stretched == \/ score > 0 /\ (c.band = -2 \/ c.stretched = 1)
                     \/ score < 0 /\ (c.band = 2 \/ c.stretched = -1)
        rides == c.adx >= 30 /\ Sign(s[2]) = Sign(score) /\ Sign(s[1]) = Sign(score)
        cap == IF rides THEN p.rideCap ELSE p.chaseCap
    IN  IF p.chase /\ stretched THEN Clamped(-cap, score, cap) ELSE score

\* Against a volume that tells another story the score is held down.
VolumeCapped(p, c, score) ==
    LET tells(side) == c.obv = side \/ c.priceVolume = side
    IN  IF p.volumeGate /\ score # 0 /\ tells(-Sign(score))
        THEN Clamped(-p.volumeCap, score, p.volumeCap) ELSE score

AgreementCapped(p, s, chased, score) ==
    LET agreeing == Cardinality({i \in 1..4 : chased # 0 /\ Sign(s[i]) = Sign(chased)})
    IN  IF p.agreement /\ agreeing < 2 THEN Clamped(-p.agreementCap, score, p.agreementCap) ELSE score

\* The score of a chart, and whether a gate rejects it.
Scoring(p, c) ==
    LET before == Components(p, c)
        s == Suppressed(p, before)
        chased == ChaseCapped(p, c, before, Combined(p, s))
        flat == c.regime = "SIDEWAYS"
        damped == IF flat THEN Share(chased, p.sidewaysPct) ELSE chased
        magnitude == Sign(damped) * damped
        tooFlat == flat /\ magnitude < p.buy
        moves == c.adx >= 20 \/ c.moving
        tooSlow == damped # 0 /\ ~moves /\ (damped < 0 \/ magnitude < p.buy + p.extra)
        capped == AgreementCapped(p, s, chased, VolumeCapped(p, c, damped))
        unconfirmed == p.confirmVolume /\ capped >= p.buy /\ c.priceVolume # 1
        score == Clamped(-1000, capped, 1000)
    IN  [score |-> score, rejected |-> tooFlat \/ tooSlow \/ unconfirmed \/ score = 0]

-----------------------------------------------------------------------------
(* analyze. *)

Rejected == phase' = "none" /\ rejections' = rejections + 1 /\ UNCHANGED <<profile, candidate>>
MovesOn(to, changed) == phase' = to /\ candidate' = changed /\ UNCHANGED <<profile, rejections>>

\* Too few candles, or no ADX.
LacksData == phase = "new" /\ Rejected

ScoresChart(c) ==
    LET result == Scoring(profile, c)
    IN  /\ phase = "new"
        /\ IF result.rejected THEN Rejected
           ELSE MovesOn("scored", [candidate EXCEPT !.chart = c, !.combined = result.score,
                                                 !.score = result.score])

\* apply_low_adx_penalty: towards zero, and past it where less than the penalty is left.
Trendless(c, score) == IF c.adx < 20 THEN score - 50 * Sign(score) ELSE score

\* apply_session_adjustment.
SessionPoints(s) ==
    Clamped(-80, (IF s.limit = 1 THEN -60 ELSE 0) + (IF s.recovers THEN 40 ELSE 0) + 30 * s.relative
                    + 20 * s.pace + (IF s.narrow THEN -40 ELSE 0), 80)

\* The low ADX, then for a long candidate the currency and the session it is in: a paper locked
\* at its lower limit is no candidate.
Adjusts(currencyRisk, s) ==
    LET trendless == Trendless(candidate.chart, candidate.score)
        exposed == IF trendless > 0 /\ currencyRisk THEN trendless - 50 ELSE trendless
        long == exposed > 0
        score == IF long THEN Clamped(-1000, exposed + SessionPoints(s), 1000) ELSE exposed
    IN  /\ phase = "scored"
        /\ IF trendless = 0 \/ (long /\ s.limit = -1) THEN Rejected
           ELSE MovesOn("adjusted", [candidate EXCEPT !.score = score])

\* classify_signal.
TypeOf(p, score) ==
    CASE score >= StrongBuy -> "STRONG_BUY"
      [] score < StrongBuy /\ score >= p.buy -> "BUY"
      [] score < p.buy /\ score >= WeakBuy -> "WEAK_BUY"
      [] score <= StrongSell -> "STRONG_SELL"
      [] score > StrongSell /\ score <= p.sell -> "SELL"
      [] score > p.sell /\ score <= WeakSell -> "WEAK_SELL"
      [] OTHER -> "HOLD"

\* is_trade_actionable.
MayActOn(p, type, score) ==
    \/ type \in BuyTypes /\ score \in p.buy..p.maxActionable
    \/ type \in SellTypes /\ score <= p.sell

Classifies ==
    /\ phase = "adjusted"
    /\ MovesOn("classified", [candidate EXCEPT !.type = TypeOf(profile, candidate.score)])

\* apply_buy_side_risk: places, correlation, size and meta model may refuse a buy; the others get
\* a plan of a short position.
PassesRisk ==
    /\ phase = "classified"
    /\ MovesOn("sized", [candidate EXCEPT !.acts = MayActOn(profile, candidate.type, candidate.score)])
RefusesBuy == phase = "classified" /\ candidate.type \in BuyTypes /\ Rejected

\* apply_confluence.
Confluent(type, bias) ==
    (type \in BuyTypes => bias = "LONG") /\ (type \in SellTypes => bias = "SHORT")

\* _evaluate_confluence where there is a higher timeframe: a strong candidate beside a neutral one
\* is watched.
FinalType(c, framed, bias) ==
    IF ~framed \/ Confluent(c.type, bias) THEN c.type
    ELSE IF bias = "NEUTRAL" /\ c.score >= profile.buy THEN "RADAR" ELSE "HOLD"

DecidesType(framed, bias) ==
    LET type == FinalType(candidate, framed, bias)
    IN  /\ phase = "sized"
        /\ IF type = "HOLD" THEN Rejected
           ELSE MovesOn("signal", [candidate EXCEPT !.type = type, !.framed = framed, !.bias = bias,
                                                 !.acts = MayActOn(profile, type, candidate.score)])

\* _apply_macro_regime_gate over the signals of a scan.
PassesGate(macro) ==
    LET demoted == macro = "BEAR" /\ candidate.type \in BuyTypes
    IN  /\ phase = "signal"
        /\ MovesOn("published", IF demoted THEN [candidate EXCEPT !.type = "RADAR", !.acts = FALSE]
                             ELSE candidate)

DecisionNext ==
    \/ LacksData \/ \E c \in ChartsSeen : ScoresChart(c)
    \/ \E currencyRisk \in BOOLEAN, s \in Sessions : Adjusts(currencyRisk, s)
    \/ Classifies \/ PassesRisk \/ RefusesBuy
    \/ \E framed \in BOOLEAN, bias \in Biases : DecidesType(framed, bias)
    \/ \E macro \in {"BULL", "BEAR"} : PassesGate(macro)

DecisionSpec == DecisionInit /\ [][DecisionNext]_decisionVars

\* categorize.
Category(type, score) ==
    LET effective == IF score > MaxSignalScore THEN MaxSignalScore ELSE score
    IN  CASE type \in SellTypes -> "SAT"
          [] type \in BuyTypes /\ effective >= profile.buy -> "AL"
          [] type \in BuyTypes \cup {"RADAR"} /\ effective > 0 /\ effective < profile.buy -> "RADAR"
          [] type = "RADAR" /\ effective >= profile.buy -> "RADAR"
          [] OTHER -> "HOLD"

-----------------------------------------------------------------------------
(* diagnose_chase_for_window of run_walk_forward_bist30: what the rule against chasing, and the     *)
(* rule against a volume that tells another story, do to the rows of a tested window.               *)

NoTally == [rows |-> 0, candidates |-> 0, high |-> 0, capped |-> 0, long |-> 0, short |-> 0,
            crossed |-> 0, neutral |-> 0]

DiagnosisInit == profile \in Profiles /\ blocks \in BOOLEAN /\ tally = NoTally /\ logged = <<>>

\* With both rules off, and with the rule against chasing on and the other as the profile has it.
Unruled(p) == [p EXCEPT !.volumeGate = FALSE, !.chase = FALSE]
Ruled(p) == [p EXCEPT !.chase = TRUE]

\* Overextended, by the readings beyond their limits: one at its limit is for the rule alone.
Chases(c, atLimit) == c.band = -2 \/ (c.stretched = 1 /\ ~atLimit)

CappedScore(p, c) == LET with == Scoring(Ruled(p), c) IN IF with.rejected THEN 0 ELSE with.score

\* _diagnose_row, as far as its scores go.
DiagnosedRow(raw, held) == [raw |-> raw, held |-> held]

\* A row: the slopes may contradict each other (crossing), and the rows before it may be too few.
DiagnosesRow(c, atLimit, crossing, enough) ==
    \E raw \in {Scoring(Unruled(profile), c)}, under \in {CappedScore(profile, c)} :
        LET scored == enough /\ ~raw.rejected
            tells(side) == c.obv = side \/ c.priceVolume = side
            chase == scored /\ Chases(c, atLimit)
            high == chase /\ raw.score > profile.buy
            held == IF high THEN under ELSE raw.score
            one(holds) == IF holds THEN 1 ELSE 0
        IN  /\ tally.rows < NDiagnosed
            /\ tally' = [rows |-> tally.rows + 1,
                         crossed |-> tally.crossed + one(enough /\ crossing),
                         neutral |-> tally.neutral + one(enough /\ crossing /\ blocks),
                         long |-> tally.long + one(scored /\ tells(-1) /\ raw.score > 0),
                         short |-> tally.short + one(scored /\ tells(1) /\ raw.score < 0),
                         candidates |-> tally.candidates + one(chase),
                         high |-> tally.high + one(high),
                         capped |-> tally.capped + one(high /\ held < profile.buy)]
            /\ logged' = IF chase THEN Append(logged, DiagnosedRow(raw.score, held)) ELSE logged
            /\ UNCHANGED <<profile, blocks>>

DiagnosisNext ==
    \E c \in ChartsSeen, atLimit, crossing, enough \in BOOLEAN : DiagnosesRow(c, atLimit, crossing, enough)

DiagnosisSpec == DiagnosisInit /\ [][DiagnosisNext]_diagnosisVars

DiagnosisTypeOK ==
    /\ blocks \in BOOLEAN
    /\ tally \in [DOMAIN NoTally -> Nat]
    /\ logged \in Seq([raw : -1000..1000, held : -1000..1000])

-----------------------------------------------------------------------------
\* Whatever penalties, bonuses and caps make of a score, a signal to act on is on the side on
\* which the components put the candidate, in the direction of its higher timeframe, within the
\* band of its profile and of the category of its side (analyze, is_trade_actionable).
ActsOnItsSide ==
    (phase \in {"signal", "published"} /\ candidate.acts) =>
        LET buys == candidate.type \in BuyTypes
            side == IF buys THEN 1 ELSE -1
        IN  /\ buys \/ candidate.type \in SellTypes
            /\ Sign(candidate.combined) = side /\ Sign(candidate.score) = side
            /\ candidate.framed => candidate.bias = (IF buys THEN "LONG" ELSE "SHORT")
            /\ buys => candidate.score \in profile.buy..profile.maxActionable
            /\ ~buys => candidate.score <= profile.sell
            /\ Category(candidate.type, candidate.score) = (IF buys THEN "AL" ELSE "SAT")

\* A candidate becomes a signal or is counted as a rejection, once (_log_candidate_rejected).
CountedOnce == rejections = (IF phase = "none" THEN 1 ELSE 0)

\* The diagnosis counts every candidate among the rows, every high one among the candidates and every
\* capped one among the high ones, and logs each candidate; the rule never lifts a score, whatever else
\* the profile does to it; and where the caps are below the threshold it stops every high one, so
\* that "capped" tells nothing that "high" does not (diagnose_chase_for_window, _apply_chase_cap).
DiagnosisTells ==
    /\ tally.capped <= tally.high /\ tally.high <= tally.candidates /\ tally.candidates <= tally.rows
    /\ tally.neutral = (IF blocks THEN tally.crossed ELSE 0) /\ tally.crossed <= tally.rows
    /\ tally.long + tally.short <= tally.rows
    /\ Len(logged) = tally.candidates /\ \A i \in 1..Len(logged) : logged[i].held <= logged[i].raw
    /\ (profile.chaseCap < profile.buy /\ profile.rideCap < profile.buy) => tally.capped = tally.high

\* What analyze decides about a candidate can be acted on and accounted for.
DecisionsSound == ActsOnItsSide /\ CountedOnce

\* The backtest sees the regimes that the live bot sees, and a score decides in its own sense
\* whatever gates and caps it passes (regime.py, StrategyEngine.analyze).
StrategySound == RegimesAgree /\ DecisionsSound /\ DiagnosisTells
=============================================================================
