------------------------------ MODULE Indicators ------------------------------
(***************************************************************************)
(* indicators.py on a frame that grows bar by bar: the flags that scoring    *)
(* reads.  Prices are whole numbers; a mean is compared without dividing,    *)
(* and a reading that is a quotient is kept in units of 1/Unit.  A row where *)
(* the code has NaN has no reading: comparisons with it are false.          *)
(***************************************************************************)
EXTENDS Integers, Sequences, FiniteSets, SequencesExt, FiniteSetsExt

CONSTANTS
    ChartBars,                     \* the bars that occur: [h, l, c, v]
    NBars,                         \* bound on the bars
    SmaFast, SmaSlow, RsiPeriod, KPeriod, DPeriod, CciPeriod, BandPeriod, BandSquared, ObvPeriod, Reach,
    FastShift, SlowShift, SignalShift, RangeShift, \* the weight of a new value in an EMA is 2^-shift
    Lookback,                      \* of a divergence
    SpikeTimes,                    \* VOLUME_SPIKE_MULTIPLIER, tenths
    Unit                           \* a multiple of every sum that divides

ASSUME IndicatorsAssumption ==
    /\ {NBars, SmaFast, SmaSlow, RsiPeriod, KPeriod, DPeriod, CciPeriod, BandPeriod, ObvPeriod, Reach, Lookback, Unit}
          \subseteq Nat \ {0}
    /\ {FastShift, SlowShift, SignalShift, RangeShift, SpikeTimes, BandSquared} \subseteq Nat
    /\ FastShift <= SlowShift

VARIABLE frame

Rows == 1..Len(frame)
NaN == {}                          \* a reading is the set of its value, or no value
Is(x) == {x}
Below(x, y) == \E a \in x, b \in y : a < b
NotAbove(x, y) == \E a \in x, b \in y : a <= b

IndicatorsTypeOK == Len(frame) <= NBars /\ Range(frame) \subseteq ChartBars
IndicatorsInit == frame = <<>>
BarComes == \E b \in ChartBars : Len(frame) < NBars /\ frame' = Append(frame, b)
IndicatorsNext == BarComes
IndicatorsSpec == IndicatorsInit /\ [][IndicatorsNext]_frame

Close(i) == frame[i].c
Diff(i) == IF i = 1 THEN 0 ELSE Close(i) - Close(i - 1)
Sum(f(_), a, b) == MapThenSumSet(f, a..b)
From(i, window) == Max({1, i - window + 1})       \* rolling(window, min_periods=1)
Smallest(S) == CHOOSE x \in S : \A y \in S : x <= y

-----------------------------------------------------------------------------
(* Averages, and the crosses of two lines *)

\* ewm(adjust=False) of a row, in units of 2^(-shift * NBars).
Ewm(value(_), shift) ==
    LET w == 2^shift
        e[i \in Rows] == IF i = 1 THEN value(1) * 2^(shift * NBars)
                          ELSE (e[i - 1] * (w - 1) + value(i) * 2^(shift * NBars)) \div w
    IN  e

\* A cross at row i: the side is left that was held or touched on the row before.
CrossAt(fast, slow, i) ==
    IF i > 1 /\ Below(slow[i], fast[i]) /\ NotAbove(fast[i - 1], slow[i - 1]) THEN 1
    ELSE IF i > 1 /\ Below(fast[i], slow[i]) /\ NotAbove(slow[i - 1], fast[i - 1]) THEN -1 ELSE 0

\* add_sma: the two means times both counts.
SmaLine(window, other) ==
    [i \in Rows |-> Is(Sum(Close, From(i, window), i) * (i - From(i, other) + 1))]
SmaLines == <<SmaLine(SmaFast, SmaSlow), SmaLine(SmaSlow, SmaFast)>>

\* add_ema, in units of the slow one.
EmaFast == LET e == Ewm(Close, FastShift) IN [i \in Rows |-> e[i] * 2^((SlowShift - FastShift) * NBars)]
EmaSlow == Ewm(Close, SlowShift)
EmaLines == <<[i \in Rows |-> Is(EmaFast[i])], [i \in Rows |-> Is(EmaSlow[i])]>>

\* add_macd takes the two lines that add_ema has left, and its signal is a fast EMA of them.
Macd == LET fast == EmaFast slow == EmaSlow IN [i \in Rows |-> fast[i] - slow[i]]
MacdSignal == LET m == Macd IN Ewm(LAMBDA i : m[i], SignalShift)
MacdLines ==
    LET m == Macd s == MacdSignal
    IN  <<[i \in Rows |-> Is(m[i] * 2^(SignalShift * NBars))], [i \in Rows |-> Is(s[i])]>>

\* add_stochastic: 0 for a window without a range, no reading before the first full one.
StochK ==
    [i \in Rows |->
        LET window == {frame[j] : j \in (i - KPeriod + 1)..i}
            low == Min({b.l : b \in window}) high == Max({b.h : b \in window})
        IN  IF i < KPeriod THEN NaN
            ELSE IF high = low THEN Is(0) ELSE Is((Unit * (Close(i) - low)) \div (high - low))]
StochLines ==
    LET k == StochK
        all(i) == i >= KPeriod + DPeriod - 1
    IN  <<[i \in Rows |-> {DPeriod * x : x \in k[i]}],
          [i \in Rows |-> IF all(i) THEN Is(MapThenSumSet(LAMBDA j : Smallest(k[j]), (i - DPeriod + 1)..i)) ELSE NaN]>>
StochZone(i) ==
    LET k == StochLines[1][i] d == StochLines[2][i] IN
    IF Below(k, Is((Unit * DPeriod) \div 5)) /\ Below(d, Is((Unit * DPeriod) \div 5)) THEN -1
    ELSE IF Below(Is((4 * Unit * DPeriod) \div 5), k) /\ Below(Is((4 * Unit * DPeriod) \div 5), d) THEN 1 ELSE 0

\* add_adx: the directional lines as they cross; the range both are divided by is theirs in common.
Moves(i) == IF i = 1 THEN <<0, 0>> ELSE <<frame[i].h - frame[i - 1].h, frame[i - 1].l - frame[i].l>>
PlusMove(i) == LET m == Moves(i) IN IF m[1] > m[2] /\ m[1] > 0 THEN m[1] ELSE 0
MinusMove(i) == LET m == Moves(i) IN IF m[2] > m[1] /\ m[2] > 0 THEN m[2] ELSE 0
TrueRange(i) ==
    LET b == frame[i] IN
    IF i = 1 THEN b.h - b.l
    ELSE Max({b.h - b.l, Max({b.h - Close(i - 1), Close(i - 1) - b.h}), Max({b.l - Close(i - 1), Close(i - 1) - b.l})})
DiLines ==
    LET plus == Ewm(PlusMove, RangeShift) minus == Ewm(MinusMove, RangeShift) range == Ewm(TrueRange, RangeShift)
        told(e, i) == IF i >= 2^RangeShift /\ range[i] # 0 THEN Is(e[i]) ELSE NaN
    IN  <<[i \in Rows |-> told(plus, i)], [i \in Rows |-> told(minus, i)]>>

Crossings == [sma |-> SmaLines, ema |-> EmaLines, macd |-> MacdLines, stoch |-> StochLines, di |-> DiLines]

-----------------------------------------------------------------------------
(* Zones, bands, volume *)

\* add_rsi: where nothing moved there is no reading.
Rsi ==
    [i \in Rows |->
        LET gain == Sum(LAMBDA j : Max({0, Diff(j)}), From(i, RsiPeriod), i)
            loss == Sum(LAMBDA j : Max({0, -Diff(j)}), From(i, RsiPeriod), i)
        IN  IF i < RsiPeriod \/ gain + loss = 0 THEN NaN ELSE Is((Unit * gain) \div (gain + loss))]
RsiZone(r) ==
    LET upTo(percent) == \E x \in r : x * 100 <= percent * Unit IN
    CASE r = NaN -> "UNKNOWN" [] upTo(30) -> "OVERSOLD" [] upTo(45) /\ ~upTo(30) -> "NEAR_OVERSOLD"
      [] upTo(55) /\ ~upTo(45) -> "NEUTRAL" [] upTo(70) /\ ~upTo(55) -> "NEAR_OVERBOUGHT"
      [] OTHER -> "OVERBOUGHT"

\* add_bollinger, by squares.
BandAt(i) ==
    LET a == From(i, BandPeriod) n == i - a + 1
        s == Sum(Close, a, i) squares == Sum(LAMBDA j : Close(j) * Close(j), a, i)
        spread == n * squares - s * s
        away == n * Close(i) - s
    IN  IF spread = 0 \/ away * away * (n - 1) < BandSquared * n * spread THEN "MIDDLE"
        ELSE IF away < 0 THEN "BELOW_LOWER" ELSE "ABOVE_UPPER"

\* add_cci: beyond 100 is beyond one and a half mean deviations.
Typical(i) == frame[i].h + frame[i].l + frame[i].c
CciAt(i) ==
    LET a == i - CciPeriod + 1 n == CciPeriod
        s == Sum(Typical, a, i)
        off(j) == n * Typical(j) - s
        spread == Sum(LAMBDA j : Max({off(j), -off(j)}), a, i)
    IN  IF i < n \/ spread = 0 THEN 0
        ELSE IF 2 * n * off(i) < -3 * spread THEN -1 ELSE IF 2 * n * off(i) > 3 * spread THEN 1 ELSE 0

\* add_volume_analysis
Volume(i) == frame[i].v
PriceVolume(i) ==
    LET up == i > 1 /\ Close(i) > Close(i - 1) more == i > 1 /\ Volume(i) > Volume(i - 1) IN
    CASE up /\ more -> "BULLISH_CONFIRMATION" [] ~up /\ more -> "BEARISH_CONFIRMATION"
      [] ~up /\ ~more -> "LOW_VOLUME_PULLBACK" [] OTHER -> "NONE"
VolumeSum(i) == Sum(Volume, From(i, 20), i)
Spike(i) == VolumeSum(i) > 0 /\ 10 * Volume(i) * Min({i, 20}) >= SpikeTimes * VolumeSum(i)
VolumeTrend(i) ==
    LET now == VolumeSum(i) * Min({i - 1, 20}) before == VolumeSum(i - 1) * Min({i, 20}) IN
    IF i = 1 \/ now = before THEN "FLAT" ELSE IF now > before THEN "INCREASING" ELSE "DECREASING"

\* add_obv
Obv(i) == Sum(LAMBDA j : IF Diff(j) > 0 THEN Volume(j) ELSE IF Diff(j) < 0 THEN -Volume(j) ELSE 0, 1, i)
ObvTrend(i) ==
    LET mean == Sum(Obv, i - ObvPeriod + 1, i) own == Obv(i) * ObvPeriod IN
    IF i < ObvPeriod \/ own = mean THEN "FLAT" ELSE IF own > mean THEN "UP" ELSE "DOWN"

\* add_support_resistance
Walls(i) == IF i < Reach THEN NaN
            ELSE Is([support |-> Min({frame[j].l : j \in (i - Reach + 1)..i}),
                     resistance |-> Max({frame[j].h : j \in (i - Reach + 1)..i})])

-----------------------------------------------------------------------------
(* Divergences.  Positions count from 0, as those of the arrays do. *)

\* _nanargmin of a window: the first of the least.
NanArgmin(window) ==
    LET told == {k \in DOMAIN window : window[k] # NaN}
        least == {k \in told : \A m \in told : Smallest(window[k]) <= Smallest(window[m])}
    IN  IF told = {} THEN NaN ELSE Is(Min(least) - 1)

\* rolling(window, min_periods).apply(_nanargmin), as pandas does it.
RollingApply(values, window, least) ==
    [i \in DOMAIN values |->
        LET w == SubSeq(values, From(i, window), i) IN
        IF Cardinality({k \in DOMAIN w : w[k] # NaN}) < least THEN NaN ELSE NanArgmin(w)]

\* _rolling_nanargmin: the full windows at once, then those cut off on the left.
RollingArgmin(values, window, least) ==
    LET n == Len(values)
        view(k) == SubSeq(values, k, k + window - 1)
        counts(w) == Len(SelectSeq(w, LAMBDA x : x # NaN))
        bulk == [k \in 1..Max({0, n - window + 1}) |-> IF counts(view(k)) < least THEN NaN ELSE NanArgmin(view(k))]
        left(i) == LET w == SubSeq(values, 1, i) IN IF counts(w) >= least /\ counts(w) > 0 THEN NanArgmin(w) ELSE NaN
    IN  [i \in 1..Min({n, window - 1}) |-> left(i)] \o bulk

Shifted(values, by) == [i \in DOMAIN values |-> IF i <= by THEN NaN ELSE values[i - by]]

\* The least of a rolling window, if enough of it is told.
RollingMin(values, window, least) ==
    [i \in DOMAIN values |->
        LET told == {j \in From(i, window)..i : values[j] # NaN} IN
        IF i < least \/ Cardinality(told) < least THEN NaN ELSE Is(Min({Smallest(values[j]) : j \in told}))]

\* A form with a plausible bug: the previous minimum is looked for one row too late.
DivergenceShifted(values, low, high) ==
    LET n == Len(values) L == Lookback
        current == RollingMin(values, L + 1, L + 1)
        at == RollingArgmin(values, L + 1, L + 1)
        earlier == Shifted(values, L)
        previous == RollingMin(earlier, L, 1)
        was == RollingArgmin(earlier, L, 1)
        priceNow(p) == {Close(p - L + a + 1) : a \in at[p + 1]}
        priceThen(p) == {Close(Max({0, p - 2 * L}) + a + 1) : a \in was[p + 1]}
        flag(p) ==
            IF n < 2 * L \/ p < L \/ p >= n - 1 THEN 0
            ELSE IF /\ Below(current[p + 1], Is(low)) /\ Below(previous[p + 1], current[p + 1])
                    /\ Below(priceNow(p), priceThen(p)) THEN 1
            ELSE IF /\ Below(Is(high), current[p + 1]) /\ Below(current[p + 1], previous[p + 1])
                    /\ Below(priceThen(p), priceNow(p)) THEN -1 ELSE 0
    IN  [p \in 0..(n - 1) |-> flag(p)]

\* _add_min_divergence
Divergence(values, low, high) ==
    LET n == Len(values) L == Lookback
        current == RollingMin(values, L + 1, L + 1)
        at == RollingArgmin(values, L + 1, L + 1)
        earlier == Shifted(values, L + 1)
        previous == RollingMin(earlier, L, 1)
        was == RollingArgmin(earlier, L, 1)
        priceNow(p) == {Close(p - L + a + 1) : a \in at[p + 1]}
        priceThen(p) == {Close(Max({0, p - 2 * L}) + a + 1) : a \in was[p + 1]}
        flag(p) ==
            IF n < 2 * L \/ p < L \/ p >= n - 1 THEN 0
            ELSE IF /\ Below(current[p + 1], Is(low)) /\ Below(previous[p + 1], current[p + 1])
                    /\ Below(priceNow(p), priceThen(p)) THEN 1
            ELSE IF /\ Below(Is(high), current[p + 1]) /\ Below(current[p + 1], previous[p + 1])
                    /\ Below(priceThen(p), priceNow(p)) THEN -1 ELSE 0
    IN  [p \in 0..(n - 1) |-> flag(p)]

RsiDivergence == Divergence(Rsi, (35 * Unit) \div 100, (65 * Unit) \div 100)
MacdDivergence == Divergence(MacdLines[1], 0, 0)

-----------------------------------------------------------------------------
\* The windows cut by hand are those pandas rolls, NaN and ties included (_rolling_nanargmin, "same
\* min_periods gate, same first-minimum tie-break").
TwinsAgree ==
    LET sources == {Rsi, StochK, Shifted(Rsi, Lookback + 1)} IN
    \A values \in sources, window \in 1..(Lookback + 1) : \A least \in {1, window} :
        RollingArgmin(values, window, least) = RollingApply(values, window, least)

\* The last cross that was told is the side on which the faster line is; if none was told it has
\* stayed on the side where it was first read (add_sma, add_ema, add_macd, add_stochastic, add_adx).
CrossesTell ==
    \A name \in DOMAIN Crossings :
        LET fast == Crossings[name][1] slow == Crossings[name][2]
            crosses == [i \in Rows |-> CrossAt(fast, slow, i)]
            told == {i \in Rows : crosses[i] # 0}
            last(i) == {j \in told : j <= i}
            both == {i \in Rows : fast[i] # NaN /\ slow[i] # NaN}
            side(i) == IF Below(slow[i], fast[i]) THEN 1 ELSE IF Below(fast[i], slow[i]) THEN -1 ELSE 0
        IN  \A i \in both :
                IF last(i) # {} THEN side(i) \in {0, crosses[Max(last(i))]}
                ELSE side(i) \in {0, side(Min(both))}

\* From the row on that has two windows behind it, a divergence is what its name says: of the rows
\* up to it and the rows before those, the lows of the indicator and the prices on those two rows
\* have moved apart; and no row tells both (_add_min_divergence).
DivergencesReal ==
    \A d \in {<<Rsi, RsiDivergence>>, <<MacdLines[1], MacdDivergence>>} :
        LET values == d[1] flags == d[2]
            lowest(a, b) == LET told == {j \in a..b : values[j] # NaN} IN
                            {Min({j \in told : \A k \in told : Smallest(values[j]) <= Smallest(values[k])}) : x \in (IF told = {} THEN {} ELSE {0})}
        IN  \A i \in Rows : i > 2 * Lookback /\ flags[i - 1] # 0 =>
              \E now \in lowest(i - Lookback, i), before \in lowest(i - 2 * Lookback, i - Lookback - 1) :
                  LET rises == Smallest(values[now]) - Smallest(values[before])
                  IN  flags[i - 1] * rises > 0 /\ flags[i - 1] * (Close(now) - Close(before)) < 0

\* What scoring reads side by side does not contradict itself: overbought after a gain and above the
\* band after a lower close, oversold and below it the other way round; a trend of the volume balance
\* with a close that moved that way; a confirmation with the balance that follows it; a spike within the first window never with falling volume; the
\* close between support and resistance (add_rsi, add_bollinger, add_obv, add_volume_analysis).
ReadingsFit ==
    \A i \in Rows :
        LET gained == Close(i) - Close(From(i, RsiPeriod + 1))
            moved(a, way) == \E j \in From(i, a)..i : way * (Close(i) - Close(j)) > 0
            bar(way) == \E j \in From(i, ObvPeriod)..i : way * Diff(j) > 0
        IN  /\ RsiZone(Rsi[i]) = "OVERBOUGHT" => gained > 0
            /\ RsiZone(Rsi[i]) = "OVERSOLD" => gained < 0
            /\ BandAt(i) = "ABOVE_UPPER" => moved(BandPeriod, 1) /\ CciAt(i) # -1
            /\ BandAt(i) = "BELOW_LOWER" => moved(BandPeriod, -1) /\ CciAt(i) # 1
            /\ ObvTrend(i) = "UP" => bar(1)
            /\ ObvTrend(i) = "DOWN" => bar(-1)
            /\ i <= 20 /\ SpikeTimes >= 10 /\ Spike(i) => VolumeTrend(i) # "DECREASING"
            /\ PriceVolume(i) = "BULLISH_CONFIRMATION" => Obv(i) > Obv(i - 1)
            /\ i > 1 /\ PriceVolume(i) \in {"BEARISH_CONFIRMATION", "LOW_VOLUME_PULLBACK"} => Obv(i) <= Obv(i - 1)
            /\ \A w \in Walls(i) : w.support <= Close(i) /\ Close(i) <= w.resistance
            /\ StochZone(i) = 1 => Close(i) >= Close(From(i, DPeriod))

\* The four together.
IndicatorsAgree == TwinsAgree /\ CrossesTell /\ DivergencesReal /\ ReadingsFit
=============================================================================
