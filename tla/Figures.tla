------------------------------- MODULE Figures -------------------------------
(***************************************************************************)
(* What the reports make of what was recorded: the report of a day, of the   *)
(* signals of that day; the performance sections, the summary of a backtest  *)
(* and the simulated portfolio of a subscriber, of closed trades.  Signals    *)
(* and trades are recorded one after the other.                             *)
(***************************************************************************)
EXTENDS Integers, Sequences, FiniteSets, SequencesExt, FiniteSetsExt

CONSTANTS
    DaySignals,      \* the signals that occur: [ticker, time, type, score, gate]
    ClosedTrades,    \* the trades that occur: [score, profit, entry, exit, chance]
    NRecords,        \* bound on either
    BuyThreshold, ScoreCap, TierA, TierB,
    RadarBudget,     \* RADAR_REPORT_TOP_N
    Bands,           \* SCORE_BANDS: <<lower, upper>>
    ChanceBuckets,   \* the buckets of probabilities, percent: <<low, high>>
    MaxOpen          \* positions a subscriber can hold

ASSUME FiguresAssumption ==
    /\ {NRecords, RadarBudget, MaxOpen} \subseteq Nat
    /\ TierB <= TierA /\ TierA <= BuyThreshold /\ BuyThreshold <= ScoreCap

VARIABLES rows, closed

figureVars == <<rows, closed>>

FiguresTypeOK ==
    /\ Len(rows) <= NRecords /\ Range(rows) \subseteq DaySignals
    /\ Len(closed) <= NRecords /\ Range(closed) \subseteq ClosedTrades

FiguresInit == rows = <<>> /\ closed = <<>>

\* Rows come in the order of their time, trades in that of their ids.
RecordsSignal ==
    \E s \in DaySignals :
        /\ Len(rows) < NRecords /\ (rows # <<>> => rows[Len(rows)].time <= s.time)
        /\ closed = <<>> /\ rows' = Append(rows, s) /\ UNCHANGED closed

RecordsTrade ==
    \E t \in ClosedTrades :
        /\ Len(closed) < NRecords /\ rows = <<>>
        /\ closed' = Append(closed, t) /\ UNCHANGED rows

FiguresNext == RecordsSignal \/ RecordsTrade
FiguresSpec == FiguresInit /\ [][FiguresNext]_figureVars

Count(Test(_), seq) == Len(SelectSeq(seq, Test))
Total(Value(_), seq) == FoldLeft(LAMBDA sum, x : sum + Value(x), 0, seq)
Least(a, b) == IF a < b THEN a ELSE b

-----------------------------------------------------------------------------
(* generate_daily_report *)

Buys == {"STRONG_BUY", "BUY", "WEAK_BUY"}
Sells == {"STRONG_SELL", "SELL", "WEAK_SELL"}

\* categorize
CategoryOf(s) ==
    LET score == Least(s.score, ScoreCap) IN
    IF s.type \in Sells THEN "SAT"
    ELSE IF s.type \in Buys /\ score >= BuyThreshold THEN "AL"
    ELSE IF s.type \in Buys \cup {"RADAR"} /\ score > 0 THEN "RADAR"
    ELSE "HOLD"

Of(category) == SelectSeq(rows, LAMBDA s : CategoryOf(s) = category)
Demoted == SelectSeq(Of("RADAR"), LAMBDA s : s.score >= BuyThreshold)
Organic == SelectSeq(Of("RADAR"), LAMBDA s : s.score < BuyThreshold)

Tier(tier) ==
    SelectSeq(Organic, LAMBDA s : CASE tier = "A" -> s.score >= TierA
                                    [] tier = "B" -> TierB <= s.score /\ s.score < TierA
                                    [] tier = "C" -> s.score < TierB)

\* The listing budget: demoted signals first, then the tiers A and B, the best of each.
Limits ==
    LET demoted == Least(Len(Demoted), RadarBudget)
        a == Least(Len(Tier("A")), RadarBudget - demoted)
    IN  [demoted |-> demoted, a |-> a, b |-> Least(Len(Tier("B")), RadarBudget - demoted - a)]

ByScore(seq) == SortSeq(seq, LAMBDA s, t : s.score > t.score)
Listed == SubSeq(ByScore(Demoted), 1, Limits.demoted) \o SubSeq(ByScore(Tier("A")), 1, Limits.a)
              \o SubSeq(ByScore(Tier("B")), 1, Limits.b)

\* session_buckets
Bucket(time) ==
    LET at == SelectSeq(rows, LAMBDA s : s.time = time)
        n(category) == Count(LAMBDA s : CategoryOf(s) = category, at)
    IN  [total |-> Len(at), AL |-> n("AL"), RADAR |-> n("RADAR"), SAT |-> n("SAT"), HOLD |-> n("HOLD")]

\* al_by_ticker: the ticker that was told most often first, then the one with the best score.
RollUp ==
    LET entries(ticker) == SelectSeq(Of("AL"), LAMBDA s : s.ticker = ticker)
        line(ticker) == [ticker |-> ticker, n |-> Len(entries(ticker)), last |-> entries(ticker)[Len(entries(ticker))],
                         best |-> Max({s.score : s \in Range(entries(ticker))})]
        lines == {line(s.ticker) : s \in Range(Of("AL"))}
    IN  SetToSortSeq(lines, LAMBDA x, y : x.n > y.n \/ (x.n = y.n /\ x.best > y.best))

\* The tickers whose category changed, and whether a demotion is among the changes.
History(ticker) == SelectSeq(rows, LAMBDA s : s.ticker = ticker)
Changed == {ticker \in {s.ticker : s \in Range(rows)} :
              Cardinality({CategoryOf(s) : s \in Range(History(ticker))}) > 1}
GateTag(s) == IF s.score < BuyThreshold THEN "none"
              ELSE CASE s.gate = "macro" -> "[Macro Bear]"
                     [] s.gate = "mtf" -> "[HTF Neutral]"
                     [] OTHER -> "[Gate]"
DemotionSeen ==
    \E ticker \in Changed : \E s \in Range(History(ticker)) : CategoryOf(s) = "RADAR" /\ GateTag(s) # "none"

-----------------------------------------------------------------------------
(* reports/performance.py, and the summary of a backtest *)

ActionableTrades == SelectSeq(closed, LAMBDA t : t.score >= Bands[1][1])

\* compute_band_metrics: the first band that fits.
BandOf(t) == {i \in 1..Len(Bands) : Bands[i][1] <= t.score /\ t.score < Bands[i][2]}
InBand(i) == SelectSeq(ActionableTrades, LAMBDA t : BandOf(t) # {} /\ i = Min(BandOf(t)))
BandMetrics(i) ==
    [count |-> Len(InBand(i)), wins |-> Count(LAMBDA t : t.profit > 0, InBand(i)),
     profit |-> Total(LAMBDA t : t.profit, InBand(i))]

\* _max_drawdown_pct, by the time of the close.
Falls(seq) ==
    FoldLeft(LAMBDA acc, t : LET sum == acc.sum + t.profit
                                 peak == Max({acc.peak, sum})
                             IN  [sum |-> sum, peak |-> peak, worst |-> Max({acc.worst, peak - sum})],
             [sum |-> 0, peak |-> 0, worst |-> 0], seq).worst
ByClose(seq) ==
    LET times == SetToSortSeq({t.exit : t \in Range(seq)}, LAMBDA x, y : x < y)
    IN  FlattenSeq([i \in 1..Len(times) |-> SelectSeq(seq, LAMBDA t : t.exit = times[i])])
MaxDrawdown == Falls(ByClose(ActionableTrades))

\* compute_portfolio_metrics
PortfolioMetrics ==
    [count |-> Len(ActionableTrades), wins |-> Count(LAMBDA t : t.profit > 0, ActionableTrades),
     losses |-> Count(LAMBDA t : t.profit < 0, ActionableTrades),
     profit |-> Total(LAMBDA t : t.profit, ActionableTrades)]

\* _longest_loss_streak
LossStreak ==
    FoldLeft(LAMBDA acc, t : LET run == IF t.profit <= 0 THEN acc.run + 1 ELSE 0
                             IN  [run |-> run, longest |-> Max({acc.longest, run})],
             [run |-> 0, longest |-> 0], closed).longest

\* _probability_diagnostics: support, hits and misses at a threshold, and the trades of a bucket.
Support(threshold) == SelectSeq(closed, LAMBDA t : t.chance >= threshold)
Hits(threshold) == Count(LAMBDA t : t.profit > 0, Support(threshold))
Missed(threshold) == Count(LAMBDA t : t.profit > 0 /\ t.chance < threshold, closed)
InBucket(i) == SelectSeq(closed, LAMBDA t : ChanceBuckets[i][1] <= t.chance /\ t.chance < ChanceBuckets[i][2])

-----------------------------------------------------------------------------
(* simulate_portfolio: fixed sizes; of the candidates of a day the first, or the best, are taken. *)

TakenBy(ranked) ==
    LET days == SetToSortSeq({t.entry : t \in Range(closed)}, LAMBDA x, y : x < y)
        candidates(day) == LET all == SelectSeq([i \in 1..Len(closed) |-> i], LAMBDA i : closed[i].entry = day)
                           IN  IF ranked THEN SortSeq(all, LAMBDA i, k : closed[i].score > closed[k].score \/
                                                       (closed[i].score = closed[k].score /\ i < k)) ELSE all
        take(acc, i) == IF Len(acc.open) >= MaxOpen THEN [acc EXCEPT !.skipped = @ + 1]
                        ELSE [acc EXCEPT !.open = Append(@, closed[i].exit), !.taken = @ \cup {i}]
        pass(acc, day) ==
            FoldLeft(take, [acc EXCEPT !.open = SelectSeq(@, LAMBDA exit : exit > day)], candidates(day))
    IN  FoldLeft(pass, [open |-> <<>>, taken |-> {}, skipped |-> 0], days)

-----------------------------------------------------------------------------
\* Every signal of the day is counted in one section of the report, in the bucket of its time and, an
\* AL, in the line of its ticker; what the budget lists are the best, no tier before those above it;
\* a signal told as demoted passed the threshold, and a change of category is told with it
\* (generate_daily_report).
DayAddsUp ==
    LET sections == <<Of("AL"), Demoted, Tier("A"), Tier("B"), Tier("C"), Of("SAT"), Of("HOLD")>>
        times == {s.time : s \in Range(rows)}
        rank(s) == CASE s \in Range(Demoted) -> 1 [] s \in Range(Tier("A")) -> 2 [] OTHER -> 3
    IN  /\ Total(Len, sections) = Len(rows)
        /\ \A s \in Range(rows) : \E i \in 1..7 : s \in Range(sections[i])
        /\ MapThenSumSet(LAMBDA time : Bucket(time).AL, times) = Total(LAMBDA line : line.n, RollUp)
        /\ MapThenSumSet(LAMBDA time : Bucket(time).AL + Bucket(time).RADAR + Bucket(time).SAT + Bucket(time).HOLD,
                         times) = Len(rows)
        /\ Len(Listed) <= RadarBudget
        /\ \A s \in Range(Demoted \o Tier("A") \o Tier("B")) \ Range(Listed) : \A t \in Range(Listed) :
              Len(Listed) = RadarBudget /\ (rank(t) < rank(s) \/ (rank(t) = rank(s) /\ t.score >= s.score))
        /\ DemotionSeen => \E s \in Range(Demoted) : s.type = "RADAR" /\ s.ticker \in Changed

\* The bands share out the actionable trades, the drawdown is the greatest fall between two closes,
\* the streak the longest run without a win, and the buckets share out what a threshold supports
\* (performance.py, models.py).
TradesAddUp ==
    LET sums == [k \in 0..Len(closed) |-> Total(LAMBDA t : t.profit, SubSeq(ByClose(ActionableTrades), 1, k))]
        n == Len(ActionableTrades)
        lossless(i, k) == \A m \in i..k : closed[m].profit <= 0
        bands == [i \in 1..Len(Bands) |-> BandMetrics(i)]
    IN  /\ Total(LAMBDA m : m.count, bands) = PortfolioMetrics.count
        /\ Total(LAMBDA m : m.wins, bands) = PortfolioMetrics.wins
        /\ Total(LAMBDA m : m.profit, bands) = PortfolioMetrics.profit
        /\ MaxDrawdown = Max({sums[p[1]] - sums[p[2]] : p \in {q \in (0..n) \X (0..n) : q[1] <= q[2]}})
        /\ LossStreak = Max({0} \cup {p[2] - p[1] + 1 : p \in {q \in (1..Len(closed)) \X (1..Len(closed)) :
                                                            q[1] <= q[2] /\ lossless(q[1], q[2])}})
        /\ \A i \in 1..Len(ChanceBuckets) :
              LET threshold == ChanceBuckets[i][1] IN
              /\ Len(Support(threshold)) = Total(LAMBDA k : Len(InBucket(k)), [k \in 1..(Len(ChanceBuckets) - i + 1) |-> k + i - 1])
              /\ Hits(threshold) + Missed(threshold) = Count(LAMBDA t : t.profit > 0, closed)

\* A subscriber never holds more than the slots, counts every trade that was not taken, and ranked by
\* score leaves no better candidate of the day for a worse one (simulate_portfolio).
SlotsKept ==
    \A ranked \in BOOLEAN :
        LET result == TakenBy(ranked) IN
        /\ \A i \in DOMAIN closed :
              Cardinality({k \in result.taken : closed[k].entry <= closed[i].entry /\ closed[i].entry < closed[k].exit})
                  <= MaxOpen
        /\ result.skipped + Cardinality(result.taken) = Len(closed)
        /\ ranked => \A i \in DOMAIN closed \ result.taken, k \in result.taken :
                        closed[i].entry = closed[k].entry => closed[k].score >= closed[i].score

\* The three together.
FiguresAddUp == DayAddsUp /\ TradesAddUp /\ SlotsKept
=============================================================================
