------------------------------ MODULE RiskLevels ------------------------------
(***************************************************************************)
(* What risk is taken on one buy candidate: determine_final_levels chooses  *)
(* a stop and a target among those that five methods propose, and            *)
(* calc_position_size, apply_portfolio_risk and apply_probability_sizing     *)
(* make a number of shares of them, each correcting the one before.          *)
(*                                                                         *)
(* Prices and money are whole units; shares of a unit are cut off.          *)
(***************************************************************************)
EXTENDS Integers, FiniteSets

CONSTANTS
    Price,           \* last close
    Tick,            \* the price step at this price
    Ranges,          \* bound on the average true range; 0 where it is missing
    Proposals,       \* bound on [stop, target] proposed by the chart's methods, 0 for none
    LimitPct,        \* daily_price_limit_pct
    FixedStopPct, FixedTargetPct,
    MinStopPermille, \* MIN_STOP_LOSS_PCT
    TargetFloorPct,  \* ATR_TARGET_FLOOR_PCT
    Funds,           \* capital
    RiskPct,         \* max_risk_pct
    CapPct,          \* max_position_cap_pct
    BaselinePermille, MinScalePct,   \* atr_baseline_pct, atr_min_risk_scale
    MaxCluster, ClusterStepPct, ClusterMinPct,  \* the correlation settings
    Probabilities,   \* bound on what the meta model predicts, in percent
    MinProbabilityPct, KellyPct

ASSUME RiskAssumption ==
    /\ {Price, Tick, LimitPct, FixedStopPct, FixedTargetPct, MinStopPermille, TargetFloorPct, Funds,
        RiskPct, CapPct, BaselinePermille, MinScalePct, MaxCluster, ClusterStepPct, ClusterMinPct,
        MinProbabilityPct, KellyPct} \subseteq Nat
    /\ 0 < Tick /\ 0 < FixedStopPct /\ FixedStopPct <= LimitPct
    /\ 0 < FixedTargetPct /\ FixedTargetPct <= LimitPct /\ LimitPct < 100
    /\ CapPct <= 25 /\ RiskPct <= CapPct /\ ClusterMinPct <= 100
    /\ Ranges \subseteq Nat /\ Probabilities \subseteq 0..99

\* A unit is at most a percent of the price, and two settings are sound that no start-up checks.
ASSUME UnitAssumption ==
    100 <= Price /\ MinStopPermille <= 10 * LimitPct /\ MinScalePct <= 100

VARIABLES
    stage,       \* what has been computed
    levels,      \* final_stop, final_target, the scales and position_size
    fellBack,    \* history: the levels are those of the range
    modelled     \* history: a meta model had its say

riskVars == <<stage, levels, fellBack, modelled>>

NoLevels == [stop |-> 0, target |-> 0, volatility |-> 100, correlation |-> 100, shares |-> 0]

RiskTypeOK ==
    /\ stage \in {"new", "sized", "portfolio", "buy", "rejected"}
    /\ levels \in [stop : Nat, target : Nat, volatility : 0..100, correlation : 0..100, shares : Nat]
    /\ {fellBack, modelled} \subseteq BOOLEAN

RiskInit == stage = "new" /\ levels = NoLevels /\ fellBack = FALSE /\ modelled = FALSE

PctOf(whole, pct) == (whole * pct) \div 100
HigherOf(a, b) == IF a > b THEN a ELSE b
LowerOf(a, b) == IF a < b THEN a ELSE b

-----------------------------------------------------------------------------
(* determine_final_levels. *)

\* Level is support for a stop and resistance for a target.
Charts == {"Level", "Fibonacci", "Swing"}
ASSUME ProposalAssumption == Proposals \subseteq [Charts -> [stop : Nat, target : Nat]]
Methods == Charts \cup {"ATR", "Percent"}
\* In this order the first of the highest stops is taken, and the first reasonable target.
StopOrder == <<"ATR", "Level", "Fibonacci", "Percent", "Swing">>
TargetOrder == <<"Level", "ATR", "Fibonacci", "Swing", "Percent">>

\* What the methods propose: the range of 2 and 3, the chart's own, and fixed percentages.
Stops(range, proposals) ==
    [m \in Methods |-> CASE m = "ATR" -> IF range = 0 THEN 0 ELSE Price - 2 * range
                         [] m = "Percent" -> PctOf(Price, 100 - FixedStopPct)
                         [] OTHER -> proposals[m].stop]
Targets(range, proposals) ==
    [m \in Methods |-> CASE m = "ATR" -> IF range = 0 THEN 0 ELSE Price + 3 * range
                         [] m = "Percent" -> PctOf(Price, 100 + FixedTargetPct)
                         [] OTHER -> proposals[m].target]

FirstIn(order, S) ==
    order[CHOOSE i \in 1..5 : order[i] \in S /\ \A j \in 1..(i - 1) : order[j] \notin S]

\* The nearest stop, of those that are neither too near nor too far if there are any.
StopMethod(stops) ==
    LET valid == {m \in Methods : stops[m] > 0 /\ stops[m] < Price}
        reasonable == {m \in valid : /\ (Price - stops[m]) * 100 > Price
                                     /\ (Price - stops[m]) * 10 < Price}
        from == IF reasonable # {} THEN reasonable ELSE valid
    IN  IF from = {} THEN "Percent"
        ELSE FirstIn(StopOrder, {m \in from : \A n \in from : stops[n] <= stops[m]})

\* The target of the first method that has one, preferably more than two percent away.
TargetMethod(targets) ==
    LET valid == {m \in Methods : targets[m] > Price}
        reasonable == {m \in valid : (targets[m] - Price) * 50 > Price}
        from == IF reasonable # {} THEN reasonable ELSE valid
    IN  IF from = {} THEN "Percent" ELSE FirstIn(TargetOrder, from)

\* Where only the fixed percentage was left, the target is that of the range or of half the
\* risk, within its floor and a tenth of the price.
Widens(method, stop, range) == method = "Percent" /\ range > 0 /\ 2 * range < Price /\ stop < Price
Widened(stop, range) ==
    LET wished == HigherOf(Price + 3 * range, Price + (Price - stop) \div 2)
    IN  HigherOf(PctOf(Price, 100 + TargetFloorPct), LowerOf(wished, PctOf(Price, 110)))

\* The daily limit, then the stop's least distance.
StopInBand(stop) ==
    LET limited == IF stop > 0 THEN HigherOf(stop, PctOf(Price, 100 - LimitPct)) ELSE stop
        nearest == (Price * (1000 - MinStopPermille)) \div 1000
    IN  IF 0 < limited /\ limited < Price THEN LowerOf(limited, nearest) ELSE limited

RoundedDown(p) == (p \div Tick) * Tick
RoundedUp(p) == ((p + Tick - 1) \div Tick) * Tick

\* Stop and target of methods that do not go together are replaced by those of the range if
\* their ratio is odd.
FinalLevels(range, proposals) ==
    LET stops == Stops(range, proposals)
        targets == Targets(range, proposals)
        sm == StopMethod(stops)
        tm == TargetMethod(targets)
        widens == Widens(tm, stops[sm], range)
        chosen == IF widens THEN Widened(stops[sm], range) ELSE targets[tm]
        stop == RoundedDown(StopInBand(stops[sm]))
        target == RoundedUp(LowerOf(chosen, PctOf(Price, 100 + LimitPct)))
        consistent == /\ ~widens
                      /\ \/ sm = tm /\ sm # "Level"
                         \/ {sm, tm} \subseteq {"ATR", "Percent"}
        risk == Price - stop
        odd == risk <= 0 \/ 2 * (target - Price) < risk \/ target - Price > 10 * risk
    IN  IF ~consistent /\ odd /\ stops["ATR"] > 0 /\ targets["ATR"] > 0
        THEN [stop |-> RoundedDown(stops["ATR"]), target |-> RoundedUp(targets["ATR"]), ofRange |-> TRUE]
        ELSE [stop |-> stop, target |-> target, ofRange |-> FALSE]

-----------------------------------------------------------------------------
(* Sizing. *)

\* calculate_risk_throttle of calculate_atr_pct.
Throttle(range) ==
    IF range = 0 \/ Price <= 2 * range \/ range * 1000 <= BaselinePermille * Price THEN 100
    ELSE HigherOf(MinScalePct, (BaselinePermille * Price) \div (10 * range))

\* apply_position_budget, whose cap is 90 unless one is given.
Budgeted(l, cap) ==
    LET risk == Price - l.stop
        loss == (Funds * RiskPct * l.volatility * l.correlation) \div 1000000
    IN  IF risk <= 0 THEN [l EXCEPT !.shares = 0]
        ELSE [l EXCEPT !.shares = LowerOf(loss \div risk,
                                    LowerOf(PctOf(Funds, 90) \div Price, PctOf(Funds, cap) \div Price))]

\* calculate: the levels, the throttle and a first size.
Calculates(range, proposals) ==
    LET final == FinalLevels(range, proposals)
    IN  /\ stage = "new"
        /\ stage' = "sized" /\ fellBack' = final.ofRange
        /\ levels' = Budgeted([NoLevels EXCEPT !.stop = final.stop, !.target = final.target,
                                               !.volatility = Throttle(range)], CapPct)
        /\ UNCHANGED modelled

Rejects == stage' = "rejected" /\ UNCHANGED <<levels, fellBack, modelled>>

\* apply_portfolio_risk: the size is computed anew, with the cap that is not given.
Correlates(correlated) ==
    LET scale == HigherOf(ClusterMinPct, 100 - correlated * ClusterStepPct)
        sized == Budgeted([levels EXCEPT !.correlation = scale], 90)
    IN  /\ stage = "sized"
        /\ IF correlated > MaxCluster \/ sized.shares = 0 THEN Rejects
           ELSE /\ stage' = "portfolio" /\ levels' = sized
                /\ UNCHANGED <<fellBack, modelled>>

\* Without a meta model the signal is made of what there is.
NoModel ==
    /\ stage = "portfolio" /\ stage' = "buy"
    /\ UNCHANGED <<levels, fellBack, modelled>>

\* calculate_kelly_fraction and kelly_fraction_scale, in hundredths of a percent of the capital.
KellyShare(pct) ==
    LET reward == levels.target - Price
        risk == Price - levels.stop
        full == HigherOf(0, pct * 100 - ((100 - pct) * 100 * risk) \div reward)
    IN  LowerOf(CapPct * 100, (full * KellyPct) \div 100)

\* apply_probability_sizing: no size on a day of losses, for an illiquid paper, for a small
\* probability, or without a reward.
AsksModel(pct, lossReached, illiquid) ==
    LET held == ((Funds * KellyShare(pct)) \div 10000) \div Price
        shares == LowerOf(levels.shares, held)
        sound == levels.stop < Price /\ Price < levels.target
    IN  /\ stage = "portfolio"
        /\ IF lossReached \/ illiquid \/ pct < MinProbabilityPct \/ ~sound THEN Rejects
           ELSE IF shares = 0 THEN Rejects
           ELSE /\ stage' = "buy" /\ modelled' = TRUE
                /\ levels' = [levels EXCEPT !.shares = shares]
                /\ UNCHANGED fellBack

RiskNext ==
    \/ \E range \in Ranges, proposals \in Proposals : Calculates(range, proposals)
    \/ \E correlated \in 0..(MaxCluster + 1) : Correlates(correlated)
    \/ NoModel
    \/ \E pct \in Probabilities, lossReached, illiquid \in BOOLEAN :
            AsksModel(pct, lossReached, illiquid)

RiskSpec == RiskInit /\ [][RiskNext]_riskVars

-----------------------------------------------------------------------------
\* A buy has its stop below its price and its target above, loses no more than the risk budget
\* at its stop, costs no more than 90% of the capital and, where a meta model was asked, no more
\* than the position cap (calc_position_size, apply_portfolio_risk, apply_probability_sizing).
BuyWithinBudget ==
    stage = "buy" =>
        /\ levels.stop < Price /\ Price < levels.target /\ levels.shares > 0
        /\ levels.shares * (Price - levels.stop) <= PctOf(Funds, RiskPct)
        /\ levels.shares * Price <= PctOf(Funds, IF modelled THEN CapPct ELSE 90)

\* Unless they are those of the range, a stop keeps its least distance and stop and target
\* leave the daily limit by less than a price step (determine_final_levels).
LevelsInBand ==
    (stage # "new" /\ ~fellBack) =>
        /\ levels.stop * 1000 <= Price * (1000 - MinStopPermille)
        /\ levels.stop + Tick > PctOf(Price, 100 - LimitPct)
        /\ levels.target < PctOf(Price, 100 + LimitPct) + Tick

\* What is bought is sound in its levels and in its size (RiskManager.calculate).
SoundBuy == BuyWithinBudget /\ LevelsInBand
=============================================================================
