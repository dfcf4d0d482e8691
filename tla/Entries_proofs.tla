--------------------------- MODULE Entries_proofs ---------------------------
(***************************************************************************)
(* What a scan buys, for every price, setting, number of threads and of     *)
(* papers: each buy is sound in its levels and its size, and the buys of a  *)
(* scan stay within the limits of sectors and of correlated positions.      *)
(* And what becomes of it at the paper broker, for every number of orders:  *)
(* the books balance and the rows of the orders tell what is held.          *)
(***************************************************************************)
EXTENDS EntryScan, Desk, FiniteSetTheorems, WellFoundedInduction, TLAPS

\* Less than on the natural numbers, of which the library knows that it is well-founded.
Below == {ss \in Nat \X Nat : ss[1] < ss[2]}

LEMMA LeastOf ==
    ASSUME NEW S \in SUBSET Nat, S # {}
    PROVE  \E x \in S : \A y \in S : x <= y
<1>1. IsWellFoundedOn(Below, Nat)
  BY NatLessThanWellFounded, Zenon DEF Below, OpToRel
<1>2. PICK x \in S : \A y \in S : ~(<<y, x>> \in Below)
  BY <1>1, WFMin
<1>3. ASSUME NEW y \in S PROVE x <= y
  <2>1. x \in Nat /\ y \in Nat /\ <<y, x>> \in Nat \X Nat
    OBVIOUS
  <2>2. ~(<<y, x>>[1] < <<y, x>>[2])
    BY <1>2, <2>1 DEF Below
  <2> QED BY <2>1, <2>2
<1> QED BY <1>3

----
(* The sizing of a buy candidate, of every price and every setting. A level *)
(* and a size come of one integer division after another; what each loses   *)
(* is bounded, and the losses go the safe way.                             *)
RiskRow == [stop : Nat, target : Nat, volatility : 0..100, correlation : 0..100, shares : Nat]

LEMMA Division ==
    ASSUME NEW n \in Nat, NEW d \in Nat, 0 < d
    PROVE  /\ n \div d \in Nat
           /\ d * (n \div d) <= n
           /\ n < d * (n \div d) + d
OBVIOUS

LEMMA DivisionBelow ==
    ASSUME NEW n \in Nat, NEW d \in Nat, NEW m \in Nat, 0 < d, n <= d * m
    PROVE  n \div d <= m
<1>1. PICK q \in Nat : q = n \div d /\ d * q <= n
  BY Division
<1>2. d * q <= d * m
  BY <1>1
<1>3. q <= m
  BY <1>2
<1> QED BY <1>1, <1>3

LEMMA Percentage ==
    ASSUME NEW whole \in Nat, NEW pct \in Nat
    PROVE  /\ PctOf(whole, pct) \in Nat
           /\ 100 * PctOf(whole, pct) <= whole * pct
           /\ whole * pct < 100 * PctOf(whole, pct) + 100
<1>1. whole * pct \in Nat
  OBVIOUS
<1> QED BY <1>1, Division DEF PctOf

LEMMA PercentOfPrice ==
    /\ \A pct \in Nat : PctOf(Price, pct) \in Nat
    /\ \A pct \in 1..99 : PctOf(Price, pct) \in 1..(Price - 1)
    /\ \A pct \in Nat : pct > 100 => Price < PctOf(Price, pct)
    /\ \A pct \in Nat : pct >= 100 => Price <= PctOf(Price, pct)
<1>1. Price \in Nat /\ 100 <= Price
  BY RiskAssumption, UnitAssumption
<1>2. ASSUME NEW pct \in Nat
      PROVE  \E q \in Nat : q = PctOf(Price, pct) /\ 100 * q <= Price * pct /\ Price * pct < 100 * q + 100
  BY <1>1, Percentage
<1>3. ASSUME NEW pct \in 1..99 PROVE PctOf(Price, pct) \in 1..(Price - 1)
  <2>1. pct \in Nat /\ 1 <= pct /\ pct <= 99
    OBVIOUS
  <2>2. Price * pct <= Price * 99 /\ Price * 1 <= Price * pct
    BY <1>1, <2>1
  <2>3. PICK q \in Nat : q = PctOf(Price, pct) /\ 100 * q <= Price * pct /\ Price * pct < 100 * q + 100
    BY <1>2, <2>1
  <2>4. 100 * q <= Price * 99 /\ Price < 100 * q + 100
    BY <1>1, <2>1, <2>2, <2>3
  <2> QED BY <1>1, <2>3, <2>4
<1>4. ASSUME NEW pct \in Nat, pct >= 100
      PROVE  Price <= PctOf(Price, pct) /\ (pct > 100 => Price < PctOf(Price, pct))
  <2>1. Price * 100 <= Price * pct /\ (pct > 100 => Price * 101 <= Price * pct)
    BY <1>1, <1>4
  <2>2. PICK q \in Nat : q = PctOf(Price, pct) /\ 100 * q <= Price * pct /\ Price * pct < 100 * q + 100
    BY <1>2
  <2>3. Price * 100 < 100 * q + 100 /\ (pct > 100 => Price * 101 < 100 * q + 100)
    BY <1>1, <2>1, <2>2
  <2> QED BY <1>1, <2>2, <2>3
<1>5. \A pct \in Nat : PctOf(Price, pct) \in Nat
  BY <1>2
<1> QED BY <1>3, <1>4, <1>5

\* A price is rounded by less than a step, down for a stop and up for a target.
LEMMA Rounding ==
    ASSUME NEW p \in Nat
    PROVE  /\ RoundedDown(p) \in Nat /\ RoundedDown(p) <= p /\ p < RoundedDown(p) + Tick
           /\ RoundedUp(p) \in Nat /\ p <= RoundedUp(p) /\ RoundedUp(p) < p + Tick
<1>1. Tick \in Nat /\ 0 < Tick /\ p + Tick - 1 \in Nat
  BY RiskAssumption
<1>2. PICK q \in Nat : q = p \div Tick /\ Tick * q <= p /\ p < Tick * q + Tick
  BY <1>1, Division
<1>3. PICK r \in Nat : r = (p + Tick - 1) \div Tick /\ Tick * r <= p + Tick - 1 /\ p + Tick - 1 < Tick * r + Tick
  BY <1>1, Division
<1>4. Tick * q = q * Tick /\ Tick * r = r * Tick /\ q * Tick \in Nat /\ r * Tick \in Nat
  BY <1>1
<1>5. RoundedDown(p) = q * Tick /\ RoundedUp(p) = r * Tick
  BY <1>2, <1>3 DEF RoundedDown, RoundedUp
<1> QED BY <1>1, <1>2, <1>3, <1>4, <1>5

\* The five methods are all in either order, and the first of some of them is one of them.
LEMMA FirstOfSome ==
    ASSUME NEW S, S # {}, S \subseteq Methods
    PROVE  FirstIn(StopOrder, S) \in S /\ FirstIn(TargetOrder, S) \in S
<1>1. ASSUME NEW order, \E i \in 1..5 : order[i] \in S
      PROVE  \E i \in 1..5 : order[i] \in S /\ \A j \in 1..(i - 1) : order[j] \notin S
  <2>1. CASE order[1] \in S
    BY <2>1
  <2>2. CASE order[1] \notin S /\ order[2] \in S
    BY <2>2
  <2>3. CASE order[1] \notin S /\ order[2] \notin S /\ order[3] \in S
    BY <2>3
  <2>4. CASE order[1] \notin S /\ order[2] \notin S /\ order[3] \notin S /\ order[4] \in S
    BY <2>4
  <2>5. CASE order[1] \notin S /\ order[2] \notin S /\ order[3] \notin S /\ order[4] \notin S
    BY <1>1, <2>5
  <2> QED BY <2>1, <2>2, <2>3, <2>4, <2>5
<1>2. ASSUME NEW order, \E i \in 1..5 : order[i] \in S PROVE FirstIn(order, S) \in S
  BY <1>1, <1>2 DEF FirstIn
<1>3. PICK m \in Methods : m \in S
  OBVIOUS
<1>4. \E i \in 1..5 : StopOrder[i] \in S
  BY <1>3 DEF Methods, Charts, StopOrder
<1>5. \E i \in 1..5 : TargetOrder[i] \in S
  BY <1>3 DEF Methods, Charts, TargetOrder
<1> QED BY <1>2, <1>4, <1>5

LEMMA ProposedLevels ==
    ASSUME NEW range \in Ranges, NEW proposals \in Proposals
    PROVE  /\ Stops(range, proposals) \in [Methods -> Int] /\ Targets(range, proposals) \in [Methods -> Int]
           /\ Stops(range, proposals)["Percent"] = PctOf(Price, 100 - FixedStopPct)
           /\ Targets(range, proposals)["Percent"] = PctOf(Price, 100 + FixedTargetPct)
           /\ Stops(range, proposals)["ATR"] > 0 => range > 0
           /\ Targets(range, proposals)["ATR"] = IF range = 0 THEN 0 ELSE Price + 3 * range
<1>1. range \in Nat /\ Price \in Nat /\ proposals \in [Charts -> [stop : Nat, target : Nat]]
  BY RiskAssumption, ProposalAssumption
<1>2. 100 - FixedStopPct \in 1..99 /\ 100 + FixedTargetPct \in Nat
  BY RiskAssumption
<1>3. PctOf(Price, 100 - FixedStopPct) \in Int /\ PctOf(Price, 100 + FixedTargetPct) \in Int
  <2>1. PctOf(Price, 100 - FixedStopPct) \in 1..(Price - 1)
    BY <1>2, PercentOfPrice
  <2>2. PctOf(Price, 100 + FixedTargetPct) \in Nat
    BY <1>1, <1>2, Percentage
  <2> QED BY <2>1, <2>2
<1>4. ASSUME NEW m \in Methods, m # "ATR", m # "Percent"
      PROVE  m \in Charts /\ proposals[m].stop \in Int /\ proposals[m].target \in Int
  BY <1>1, <1>4 DEF Methods
<1>5. "ATR" \in Methods /\ "Percent" \in Methods
  BY DEF Methods
<1>6. ASSUME NEW m \in Methods PROVE Stops(range, proposals)[m] \in Int /\ Targets(range, proposals)[m] \in Int
  <2>1. CASE m = "ATR"
    BY <1>1, <2>1 DEF Stops, Targets
  <2>2. CASE m = "Percent"
    BY <1>3, <2>2 DEF Stops, Targets
  <2>3. CASE m # "ATR" /\ m # "Percent"
    BY <1>4, <2>3 DEF Stops, Targets
  <2> QED BY <2>1, <2>2, <2>3
<1>7. Stops(range, proposals) \in [Methods -> Int] /\ Targets(range, proposals) \in [Methods -> Int]
  BY <1>6 DEF Stops, Targets
<1>8. /\ Stops(range, proposals)["Percent"] = PctOf(Price, 100 - FixedStopPct)
      /\ Targets(range, proposals)["Percent"] = PctOf(Price, 100 + FixedTargetPct)
  BY <1>5 DEF Stops, Targets
<1>9. /\ Stops(range, proposals)["ATR"] = IF range = 0 THEN 0 ELSE Price - 2 * range
      /\ Targets(range, proposals)["ATR"] = IF range = 0 THEN 0 ELSE Price + 3 * range
  BY <1>5 DEF Stops, Targets
<1>10. Stops(range, proposals)["ATR"] > 0 => range > 0
  BY <1>1, <1>9
<1> QED BY <1>7, <1>8, <1>9, <1>10

LEMMA ChosenStop ==
    ASSUME NEW range \in Ranges, NEW proposals \in Proposals
    PROVE  LET stops == Stops(range, proposals)
           IN  StopMethod(stops) \in Methods /\ stops[StopMethod(stops)] \in 1..(Price - 1)
<1>1. PICK stops \in [Methods -> Int] :
          stops = Stops(range, proposals) /\ stops["Percent"] = PctOf(Price, 100 - FixedStopPct)
  BY ProposedLevels
<1>2. 100 - FixedStopPct \in 1..99 /\ Price \in Nat
  BY RiskAssumption
<1>3. stops["Percent"] \in 1..(Price - 1) /\ "Percent" \in Methods
  BY <1>1, <1>2, PercentOfPrice DEF Methods
<1> DEFINE valid == {m \in Methods : stops[m] > 0 /\ stops[m] < Price}
           reasonable == {m \in valid : /\ (Price - stops[m]) * 100 > Price
                                        /\ (Price - stops[m]) * 10 < Price}
           from == IF reasonable # {} THEN reasonable ELSE valid
           best == {m \in from : \A n \in from : stops[n] <= stops[m]}
<1>4. from \subseteq valid /\ "Percent" \in valid /\ from # {}
  BY <1>2, <1>3
<1>5. \A m \in valid : m \in Methods /\ stops[m] \in 1..(Price - 1)
  BY <1>2
<1>6. StopMethod(stops) = FirstIn(StopOrder, best)
  <2>1. StopMethod(stops) = IF from = {} THEN "Percent" ELSE FirstIn(StopOrder, best)
    BY DEF StopMethod
  <2> QED BY <1>4, <2>1
<1> HIDE DEF valid, from
<1>7. best # {}
  <2>1. PICK T : T = {Price - stops[m] : m \in from}
    OBVIOUS
  <2>2. T \in SUBSET Nat /\ T # {}
    BY <1>2, <1>4, <1>5, <2>1
  <2>3. PICK d \in T : \A e \in T : d <= e
    BY <2>2, LeastOf
  <2>4. PICK m \in from : d = Price - stops[m]
    BY <2>1, <2>3
  <2>5. ASSUME NEW n \in from PROVE stops[n] <= stops[m]
    <3>1. Price - stops[n] \in T
      BY <2>1
    <3>2. Price - stops[m] <= Price - stops[n]
      BY <2>3, <2>4, <3>1
    <3> QED BY <1>2, <1>4, <1>5, <3>2
  <2> QED BY <2>5
<1>8. best \subseteq valid
  BY <1>4
<1>9. best \subseteq Methods
  BY <1>5, <1>8
<1>10. FirstIn(StopOrder, best) \in best
  BY <1>7, <1>9, FirstOfSome
<1>11. FirstIn(StopOrder, best) \in valid
  BY <1>8, <1>10
<1> QED BY <1>1, <1>5, <1>6, <1>11

LEMMA ChosenTarget ==
    ASSUME NEW range \in Ranges, NEW proposals \in Proposals
    PROVE  LET targets == Targets(range, proposals)
           IN  /\ TargetMethod(targets) \in Methods
               /\ targets[TargetMethod(targets)] \in Nat /\ Price < targets[TargetMethod(targets)]
<1>1. PICK targets \in [Methods -> Int] :
          targets = Targets(range, proposals) /\ targets["Percent"] = PctOf(Price, 100 + FixedTargetPct)
  BY ProposedLevels
<1>2. 100 + FixedTargetPct \in Nat /\ 100 + FixedTargetPct > 100 /\ Price \in Nat
  BY RiskAssumption
<1>3. targets["Percent"] > Price /\ "Percent" \in Methods
  BY <1>1, <1>2, PercentOfPrice DEF Methods
<1> DEFINE valid == {m \in Methods : targets[m] > Price}
           reasonable == {m \in valid : (targets[m] - Price) * 50 > Price}
           from == IF reasonable # {} THEN reasonable ELSE valid
<1>4. from \subseteq valid /\ "Percent" \in valid /\ from # {}
  BY <1>2, <1>3
<1>5. \A m \in valid : m \in Methods /\ targets[m] \in Nat /\ Price < targets[m]
  BY <1>2
<1>6. TargetMethod(targets) = FirstIn(TargetOrder, from)
  <2>1. TargetMethod(targets) = IF from = {} THEN "Percent" ELSE FirstIn(TargetOrder, from)
    BY DEF TargetMethod
  <2> QED BY <1>4, <2>1
<1> HIDE DEF valid, from
<1>7. FirstIn(TargetOrder, from) \in from
  BY <1>4, <1>5, FirstOfSome
<1> QED BY <1>1, <1>4, <1>5, <1>6, <1>7

\* A stop that was corrected is still below the price, by its least distance, and not below the limit.
LEMMA StopCorrected ==
    ASSUME NEW stop \in 1..(Price - 1)
    PROVE  /\ StopInBand(stop) \in Nat /\ StopInBand(stop) < Price
           /\ PctOf(Price, 100 - LimitPct) <= StopInBand(stop)
           /\ StopInBand(stop) * 1000 <= Price * (1000 - MinStopPermille)
<1>1. /\ Price \in Nat /\ 100 <= Price /\ LimitPct \in 1..99 /\ MinStopPermille \in Nat
      /\ MinStopPermille <= 10 * LimitPct
  BY RiskAssumption, UnitAssumption
<1>2. 100 - LimitPct \in 1..99 /\ 1000 - MinStopPermille \in Nat /\ 10 * (100 - LimitPct) <= 1000 - MinStopPermille
  BY <1>1
<1>3. PICK lowest \in 1..(Price - 1) : lowest = PctOf(Price, 100 - LimitPct) /\ 100 * lowest <= Price * (100 - LimitPct)
  <2>1. PctOf(Price, 100 - LimitPct) \in 1..(Price - 1)
    BY <1>2, PercentOfPrice
  <2>2. 100 * PctOf(Price, 100 - LimitPct) <= Price * (100 - LimitPct)
    BY <1>1, <1>2, Percentage
  <2> QED BY <2>1, <2>2
<1>4. Price * (1000 - MinStopPermille) \in Nat /\ Price * (10 * (100 - LimitPct)) <= Price * (1000 - MinStopPermille)
  BY <1>1, <1>2
<1>5. PICK nearest \in Nat : /\ nearest = (Price * (1000 - MinStopPermille)) \div 1000
                             /\ 1000 * nearest <= Price * (1000 - MinStopPermille)
                             /\ Price * (1000 - MinStopPermille) < 1000 * nearest + 1000
  BY <1>4, Division
<1>6. lowest <= nearest
  <2>1. 1000 * lowest <= Price * (10 * (100 - LimitPct))
    BY <1>1, <1>2, <1>3
  <2>2. 1000 * lowest < 1000 * nearest + 1000
    BY <1>1, <1>2, <1>4, <1>5, <2>1
  <2> QED BY <2>2
<1>7. PICK limited \in 1..(Price - 1) : limited = HigherOf(stop, lowest) /\ lowest <= limited
  BY <1>1 DEF HigherOf
<1>8. StopInBand(stop) = LowerOf(limited, nearest)
  BY <1>1, <1>3, <1>5, <1>7 DEF StopInBand
<1>9. LowerOf(limited, nearest) \in Nat /\ LowerOf(limited, nearest) <= limited
      /\ LowerOf(limited, nearest) <= nearest /\ lowest <= LowerOf(limited, nearest)
  BY <1>6, <1>7 DEF LowerOf
<1>10. LowerOf(limited, nearest) * 1000 <= 1000 * nearest
  BY <1>9
<1>11. LowerOf(limited, nearest) * 1000 <= Price * (1000 - MinStopPermille)
  BY <1>1, <1>2, <1>4, <1>5, <1>9, <1>10
<1>12. LowerOf(limited, nearest) < Price
  BY <1>1, <1>7, <1>9
<1> QED BY <1>3, <1>8, <1>9, <1>11, <1>12

LEMMA TargetWidened ==
    ASSUME NEW stop \in 1..(Price - 1), NEW range \in Nat, range > 0
    PROVE  Widened(stop, range) \in Nat /\ Price < Widened(stop, range)
<1>1. Price \in Nat /\ 100 + TargetFloorPct \in Nat /\ 110 \in Nat /\ Price - stop \in Nat
  BY RiskAssumption
<1>2. PctOf(Price, 100 + TargetFloorPct) \in Nat /\ PctOf(Price, 110) \in Nat /\ (Price - stop) \div 2 \in Nat
  <2>1. PctOf(Price, 100 + TargetFloorPct) \in Nat /\ PctOf(Price, 110) \in Nat
    BY <1>1, PercentOfPrice
  <2>2. (Price - stop) \div 2 \in Nat
    BY <1>1, Division
  <2> QED BY <2>1, <2>2
<1>3. Price < PctOf(Price, 110)
  BY PercentOfPrice
<1>4. PICK wished \in Nat : wished = HigherOf(Price + 3 * range, Price + (Price - stop) \div 2) /\ Price < wished
  BY <1>1, <1>2 DEF HigherOf
<1>5. PICK capped \in Nat : capped = LowerOf(wished, PctOf(Price, 110)) /\ Price < capped
  BY <1>2, <1>3, <1>4 DEF LowerOf
<1>6. Widened(stop, range) = HigherOf(PctOf(Price, 100 + TargetFloorPct), capped)
  BY <1>4, <1>5 DEF Widened
<1> QED BY <1>1, <1>2, <1>5, <1>6 DEF HigherOf

\* Stop and target stand in their bands unless they are those of the range.
InBand(stop, target) ==
    /\ stop * 1000 <= Price * (1000 - MinStopPermille)
    /\ stop + Tick > PctOf(Price, 100 - LimitPct)
    /\ target < PctOf(Price, 100 + LimitPct) + Tick

LEMMA FinalLevelsSound ==
    ASSUME NEW range \in Ranges, NEW proposals \in Proposals
    PROVE  LET final == FinalLevels(range, proposals)
           IN  /\ final.stop \in Nat /\ final.target \in Nat /\ final.ofRange \in BOOLEAN
               /\ Price < final.target
               /\ ~final.ofRange => InBand(final.stop, final.target)
<1>1. PICK stops \in [Methods -> Int] : stops = Stops(range, proposals) /\ (stops["ATR"] > 0 => range > 0)
  BY ProposedLevels
<1>2. PICK targets \in [Methods -> Int] :
          targets = Targets(range, proposals) /\ targets["ATR"] = IF range = 0 THEN 0 ELSE Price + 3 * range
  BY ProposedLevels
<1>3. range \in Nat /\ Price \in Nat /\ Tick \in Nat /\ 0 < Tick /\ LimitPct \in 1..99 /\ 100 <= Price
      /\ MinStopPermille \in Nat /\ MinStopPermille <= 10 * LimitPct
  BY RiskAssumption, UnitAssumption
<1>4. PICK sm \in Methods : sm = StopMethod(stops) /\ stops[sm] \in 1..(Price - 1)
  BY <1>1, ChosenStop
<1>5. PICK tm \in Methods : tm = TargetMethod(targets) /\ targets[tm] \in Nat /\ Price < targets[tm]
  BY <1>2, ChosenTarget
<1>6. PICK widens \in BOOLEAN : widens = Widens(tm, stops[sm], range) /\ (widens => range > 0)
  BY DEF Widens
<1>7. PICK chosen \in Nat : chosen = (IF widens THEN Widened(stops[sm], range) ELSE targets[tm]) /\ Price < chosen
  BY <1>3, <1>4, <1>5, <1>6, TargetWidened
<1>8. PICK band \in Nat : /\ band = StopInBand(stops[sm]) /\ band < Price
                          /\ PctOf(Price, 100 - LimitPct) <= band
                          /\ band * 1000 <= Price * (1000 - MinStopPermille)
  BY <1>4, StopCorrected
<1>9. PICK stop \in Nat : stop = RoundedDown(band) /\ stop <= band /\ band < stop + Tick
  BY <1>8, Rounding
<1>10. 100 + LimitPct \in Nat /\ 100 + LimitPct > 100 /\ 100 - LimitPct \in 1..99
  BY <1>3
<1>11. PICK highest \in Nat : highest = PctOf(Price, 100 + LimitPct) /\ Price < highest
  BY <1>3, <1>10, PercentOfPrice
<1>12. PICK limited \in Nat : limited = LowerOf(chosen, highest) /\ Price < limited /\ limited <= highest
  BY <1>3, <1>7, <1>11 DEF LowerOf
<1>13. PICK target \in Nat : target = RoundedUp(limited) /\ limited <= target /\ target < limited + Tick
  BY <1>12, Rounding
<1>14. InBand(stop, target) /\ Price < target
  <2>1. PICK lowest \in Nat : lowest = PctOf(Price, 100 - LimitPct)
    BY <1>3, <1>10, PercentOfPrice
  <2>2. stop * 1000 <= band * 1000 /\ lowest < stop + Tick
    BY <1>3, <1>8, <1>9, <2>1
  <2>3. 1000 - MinStopPermille \in Nat
    BY <1>3
  <2>4. stop * 1000 <= Price * (1000 - MinStopPermille)
    <3>1. PICK most \in Int : most = Price * (1000 - MinStopPermille)
      BY <1>3, <2>3
    <3> QED BY <1>8, <2>2, <3>1
  <2>5. target < highest + Tick /\ Price < target
    BY <1>3, <1>11, <1>12, <1>13
  <2> QED BY <1>3, <1>9, <1>11, <2>1, <2>2, <2>4, <2>5 DEF InBand
<1>15. \/ FinalLevels(range, proposals) = [stop |-> stop, target |-> target, ofRange |-> FALSE]
       \/ /\ stops["ATR"] > 0
          /\ FinalLevels(range, proposals) =
                [stop |-> RoundedDown(stops["ATR"]), target |-> RoundedUp(targets["ATR"]), ofRange |-> TRUE]
  BY <1>1, <1>2, <1>4, <1>5, <1>6, <1>7, <1>8, <1>9, <1>11, <1>12, <1>13 DEF FinalLevels
<1>16. CASE FinalLevels(range, proposals) = [stop |-> stop, target |-> target, ofRange |-> FALSE]
  BY <1>14, <1>16
<1>17. CASE /\ stops["ATR"] > 0
            /\ FinalLevels(range, proposals) =
                  [stop |-> RoundedDown(stops["ATR"]), target |-> RoundedUp(targets["ATR"]), ofRange |-> TRUE]
  <2>1. stops["ATR"] \in Nat /\ targets["ATR"] \in Nat /\ Price < targets["ATR"]
    BY <1>1, <1>2, <1>3, <1>17 DEF Methods
  <2>2. RoundedDown(stops["ATR"]) \in Nat /\ RoundedUp(targets["ATR"]) \in Nat /\ Price < RoundedUp(targets["ATR"])
    BY <1>3, <2>1, Rounding
  <2> QED BY <1>17, <2>2
<1> QED BY <1>15, <1>16, <1>17

\* What a size may be: it loses no more than the risk budget at the stop, and its cost is bounded.
SizedWithin(l, pct) ==
    /\ l.stop < Price /\ l.shares > 0
    /\ l.shares * (Price - l.stop) <= PctOf(Funds, RiskPct)
    /\ l.shares * Price <= PctOf(Funds, pct)

\* Two throttles of at most a hundred percent leave no more than the budget.
LossAllowed(v, c) == (Funds * RiskPct * v * c) \div 1000000

LEMMA ThrottledLoss ==
    ASSUME NEW v \in 0..100, NEW c \in 0..100
    PROVE  LossAllowed(v, c) \in Nat /\ LossAllowed(v, c) <= PctOf(Funds, RiskPct)
<1>1. PICK budget \in Nat : budget = Funds * RiskPct
  BY SMT, RiskAssumption
<1>2. budget * v * c \in Nat /\ budget * v * c <= budget * 10000
  <2>1. v * c <= 10000 /\ v * c \in Nat
    <3>1. v * c <= 100 * c
      BY SMT
    <3> QED BY SMT, <3>1
  <2>2. budget * (v * c) <= budget * 10000
    BY SMT, <2>1
  <2>3. budget * v * c = budget * (v * c)
    BY SMT
  <2>4. budget * (v * c) \in Nat
    BY SMT, <2>1
  <2> QED BY SMT, <2>2, <2>3, <2>4
<1>3. PICK loss \in Nat : loss = (budget * v * c) \div 1000000 /\ 1000000 * loss <= budget * v * c
  BY SMT, <1>2, Division
<1>4. PICK most \in Nat : most = budget \div 100 /\ budget < 100 * most + 100
  BY SMT, Division
<1>5. 1000000 * loss <= budget * 10000
  BY SMT, <1>2, <1>3
<1>6. loss <= most
  BY SMT, <1>4, <1>5
<1> QED BY SMT, <1>1, <1>3, <1>4, <1>6 DEF PctOf, LossAllowed

LEMMA BudgetedSound ==
    ASSUME NEW l \in RiskRow, NEW cap \in Nat
    PROVE  /\ Budgeted(l, cap) \in RiskRow
           /\ Budgeted(l, cap).stop = l.stop /\ Budgeted(l, cap).target = l.target
           /\ Budgeted(l, cap).shares # 0 => SizedWithin(Budgeted(l, cap), 90)
<1>1. Price \in Nat /\ 100 <= Price /\ Funds \in Nat /\ RiskPct \in Nat
  BY RiskAssumption, UnitAssumption
<1>2. l.stop \in Nat /\ l.volatility \in 0..100 /\ l.correlation \in 0..100
  BY DEF RiskRow
<1>3. PICK most \in Nat : most = PctOf(Funds, RiskPct)
  BY <1>1, Percentage, SMTT(30)
<1>4. PICK loss \in Nat : loss = LossAllowed(l.volatility, l.correlation) /\ loss <= most
  BY <1>2, <1>3, ThrottledLoss
<1>5. CASE Price - l.stop <= 0
  <2>1. Budgeted(l, cap) = [l EXCEPT !.shares = 0]
    BY <1>5 DEF Budgeted
  <2> QED BY <2>1 DEF RiskRow
<1>6. CASE ~(Price - l.stop <= 0)
  <2>1. PICK risk \in Nat : risk = Price - l.stop /\ 0 < risk
    BY <1>1, <1>2, <1>6
  <2>2. PICK byLoss \in Nat : byLoss = loss \div risk /\ risk * byLoss <= loss
    BY <2>1, Division
  <2>3. PICK whole \in Nat : whole = PctOf(Funds, 90)
    BY <1>1, Percentage
  <2>4. PICK part \in Nat : part = PctOf(Funds, cap)
    BY <1>1, Percentage
  <2>5. PICK byFunds \in Nat : byFunds = whole \div Price /\ Price * byFunds <= whole
    BY <1>1, Division
  <2>6. PICK byCap \in Nat : byCap = part \div Price
    BY <1>1, Division
  <2>7. PICK n \in Nat : n = LowerOf(byLoss, LowerOf(byFunds, byCap)) /\ n <= byLoss /\ n <= byFunds
    BY DEF LowerOf
  <2>8. Budgeted(l, cap) = [l EXCEPT !.shares = n]
    BY SMT, <1>4, <1>6, <2>1, <2>2, <2>3, <2>4, <2>5, <2>6, <2>7 DEF Budgeted, LossAllowed
  <2>9. n * risk <= most
    <3>1. risk * n <= risk * byLoss
      BY <2>7
    <3> QED BY <1>4, <2>2, <3>1
  <2>10. n * Price <= whole
    <3>1. Price * n <= Price * byFunds
      BY <1>1, <2>7
    <3> QED BY <1>1, <2>5, <3>1
  <2>11. /\ [l EXCEPT !.shares = n] \in RiskRow
         /\ [l EXCEPT !.shares = n].stop = l.stop /\ [l EXCEPT !.shares = n].target = l.target
         /\ [l EXCEPT !.shares = n].shares = n
    BY DEF RiskRow
  <2>12. n # 0 => SizedWithin([l EXCEPT !.shares = n], 90)
    <3> SUFFICES ASSUME n # 0 PROVE SizedWithin([l EXCEPT !.shares = n], 90)
      OBVIOUS
    <3>1. l.stop < Price /\ n > 0
      BY <1>1, <1>2, <2>1
    <3> QED BY <1>3, <2>1, <2>3, <2>9, <2>10, <2>11, <3>1 DEF SizedWithin
  <2> QED BY <2>8, <2>11, <2>12
<1> QED BY <1>5, <1>6

LEMMA ThrottleInRange ==
    ASSUME NEW range \in Ranges
    PROVE  Throttle(range) \in 0..100
<1>1. range \in Nat /\ Price \in Nat /\ BaselinePermille \in Nat /\ MinScalePct \in 0..100
  BY RiskAssumption, UnitAssumption
<1>2. CASE range = 0 \/ Price <= 2 * range \/ range * 1000 <= BaselinePermille * Price
  BY <1>2 DEF Throttle
<1>3. CASE ~(range = 0 \/ Price <= 2 * range \/ range * 1000 <= BaselinePermille * Price)
  <2>1. PICK usual \in Nat : usual = BaselinePermille * Price
    BY <1>1
  <2>2. 10 * range \in Nat /\ 0 < 10 * range /\ usual <= (10 * range) * 100
    BY <1>1, <1>3, <2>1
  <2>3. usual \div (10 * range) \in Nat /\ usual \div (10 * range) <= 100
    BY <2>2, Division, DivisionBelow
  <2>4. Throttle(range) = HigherOf(MinScalePct, usual \div (10 * range))
    BY <1>3, <2>1 DEF Throttle
  <2> QED BY <1>1, <2>3, <2>4 DEF HigherOf
<1> QED BY <1>2, <1>3

RiskInv ==
    /\ stage \in {"new", "sized", "portfolio", "buy", "rejected"}
    /\ levels \in RiskRow /\ fellBack \in BOOLEAN /\ modelled \in BOOLEAN
    /\ stage # "new" => /\ Price < levels.target
                        /\ ~fellBack => InBand(levels.stop, levels.target)
    /\ stage \in {"portfolio", "buy"} => SizedWithin(levels, 90)
    /\ stage \in {"new", "sized", "portfolio"} => ~modelled
    /\ (stage = "buy" /\ modelled) => levels.shares * Price <= PctOf(Funds, CapPct)

LEMMA RiskInitially == ASSUME RiskInit PROVE RiskInv
<1>1. NoLevels \in RiskRow
  BY DEF RiskRow, NoLevels
<1>2. stage = "new" /\ levels = NoLevels /\ fellBack = FALSE /\ modelled = FALSE
  BY DEF RiskInit
<1> QED BY <1>1, <1>2 DEF RiskInv

LEMMA CalculatesSoundly ==
    ASSUME RiskInv, NEW range \in Ranges, NEW proposals \in Proposals, Calculates(range, proposals)
    PROVE  RiskInv'
<1>1. PICK final : final = FinalLevels(range, proposals)
  OBVIOUS
<1>2. /\ final.stop \in Nat /\ final.target \in Nat /\ final.ofRange \in BOOLEAN
      /\ Price < final.target
      /\ ~final.ofRange => InBand(final.stop, final.target)
  BY <1>1, FinalLevelsSound
<1>3. PICK v \in 0..100 : v = Throttle(range)
  BY ThrottleInRange
<1>4. PICK l : l = [NoLevels EXCEPT !.stop = final.stop, !.target = final.target, !.volatility = v]
  OBVIOUS
<1>5. l \in RiskRow /\ l.stop = final.stop /\ l.target = final.target
  <2> DEFINE one == [NoLevels EXCEPT !.stop = final.stop]
             two == [one EXCEPT !.target = final.target]
  <2>1. NoLevels \in RiskRow
    BY DEF RiskRow, NoLevels
  <2>2. one \in RiskRow /\ one.stop = final.stop
    BY <1>2, <2>1 DEF RiskRow
  <2> HIDE DEF one
  <2>3. two \in RiskRow /\ two.stop = final.stop /\ two.target = final.target
    BY <1>2, <2>2 DEF RiskRow
  <2>4. l = [two EXCEPT !.volatility = v]
    BY <1>4 DEF one, two
  <2> HIDE DEF two
  <2> QED BY <2>3, <2>4 DEF RiskRow
<1>6. PICK sized \in RiskRow : sized = Budgeted(l, CapPct) /\ sized.stop = l.stop /\ sized.target = l.target
  BY <1>5, BudgetedSound, RiskAssumption
<1>7. stage' = "sized" /\ fellBack' = final.ofRange /\ levels' = sized /\ modelled' = modelled /\ stage = "new"
  BY <1>1, <1>3, <1>4, <1>6 DEF Calculates
<1> QED BY <1>2, <1>5, <1>6, <1>7 DEF RiskInv, InBand

LEMMA CorrelatesSoundly ==
    ASSUME RiskInv, NEW correlated \in 0..(MaxCluster + 1), Correlates(correlated)
    PROVE  RiskInv'
<1>1. stage = "sized" /\ levels \in RiskRow
  BY DEF Correlates, RiskInv
<1>2. PICK scale \in 0..100 : scale = HigherOf(ClusterMinPct, 100 - correlated * ClusterStepPct)
  <2>1. ClusterMinPct \in 0..100 /\ correlated \in Nat /\ ClusterStepPct \in Nat
    BY RiskAssumption
  <2>2. correlated * ClusterStepPct \in Nat
    BY <2>1
  <2> QED BY <2>1, <2>2 DEF HigherOf
<1>3. PICK l : l = [levels EXCEPT !.correlation = scale]
  OBVIOUS
<1>4. l \in RiskRow /\ l.stop = levels.stop /\ l.target = levels.target
  BY <1>1, <1>3 DEF RiskRow
<1>5. PICK sized \in RiskRow : /\ sized = Budgeted(l, 90) /\ sized.stop = l.stop /\ sized.target = l.target
                               /\ sized.shares # 0 => SizedWithin(sized, 90)
  BY <1>4, BudgetedSound
<1>6. \/ Rejects
      \/ sized.shares # 0 /\ stage' = "portfolio" /\ levels' = sized /\ UNCHANGED <<fellBack, modelled>>
  BY <1>2, <1>3, <1>5 DEF Correlates
<1>7. CASE Rejects
  BY <1>1, <1>7 DEF RiskInv, Rejects, InBand, SizedWithin
<1>8. CASE sized.shares # 0 /\ stage' = "portfolio" /\ levels' = sized /\ UNCHANGED <<fellBack, modelled>>
  BY <1>1, <1>4, <1>5, <1>8 DEF RiskInv, InBand, SizedWithin
<1> QED BY <1>6, <1>7, <1>8

LEMMA ModelSizesSoundly ==
    ASSUME RiskInv, NEW pct \in Probabilities, NEW lossReached \in BOOLEAN, NEW illiquid \in BOOLEAN,
           AsksModel(pct, lossReached, illiquid)
    PROVE  RiskInv'
<1>1. /\ stage = "portfolio" /\ levels \in RiskRow /\ levels.shares \in Nat /\ levels.stop \in Nat
      /\ levels.target \in Nat
  BY DEF AsksModel, RiskInv, RiskRow
<1>2. /\ Price \in Nat /\ 0 < Price /\ Funds \in Nat /\ CapPct \in Nat /\ KellyPct \in Nat /\ pct \in 0..99
      /\ RiskPct \in Nat
  BY RiskAssumption, UnitAssumption
<1>3. Price < levels.target /\ SizedWithin(levels, 90)
  BY <1>1 DEF RiskInv
<1>4. PICK share \in Nat : share = KellyShare(pct) /\ share <= CapPct * 100
  <2>1. levels.target - Price \in Nat /\ 0 < levels.target - Price /\ Price - levels.stop \in Nat
    BY <1>1, <1>2, <1>3 DEF SizedWithin
  <2>2. (100 - pct) * 100 * (Price - levels.stop) \in Nat
    BY <1>2, <2>1
  <2>3. PICK lost \in Nat : lost = ((100 - pct) * 100 * (Price - levels.stop)) \div (levels.target - Price)
    BY <2>1, <2>2, Division
  <2>4. PICK full \in Nat : full = HigherOf(0, pct * 100 - lost)
    BY <1>2 DEF HigherOf
  <2>5. full * KellyPct \in Nat
    BY <1>2
  <2>6. (full * KellyPct) \div 100 \in Nat /\ CapPct * 100 \in Nat
    BY <1>2, <2>5, Division
  <2>7. KellyShare(pct) = LowerOf(CapPct * 100, (full * KellyPct) \div 100)
    BY <2>3, <2>4 DEF KellyShare
  <2> QED BY <2>6, <2>7 DEF LowerOf
<1>5. PICK most \in Nat : most = PctOf(Funds, CapPct)
  BY <1>2, Percentage
<1>6. PICK worth \in Nat : worth = (Funds * share) \div 10000 /\ worth <= most
  <2>1. Funds * share \in Nat /\ Funds * CapPct \in Nat
    BY SMT, <1>2
  <2>2. Funds * share <= Funds * (CapPct * 100)
    BY SMT, <1>2, <1>4
  <2>3. PICK w \in Nat : w = (Funds * share) \div 10000 /\ 10000 * w <= Funds * share
    BY SMT, <2>1, Division
  <2>4. Funds * CapPct < 100 * most + 100
    BY SMT, <1>2, <1>5, Percentage
  <2>5. 10000 * w <= (Funds * CapPct) * 100
    BY SMT, <1>2, <2>1, <2>2, <2>3
  <2>6. w <= most
    BY SMT, <2>1, <2>4, <2>5
  <2> QED BY SMT, <2>3, <2>6
<1>7. PICK affordable \in Nat : affordable = worth \div Price /\ Price * affordable <= worth
  BY <1>2, Division
<1>8. PICK n \in Nat : n = LowerOf(levels.shares, affordable) /\ n <= levels.shares /\ n <= affordable
  BY <1>1 DEF LowerOf
<1>9. \/ Rejects
      \/ n # 0 /\ stage' = "buy" /\ modelled' = TRUE /\ levels' = [levels EXCEPT !.shares = n] /\ fellBack' = fellBack
  BY SMT, <1>4, <1>6, <1>7, <1>8 DEF AsksModel
<1>10. CASE Rejects
  BY <1>1, <1>10 DEF RiskInv, Rejects, InBand, SizedWithin
<1>11. CASE n # 0 /\ stage' = "buy" /\ modelled' = TRUE /\ levels' = [levels EXCEPT !.shares = n] /\ fellBack' = fellBack
  <2>1. PICK l : l = [levels EXCEPT !.shares = n]
    OBVIOUS
  <2>2. l \in RiskRow /\ l.stop = levels.stop /\ l.target = levels.target /\ l.shares = n
    BY <1>1, <2>1 DEF RiskRow
  <2>3. n * Price <= most
    <3>1. Price * n <= Price * affordable
      BY <1>2, <1>8
    <3> QED BY <1>2, <1>6, <1>7, <3>1
  <2>4. SizedWithin(l, 90)
    <3>1. PICK risk \in Nat : risk = Price - levels.stop /\ levels.stop < Price
      BY <1>1, <1>2, <1>3 DEF SizedWithin
    <3>2. PICK budget \in Nat : budget = PctOf(Funds, RiskPct)
      BY <1>2, Percentage
    <3>3. PICK whole \in Nat : whole = PctOf(Funds, 90)
      BY <1>2, Percentage
    <3>4. levels.shares * risk <= budget /\ levels.shares * Price <= whole
      BY <1>3, <3>1, <3>2, <3>3 DEF SizedWithin
    <3>5. n * risk <= levels.shares * risk /\ n * Price <= levels.shares * Price
      BY <1>1, <1>2, <1>8, <3>1
    <3>6. n * risk <= budget /\ n * Price <= whole /\ n > 0
      BY <1>1, <1>2, <1>11, <3>1, <3>4, <3>5
    <3> QED BY <2>2, <3>1, <3>2, <3>3, <3>6 DEF SizedWithin
  <2>5. stage' = "buy" /\ modelled' = TRUE /\ levels' = l /\ fellBack' = fellBack
    BY <1>11, <2>1
  <2>6. ~fellBack => InBand(levels.stop, levels.target)
    BY <1>1 DEF RiskInv
  <2>7. fellBack \in BOOLEAN
    BY DEF RiskInv
  <2> QED BY <1>3, <1>5, <2>2, <2>3, <2>4, <2>5, <2>6, <2>7 DEF RiskInv, InBand, SizedWithin
<1> QED BY <1>9, <1>10, <1>11

LEMMA RiskStep == ASSUME RiskInv, [RiskNext]_riskVars PROVE RiskInv'
<1>1. CASE \E range \in Ranges, proposals \in Proposals : Calculates(range, proposals)
  BY <1>1, CalculatesSoundly
<1>2. CASE \E correlated \in 0..(MaxCluster + 1) : Correlates(correlated)
  BY <1>2, CorrelatesSoundly
<1>3. CASE NoModel
  BY <1>3 DEF NoModel, RiskInv, InBand, SizedWithin
<1>4. CASE \E pct \in Probabilities, lossReached, illiquid \in BOOLEAN : AsksModel(pct, lossReached, illiquid)
  BY <1>4, ModelSizesSoundly
<1>5. CASE UNCHANGED riskVars
  BY <1>5 DEF riskVars, RiskInv, InBand, SizedWithin
<1> QED BY <1>1, <1>2, <1>3, <1>4, <1>5 DEF RiskNext

LEMMA RiskInvSound == ASSUME RiskInv PROVE SoundBuy
<1>1. BuyWithinBudget
  BY DEF RiskInv, BuyWithinBudget, SizedWithin
<1>2. LevelsInBand
  BY DEF RiskInv, LevelsInBand, InBand
<1> QED BY <1>1, <1>2 DEF SoundBuy

\* A buy is sound in its levels and its size, at every price and with every setting that the
\* assumptions allow (RiskManager.calculate, apply_portfolio_risk, apply_probability_sizing).
THEOREM SoundBuyHolds == RiskSpec => []SoundBuy
<1>1. RiskInit => RiskInv
  BY RiskInitially
<1>2. RiskInv /\ [RiskNext]_riskVars => RiskInv'
  BY RiskStep
<1>3. RiskInv => SoundBuy
  BY RiskInvSound
<1> QED BY <1>1, <1>2, <1>3, PTL DEF RiskSpec

----
(* The scans of one engine, of every number of threads, papers, sectors and *)
(* limits. What a scan counts of its sectors is its own; what it sees of    *)
(* the registered positions is its own only as long as no other thread is  *)
(* at work, so the invariant of the positions is one of lone scans.         *)
ScanRow == [pc : {"idle", "restore", "score", "cluster", "model", "done"}, at : Nat, taken : SUBSET Papers,
            buys : Seq(Papers), alone : BOOLEAN]

OfSector(S, s) == {q \in S : SectorOf[q] = s}
AlikeAmong(S, p) == {q \in S : Alike(p, q)}
Kept(r) == Cardinality(held) + Len(r.buys) <= HistoryLimit

\* A thread looks at a paper, and one that is idle is as new.
RowPlaced(r) ==
    /\ r.pc \in {"score", "cluster", "model"} => r.at \in Papers
    /\ r.pc = "idle" => r = NoThread

\* The places a scan has taken are within the limit, and every buy has its place.
PlacesTaken(r) ==
    /\ ToSet(r.buys) \subseteq r.taken
    /\ r.pc \in {"cluster", "model"} => r.at \in r.taken
    /\ \A s \in Nat \ {0} : Cardinality(OfSector(r.taken, s)) <= SectorLimit

\* A lone scan has registered what is held and what it bought, and nothing else.
LoneScanKnows(r) ==
    r.alone =>
        /\ r.pc = "restore" => registered = <<>> /\ r.buys = <<>>
        /\ (r.pc \in {"score", "cluster", "model"} /\ Kept(r)) =>
              /\ ToSet(registered) = held \cup ToSet(r.buys)
              /\ Len(registered) <= Cardinality(held) + Len(r.buys)
        /\ (r.pc = "model" /\ Kept(r)) =>
              Cardinality(AlikeAmong(held \cup ToSet(r.buys), r.at)) <= ClusterLimit

Before(buys, i) == {buys[j] : j \in 1..(i - 1)}
BuysUncorrelated(r) ==
    (r.alone /\ Kept(r)) =>
        \A i \in 1..Len(r.buys) :
            Cardinality(AlikeAmong(held \cup Before(r.buys, i), r.buys[i])) <= ClusterLimit

ScanSound(r) == PlacesTaken(r) /\ LoneScanKnows(r) /\ BuysUncorrelated(r)

\* A thread that is alone found and left the others idle.
AloneAmongIdle ==
    \A t \in Threads : (thread[t].alone /\ thread[t].pc # "idle") =>
        \A u \in Threads \ {t} : thread[u].pc = "idle"

EntryTyped ==
    /\ held \subseteq Papers /\ memo \in BOOLEAN /\ registered \in Seq(Papers)
    /\ thread \in [Threads -> ScanRow]

EntryInv ==
    /\ EntryTyped /\ AloneAmongIdle
    /\ \A t \in Threads : RowPlaced(thread[t])
    /\ \A t \in Scans : ScanSound(thread[t])

----
LEMMA PapersFinite ==
    ASSUME NEW S \in SUBSET Papers
    PROVE  IsFiniteSet(S) /\ Cardinality(S) \in Nat
<1>1. NPapers \in Int /\ 1 \in Int
  BY EntryAssumption
<1>2. IsFiniteSet(Papers)
  BY <1>1, FS_Interval DEF Papers
<1> QED BY <1>2, FS_Subset, FS_CardinalityType

LEMMA SequenceFrom ==
    ASSUME NEW S, NEW n \in Nat, NEW f \in [1..n -> S]
    PROVE  f \in Seq(S) /\ Len(f) = n
OBVIOUS

\* A listing of a set of papers has each of them once.
LEMMA Listing ==
    ASSUME NEW S \in SUBSET Papers
    PROVE  /\ SetToSeq(S) \in Seq(S) /\ Len(SetToSeq(S)) = Cardinality(S)
           /\ ToSet(SetToSeq(S)) = S
<1>1. PICK n \in Nat : n = Cardinality(S) /\ IsFiniteSet(S)
  BY PapersFinite
<1>2. PICK f : f \in Bijection(1..n, S)
  BY <1>1, FS_CardinalityType DEF ExistsBijection
<1>3. f \in [1..n -> S] /\ IsInjective(f)
  BY <1>2 DEF Bijection, Injection, IsInjective
<1>4. PICK g : g = SetToSeq(S)
  OBVIOUS
<1>5. g \in [1..n -> S] /\ IsInjective(g)
  BY <1>1, <1>3, <1>4 DEF SetToSeq
<1>6. g \in Injection(1..n, S)
  BY <1>5 DEF Injection, IsInjective
<1>7. IsFiniteSet(1..n) /\ Cardinality(1..n) = n
  BY FS_Interval
<1>8. g \in Surjection(1..n, S)
  BY <1>1, <1>6, <1>7, FS_Injection
<1>9. g \in Seq(S) /\ Len(g) = n
  BY <1>5, SequenceFrom
<1>10. \A p \in S : \E i \in 1..n : g[i] = p
  BY <1>8 DEF Surjection
<1>11. ToSet(g) = S
  <2>1. DOMAIN g = 1..n
    BY <1>5
  <2> QED BY <1>5, <1>10, <2>1 DEF ToSet
<1> QED BY <1>1, <1>4, <1>9, <1>11

LEMMA ToSetOf ==
    ASSUME NEW S, NEW s \in Seq(S)
    PROVE  /\ ToSet(s) \subseteq S
           /\ ToSet(s) = {s[i] : i \in 1..Len(s)}
BY DEF ToSet

LEMMA ToSetAppended ==
    ASSUME NEW S, NEW s \in Seq(S), NEW x \in S
    PROVE  ToSet(Append(s, x)) = ToSet(s) \cup {x}
<1>1. Append(s, x) \in Seq(S) /\ Len(Append(s, x)) = Len(s) + 1 /\ Len(s) \in Nat
  OBVIOUS
<1>2. \A i \in 1..Len(s) : Append(s, x)[i] = s[i]
  OBVIOUS
<1>3. Append(s, x)[Len(s) + 1] = x
  OBVIOUS
<1>4. ToSet(s) = {s[i] : i \in 1..Len(s)}
  BY ToSetOf
<1>5. ToSet(Append(s, x)) = {Append(s, x)[i] : i \in 1..(Len(s) + 1)}
  BY <1>1, ToSetOf
<1>6. ASSUME NEW y \in ToSet(Append(s, x)) PROVE y \in ToSet(s) \cup {x}
  BY <1>1, <1>2, <1>3, <1>4, <1>5
<1>7. ASSUME NEW y \in ToSet(s) PROVE y \in ToSet(Append(s, x))
  <2>1. PICK i \in 1..Len(s) : y = s[i]
    BY <1>4
  <2>2. i \in 1..(Len(s) + 1) /\ Append(s, x)[i] = y
    BY <1>1, <1>2, <2>1
  <2> QED BY <1>5, <2>2
<1>8. x \in ToSet(Append(s, x))
  BY <1>1, <1>3, <1>5
<1> QED BY <1>6, <1>7, <1>8

LEMMA ToSetJoined ==
    ASSUME NEW s \in Seq(Papers), NEW t \in Seq(Papers), NEW u \in Seq(Papers), u = s \o t
    PROVE  ToSet(u) = ToSet(s) \cup ToSet(t)
<1>1. s \o t \in Seq(Papers) /\ Len(s \o t) = Len(s) + Len(t) /\ Len(s) \in Nat /\ Len(t) \in Nat
  OBVIOUS
<1>2. \A i \in 1..Len(s) : (s \o t)[i] = s[i]
  OBVIOUS
<1>3. \A i \in 1..Len(t) : (s \o t)[Len(s) + i] = t[i]
  OBVIOUS
<1>4. u = s \o t /\ u \in Seq(Papers) /\ Len(u) = Len(s) + Len(t)
  BY <1>1
<1>5. ToSet(s) = {s[i] : i \in 1..Len(s)} /\ ToSet(t) = {t[i] : i \in 1..Len(t)}
  BY ToSetOf
<1>6. ToSet(u) = {u[i] : i \in 1..(Len(s) + Len(t))}
  <2>1. ToSet(u) = {u[i] : i \in 1..Len(u)}
    BY <1>4, ToSetOf
  <2> QED BY <1>4, <2>1
<1>7. ASSUME NEW y \in ToSet(u) PROVE y \in ToSet(s) \cup ToSet(t)
  <2>1. PICK i \in 1..(Len(s) + Len(t)) : y = u[i]
    BY <1>6
  <2>2. CASE i <= Len(s)
    BY <1>1, <1>2, <1>4, <1>5, <2>1, <2>2
  <2>3. CASE ~(i <= Len(s))
    <3>1. i - Len(s) \in 1..Len(t) /\ i = Len(s) + (i - Len(s))
      BY <1>1, <2>1, <2>3
    <3>2. y = t[i - Len(s)]
      BY <1>3, <1>4, <2>1, <3>1
    <3> QED BY <1>5, <3>1, <3>2
  <2> QED BY <2>2, <2>3
<1>8. ASSUME NEW y \in ToSet(s) PROVE y \in ToSet(u)
  BY <1>1, <1>2, <1>4, <1>5, <1>6
<1>9. ASSUME NEW y \in ToSet(t) PROVE y \in ToSet(u)
  <2>1. PICK i \in 1..Len(t) : y = t[i]
    BY <1>5
  <2>2. Len(s) + i \in 1..(Len(s) + Len(t)) /\ u[Len(s) + i] = y
    BY <1>1, <1>3, <1>4, <2>1
  <2> QED BY <1>6, <2>2
<1> QED BY <1>1, <1>4, <1>7, <1>8, <1>9

\* What is registered: papers, and all of them where none had to be dropped.
LEMMA Registered ==
    ASSUME registered \in Seq(Papers), NEW ps \in SUBSET Papers
    PROVE  /\ Register(ps) \in Seq(Papers)
           /\ Len(registered) + Cardinality(ps \ ToSet(registered)) <= HistoryLimit =>
                 /\ ToSet(Register(ps)) = ToSet(registered) \cup ps
                 /\ Len(Register(ps)) = Len(registered) + Cardinality(ps \ ToSet(registered))
<1>1. PICK new \in SUBSET Papers : new = ps \ ToSet(registered)
  OBVIOUS
<1>2. PICK list \in Seq(Papers) : /\ list = SetToSeq(new) /\ Len(list) = Cardinality(new)
                                  /\ ToSet(list) = new
  <2>1. SetToSeq(new) \in Seq(new) /\ Len(SetToSeq(new)) = Cardinality(new) /\ ToSet(SetToSeq(new)) = new
    BY Listing
  <2>2. SetToSeq(new) \in Seq(Papers)
    BY <2>1
  <2> QED BY <2>1, <2>2
<1>3. PICK all \in Seq(Papers) : /\ all = registered \o list /\ Len(all) = Len(registered) + Cardinality(new)
                                 /\ ToSet(all) = ToSet(registered) \cup new
  <2>1. PICK all : all = registered \o list
    OBVIOUS
  <2>2. /\ all \in Seq(Papers) /\ Len(all) = Len(registered) + Len(list)
        /\ ToSet(all) = ToSet(registered) \cup ToSet(list)
    <3>1. PICK reg \in Seq(Papers) : reg = registered
      OBVIOUS
    <3>2. all = reg \o list
      BY <2>1, <3>1
    <3>3. all \in Seq(Papers) /\ Len(all) = Len(reg) + Len(list)
      BY <3>2
    <3>4. ToSet(all) = ToSet(reg) \cup ToSet(list)
      BY <3>2, <3>3, ToSetJoined
    <3> QED BY <3>1, <3>3, <3>4
  <2> QED BY <1>2, <2>1, <2>2
<1>4. Len(all) \in Nat /\ HistoryLimit \in Nat /\ Len(registered) \in Nat /\ Cardinality(new) \in Nat
  BY EntryAssumption, PapersFinite
<1>5. Register(ps) = IF HistoryLimit > 0 /\ Len(all) - HistoryLimit > 0
                     THEN SubSeq(all, Len(all) - HistoryLimit + 1, Len(all)) ELSE all
  BY <1>1, <1>2, <1>3 DEF Register
<1>6. Register(ps) \in Seq(Papers)
  <2>1. CASE HistoryLimit > 0 /\ Len(all) - HistoryLimit > 0
    <3>1. PICK n \in Nat : n = Len(all)
      BY <1>4
    <3>2. PICK m \in 1..n : m = n - HistoryLimit + 1
      <4>1. n - HistoryLimit + 1 \in 1..n
        BY <1>4, <2>1, <3>1
      <4> QED BY <4>1
    <3>3. SubSeq(all, m, n) \in Seq(Papers)
      BY <3>1
    <3> QED BY <1>5, <2>1, <3>1, <3>2, <3>3
  <2>2. CASE ~(HistoryLimit > 0 /\ Len(all) - HistoryLimit > 0)
    BY <1>5, <2>2
  <2> QED BY <2>1, <2>2
<1>7. ASSUME Len(registered) + Cardinality(new) <= HistoryLimit
      PROVE  Register(ps) = all
  BY <1>3, <1>4, <1>5, <1>7
<1>8. ToSet(registered) \cup new = ToSet(registered) \cup ps
  BY <1>1
<1> QED BY <1>1, <1>3, <1>6, <1>7, <1>8

----
LEMMA NewThread == NoThread \in ScanRow /\ RowPlaced(NoThread) /\ PlacesTaken(NoThread)
<1>1. NoThread \in ScanRow
  BY DEF NoThread, ScanRow
<1>2. RowPlaced(NoThread)
  BY DEF NoThread, RowPlaced
<1>3. NoThread.taken = {} /\ NoThread.buys = <<>> /\ NoThread.pc = "idle"
  BY DEF NoThread
<1>4. ToSet(NoThread.buys) = {}
  BY <1>3 DEF ToSet
<1>5. \A s : OfSector(NoThread.taken, s) = {}
  BY <1>3 DEF OfSector
<1>6. Cardinality({}) = 0 /\ SectorLimit \in Nat
  BY FS_EmptySet, EntryAssumption
<1>7. \A s : Cardinality(OfSector(NoThread.taken, s)) <= SectorLimit
  BY <1>5, <1>6
<1> QED BY <1>1, <1>2, <1>3, <1>4, <1>7 DEF PlacesTaken

\* A scan without buys that is not at work on a paper satisfies all there is to a lone scan.
LEMMA Unconcerned ==
    ASSUME NEW r \in ScanRow, r.pc \in {"idle", "done"}, r.buys = <<>>
    PROVE  LoneScanKnows(r) /\ BuysUncorrelated(r)
<1>1. 1..Len(r.buys) = {}
  OBVIOUS
<1> QED BY <1>1 DEF LoneScanKnows, BuysUncorrelated

\* One thread steps on, and the registered positions are its own affair.
LEMMA OwnStep ==
    ASSUME EntryInv, NEW t \in Threads, NEW row \in ScanRow,
           thread[t].pc # "idle", thread' = [thread EXCEPT ![t] = row], held' = held,
           memo' \in BOOLEAN, registered' \in Seq(Papers),
           RowPlaced(row), row.alone => (thread[t].alone \/ row.pc = "idle"), t \in Scans => ScanSound(row)'
    PROVE  EntryInv'
<1>1. thread \in [Threads -> ScanRow] /\ thread' \in [Threads -> ScanRow]
  BY DEF EntryInv, EntryTyped
<1>2. thread'[t] = row /\ \A u \in Threads \ {t} : thread'[u] = thread[u]
  BY <1>1
<1>3. EntryTyped'
  BY <1>1 DEF EntryInv, EntryTyped
<1>4. AloneAmongIdle'
  <2> SUFFICES ASSUME NEW v \in Threads, thread'[v].alone, thread'[v].pc # "idle", NEW u \in Threads \ {v}
               PROVE  thread'[u].pc = "idle"
    BY DEF AloneAmongIdle
  <2>1. CASE v = t
    BY <1>2, <2>1 DEF EntryInv, AloneAmongIdle
  <2>2. CASE v # t
    BY <1>2, <2>2 DEF EntryInv, AloneAmongIdle
  <2> QED BY <2>1, <2>2
<1>5. ASSUME NEW u \in Threads PROVE RowPlaced(thread[u])'
  BY <1>2 DEF EntryInv, RowPlaced
<1>6. ASSUME NEW u \in Scans PROVE ScanSound(thread[u])'
  <2>1. CASE u = t
    BY <1>2, <2>1 DEF ScanSound, PlacesTaken, LoneScanKnows, BuysUncorrelated, Kept
  <2>2. CASE u # t
    <3>1. u \in Threads /\ thread'[u] = thread[u]
      BY <1>2, <2>2 DEF Threads
    <3>2. ScanSound(thread[u])
      BY DEF EntryInv
    <3>3. PlacesTaken(thread[u])'
      BY <3>1, <3>2 DEF ScanSound, PlacesTaken
    <3>4. BuysUncorrelated(thread[u])'
      BY <3>1, <3>2 DEF ScanSound, BuysUncorrelated, Kept
    <3>5. LoneScanKnows(thread[u])'
      <4>1. CASE thread[u].alone
        <5>1. thread[u].pc = "idle"
          BY <2>2, <3>1, <4>1 DEF EntryInv, AloneAmongIdle
        <5> QED BY <3>1, <5>1 DEF LoneScanKnows
      <4>2. CASE ~thread[u].alone
        BY <3>1, <4>2 DEF LoneScanKnows
      <4> QED BY <4>1, <4>2
    <3> QED BY <3>3, <3>4, <3>5 DEF ScanSound
  <2> QED BY <2>1, <2>2
<1> QED BY <1>3, <1>4, <1>5, <1>6 DEF EntryInv

\* A thread begins: it is alone only if the others are idle, and they are not alone beside it.
LEMMA Begins ==
    ASSUME EntryInv, NEW t \in Threads, NEW began \in ScanRow, thread[t].pc = "idle", Joins(t, began),
           held' = held, memo' = memo, registered' = registered \/ registered' = <<>>,
           began.pc \in {"restore", "score"}, began.pc = "score" => (began.at \in Papers /\ t \notin Scans),
           began.taken = {}, began.buys = <<>>, began.pc = "restore" => registered' = <<>>
    PROVE  EntryInv'
<1>1. thread \in [Threads -> ScanRow]
  BY DEF EntryInv, EntryTyped
<1>2. PICK others : others = {u \in Threads \ {t} : thread[u].pc # "idle"}
  OBVIOUS
<1>3. thread' = [u \in Threads |->
            IF u = t THEN [began EXCEPT !.alone = (others = {})]
            ELSE IF u \in others THEN [thread[u] EXCEPT !.alone = FALSE] ELSE thread[u]]
  BY <1>2 DEF Joins
<1>4. PICK row : row = [began EXCEPT !.alone = (others = {})]
  OBVIOUS
<1>5. /\ row \in ScanRow /\ row.pc = began.pc /\ row.at = began.at /\ row.taken = {} /\ row.buys = <<>>
      /\ row.alone <=> (others = {})
  BY <1>4 DEF ScanRow
<1>6. ASSUME NEW u \in Threads, u # t
      PROVE  /\ thread'[u] \in ScanRow /\ thread'[u].pc = thread[u].pc /\ thread'[u].at = thread[u].at
             /\ thread'[u].taken = thread[u].taken /\ thread'[u].buys = thread[u].buys
             /\ thread[u].pc = "idle" => thread'[u] = thread[u]
             /\ thread[u].pc # "idle" => ~thread'[u].alone
  <2>1. PICK old \in ScanRow : old = thread[u]
    BY <1>1
  <2>2. CASE u \in others
    <3>1. PICK new : new = [old EXCEPT !.alone = FALSE]
      OBVIOUS
    <3>2. /\ new \in ScanRow /\ new.pc = old.pc /\ new.at = old.at /\ new.taken = old.taken
          /\ new.buys = old.buys /\ ~new.alone
      BY <3>1 DEF ScanRow
    <3>3. thread'[u] = new
      BY <1>3, <1>6, <2>1, <2>2, <3>1
    <3>4. thread[u].pc # "idle"
      BY <1>2, <2>2
    <3> QED BY <2>1, <3>2, <3>3, <3>4
  <2>3. CASE u \notin others
    <3>1. thread'[u] = old
      BY <1>3, <1>6, <2>1, <2>3
    <3>2. thread[u].pc = "idle"
      BY <1>2, <1>6, <2>3
    <3> QED BY <2>1, <3>1, <3>2
  <2> QED BY <2>2, <2>3
<1>7. thread'[t] = row
  BY <1>3, <1>4
<1>8. EntryTyped'
  <2>1. DOMAIN thread' = Threads /\ thread' = [u \in Threads |-> thread'[u]]
    BY <1>3
  <2>2. \A u \in Threads : thread'[u] \in ScanRow
    BY <1>5, <1>6, <1>7
  <2>3. thread' \in [Threads -> ScanRow]
    BY <2>1, <2>2
  <2>4. registered' \in Seq(Papers)
    <3>1. registered \in Seq(Papers) /\ <<>> \in Seq(Papers)
      BY DEF EntryInv, EntryTyped
    <3> QED BY <3>1
  <2> QED BY <2>3, <2>4 DEF EntryInv, EntryTyped
<1>9. AloneAmongIdle'
  <2> SUFFICES ASSUME NEW v \in Threads, thread'[v].alone, thread'[v].pc # "idle", NEW u \in Threads \ {v}
               PROVE  thread'[u].pc = "idle"
    BY DEF AloneAmongIdle
  <2>1. v = t
    BY <1>6
  <2>2. others = {}
    BY <1>5, <1>7, <2>1
  <2> QED BY <1>2, <1>6, <2>1, <2>2
<1>10. ASSUME NEW u \in Threads PROVE RowPlaced(thread[u])'
  <2>1. CASE u = t
    BY <1>5, <1>7, <2>1 DEF RowPlaced
  <2>2. CASE u # t
    BY <1>6, <2>2 DEF EntryInv, RowPlaced
  <2> QED BY <2>1, <2>2
<1>11. ASSUME NEW u \in Scans PROVE ScanSound(thread[u])'
  <2>1. CASE u = t
    <3>1. row.pc = "restore" /\ registered' = <<>>
      BY <1>5, <2>1
    <3>2. PlacesTaken(row)
      <4>1. PlacesTaken(NoThread) /\ NoThread.taken = {} /\ NoThread.buys = <<>>
        BY NewThread DEF NoThread
      <4> QED BY <1>5, <3>1, <4>1 DEF PlacesTaken
    <3>3. 1..Len(row.buys) = {}
      BY <1>5
    <3>4. LoneScanKnows(row)' /\ BuysUncorrelated(row)'
      BY <1>5, <3>1, <3>3 DEF LoneScanKnows, BuysUncorrelated
    <3>5. PlacesTaken(row)'
      BY <3>2 DEF PlacesTaken
    <3> QED
      BY <1>7, <2>1, <3>4, <3>5 DEF ScanSound, PlacesTaken, LoneScanKnows, BuysUncorrelated, Kept
  <2>2. CASE u # t
    <3>1. u \in Threads
      BY DEF Threads
    <3>2. ScanSound(thread[u])
      BY DEF EntryInv
    <3>3. PlacesTaken(thread[u])'
      BY <1>6, <2>2, <3>1, <3>2 DEF ScanSound, PlacesTaken
    <3>4. CASE thread[u].pc = "idle"
      <4>1. thread'[u] = thread[u] /\ thread[u] = NoThread
        BY <1>6, <2>2, <3>1, <3>4 DEF EntryInv, RowPlaced
      <4>2. 1..Len(thread[u].buys) = {}
        BY <4>1 DEF NoThread
      <4> QED BY <3>3, <3>4, <4>1, <4>2 DEF ScanSound, LoneScanKnows, BuysUncorrelated
    <3>5. CASE thread[u].pc # "idle"
      BY <1>6, <2>2, <3>1, <3>3, <3>5 DEF ScanSound, LoneScanKnows, BuysUncorrelated
    <3> QED BY <3>4, <3>5
  <2> QED BY <2>1, <2>2
<1> QED BY <1>8, <1>9, <1>10, <1>11 DEF EntryInv

----
LEMMA ScanBeginsStep ==
    ASSUME EntryInv, NEW t \in Scans, ScanBegins(t) PROVE EntryInv'
<1>1. PICK began : began = [NoThread EXCEPT !.pc = "restore"]
  OBVIOUS
<1>2. began \in ScanRow /\ began.pc = "restore" /\ began.taken = {} /\ began.buys = <<>>
  <2>1. began = [pc |-> "restore", at |-> 0, taken |-> {}, buys |-> <<>>, alone |-> TRUE]
    BY <1>1 DEF NoThread
  <2> QED BY <2>1 DEF ScanRow
<1>3. t \in Threads /\ thread[t].pc = "idle" /\ Joins(t, began) /\ held' = held /\ memo' = memo /\ registered' = <<>>
  BY <1>1 DEF ScanBegins, Threads
<1> QED BY <1>2, <1>3, Begins

LEMMA AnalysisBeginsStep ==
    ASSUME EntryInv, NEW t \in Requesters, NEW p \in Papers, AnalysisBegins(t, p) PROVE EntryInv'
<1>1. PICK began : began = [NoThread EXCEPT !.pc = "score", !.at = p]
  OBVIOUS
<1>2. began \in ScanRow /\ began.pc = "score" /\ began.at = p /\ began.taken = {} /\ began.buys = <<>>
  <2>1. p \in Nat
    BY DEF Papers
  <2>2. began = [pc |-> "score", at |-> p, taken |-> {}, buys |-> <<>>, alone |-> TRUE]
    BY <1>1 DEF NoThread
  <2> QED BY <2>1, <2>2 DEF ScanRow
<1>3. t \in Threads /\ t \notin Scans
  BY EntryAssumption DEF Threads
<1>4. thread[t].pc = "idle" /\ Joins(t, began) /\ held' = held /\ memo' = memo /\ registered' = registered
  BY <1>1 DEF AnalysisBegins
<1> QED BY <1>2, <1>3, <1>4, Begins

LEMMA RestoresStep ==
    ASSUME EntryInv, NEW t \in Scans, Restores(t) PROVE EntryInv'
<1>1. t \in Threads /\ thread \in [Threads -> ScanRow] /\ held \in SUBSET Papers /\ registered \in Seq(Papers)
  BY DEF EntryInv, EntryTyped, Threads
<1>2. PICK r \in ScanRow : r = thread[t] /\ r.pc = "restore" /\ ScanSound(r)
  BY <1>1 DEF Restores, EntryInv
<1>3. PICK row : row = [[r EXCEPT !.pc = "score"] EXCEPT !.at = 1]
  OBVIOUS
<1>4. /\ row \in ScanRow /\ row.pc = "score" /\ row.at = 1 /\ row.taken = r.taken /\ row.buys = r.buys
      /\ row.alone = r.alone
  <2> DEFINE one == [r EXCEPT !.pc = "score"]
  <2>1. one \in ScanRow /\ one.pc = "score" /\ one.taken = r.taken /\ one.buys = r.buys /\ one.alone = r.alone
    BY DEF ScanRow
  <2>2. row = [one EXCEPT !.at = 1]
    BY <1>3
  <2> HIDE DEF one
  <2> QED BY <2>1, <2>2 DEF ScanRow
<1>5. thread' = [thread EXCEPT ![t] = row] /\ held' = held /\ memo' = TRUE /\ registered' = Register(held)
  BY <1>1, <1>2, <1>3 DEF Restores
<1>6. 1 \in Papers
  BY EntryAssumption DEF Papers
<1>7. Register(held) \in Seq(Papers)
  BY <1>1, Registered
<1>8. ScanSound(row)'
  <2>1. PlacesTaken(row)'
    BY <1>2, <1>4 DEF ScanSound, PlacesTaken
  <2>2. BuysUncorrelated(row)'
    BY <1>2, <1>4, <1>5 DEF ScanSound, BuysUncorrelated, Kept
  <2>3. LoneScanKnows(row)'
    <3> SUFFICES ASSUME row.alone, Kept(row)
                 PROVE  /\ ToSet(Register(held)) = held \cup ToSet(row.buys)
                        /\ Len(Register(held)) <= Cardinality(held) + Len(row.buys)
      BY <1>4, <1>5 DEF LoneScanKnows, Kept
    <3>1. registered = <<>> /\ row.buys = <<>>
      BY <1>2, <1>4 DEF ScanSound, LoneScanKnows
    <3>2. ToSet(registered) = {} /\ ToSet(row.buys) = {} /\ Len(registered) = 0 /\ Len(row.buys) = 0
      BY <3>1 DEF ToSet
    <3>3. held \ ToSet(registered) = held /\ Cardinality(held) \in Nat
      BY <1>1, <3>2, PapersFinite
    <3>4. Len(registered) + Cardinality(held \ ToSet(registered)) <= HistoryLimit
      BY <3>2, <3>3 DEF Kept
    <3>5. /\ ToSet(Register(held)) = ToSet(registered) \cup held
          /\ Len(Register(held)) = Len(registered) + Cardinality(held \ ToSet(registered))
      BY <1>1, <3>4, Registered
    <3> QED BY <3>2, <3>3, <3>5
  <2> QED BY <2>1, <2>2, <2>3 DEF ScanSound
<1>9. RowPlaced(row)
  BY <1>4, <1>6 DEF RowPlaced
<1> QED BY <1>1, <1>2, <1>4, <1>5, <1>7, <1>8, <1>9, OwnStep

\* A thread leaves a paper without a buy.
LEMMA PassesOnStep ==
    ASSUME EntryInv, NEW t \in Threads, thread[t].pc \in {"score", "cluster", "model"}, PassesOn(t),
           UNCHANGED <<held, registered, memo>>
    PROVE  EntryInv'
<1>1. thread \in [Threads -> ScanRow] /\ registered \in Seq(Papers) /\ memo \in BOOLEAN
  BY DEF EntryInv, EntryTyped
<1>2. PICK r \in ScanRow : r = thread[t] /\ r.at \in Papers /\ (t \in Scans => ScanSound(r))
  BY <1>1 DEF EntryInv, RowPlaced
<1>3. PICK row : row = [[r EXCEPT !.pc = Onward(t)] EXCEPT !.at = r.at + 1]
  OBVIOUS
<1>4. Onward(t) \in {"score", "done"} /\ r.at + 1 \in Nat /\ (Onward(t) = "score" => r.at + 1 \in Papers)
  BY <1>2, EntryAssumption DEF Onward, Papers
<1>5. /\ row \in ScanRow /\ row.pc = Onward(t) /\ row.at = r.at + 1 /\ row.taken = r.taken /\ row.buys = r.buys
      /\ row.alone = r.alone
  <2> DEFINE one == [r EXCEPT !.pc = Onward(t)]
  <2>1. one \in ScanRow /\ one.pc = Onward(t) /\ one.taken = r.taken /\ one.buys = r.buys /\ one.alone = r.alone
    BY <1>4 DEF ScanRow
  <2>2. row = [one EXCEPT !.at = r.at + 1]
    BY <1>3
  <2> HIDE DEF one
  <2> QED BY <1>4, <2>1, <2>2 DEF ScanRow
<1>6. thread' = [thread EXCEPT ![t] = row]
  BY <1>1, <1>2, <1>3 DEF PassesOn
<1>7. t \in Scans => ScanSound(row)'
  <2> SUFFICES ASSUME t \in Scans PROVE ScanSound(row)'
    OBVIOUS
  <2>1. PlacesTaken(row)'
    BY <1>2, <1>4, <1>5 DEF ScanSound, PlacesTaken
  <2>2. BuysUncorrelated(row)'
    BY <1>2, <1>5 DEF ScanSound, BuysUncorrelated, Kept
  <2>3. LoneScanKnows(row)'
    BY <1>2, <1>4, <1>5 DEF ScanSound, LoneScanKnows, Kept
  <2> QED BY <2>1, <2>2, <2>3 DEF ScanSound
<1>8. RowPlaced(row)
  BY <1>4, <1>5 DEF RowPlaced
<1>9. registered' \in Seq(Papers) /\ memo' \in BOOLEAN /\ held' = held /\ thread[t].pc # "idle"
  BY <1>1
<1> QED BY <1>2, <1>5, <1>6, <1>7, <1>8, <1>9, OwnStep

LEMMA TakesPlaceStep ==
    ASSUME EntryInv, NEW t \in Threads, TakesPlace(t) PROVE EntryInv'
<1>1. /\ thread \in [Threads -> ScanRow] /\ registered \in Seq(Papers) /\ memo \in BOOLEAN
      /\ UNCHANGED <<held, registered, memo>>
  BY DEF EntryInv, EntryTyped, TakesPlace
<1>2. PICK r \in ScanRow : r = thread[t] /\ r.pc = "score" /\ r.at \in Papers /\ (t \in Scans => ScanSound(r))
  BY <1>1 DEF EntryInv, RowPlaced, TakesPlace
<1>3. CASE PassesOn(t)
  BY <1>1, <1>2, <1>3, PassesOnStep
<1>4. CASE ~PassesOn(t)
  <2>1. PICK taken : taken = IF t \in Scans THEN r.taken \cup {r.at} ELSE r.taken
    OBVIOUS
  <2>2. PICK row : row = [[r EXCEPT !.pc = "cluster"] EXCEPT !.taken = taken]
    OBVIOUS
  <2>3. r.taken \in SUBSET Papers /\ taken \in SUBSET Papers
    BY <1>2, <2>1 DEF ScanRow
  <2>4. /\ row \in ScanRow /\ row.pc = "cluster" /\ row.at = r.at /\ row.taken = taken /\ row.buys = r.buys
        /\ row.alone = r.alone
    <3> DEFINE one == [r EXCEPT !.pc = "cluster"]
    <3>1. one \in ScanRow /\ one.pc = "cluster" /\ one.at = r.at /\ one.buys = r.buys /\ one.alone = r.alone
      BY DEF ScanRow
    <3>2. row = [one EXCEPT !.taken = taken]
      BY <2>2
    <3> HIDE DEF one
    <3> QED BY <2>3, <3>1, <3>2 DEF ScanRow
  <2>5. /\ ~(/\ t \in Scans /\ SectorOf[r.at] # 0
             /\ Cardinality(OfSector(r.taken, SectorOf[r.at])) >= SectorLimit)
        /\ thread' = [thread EXCEPT ![t] = row]
    BY <1>1, <1>2, <1>4, <2>1, <2>2 DEF TakesPlace, OfSector
  <2>6. t \in Scans => ScanSound(row)'
    <3> SUFFICES ASSUME t \in Scans PROVE ScanSound(row)'
      OBVIOUS
    <3>1. taken = r.taken \cup {r.at}
      BY <2>1
    <3>2. ASSUME NEW s \in Nat \ {0} PROVE Cardinality(OfSector(taken, s)) <= SectorLimit
      <4>1. PICK old : old = OfSector(r.taken, s)
        OBVIOUS
      <4>2. old \in SUBSET Papers /\ IsFiniteSet(old) /\ Cardinality(old) \in Nat /\ Cardinality(old) <= SectorLimit
        <5>1. old \in SUBSET Papers
          BY <2>3, <4>1 DEF OfSector
        <5>2. Cardinality(old) <= SectorLimit
          BY <1>2, <4>1 DEF ScanSound, PlacesTaken
        <5> QED BY <5>1, <5>2, PapersFinite
      <4>3. CASE SectorOf[r.at] # s
        <5>1. OfSector(taken, s) = old
          BY <3>1, <4>1, <4>3 DEF OfSector
        <5> QED BY <4>2, <5>1
      <4>4. CASE SectorOf[r.at] = s
        <5>1. OfSector(taken, s) = old \cup {r.at}
          BY <3>1, <4>1, <4>4 DEF OfSector
        <5>2. Cardinality(old \cup {r.at}) = IF r.at \in old THEN Cardinality(old) ELSE Cardinality(old) + 1
          BY <4>2, FS_AddElement
        <5>3. ~(Cardinality(old) >= SectorLimit) /\ SectorLimit \in Nat
          BY <2>5, <4>1, <4>4, EntryAssumption
        <5> QED BY <4>2, <5>1, <5>2, <5>3
      <4> QED BY <4>3, <4>4
    <3>3. PlacesTaken(row)
      BY <1>2, <2>4, <3>1, <3>2 DEF ScanSound, PlacesTaken
    <3>4. PlacesTaken(row)'
      BY <3>3 DEF PlacesTaken
    <3>5. BuysUncorrelated(row)'
      BY <1>1, <1>2, <2>4 DEF ScanSound, BuysUncorrelated, Kept
    <3>6. LoneScanKnows(row)'
      BY <1>1, <1>2, <2>4 DEF ScanSound, LoneScanKnows, Kept
    <3> QED BY <3>4, <3>5, <3>6 DEF ScanSound
  <2>7. RowPlaced(row)
    BY <1>2, <2>4 DEF RowPlaced
  <2>8. registered' \in Seq(Papers) /\ memo' \in BOOLEAN /\ held' = held /\ thread[t].pc # "idle"
    BY <1>1, <1>2
  <2> QED BY <1>2, <2>4, <2>5, <2>6, <2>7, <2>8, OwnStep
<1> QED BY <1>3, <1>4

LEMMA LooksAtClusterStep ==
    ASSUME EntryInv, NEW t \in Threads, LooksAtCluster(t) PROVE EntryInv'
<1>1. /\ thread \in [Threads -> ScanRow] /\ registered \in Seq(Papers) /\ memo \in BOOLEAN
      /\ UNCHANGED <<held, registered, memo>>
  BY DEF EntryInv, EntryTyped, LooksAtCluster
<1>2. PICK r \in ScanRow : r = thread[t] /\ r.pc = "cluster" /\ r.at \in Papers /\ (t \in Scans => ScanSound(r))
  BY <1>1 DEF EntryInv, RowPlaced, LooksAtCluster
<1>3. CASE PassesOn(t)
  BY <1>1, <1>2, <1>3, PassesOnStep
<1>4. CASE ~PassesOn(t)
  <2>1. PICK row : row = [r EXCEPT !.pc = "model"]
    OBVIOUS
  <2>2. /\ row \in ScanRow /\ row.pc = "model" /\ row.at = r.at /\ row.taken = r.taken /\ row.buys = r.buys
        /\ row.alone = r.alone
    BY <2>1 DEF ScanRow
  <2>3. ~(Cardinality(AlikeAmong(ToSet(registered), r.at)) > ClusterLimit) /\ thread' = [thread EXCEPT ![t] = row]
    BY <1>1, <1>2, <1>4, <2>1 DEF LooksAtCluster, AlikeAmong
  <2>4. Cardinality(AlikeAmong(ToSet(registered), r.at)) <= ClusterLimit
    <3>1. ToSet(registered) \in SUBSET Papers
      BY <1>1, ToSetOf
    <3>2. AlikeAmong(ToSet(registered), r.at) \in SUBSET Papers
      BY <3>1 DEF AlikeAmong
    <3>3. Cardinality(AlikeAmong(ToSet(registered), r.at)) \in Nat
      BY <3>2, PapersFinite
    <3> QED BY <2>3, <3>3, EntryAssumption
  <2>5. t \in Scans => ScanSound(row)'
    <3> SUFFICES ASSUME t \in Scans PROVE ScanSound(row)'
      OBVIOUS
    <3>1. PlacesTaken(row)'
      BY <1>2, <2>2 DEF ScanSound, PlacesTaken
    <3>2. BuysUncorrelated(row)'
      BY <1>1, <1>2, <2>2 DEF ScanSound, BuysUncorrelated, Kept
    <3>3. LoneScanKnows(row)'
      BY <1>1, <1>2, <2>2, <2>4 DEF ScanSound, LoneScanKnows, Kept
    <3> QED BY <3>1, <3>2, <3>3 DEF ScanSound
  <2>6. RowPlaced(row)
    BY <1>2, <2>2 DEF RowPlaced
  <2>7. registered' \in Seq(Papers) /\ memo' \in BOOLEAN /\ held' = held /\ thread[t].pc # "idle"
    BY <1>1, <1>2
  <2> QED BY <1>2, <2>2, <2>3, <2>5, <2>6, <2>7, OwnStep
<1> QED BY <1>3, <1>4

LEMMA BuysStep ==
    ASSUME EntryInv, NEW t \in Threads, Buys(t) PROVE EntryInv'
<1>1. /\ thread \in [Threads -> ScanRow] /\ registered \in Seq(Papers) /\ memo \in BOOLEAN
      /\ held' = held /\ memo' = memo /\ held \in SUBSET Papers
  BY DEF EntryInv, EntryTyped, Buys
<1>2. PICK r \in ScanRow : r = thread[t] /\ r.pc = "model" /\ r.at \in Papers /\ (t \in Scans => ScanSound(r))
  BY <1>1 DEF EntryInv, RowPlaced, Buys
<1>3. PICK buys : buys = Append(r.buys, r.at)
  OBVIOUS
<1>4. r.buys \in Seq(Papers) /\ buys \in Seq(Papers) /\ Len(r.buys) \in Nat /\ Len(buys) = Len(r.buys) + 1
  BY <1>2, <1>3 DEF ScanRow
<1>5. ToSet(buys) = ToSet(r.buys) \cup {r.at}
  BY <1>2, <1>3, <1>4, ToSetAppended
<1>6. Onward(t) \in {"score", "done"} /\ r.at + 1 \in Nat /\ (Onward(t) = "score" => r.at + 1 \in Papers)
  BY <1>2, EntryAssumption DEF Onward, Papers
<1>7. PICK row : row = [[[r EXCEPT !.pc = Onward(t)] EXCEPT !.at = r.at + 1] EXCEPT !.buys = buys]
  OBVIOUS
<1>8. /\ row \in ScanRow /\ row.pc = Onward(t) /\ row.at = r.at + 1 /\ row.taken = r.taken /\ row.buys = buys
      /\ row.alone = r.alone
  <2> DEFINE one == [r EXCEPT !.pc = Onward(t)]
             two == [one EXCEPT !.at = r.at + 1]
  <2>1. one \in ScanRow /\ one.pc = Onward(t) /\ one.taken = r.taken /\ one.alone = r.alone
    BY <1>6 DEF ScanRow
  <2> HIDE DEF one
  <2>2. two \in ScanRow /\ two.pc = Onward(t) /\ two.at = r.at + 1 /\ two.taken = r.taken /\ two.alone = r.alone
    BY <1>6, <2>1 DEF ScanRow
  <2>3. row = [two EXCEPT !.buys = buys]
    BY <1>7 DEF one, two
  <2> HIDE DEF two
  <2> QED BY <1>4, <2>2, <2>3 DEF ScanRow
<1>9. thread' = [thread EXCEPT ![t] = row] /\ registered' = Register({r.at})
  BY <1>1, <1>2, <1>3, <1>7 DEF Buys
<1>10. Register({r.at}) \in Seq(Papers)
  <2>1. {r.at} \in SUBSET Papers
    BY <1>2
  <2> QED BY <1>1, <2>1, Registered
<1>11. Cardinality(held) \in Nat /\ HistoryLimit \in Nat
  BY <1>1, PapersFinite, EntryAssumption
<1>12. t \in Scans => ScanSound(row)'
  <2> SUFFICES ASSUME t \in Scans PROVE ScanSound(row)'
    OBVIOUS
  <2>1. PlacesTaken(row)'
    BY <1>2, <1>5, <1>6, <1>8 DEF ScanSound, PlacesTaken
  <2>2. ASSUME row.alone, Kept(row)
        PROVE  /\ Kept(r) /\ ToSet(registered) = held \cup ToSet(r.buys)
               /\ Len(registered) <= Cardinality(held) + Len(r.buys)
               /\ Cardinality(AlikeAmong(held \cup ToSet(r.buys), r.at)) <= ClusterLimit
    <3>1. Kept(r)
      BY <1>4, <1>8, <1>11, <2>2 DEF Kept
    <3> QED BY <1>2, <1>8, <2>2, <3>1 DEF ScanSound, LoneScanKnows
  <2>3. LoneScanKnows(row)'
    <3> SUFFICES ASSUME row.alone, Kept(row)
                 PROVE  /\ ToSet(Register({r.at})) = held \cup ToSet(row.buys)
                        /\ Len(Register({r.at})) <= Cardinality(held) + Len(row.buys)
      BY <1>1, <1>6, <1>8, <1>9 DEF LoneScanKnows, Kept
    <3>1. PICK new \in SUBSET Papers : new = {r.at} \ ToSet(registered)
      BY <1>2
    <3>2. Cardinality(new) \in {0, 1}
      <4>1. IsFiniteSet({r.at}) /\ Cardinality({r.at}) = 1
        BY FS_Singleton
      <4>2. new \in SUBSET {r.at}
        BY <3>1
      <4>3. Cardinality(new) <= 1 /\ Cardinality(new) \in Nat
        BY <3>1, <4>1, <4>2, FS_Subset, PapersFinite
      <4> QED BY <4>3
    <3>3. Len(registered) \in Nat /\ Len(registered) + Cardinality(new) <= Cardinality(held) + Len(row.buys)
      BY <1>1, <1>4, <1>8, <1>11, <2>2, <3>2
    <3>4. Len(registered) + Cardinality({r.at} \ ToSet(registered)) <= HistoryLimit
      BY <1>4, <1>8, <1>11, <3>1, <3>2, <3>3 DEF Kept
    <3>5. /\ ToSet(Register({r.at})) = ToSet(registered) \cup {r.at}
          /\ Len(Register({r.at})) = Len(registered) + Cardinality({r.at} \ ToSet(registered))
      <4>1. {r.at} \in SUBSET Papers
        BY <1>2
      <4> QED BY <1>1, <3>4, <4>1, Registered
    <3> QED BY <1>5, <1>8, <2>2, <3>1, <3>3, <3>5
  <2>4. BuysUncorrelated(row)'
    <3> SUFFICES ASSUME row.alone, Kept(row), NEW i \in 1..Len(buys)
                 PROVE  Cardinality(AlikeAmong(held \cup Before(buys, i), buys[i])) <= ClusterLimit
      BY <1>1, <1>8 DEF BuysUncorrelated, Kept
    <3>1. CASE i <= Len(r.buys)
      <4>1. i \in 1..Len(r.buys) /\ \A j \in 1..Len(r.buys) : buys[j] = r.buys[j]
        BY <1>3, <1>4, <3>1
      <4>2. Before(buys, i) = Before(r.buys, i) /\ buys[i] = r.buys[i]
        <5>1. \A j \in 1..(i - 1) : buys[j] = r.buys[j]
          BY <1>4, <4>1
        <5> QED BY <4>1, <5>1 DEF Before
      <4>3. BuysUncorrelated(r) /\ r.alone /\ Kept(r)
        BY <1>2, <1>8, <2>2 DEF ScanSound
      <4> QED BY <4>1, <4>2, <4>3 DEF BuysUncorrelated
    <3>2. CASE ~(i <= Len(r.buys))
      <4>1. i = Len(r.buys) + 1 /\ i - 1 = Len(r.buys)
        BY <1>4, <3>2
      <4>2. buys[i] = r.at /\ \A j \in 1..Len(r.buys) : buys[j] = r.buys[j]
        BY <1>3, <1>4, <4>1
      <4>3. Before(buys, i) = {r.buys[j] : j \in 1..Len(r.buys)}
        BY <4>1, <4>2 DEF Before
      <4>4. ToSet(r.buys) = {r.buys[j] : j \in 1..Len(r.buys)}
        BY <1>4, ToSetOf
      <4> QED BY <2>2, <4>2, <4>3, <4>4
    <3> QED BY <3>1, <3>2
  <2> QED BY <2>1, <2>3, <2>4 DEF ScanSound
<1>13. RowPlaced(row)
  BY <1>6, <1>8 DEF RowPlaced
<1>14. registered' \in Seq(Papers) /\ memo' \in BOOLEAN /\ held' = held /\ thread[t].pc # "idle"
  BY <1>1, <1>2, <1>9, <1>10
<1> QED BY <1>2, <1>8, <1>9, <1>12, <1>13, <1>14, OwnStep

\* A thread is as new again.
LEMMA EndsStep ==
    ASSUME EntryInv, NEW t \in Threads, thread[t].pc # "idle", thread' = [thread EXCEPT ![t] = NoThread],
           UNCHANGED <<held, registered, memo>>
    PROVE  EntryInv'
<1>1. registered' \in Seq(Papers) /\ memo' \in BOOLEAN /\ held' = held
  BY DEF EntryInv, EntryTyped
<1>2. NoThread \in ScanRow /\ RowPlaced(NoThread) /\ PlacesTaken(NoThread)
  BY NewThread
<1>3. NoThread.pc = "idle" /\ NoThread.buys = <<>>
  BY DEF NoThread
<1>4. PlacesTaken(NoThread)'
  BY <1>2 DEF PlacesTaken, NoThread
<1>5. 1..Len(NoThread.buys) = {}
  BY <1>3
<1>6. LoneScanKnows(NoThread)' /\ BuysUncorrelated(NoThread)'
  BY <1>3, <1>5 DEF LoneScanKnows, BuysUncorrelated, NoThread
<1>7. ScanSound(NoThread)'
  BY <1>4, <1>6 DEF ScanSound
<1> QED BY <1>1, <1>2, <1>3, <1>7, OwnStep

LEMMA HandsOverStep ==
    ASSUME EntryInv, NEW t \in Threads, NEW bear \in BOOLEAN, HandsOver(t, bear) PROVE EntryInv'
<1>1. /\ thread \in [Threads -> ScanRow] /\ registered \in Seq(Papers) /\ memo \in BOOLEAN
      /\ held' = held /\ memo' = memo /\ registered' = registered
  BY DEF EntryInv, EntryTyped, HandsOver
<1>2. PICK r \in ScanRow : r = thread[t] /\ r.pc = "done" /\ (t \in Scans => ScanSound(r))
  BY <1>1 DEF EntryInv, HandsOver
<1>3. CASE bear /\ r.buys # <<>>
  <2>1. PICK row : row = [r EXCEPT !.buys = <<>>]
    OBVIOUS
  <2>2. /\ row \in ScanRow /\ row.pc = "done" /\ row.taken = r.taken /\ row.buys = <<>> /\ row.alone = r.alone
    <3>1. PICK none \in Seq(Papers) : none = <<>>
      <4>1. <<>> \in Seq(Papers)
        OBVIOUS
      <4> QED BY <4>1
    <3>2. row = [r EXCEPT !.buys = none]
      BY <2>1, <3>1
    <3> QED BY <1>2, <3>1, <3>2 DEF ScanRow
  <2>3. thread' = [thread EXCEPT ![t] = row]
    BY <1>1, <1>2, <1>3, <2>1 DEF HandsOver
  <2>4. t \in Scans => ScanSound(row)'
    <3> SUFFICES ASSUME t \in Scans PROVE ScanSound(row)'
      OBVIOUS
    <3>1. ToSet(row.buys) = {} /\ 1..Len(row.buys) = {}
      BY <2>2 DEF ToSet
    <3>2. PlacesTaken(row)'
      BY <1>2, <2>2, <3>1 DEF ScanSound, PlacesTaken
    <3>3. LoneScanKnows(row)' /\ BuysUncorrelated(row)'
      BY <2>2, <3>1 DEF LoneScanKnows, BuysUncorrelated
    <3> QED BY <3>2, <3>3 DEF ScanSound
  <2>5. RowPlaced(row)
    BY <2>2 DEF RowPlaced
  <2> QED BY <1>1, <1>2, <2>2, <2>3, <2>4, <2>5, OwnStep
<1>4. CASE ~(bear /\ r.buys # <<>>)
  <2>1. thread' = [thread EXCEPT ![t] = NoThread] /\ thread[t].pc # "idle"
    BY <1>2, <1>4 DEF HandsOver
  <2> QED BY <1>1, <2>1, EndsStep
<1> QED BY <1>3, <1>4

LEMMA EntryInitially == ASSUME EntryInit PROVE EntryInv
<1>1. held \subseteq Papers /\ memo = FALSE /\ registered = <<>> /\ thread = [t \in Threads |-> NoThread]
  BY EntryAssumption DEF EntryInit
<1>2. NoThread \in ScanRow /\ RowPlaced(NoThread) /\ PlacesTaken(NoThread)
  BY NewThread
<1>3. NoThread.pc = "idle" /\ NoThread.buys = <<>>
  BY DEF NoThread
<1>4. LoneScanKnows(NoThread) /\ BuysUncorrelated(NoThread)
  BY <1>2, <1>3, Unconcerned
<1>5. EntryTyped
  <2>1. registered \in Seq(Papers)
    BY <1>1
  <2> QED BY <1>1, <1>2, <2>1 DEF EntryTyped
<1>6. \A t \in Threads : thread[t] = NoThread
  BY <1>1
<1>7. Scans \subseteq Threads
  BY DEF Threads
<1>8. AloneAmongIdle
  BY <1>3, <1>6 DEF AloneAmongIdle
<1>9. ASSUME NEW t \in Threads PROVE RowPlaced(thread[t])
  BY <1>2, <1>6
<1>10. ASSUME NEW t \in Scans PROVE ScanSound(thread[t])
  BY <1>2, <1>4, <1>6, <1>7 DEF ScanSound
<1> QED BY <1>5, <1>8, <1>9, <1>10 DEF EntryInv

LEMMA EntryStep == ASSUME EntryInv, [EntryNext]_entryVars PROVE EntryInv'
<1>1. ASSUME NEW t \in Scans, ScanBegins(t) PROVE EntryInv'
  BY <1>1, ScanBeginsStep
<1>2. ASSUME NEW t \in Scans, Restores(t) PROVE EntryInv'
  BY <1>2, RestoresStep
<1>3. ASSUME NEW t \in Requesters, NEW p \in Papers, AnalysisBegins(t, p) PROVE EntryInv'
  BY <1>3, AnalysisBeginsStep
<1>4. ASSUME NEW t \in Threads, NoBuy(t) \/ TurnedDown(t) PROVE EntryInv'
  <2>1. thread[t].pc \in {"score", "model"} /\ PassesOn(t) /\ UNCHANGED <<held, registered, memo>>
    BY <1>4 DEF NoBuy, TurnedDown
  <2> QED BY <2>1, PassesOnStep
<1>5. ASSUME NEW t \in Threads, TakesPlace(t) PROVE EntryInv'
  BY <1>5, TakesPlaceStep
<1>6. ASSUME NEW t \in Threads, LooksAtCluster(t) PROVE EntryInv'
  BY <1>6, LooksAtClusterStep
<1>7. ASSUME NEW t \in Threads, Buys(t) PROVE EntryInv'
  BY <1>7, BuysStep
<1>8. ASSUME NEW t \in Threads, BreaksUp(t) PROVE EntryInv'
  <2>1. thread[t].pc # "idle" /\ thread' = [thread EXCEPT ![t] = NoThread] /\ UNCHANGED <<held, registered, memo>>
    BY <1>8 DEF BreaksUp
  <2> QED BY <2>1, EndsStep
<1>9. ASSUME NEW t \in Threads, NEW bear \in BOOLEAN, HandsOver(t, bear) PROVE EntryInv'
  BY <1>9, HandsOverStep
<1>10. CASE UNCHANGED entryVars
  <2>1. held' = held /\ registered' = registered /\ memo' = memo /\ thread' = thread
    BY <1>10 DEF entryVars
  <2> QED
    BY <2>1 DEF EntryInv, EntryTyped, AloneAmongIdle, RowPlaced, ScanSound, PlacesTaken, LoneScanKnows,
                BuysUncorrelated, Kept
<1> QED BY <1>1, <1>2, <1>3, <1>4, <1>5, <1>6, <1>7, <1>8, <1>9, <1>10 DEF EntryNext

LEMMA EntryInvLimits == ASSUME EntryInv PROVE ScanWithinLimits
<1>1. thread \in [Threads -> ScanRow] /\ Scans \subseteq Threads
  BY DEF EntryInv, EntryTyped, Threads
<1>2. ASSUME NEW t \in Scans, NEW p \in ToSet(thread[t].buys), SectorOf[p] # 0
      PROVE  Cardinality({q \in ToSet(thread[t].buys) : SectorOf[q] = SectorOf[p]}) <= SectorLimit
  <2>1. PICK r \in ScanRow : r = thread[t] /\ PlacesTaken(r)
    BY <1>1 DEF EntryInv, ScanSound
  <2>2. r.taken \in SUBSET Papers /\ ToSet(r.buys) \subseteq r.taken
    BY <2>1 DEF ScanRow, PlacesTaken
  <2>3. PICK s \in Nat \ {0} : s = SectorOf[p]
    BY <1>2, <2>1, <2>2, EntryAssumption
  <2>4. PICK places \in SUBSET Papers : places = OfSector(r.taken, s) /\ Cardinality(places) <= SectorLimit
    BY <2>1, <2>2 DEF OfSector, PlacesTaken
  <2>5. PICK bought \in SUBSET places : bought = {q \in ToSet(thread[t].buys) : SectorOf[q] = SectorOf[p]}
    BY <2>1, <2>2, <2>3, <2>4 DEF OfSector
  <2>6. IsFiniteSet(places) /\ Cardinality(places) \in Nat
    BY <2>4, PapersFinite
  <2>7. Cardinality(bought) <= Cardinality(places)
    BY <2>5, <2>6, FS_Subset
  <2>8. Cardinality(bought) \in Nat /\ SectorLimit \in Nat
    BY <2>5, PapersFinite, EntryAssumption
  <2> QED BY <2>4, <2>5, <2>6, <2>7, <2>8
<1>3. SectorWithinLimit
  BY <1>2 DEF SectorWithinLimit
<1>4. ClusterWithinLimit
  BY DEF EntryInv, ScanSound, BuysUncorrelated, ClusterWithinLimit, Kept, AlikeAmong, Before
<1> QED BY <1>3, <1>4 DEF ScanWithinLimits

\* The buys of a scan stay within the limits of sectors and, if it had the engine for itself, of
\* correlated positions (check_sector_limit, apply_portfolio_risk).
THEOREM ScanWithinLimitsHolds == EntrySpec => []ScanWithinLimits
<1>1. EntryInit => EntryInv
  BY EntryInitially
<1>2. EntryInv /\ [EntryNext]_entryVars => EntryInv'
  BY EntryStep
<1>3. EntryInv => ScanWithinLimits
  BY EntryInvLimits
<1> QED BY <1>1, <1>2, <1>3, PTL DEF EntrySpec

\* What a scan buys is within its limits, and each buy sound in its levels and its size
\* (scan_all, RiskManager).
THEOREM BuysHold == (RiskSpec /\ EntrySpec) => []BuysSound
<1>1. SoundBuy /\ ScanWithinLimits => BuysSound
  BY DEF BuysSound
<1> QED BY <1>1, SoundBuyHolds, ScanWithinLimitsHolds, PTL

----
(* The paper broker and the rows of its orders. Sums are recursive           *)
(* functions, so that there is one and what it is comes first.              *)
SumsUp(f, g, n) == f = [k \in 0..n |-> IF k = 0 THEN 0 ELSE f[k - 1] + g[k]]
Numbers(g, n) == \A k \in 1..n : g[k] \in Int

LEMMA SumsExist ==
    ASSUME NEW n \in Nat, NEW g, Numbers(g, n)
    PROVE  \E f \in [0..n -> Int] : SumsUp(f, g, n)
<1> DEFINE Fails == {m \in 0..n : ~ \E f \in [0..m -> Int] : SumsUp(f, g, m)}
<1> SUFFICES ASSUME Fails # {} PROVE FALSE
  OBVIOUS
<1>1. PICK m \in Fails : \A y \in Fails : m <= y
  <2>1. Fails \in SUBSET Nat
    OBVIOUS
  <2> HIDE DEF Fails
  <2> QED BY <2>1, LeastOf
<1>2. CASE m = 0
  <2>1. [k \in 0..0 |-> 0] \in [0..0 -> Int]
    OBVIOUS
  <2>2. PICK f \in [0..0 -> Int] : f = [k \in 0..0 |-> 0]
    BY <2>1
  <2>3. SumsUp(f, g, 0)
    BY <2>2 DEF SumsUp
  <2> QED BY <1>1, <1>2, <2>3
<1>3. CASE m > 0
  <2>1. m - 1 \in 0..n /\ m - 1 < m /\ m \in 1..n
    BY <1>1, <1>3
  <2>2. m - 1 \notin Fails
    BY <1>1, <2>1
  <2>3. PICK f \in [0..(m - 1) -> Int] : SumsUp(f, g, m - 1)
    BY <2>1, <2>2
  <2>4. PICK h : h = [k \in 0..m |-> IF k = m THEN f[m - 1] + g[m] ELSE f[k]]
    OBVIOUS
  <2>5. f[m - 1] \in Int /\ g[m] \in Int
    BY <2>1, <2>3 DEF Numbers
  <2>6. h \in [0..m -> Int]
    BY <2>1, <2>4, <2>5
  <2>7. \A k \in 0..(m - 1) : f[k] = IF k = 0 THEN 0 ELSE f[k - 1] + g[k]
    BY <2>3 DEF SumsUp
  <2>8. \A k \in 0..m : h[k] = IF k = 0 THEN 0 ELSE h[k - 1] + g[k]
    BY <1>3, <2>1, <2>4, <2>7
  <2>9. SumsUp(h, g, m)
    BY <2>6, <2>8 DEF SumsUp
  <2> QED BY <1>1, <2>6, <2>9
<1> QED BY <1>1, <1>2, <1>3

LEMMA SumsUnique ==
    ASSUME NEW n \in Nat, NEW m \in 0..n, NEW g, NEW f, NEW h, SumsUp(f, g, n), SumsUp(h, g, m)
    PROVE  \A k \in 0..m : f[k] = h[k]
<1> DEFINE Differs == {k \in 0..m : f[k] # h[k]}
<1> SUFFICES ASSUME Differs # {} PROVE FALSE
  OBVIOUS
<1>1. PICK k \in Differs : \A y \in Differs : k <= y
  <2>1. Differs \in SUBSET Nat
    OBVIOUS
  <2> HIDE DEF Differs
  <2> QED BY <2>1, LeastOf
<1>2. f[k] = IF k = 0 THEN 0 ELSE f[k - 1] + g[k]
  BY <1>1 DEF SumsUp
<1>3. h[k] = IF k = 0 THEN 0 ELSE h[k - 1] + g[k]
  BY <1>1 DEF SumsUp
<1>4. k # 0 => k - 1 \in 0..m /\ k - 1 \notin Differs
  BY <1>1
<1> QED BY <1>1, <1>2, <1>3, <1>4

LEMMA SumToIs ==
    ASSUME NEW n \in Nat, NEW g, Numbers(g, n)
    PROVE  \E f \in [0..n -> Int] : SumsUp(f, g, n) /\ SumTo(g, n) = f[n]
<1>1. PICK e \in [0..n -> Int] : SumsUp(e, g, n)
  BY SumsExist
<1>2. PICK f : f = CHOOSE h : h = [k \in 0..n |-> IF k = 0 THEN 0 ELSE h[k - 1] + g[k]]
  OBVIOUS
<1>3. SumsUp(f, g, n)
  BY <1>1, <1>2 DEF SumsUp
<1>4. \A k \in 0..n : f[k] = e[k]
  BY <1>1, <1>3, SumsUnique
<1>5. f \in [0..n -> Int]
  BY <1>1, <1>3, <1>4 DEF SumsUp
<1>6. SumTo(g, n) = f[n]
  BY <1>2 DEF SumTo
<1> QED BY <1>3, <1>5, <1>6

\* What a reader expects of a sum: it is empty, it is a number, and each number adds to it.
LEMMA SumToStep ==
    ASSUME NEW n \in Nat, NEW g, Numbers(g, n)
    PROVE  /\ SumTo(g, 0) = 0 /\ SumTo(g, n) \in Int
           /\ n > 0 => SumTo(g, n) = SumTo(g, n - 1) + g[n]
<1>1. PICK f \in [0..n -> Int] : SumsUp(f, g, n) /\ SumTo(g, n) = f[n]
  BY SumToIs
<1>2. SumTo(g, 0) = 0
  <2>1. PICK z \in [0..0 -> Int] : SumsUp(z, g, 0) /\ SumTo(g, 0) = z[0]
    <3>1. 0 \in Nat /\ Numbers(g, 0)
      BY DEF Numbers
    <3> QED BY <3>1, SumToIs
  <2> QED BY <2>1 DEF SumsUp
<1>3. ASSUME n > 0 PROVE SumTo(g, n) = SumTo(g, n - 1) + g[n]
  <2>1. n - 1 \in Nat /\ n - 1 \in 0..n /\ Numbers(g, n - 1)
    BY <1>3 DEF Numbers
  <2>2. PICK h \in [0..(n - 1) -> Int] : SumsUp(h, g, n - 1) /\ SumTo(g, n - 1) = h[n - 1]
    BY <2>1, SumToIs
  <2>3. f[n - 1] = h[n - 1]
    BY <1>1, <2>1, <2>2, SumsUnique
  <2>4. f[n] = f[n - 1] + g[n]
    BY <1>1, <1>3 DEF SumsUp
  <2> QED BY <1>1, <2>2, <2>3, <2>4
<1> QED BY <1>1, <1>2, <1>3

\* Sums of numbers that differ at most in one place differ by as much.
LEMMA SumToDiffers ==
    ASSUME NEW n \in Nat, NEW g, NEW h, NEW i \in 1..n, NEW d \in Int, Numbers(g, n),
           \A k \in 1..n : h[k] = IF k = i THEN g[k] + d ELSE g[k]
    PROVE  SumTo(h, n) = SumTo(g, n) + d
<1>1. Numbers(h, n)
  BY DEF Numbers
<1> DEFINE Fails == {m \in 0..n : SumTo(h, m) # SumTo(g, m) + (IF m < i THEN 0 ELSE d)}
<1> SUFFICES ASSUME Fails # {} PROVE FALSE
  OBVIOUS
<1>2. PICK m \in Fails : \A y \in Fails : m <= y
  <2>1. Fails \in SUBSET Nat
    OBVIOUS
  <2> HIDE DEF Fails
  <2> QED BY <2>1, LeastOf
<1>3. m \in Nat /\ Numbers(g, m) /\ Numbers(h, m)
  BY <1>1, <1>2 DEF Numbers
<1>4. /\ SumTo(g, 0) = 0 /\ SumTo(h, 0) = 0
      /\ m > 0 => SumTo(g, m) = SumTo(g, m - 1) + g[m] /\ SumTo(h, m) = SumTo(h, m - 1) + h[m]
  BY <1>3, SumToStep
<1>5. m # 0
  BY <1>2, <1>4
<1>6. m - 1 \in 0..n /\ m - 1 \notin Fails /\ m \in 1..n /\ m - 1 \in Nat /\ Numbers(g, m - 1)
  BY <1>2, <1>3, <1>5 DEF Numbers
<1>7. SumTo(h, m - 1) = SumTo(g, m - 1) + (IF m - 1 < i THEN 0 ELSE d)
  BY <1>6
<1>8. PICK x \in Int : x = SumTo(g, m - 1)
  BY <1>6, SumToStep
<1>9. PICK y \in Int : y = g[m]
  BY <1>6 DEF Numbers
<1>10. h[m] = IF m = i THEN y + d ELSE y
  BY <1>6, <1>9
<1>11. SumTo(g, m) = x + y /\ SumTo(h, m) = x + (IF m - 1 < i THEN 0 ELSE d) + h[m]
  BY <1>4, <1>5, <1>6, <1>7, <1>8, <1>9
<1> QED BY <1>2, <1>10, <1>11

LEMMA SumToSame ==
    ASSUME NEW n \in Nat, NEW g, NEW h, Numbers(g, n), \A k \in 1..n : h[k] = g[k]
    PROVE  SumTo(h, n) = SumTo(g, n)
<1>1. CASE n = 0
  BY <1>1, SumToStep DEF Numbers
<1>2. CASE n > 0
  <2>1. 1 \in 1..n /\ 0 \in Int
    BY <1>2
  <2>2. \A k \in 1..n : h[k] = IF k = 1 THEN g[k] + 0 ELSE g[k]
    BY DEF Numbers
  <2>3. SumTo(h, n) = SumTo(g, n) + 0
    BY <2>1, <2>2, SumToDiffers
  <2> QED BY <2>3, SumToStep
<1> QED BY <1>1, <1>2

LEMMA SumOfNothing ==
    ASSUME NEW n \in Nat, NEW g, \A k \in 1..n : g[k] = 0
    PROVE  SumTo(g, n) = 0
<1> DEFINE Fails == {m \in 0..n : SumTo(g, m) # 0}
<1> SUFFICES ASSUME Fails # {} PROVE FALSE
  OBVIOUS
<1>1. PICK m \in Fails : \A y \in Fails : m <= y
  <2>1. Fails \in SUBSET Nat
    OBVIOUS
  <2> HIDE DEF Fails
  <2> QED BY <2>1, LeastOf
<1>2. m \in Nat /\ Numbers(g, m)
  BY <1>1 DEF Numbers
<1>3. SumTo(g, 0) = 0 /\ (m > 0 => SumTo(g, m) = SumTo(g, m - 1) + g[m])
  BY <1>2, SumToStep
<1>4. m # 0
  BY <1>1, <1>3
<1>5. m - 1 \in 0..n /\ m - 1 \notin Fails /\ m \in 1..n
  BY <1>1, <1>4
<1> QED BY <1>1, <1>3, <1>5

----
OrderStates == {"CREATED", "SENT", "PARTIAL"} \cup Final
Sides == {"BUY", "SELL"}
OrderRow == [side : Sides, qty : Nat, kind : {"MARKET", "LIMIT"}, price : Nat, state : OrderStates,
             filled : Nat, forgotten : BOOLEAN]
FillRow == [order : Nat, qty : Nat, price : Nat, after : OrderStates]
DeskRow == [order : Nat, side : Sides, qty : Nat, state : OrderStates, filled : Nat, failed : BOOLEAN]
RoutingRow == [pc : {"idle", "place", "record"}, via : {"executor", "service"}, side : Sides, qty : Nat,
               kind : {"MARKET", "LIMIT"}, price : Nat, row : Nat, order : Nat, state : OrderStates]
PollingRow == [pc : {"idle", "ask", "write"}, todo : SUBSET Nat, state : OrderStates, filled : Nat]

\* Spent, Acquired and FilledOf of any orders and fills, and what the orders say of what was bought.
SpentOf(o, f) == [k \in 1..Len(f) |-> SignOf(o[f[k].order].side) * (f[k].qty * f[k].price)]
BoughtOf(o, f) == [k \in 1..Len(f) |-> SignOf(o[f[k].order].side) * f[k].qty]
FilledBy(f, i) == [k \in 1..Len(f) |-> IF f[k].order = i THEN f[k].qty ELSE 0]
NetOf(o) == [i \in 1..Len(o) |-> IF o[i].forgotten THEN 0 ELSE SignOf(o[i].side) * o[i].filled]

OrderSound(order) ==
    /\ order.filled <= order.qty /\ order.qty > 0
    /\ (order.state = "FILLED") <=> (order.filled = order.qty)
    /\ order.state \in {"CREATED", "SENT"} => order.filled = 0

BookTyped(o, f, c, e, p) ==
    /\ o \in Seq(OrderRow) /\ f \in Seq(FillRow) /\ c \in Int /\ e \in Int /\ p \in Nat
    /\ \A i \in 1..Len(o) : OrderSound(o[i])
    /\ \A k \in 1..Len(f) : f[k].order \in 1..Len(o) /\ f[k].after \notin Final

\* The books of the broker: cash, what each order was filled, and the position as long as nothing
\* was sold that was not held.
BookSound(o, f, c, e, p) ==
    /\ BookTyped(o, f, c, e, p)
    /\ c + e + SumTo(SpentOf(o, f), Len(f)) = InitialCash
    /\ \A i \in 1..Len(o) : ~o[i].forgotten => o[i].filled = SumTo(FilledBy(f, i), Len(f))
    /\ SumTo(BoughtOf(o, f), Len(f)) = SumTo(NetOf(o), Len(o))
    /\ (\A n \in 1..Len(f) : 0 <= SumTo(BoughtOf(o, f), n)) => p = SumTo(BoughtOf(o, f), Len(f))

\* What a row or a reader has of an order is of an earlier day.
Behind(filled, state, order) == filled <= order.filled /\ (state \in Final => order.state = state)

FreshRow(row) == row.order = 0 /\ row.state = "CREATED" /\ row.filled = 0 /\ ~row.failed

RowSound(o, row) ==
    /\ row.order <= Len(o)
    /\ row.order # 0 => row.side = o[row.order].side /\ Behind(row.filled, row.state, o[row.order])
    /\ row.order = 0 => row.state = "CREATED" \/ (row.state = "REJECTED" /\ row.failed)

\* The submission under way has the last row, and the last order once that is placed.
RoutingKnows(o, rs, s) ==
    /\ s.pc = "place" => s.qty > 0 /\ (s.row # 0 => s.row = Len(rs) /\ FreshRow(rs[s.row]) /\ rs[s.row].side = s.side)
    /\ s.pc = "record" =>
          /\ s.row = Len(rs) /\ s.row # 0 /\ FreshRow(rs[s.row])
          /\ s.order = Len(o) /\ s.order # 0 /\ rs[s.row].side = o[s.order].side
          /\ Behind(0, s.state, o[s.order])
          /\ \A r \in 1..Len(rs) : rs[r].order < s.order

PollingKnows(o, rs, p) ==
    /\ \A r \in p.todo : r \in 1..Len(rs) /\ rs[r].order # 0
    /\ p.pc # "idle" => p.todo # {}
    /\ p.pc = "write" => Behind(p.filled, p.state, o[rs[Oldest(p.todo)].order])

RowsSound(o, rs, s, p) ==
    /\ rs \in Seq(DeskRow) /\ s \in RoutingRow /\ p \in PollingRow
    /\ \A r \in 1..Len(rs) : RowSound(o, rs[r])
    /\ \A q, r \in 1..Len(rs) : q < r /\ rs[q].order # 0 /\ rs[r].order # 0 => rs[q].order < rs[r].order
    /\ RoutingKnows(o, rs, s)
    /\ PollingKnows(o, rs, p)

DeskInv ==
    /\ BookSound(orders, fills, cash, fees, position)
    /\ RowsSound(orders, rows, routing, polling)

----
\* Orders of which only more is known than before.
Grows(o, u) ==
    /\ Len(o) <= Len(u)
    /\ \A i \in 1..Len(o) : /\ u[i].side = o[i].side /\ o[i].filled <= u[i].filled
                            /\ o[i].state \in Final => u[i].state = o[i].state

LEMMA OrderOf ==
    ASSUME NEW o \in Seq(OrderRow), NEW i \in 1..Len(o)
    PROVE  o[i] \in OrderRow /\ o[i].filled \in Nat /\ o[i].qty \in Nat /\ o[i].state \in OrderStates
<1>1. o[i] \in OrderRow
  OBVIOUS
<1> QED BY <1>1 DEF OrderRow

LEMMA SignIs == \A side : SignOf(side) \in {1, -1}
BY DEF SignOf

LEMMA BookNumbers ==
    ASSUME NEW o, NEW f, NEW c, NEW e, NEW p, BookTyped(o, f, c, e, p)
    PROVE  /\ Numbers(SpentOf(o, f), Len(f)) /\ Numbers(BoughtOf(o, f), Len(f)) /\ Numbers(NetOf(o), Len(o))
           /\ \A i : Numbers(FilledBy(f, i), Len(f))
           /\ Len(f) \in Nat /\ Len(o) \in Nat
<1>1. /\ o \in Seq(OrderRow) /\ f \in Seq(FillRow) /\ Len(f) \in Nat /\ Len(o) \in Nat
      /\ \A k \in 1..Len(f) : f[k] \in FillRow
      /\ \A i \in 1..Len(o) : o[i] \in OrderRow
  BY DEF BookTyped
<1>2. ASSUME NEW k \in 1..Len(f) PROVE SpentOf(o, f)[k] \in Int /\ BoughtOf(o, f)[k] \in Int
  <2>1. PICK s \in {1, -1} : s = SignOf(o[f[k].order].side)
    BY SignIs
  <2>2. f[k].qty \in Nat /\ f[k].price \in Nat
    BY <1>1 DEF FillRow
  <2>3. PICK cost \in Nat : cost = f[k].qty * f[k].price
    BY <2>2
  <2>4. s * cost \in Int /\ s * f[k].qty \in Int
    BY <2>1, <2>2, <2>3
  <2> QED BY <2>1, <2>3, <2>4 DEF SpentOf, BoughtOf
<1>3. ASSUME NEW i \in 1..Len(o) PROVE NetOf(o)[i] \in Int
  <2>1. PICK s \in {1, -1} : s = SignOf(o[i].side)
    BY SignIs
  <2>2. PICK n \in Nat : n = o[i].filled
    BY <1>1 DEF OrderRow
  <2>3. s * n \in Int
    BY <2>1, <2>2
  <2> QED BY <2>1, <2>2, <2>3 DEF NetOf
<1>4. ASSUME NEW i, NEW k \in 1..Len(f) PROVE FilledBy(f, i)[k] \in Int
  BY <1>1 DEF FilledBy, FillRow
<1> QED BY <1>1, <1>2, <1>3, <1>4 DEF Numbers

LEMMA OrderPlaced ==
    ASSUME NEW o, NEW f, NEW c, NEW e, NEW p, BookSound(o, f, c, e, p),
           NEW order \in OrderRow, OrderSound(order), order.filled = 0
    PROVE  BookSound(Append(o, order), f, c, e, p) /\ Grows(o, Append(o, order))
<1>1. BookTyped(o, f, c, e, p) /\ o \in Seq(OrderRow) /\ f \in Seq(FillRow) /\ Len(o) \in Nat /\ Len(f) \in Nat
  BY DEF BookSound, BookTyped
<1>2. PICK u : u = Append(o, order)
  OBVIOUS
<1>3. /\ u \in Seq(OrderRow) /\ Len(u) = Len(o) + 1 /\ u[Len(o) + 1] = order
      /\ \A i \in 1..Len(o) : u[i] = o[i]
  BY <1>1, <1>2
<1>4. \A k \in 1..Len(f) : f[k].order \in 1..Len(o)
  BY <1>1 DEF BookTyped
<1>5. SpentOf(u, f) = SpentOf(o, f) /\ BoughtOf(u, f) = BoughtOf(o, f)
  BY <1>3, <1>4 DEF SpentOf, BoughtOf
<1>6. BookTyped(u, f, c, e, p)
  <2>1. ASSUME NEW i \in 1..Len(u) PROVE OrderSound(u[i])
    <3>1. CASE i = Len(o) + 1
      BY <1>3, <3>1
    <3>2. CASE i # Len(o) + 1
      <4>1. i \in 1..Len(o) /\ u[i] = o[i]
        BY <1>1, <1>3, <3>2
      <4> QED BY <1>1, <4>1 DEF BookTyped
    <3> QED BY <3>1, <3>2
  <2>2. \A k \in 1..Len(f) : f[k].order \in 1..Len(u)
    BY <1>1, <1>3, <1>4
  <2> QED BY <1>1, <1>3, <2>1, <2>2 DEF BookTyped
<1>7. SumTo(FilledBy(f, Len(o) + 1), Len(f)) = 0
  <2>1. \A k \in 1..Len(f) : FilledBy(f, Len(o) + 1)[k] = 0
    BY <1>1, <1>4 DEF FilledBy
  <2> QED BY <1>1, <2>1, SumOfNothing
<1>8. SumTo(NetOf(u), Len(u)) = SumTo(NetOf(o), Len(o))
  <2>1. Numbers(NetOf(u), Len(u)) /\ Numbers(NetOf(o), Len(o)) /\ Len(u) \in Nat /\ Len(u) > 0 /\ Len(u) - 1 = Len(o)
    BY <1>1, <1>3, <1>6, BookNumbers
  <2>2. PICK g : g = NetOf(u)
    OBVIOUS
  <2>3. SumTo(g, Len(u)) = SumTo(g, Len(o)) + g[Len(u)]
    BY <2>1, <2>2, SumToStep
  <2>4. g[Len(u)] = 0
    <3>1. PICK s \in {1, -1} : s = SignOf(order.side)
      BY SignIs
    <3>2. s * 0 = 0
      BY <3>1
    <3> QED BY <1>3, <2>1, <2>2, <3>1, <3>2 DEF NetOf
  <2>5. \A i \in 1..Len(o) : g[i] = NetOf(o)[i]
    BY <1>1, <1>3, <2>2 DEF NetOf
  <2>6. SumTo(g, Len(o)) = SumTo(NetOf(o), Len(o))
    BY <1>1, <2>1, <2>5, SumToSame
  <2>7. SumTo(NetOf(o), Len(o)) \in Int
    BY <1>1, <2>1, SumToStep
  <2> QED BY <2>2, <2>3, <2>4, <2>6, <2>7
<1>9. ASSUME NEW i \in 1..Len(u), ~u[i].forgotten PROVE u[i].filled = SumTo(FilledBy(f, i), Len(f))
  <2>1. CASE i = Len(o) + 1
    BY <1>3, <1>7, <2>1
  <2>2. CASE i # Len(o) + 1
    <3>1. i \in 1..Len(o) /\ u[i] = o[i]
      BY <1>1, <1>3, <2>2
    <3> QED BY <1>9, <3>1 DEF BookSound
  <2> QED BY <2>1, <2>2
<1>10. Grows(o, u)
  <2>1. \A i \in 1..Len(o) : o[i].filled \in Nat
    BY <1>1, OrderOf
  <2> QED BY <1>1, <1>3, <2>1 DEF Grows
<1> QED BY <1>2, <1>5, <1>6, <1>8, <1>9, <1>10 DEF BookSound

LEMMA OrderRestated ==
    ASSUME NEW o, NEW f, NEW c, NEW e, NEW p, BookSound(o, f, c, e, p),
           NEW i \in 1..Len(o), NEW state \in OrderStates, o[i].state \notin Final,
           OrderSound([o[i] EXCEPT !.state = state])
    PROVE  /\ BookSound([o EXCEPT ![i].state = state], f, c, e, p)
           /\ Grows(o, [o EXCEPT ![i].state = state])
           /\ Len([o EXCEPT ![i].state = state]) = Len(o)
           /\ [o EXCEPT ![i].state = state][i].forgotten = o[i].forgotten
<1>1. BookTyped(o, f, c, e, p) /\ o \in Seq(OrderRow) /\ f \in Seq(FillRow) /\ Len(o) \in Nat /\ Len(f) \in Nat
  BY DEF BookSound, BookTyped
<1>2. PICK u : u = [o EXCEPT ![i].state = state]
  OBVIOUS
<1>3. PICK row : row = [o[i] EXCEPT !.state = state]
  OBVIOUS
<1>4. /\ o[i] \in OrderRow /\ row \in OrderRow /\ row.side = o[i].side /\ row.filled = o[i].filled
      /\ row.forgotten = o[i].forgotten /\ row.state = state /\ OrderSound(row)
  <2>1. o[i] \in OrderRow
    BY <1>1
  <2>2. row \in OrderRow
    BY <1>3, <2>1 DEF OrderRow
  <2>3. /\ row.side = o[i].side /\ row.filled = o[i].filled
        /\ row.forgotten = o[i].forgotten /\ row.state = state
    BY <1>3, <2>1 DEF OrderRow
  <2>4. OrderSound(row)
    BY <1>3
  <2> QED BY <2>1, <2>2, <2>3, <2>4
<1>5. u = [o EXCEPT ![i] = row]
  BY <1>2, <1>3
<1>6. /\ u \in Seq(OrderRow) /\ Len(u) = Len(o)
      /\ \A k \in 1..Len(o) : u[k] = IF k = i THEN row ELSE o[k]
  BY <1>1, <1>4, <1>5
<1>7. \A k \in 1..Len(o) : /\ u[k].side = o[k].side /\ u[k].filled = o[k].filled
                           /\ u[k].forgotten = o[k].forgotten
  BY <1>4, <1>6
<1>8. \A k \in 1..Len(f) : f[k].order \in 1..Len(o)
  BY <1>1 DEF BookTyped
<1>9. SpentOf(u, f) = SpentOf(o, f) /\ BoughtOf(u, f) = BoughtOf(o, f) /\ NetOf(u) = NetOf(o)
  BY <1>6, <1>7, <1>8 DEF SpentOf, BoughtOf, NetOf
<1>10. BookTyped(u, f, c, e, p)
  BY <1>1, <1>4, <1>6 DEF BookTyped
<1>11. \A k \in 1..Len(u) : ~u[k].forgotten => u[k].filled = SumTo(FilledBy(f, k), Len(f))
  BY <1>6, <1>7 DEF BookSound
<1>12. Grows(o, u)
  <2>1. \A k \in 1..Len(o) : o[k].filled \in Nat
    BY <1>1, OrderOf
  <2>2. \A k \in 1..Len(o) : o[k].state \in Final => u[k].state = o[k].state
    BY <1>6
  <2> QED BY <1>1, <1>6, <1>7, <2>1, <2>2 DEF Grows
<1>13. BookSound(u, f, c, e, p)
  BY <1>6, <1>9, <1>10, <1>11 DEF BookSound
<1> QED BY <1>2, <1>6, <1>7, <1>12, <1>13

LEMMA BookForgotten ==
    ASSUME NEW o, NEW f, NEW c, NEW e, NEW p, BookSound(o, f, c, e, p)
    PROVE  LET u == [i \in 1..Len(o) |-> [o[i] EXCEPT !.forgotten = TRUE]]
           IN  BookSound(u, <<>>, InitialCash, 0, 0) /\ Grows(o, u)
<1>1. BookTyped(o, f, c, e, p) /\ o \in Seq(OrderRow) /\ Len(o) \in Nat
  BY DEF BookSound, BookTyped
<1>2. PICK u : u = [i \in 1..Len(o) |-> [o[i] EXCEPT !.forgotten = TRUE]]
  OBVIOUS
<1>3. ASSUME NEW i \in 1..Len(o)
      PROVE  /\ u[i] \in OrderRow /\ u[i].side = o[i].side /\ u[i].filled = o[i].filled /\ u[i].state = o[i].state
             /\ u[i].qty = o[i].qty /\ u[i].forgotten = TRUE /\ OrderSound(u[i]) /\ o[i].filled \in Nat
  <2>1. o[i] \in OrderRow /\ OrderSound(o[i])
    BY <1>1 DEF BookTyped
  <2>2. u[i] = [o[i] EXCEPT !.forgotten = TRUE]
    BY <1>2
  <2>3. u[i] \in OrderRow
    BY <2>1, <2>2 DEF OrderRow
  <2>4. /\ u[i].side = o[i].side /\ u[i].filled = o[i].filled /\ u[i].state = o[i].state
        /\ u[i].qty = o[i].qty /\ u[i].forgotten = TRUE /\ o[i].filled \in Nat
    BY <2>1, <2>2 DEF OrderRow
  <2> QED BY <2>1, <2>3, <2>4 DEF OrderSound
<1>4. u \in Seq(OrderRow) /\ Len(u) = Len(o)
  <2>1. u \in [1..Len(o) -> OrderRow]
    BY <1>2, <1>3
  <2> QED BY <1>1, <2>1, SequenceFrom
<1>5. PICK none \in Seq(FillRow) : none = <<>>
  <2>1. <<>> \in Seq(FillRow)
    OBVIOUS
  <2> QED BY <2>1
<1>6. Len(none) = 0 /\ 1..0 = {}
  BY <1>5
<1>7. InitialCash \in Int /\ InitialCash + 0 + 0 = InitialCash
  BY DeskAssumption
<1>8. BookTyped(u, none, InitialCash, 0, 0)
  <2>1. \A i \in 1..Len(u) : OrderSound(u[i])
    BY <1>3, <1>4
  <2> QED BY <1>4, <1>6, <1>7, <2>1 DEF BookTyped
<1>9. SumTo(SpentOf(u, none), 0) = 0 /\ SumTo(BoughtOf(u, none), 0) = 0
  BY <1>6, SumOfNothing
<1>10. SumTo(NetOf(u), Len(u)) = 0
  <2>1. \A i \in 1..Len(u) : NetOf(u)[i] = 0
    BY <1>3, <1>4 DEF NetOf
  <2> QED BY <1>1, <1>4, <2>1, SumOfNothing
<1>11. BookSound(u, none, InitialCash, 0, 0)
  BY <1>3, <1>4, <1>6, <1>7, <1>8, <1>9, <1>10 DEF BookSound
<1>12. Grows(o, u)
  <2>1. \A i \in 1..Len(o) : u[i].filled = o[i].filled /\ o[i].filled \in Nat
    BY <1>3
  <2>2. \A i \in 1..Len(o) : u[i].side = o[i].side /\ u[i].state = o[i].state
    BY <1>3
  <2> QED BY <1>1, <1>4, <2>1, <2>2 DEF Grows
<1> QED BY <1>2, <1>5, <1>11, <1>12

LEMMA SumToAppended ==
    ASSUME NEW n \in Nat, NEW g, NEW h, NEW d \in Int, Numbers(g, n), h[n + 1] = d, \A k \in 1..n : h[k] = g[k]
    PROVE  /\ \A m \in 0..n : SumTo(h, m) = SumTo(g, m)
           /\ SumTo(h, n + 1) = SumTo(g, n) + d
<1>1. ASSUME NEW m \in 0..n PROVE SumTo(h, m) = SumTo(g, m)
  <2>1. m \in Nat /\ Numbers(g, m) /\ \A k \in 1..m : h[k] = g[k]
    BY DEF Numbers
  <2> QED BY <2>1, SumToSame
<1>2. n + 1 \in Nat /\ n + 1 > 0 /\ (n + 1) - 1 = n /\ n \in 0..n
  OBVIOUS
<1>3. Numbers(h, n + 1)
  <2>1. ASSUME NEW k \in 1..(n + 1) PROVE h[k] \in Int
    <3>1. CASE k = n + 1
      BY <3>1
    <3>2. CASE k # n + 1
      <4>1. k \in 1..n
        BY <3>2
      <4> QED BY <4>1 DEF Numbers
    <3> QED BY <3>1, <3>2
  <2> QED BY <2>1 DEF Numbers
<1>4. SumTo(h, n + 1) = SumTo(h, n) + h[n + 1]
  <2>1. PICK m \in Nat : m = n + 1
    BY <1>2
  <2>2. SumTo(h, m) = SumTo(h, m - 1) + h[m]
    BY <1>2, <1>3, <2>1, SumToStep
  <2> QED BY <1>2, <2>1, <2>2
<1> QED BY <1>1, <1>2, <1>4

\* One entry of a sequence replaced.
LEMMA EntryReplaced ==
    ASSUME NEW S, NEW list \in Seq(S), NEW i \in 1..Len(list), NEW x \in S, NEW u, u = [list EXCEPT ![i] = x]
    PROVE  /\ u \in Seq(S) /\ Len(u) = Len(list)
           /\ \A k \in 1..Len(list) : u[k] = IF k = i THEN x ELSE list[k]
OBVIOUS

\* A fill is in the cash, in the order, in what was bought and in the position at once.
LEMMA OrderFilled ==
    ASSUME NEW book, BookSound(book, fills, cash, fees, position), NEW i \in 1..Len(book), ~book[i].forgotten,
           NEW qty \in Int, NEW price \in Nat, FillsOrder(book, i, qty, price)
    PROVE  BookSound(orders', fills', cash', fees', position') /\ Grows(book, orders') /\ Len(orders') = Len(book)
<1> DEFINE n == Len(fills)
<1>1. /\ BookTyped(book, fills, cash, fees, position) /\ book \in Seq(OrderRow) /\ fills \in Seq(FillRow)
      /\ Len(book) \in Nat /\ n \in Nat /\ cash \in Int /\ fees \in Int /\ position \in Nat
  BY DEF BookSound, BookTyped
<1>2. PICK o \in OrderRow : o = book[i]
  BY <1>1
<1>3. /\ o.qty \in Nat /\ o.filled \in Nat /\ o.state \in OrderStates /\ o.side \in Sides
      /\ OrderSound(o) /\ ~o.forgotten
  BY <1>1, <1>2 DEF OrderRow, BookTyped
<1>4. PICK q \in Int : q = FillQuantity(o, qty)
  BY <1>3 DEF FillQuantity, Remaining
<1>5. CASE o.state \in Final \/ q <= 0
  <2>1. orders' = book /\ fills' = fills /\ cash' = cash /\ fees' = fees /\ position' = position
    BY <1>2, <1>4, <1>5 DEF FillsOrder
  <2>2. Grows(book, book)
    <3>1. \A k \in 1..Len(book) : book[k].filled \in Nat
      BY <1>1, OrderOf
    <3> QED BY <1>1, <3>1 DEF Grows
  <2> QED BY <2>1, <2>2
<1>6. CASE ~(o.state \in Final \/ q <= 0)
  <2>1. q \in Nat /\ 0 < q /\ o.filled + q <= o.qty
    BY <1>3, <1>4, <1>6 DEF FillQuantity, Remaining
  <2>2. PICK s \in {1, -1} : s = SignOf(o.side)
    BY SignIs
  <2>3. s = 1 <=> o.side = "BUY"
    BY <2>2 DEF SignOf
  <2>4. PICK notional \in Nat : notional = q * price
    BY <2>1
  <2>5. PICK fee \in Int : fee = (notional * (IF o.side = "BUY" THEN BuyCostPct ELSE SellCostPct)) \div 100
    <3>1. PICK pct \in Nat : pct = IF o.side = "BUY" THEN BuyCostPct ELSE SellCostPct
      BY DeskAssumption
    <3>2. \A a, b \in Nat : a * b \in Nat
      OBVIOUS
    <3>3. PICK percents \in Nat : percents = notional * pct
      BY <3>2
    <3>4. percents \div 100 \in Int
      OBVIOUS
    <3> QED BY <3>1, <3>3, <3>4
  <2>6. PICK state \in OrderStates : state = IF o.filled + q = o.qty THEN "FILLED" ELSE "PARTIAL"
    BY DEF OrderStates, Final
  <2>7. PICK row : row = [[o EXCEPT !.filled = o.filled + q] EXCEPT !.state = state]
    OBVIOUS
  <2>8. PICK x : x = [order |-> i, qty |-> q, price |-> price, after |-> o.state]
    OBVIOUS
  <2>9. /\ orders' = [book EXCEPT ![i] = row] /\ fills' = Append(fills, x)
        /\ cash' = IF o.side = "BUY" THEN cash - notional - fee ELSE cash + notional - fee
        /\ fees' = fees + fee
        /\ position' = IF o.side = "BUY" THEN position + q ELSE IF position > q THEN position - q ELSE 0
    <3>1. /\ orders' = [book EXCEPT ![i].filled = @ + q, ![i].state = state]
          /\ fills' = Append(fills, x)
          /\ cash' = IF o.side = "BUY" THEN cash - notional - fee ELSE cash + notional - fee
          /\ fees' = fees + fee
          /\ position' = IF o.side = "BUY" THEN position + q ELSE IF position > q THEN position - q ELSE 0
      BY <1>2, <1>4, <1>6, <2>4, <2>5, <2>6, <2>8 DEF FillsOrder
    <3>2. [book EXCEPT ![i].filled = @ + q, ![i].state = state] = [book EXCEPT ![i] = row]
      BY <1>1, <1>2, <2>7
    <3> QED BY <3>1, <3>2
  <2>10. /\ row \in OrderRow /\ row.side = o.side /\ row.qty = o.qty /\ row.filled = o.filled + q
         /\ row.state = state /\ row.forgotten = o.forgotten
    <3>1. PICK one : one = [o EXCEPT !.filled = o.filled + q]
      OBVIOUS
    <3>2. /\ one \in OrderRow /\ one.side = o.side /\ one.qty = o.qty /\ one.filled = o.filled + q
          /\ one.forgotten = o.forgotten
      BY <1>3, <2>1, <3>1, SMTT(30) DEF OrderRow
    <3>3. row = [one EXCEPT !.state = state]
      BY <2>7, <3>1
    <3> QED BY <2>6, <3>2, <3>3 DEF OrderRow
  <2>11. OrderSound(row)
    BY <1>3, <2>1, <2>6, <2>10 DEF OrderSound
  <2>12. x \in FillRow /\ x.order = i /\ x.qty = q /\ x.price = price /\ x.after = o.state
    BY <1>1, <1>3, <2>1, <2>8 DEF FillRow
  <2>13. PICK u : u = orders'
    OBVIOUS
  <2>14. PICK h : h = fills'
    OBVIOUS
  <2>15. /\ u \in Seq(OrderRow) /\ Len(u) = Len(book)
         /\ \A k \in 1..Len(book) : u[k] = IF k = i THEN row ELSE book[k]
    <3>1. book \in Seq(OrderRow) /\ row \in OrderRow /\ u = [book EXCEPT ![i] = row]
      BY <1>1, <2>9, <2>10, <2>13, Zenon
    <3> QED BY <3>1, EntryReplaced
  <2>16. /\ h \in Seq(FillRow) /\ Len(h) = n + 1 /\ h[n + 1] = x
         /\ \A k \in 1..n : h[k] = fills[k]
    BY <1>1, <2>9, <2>12, <2>14
  <2>17. \A k \in 1..n : fills[k].order \in 1..Len(book) /\ fills[k].after \notin Final
    BY <1>1 DEF BookTyped
  <2>18. \A k \in 1..Len(book) : u[k].side = book[k].side /\ u[k].forgotten = book[k].forgotten
    BY <1>2, <2>10, <2>15
  <2>19. BookTyped(u, h, cash', fees', position')
    <3>1. cash' \in Int /\ fees' \in Int /\ position' \in Nat
      BY <1>1, <2>1, <2>9
    <3>2. ASSUME NEW k \in 1..Len(u) PROVE OrderSound(u[k])
      BY <1>1, <2>11, <2>15 DEF BookTyped
    <3>3. ASSUME NEW k \in 1..Len(h) PROVE h[k].order \in 1..Len(u) /\ h[k].after \notin Final
      <4>1. CASE k = n + 1
        BY <1>6, <2>12, <2>15, <2>16, <4>1
      <4>2. CASE k # n + 1
        <5>1. k \in 1..n /\ h[k] = fills[k]
          BY <1>1, <2>16, <4>2
        <5> QED BY <2>15, <2>17, <5>1
      <4> QED BY <4>1, <4>2
    <3> QED BY <2>15, <2>16, <3>1, <3>2, <3>3 DEF BookTyped
  <2>20. /\ Numbers(SpentOf(book, fills), n) /\ Numbers(BoughtOf(book, fills), n)
         /\ Numbers(NetOf(book), Len(book)) /\ \A k : Numbers(FilledBy(fills, k), n)
    BY <1>1, BookNumbers
  <2>21. PICK bought \in Int : bought = s * q
    BY <2>1, <2>2
  <2>22. PICK spent \in Int : spent = s * notional
    BY <2>2, <2>4
  <2>23. \A k \in 1..n : /\ SpentOf(u, h)[k] = SpentOf(book, fills)[k]
                         /\ BoughtOf(u, h)[k] = BoughtOf(book, fills)[k]
    BY <1>1, <2>16, <2>17, <2>18, SMTT(30) DEF SpentOf, BoughtOf
  <2>24. u[i].side = o.side /\ n + 1 \in 1..(n + 1)
    BY <1>1, <2>10, <2>15
  <2>25. SpentOf(u, h)[n + 1] = spent /\ BoughtOf(u, h)[n + 1] = bought
    BY <2>2, <2>4, <2>12, <2>16, <2>21, <2>22, <2>24 DEF SpentOf, BoughtOf
  <2>26. SumTo(SpentOf(u, h), n + 1) = SumTo(SpentOf(book, fills), n) + spent
    BY <1>1, <2>20, <2>23, <2>25, SumToAppended
  <2>27. /\ SumTo(BoughtOf(u, h), n + 1) = SumTo(BoughtOf(book, fills), n) + bought
         /\ \A m \in 0..n : SumTo(BoughtOf(u, h), m) = SumTo(BoughtOf(book, fills), m)
    BY <1>1, <2>20, <2>23, <2>25, SumToAppended, SMTT(30)
  <2>28. SumTo(NetOf(u), Len(u)) = SumTo(NetOf(book), Len(book)) + bought
    <3>1. ASSUME NEW k \in 1..Len(book)
          PROVE  NetOf(u)[k] = IF k = i THEN NetOf(book)[k] + bought ELSE NetOf(book)[k]
      <4>1. CASE k = i
        <5>1. NetOf(u)[k] = s * (o.filled + q) /\ NetOf(book)[k] = s * o.filled
          BY <1>2, <1>3, <2>2, <2>10, <2>15, <4>1 DEF NetOf
        <5>2. s * (o.filled + q) = s * o.filled + s * q
          BY <1>3, <2>1, <2>2
        <5> QED BY <2>21, <4>1, <5>1, <5>2
      <4>2. CASE k # i
        BY <2>15, <4>2 DEF NetOf
      <4> QED BY <4>1, <4>2
    <3>2. PICK g : g = NetOf(u)
      OBVIOUS
    <3>3. SumTo(g, Len(book)) = SumTo(NetOf(book), Len(book)) + bought
      BY <1>1, <2>20, <3>1, <3>2, SumToDiffers, ZenonT(60)
    <3> QED BY <2>15, <3>2, <3>3
  <2>29. ASSUME NEW k \in 1..Len(u), ~u[k].forgotten PROVE u[k].filled = SumTo(FilledBy(h, k), n + 1)
    <3>1. PICK d \in Nat : d = IF k = i THEN q ELSE 0
      BY <2>1
    <3>2. FilledBy(h, k)[n + 1] = d
      BY <2>12, <2>16, <2>24, <3>1 DEF FilledBy
    <3>3. \A m \in 1..n : FilledBy(h, k)[m] = FilledBy(fills, k)[m]
      BY <1>1, <2>16 DEF FilledBy
    <3>4. SumTo(FilledBy(h, k), n + 1) = SumTo(FilledBy(fills, k), n) + d
      BY <1>1, <2>20, <3>1, <3>2, <3>3, SumToAppended
    <3>5. k \in 1..Len(book) /\ ~book[k].forgotten
      BY <2>15, <2>18, <2>29
    <3>6. book[k].filled = SumTo(FilledBy(fills, k), n) /\ book[k].filled \in Nat
      BY <1>1, <3>5, OrderOf DEF BookSound
    <3>7. u[k].filled = book[k].filled + d
      BY <1>2, <2>10, <2>15, <3>1, <3>5, <3>6
    <3> QED BY <3>4, <3>6, <3>7
  <2>30. cash' + fees' + SumTo(SpentOf(u, h), n + 1) = InitialCash
    <3>1. PICK a \in Int : a = SumTo(SpentOf(book, fills), n)
      BY <1>1, <2>20, SumToStep
    <3>2. cash + fees + a = InitialCash
      BY <3>1 DEF BookSound
    <3>3. CASE s = 1
      <4>1. cash' = cash - notional - fee /\ spent = notional
        BY <2>3, <2>4, <2>9, <2>22, <3>3
      <4>2. SumTo(SpentOf(u, h), n + 1) = a + spent /\ fees' = fees + fee
        BY <2>9, <2>26, <3>1
      <4> QED BY <1>1, <3>2, <4>1, <4>2
    <3>4. CASE s = -1
      <4>1. cash' = cash + notional - fee /\ spent = 0 - notional /\ fees' = fees + fee
        BY <2>3, <2>4, <2>9, <2>22, <3>4
      <4>2. SumTo(SpentOf(u, h), n + 1) = a + spent
        BY <2>26, <3>1
      <4> QED BY <1>1, <3>2, <4>1, <4>2
    <3> QED BY <2>2, <3>3, <3>4
  <2>31. ASSUME \A m \in 1..(n + 1) : 0 <= SumTo(BoughtOf(u, h), m)
         PROVE  position' = SumTo(BoughtOf(u, h), n + 1)
    <3>1. \A m \in 1..n : m \in 0..n /\ m \in 1..(n + 1)
      BY <1>1
    <3>2. \A m \in 1..n : 0 <= SumTo(BoughtOf(book, fills), m)
      BY <2>27, <2>31, <3>1
    <3>3. position = SumTo(BoughtOf(book, fills), n)
      BY <3>2 DEF BookSound
    <3>4. 0 <= position + bought
      BY <2>24, <2>27, <2>31, <3>3
    <3>5. CASE s = 1
      BY <1>1, <2>1, <2>3, <2>9, <2>21, <2>27, <3>3, <3>5
    <3>6. CASE s = -1
      <4>1. bought = -q /\ o.side # "BUY"
        BY <2>1, <2>3, <2>21, <3>6
      <4> QED BY <1>1, <2>1, <2>9, <2>27, <3>3, <3>4, <4>1
    <3> QED BY <2>2, <3>5, <3>6
  <2>32. SumTo(BoughtOf(book, fills), n) = SumTo(NetOf(book), Len(book))
    BY DEF BookSound
  <2>33. BookSound(u, h, cash', fees', position')
    BY <2>16, <2>19, <2>27, <2>28, <2>29, <2>30, <2>31, <2>32 DEF BookSound
  <2>34. Grows(book, u)
    <3>1. ASSUME NEW k \in 1..Len(book)
          PROVE  book[k].filled <= u[k].filled /\ (book[k].state \in Final => u[k].state = book[k].state)
      <4>1. CASE k = i
        BY <1>2, <1>3, <1>6, <2>1, <2>10, <2>15, <4>1
      <4>2. CASE k # i
        <5>1. u[k] = book[k] /\ book[k].filled \in Nat
          BY <1>1, <2>15, <4>2, OrderOf
        <5> QED BY <5>1
      <4> QED BY <4>1, <4>2
    <3> QED BY <1>1, <2>15, <2>18, <3>1, SMTT(30) DEF Grows
  <2> QED BY <2>13, <2>14, <2>15, <2>33, <2>34
<1> QED BY <1>5, <1>6

----
LEMMA GrowsOn ==
    ASSUME NEW o \in Seq(OrderRow), NEW u \in Seq(OrderRow), NEW w \in Seq(OrderRow), Grows(o, u), Grows(u, w)
    PROVE  Grows(o, w)
<1>1. ASSUME NEW i \in 1..Len(o)
      PROVE  /\ w[i].side = o[i].side /\ o[i].filled <= w[i].filled
             /\ o[i].state \in Final => w[i].state = o[i].state
  <2>1. i \in 1..Len(u) /\ i \in 1..Len(w)
    BY DEF Grows
  <2>2. o[i].filled \in Nat /\ u[i].filled \in Nat /\ w[i].filled \in Nat
    BY <2>1, OrderOf
  <2>3. u[i].side = o[i].side /\ w[i].side = u[i].side /\ o[i].filled <= u[i].filled /\ u[i].filled <= w[i].filled
    BY <2>1 DEF Grows
  <2>4. o[i].state \in Final => w[i].state = o[i].state
    BY <2>1 DEF Grows
  <2> QED BY <2>2, <2>3, <2>4
<1> QED BY <1>1 DEF Grows

LEMMA StaysBehind ==
    ASSUME NEW o \in Seq(OrderRow), NEW u \in Seq(OrderRow), Grows(o, u), NEW i \in 1..Len(o),
           NEW filled \in Nat, NEW state, Behind(filled, state, o[i])
    PROVE  Behind(filled, state, u[i])
<1>1. i \in 1..Len(u)
  BY DEF Grows
<1>2. o[i].filled \in Nat /\ u[i].filled \in Nat /\ o[i].filled <= u[i].filled
  BY <1>1, OrderOf DEF Grows
<1>3. state \in Final => u[i].state = state
  BY DEF Behind, Grows
<1> QED BY <1>2, <1>3 DEF Behind

LEMMA OldestOf == ASSUME NEW S \in SUBSET Nat, S # {} PROVE Oldest(S) \in S
BY LeastOf DEF Oldest

LEMMA DeskRowOf ==
    ASSUME NEW rs \in Seq(DeskRow), NEW r \in 1..Len(rs)
    PROVE  rs[r] \in DeskRow /\ rs[r].order \in Nat /\ rs[r].filled \in Nat /\ rs[r].state \in OrderStates
<1>1. rs[r] \in DeskRow
  OBVIOUS
<1> QED BY <1>1 DEF DeskRow

LEMMA RowGrows ==
    ASSUME NEW o \in Seq(OrderRow), NEW u \in Seq(OrderRow), Grows(o, u), NEW row \in DeskRow, RowSound(o, row)
    PROVE  RowSound(u, row)
<1>1. row.order \in Nat /\ row.filled \in Nat /\ row.order <= Len(o) /\ Len(o) <= Len(u) /\ Len(u) \in Nat
  BY DEF DeskRow, RowSound, Grows
<1>2. ASSUME row.order # 0 PROVE row.side = u[row.order].side /\ Behind(row.filled, row.state, u[row.order])
  <2>1. row.order \in 1..Len(o)
    BY <1>1, <1>2
  <2>2. row.side = o[row.order].side /\ Behind(row.filled, row.state, o[row.order])
    BY <1>2 DEF RowSound
  <2>3. Behind(row.filled, row.state, u[row.order])
    BY <1>1, <2>1, <2>2, StaysBehind
  <2> QED BY <2>1, <2>2, <2>3 DEF Grows
<1>3. row.order = 0 => row.state = "CREATED" \/ (row.state = "REJECTED" /\ row.failed)
  BY DEF RowSound
<1>4. row.order <= Len(u)
  BY <1>1
<1> QED BY <1>2, <1>3, <1>4 DEF RowSound

LEMMA PollingGrows ==
    ASSUME NEW o \in Seq(OrderRow), NEW u \in Seq(OrderRow), Grows(o, u), NEW rs \in Seq(DeskRow),
           NEW p \in PollingRow, \A r \in 1..Len(rs) : RowSound(o, rs[r]), PollingKnows(o, rs, p)
    PROVE  PollingKnows(u, rs, p)
<1>1. p.todo \in SUBSET Nat /\ p.filled \in Nat
  BY DEF PollingRow
<1>2. ASSUME p.pc = "write" PROVE Behind(p.filled, p.state, u[rs[Oldest(p.todo)].order])
  <2>1. PICK r : r = Oldest(p.todo) /\ r \in p.todo
    BY <1>1, <1>2, OldestOf DEF PollingKnows
  <2>2. r \in 1..Len(rs) /\ rs[r].order # 0
    BY <2>1 DEF PollingKnows
  <2>3. rs[r].order \in 1..Len(o)
    <3>1. rs[r].order \in Nat /\ rs[r].order <= Len(o)
      BY <2>2, DeskRowOf DEF RowSound
    <3> QED BY <2>2, <3>1
  <2>4. Behind(p.filled, p.state, o[rs[r].order])
    BY <1>2, <2>1 DEF PollingKnows
  <2> QED BY <1>1, <2>1, <2>3, <2>4, StaysBehind
<1> QED BY <1>2 DEF PollingKnows

LEMMA RowsGrow ==
    ASSUME NEW o \in Seq(OrderRow), NEW u \in Seq(OrderRow), Grows(o, u), Len(u) = Len(o),
           NEW rs, NEW s, NEW p, RowsSound(o, rs, s, p)
    PROVE  RowsSound(u, rs, s, p)
<1>1. rs \in Seq(DeskRow) /\ s \in RoutingRow /\ p \in PollingRow
  BY DEF RowsSound
<1>2. ASSUME NEW r \in 1..Len(rs) PROVE RowSound(u, rs[r])
  BY <1>1, RowGrows, DeskRowOf DEF RowsSound
<1>3. PollingKnows(u, rs, p)
  BY <1>1, PollingGrows DEF RowsSound
<1>4. RoutingKnows(u, rs, s)
  <2>1. ASSUME s.pc = "record" PROVE rs[s.row].side = u[s.order].side /\ Behind(0, s.state, u[s.order])
    <3>1. s.order = Len(o) /\ s.order # 0 /\ rs[s.row].side = o[s.order].side /\ Behind(0, s.state, o[s.order])
      BY <2>1 DEF RowsSound, RoutingKnows
    <3>2. s.order \in 1..Len(o)
      BY <3>1
    <3> QED BY <3>1, <3>2, StaysBehind DEF Grows
  <2>2. RoutingKnows(o, rs, s)
    BY DEF RowsSound
  <2> QED BY <2>1, <2>2 DEF RoutingKnows
<1> QED BY <1>1, <1>2, <1>3, <1>4 DEF RowsSound

LEMMA DeskTypes ==
    ASSUME DeskInv
    PROVE  /\ orders \in Seq(OrderRow) /\ fills \in Seq(FillRow) /\ rows \in Seq(DeskRow)
           /\ routing \in RoutingRow /\ polling \in PollingRow
           /\ cash \in Int /\ fees \in Int /\ position \in Nat
           /\ Len(orders) \in Nat /\ Len(rows) \in Nat /\ Len(fills) \in Nat
           /\ \A i \in 1..Len(orders) : OrderSound(orders[i])
BY DEF DeskInv, BookSound, BookTyped, RowsSound

LEMMA BooksOnly ==
    ASSUME DeskInv, BookSound(orders', fills', cash', fees', position'), Grows(orders, orders'),
           Len(orders') = Len(orders), KeepRows
    PROVE  DeskInv'
<1>1. orders \in Seq(OrderRow) /\ orders' \in Seq(OrderRow)
  BY DeskTypes DEF BookSound, BookTyped
<1>2. rows' = rows /\ routing' = routing /\ polling' = polling
  BY DEF KeepRows
<1>3. RowsSound(orders', rows, routing, polling)
  BY <1>1, RowsGrow DEF DeskInv
<1> QED BY <1>2, <1>3 DEF DeskInv

LEMMA ConfirmsStep == ASSUME DeskInv, NEW i \in 1..NOrders, Confirms(i) PROVE DeskInv'
<1>1. /\ i \in 1..Len(orders) /\ ~orders[i].forgotten /\ orders[i].state = "CREATED" /\ KeepRows
      /\ BookSound(orders, fills, cash, fees, position) /\ orders \in Seq(OrderRow)
  BY DeskTypes DEF Confirms, Known, DeskInv
<1>2. PICK o \in OrderRow : o = orders[i]
  BY <1>1
<1>3. PICK sent : sent = [orders EXCEPT ![i].state = "SENT"]
  OBVIOUS
<1>4. "SENT" \in OrderStates /\ orders[i].state \notin Final
  BY <1>1 DEF OrderStates, Final
<1>5. OrderSound([orders[i] EXCEPT !.state = "SENT"])
  <2>1. OrderSound(o) /\ o.state = "CREATED" /\ o.qty \in Nat
    BY <1>1, <1>2, DeskTypes DEF OrderRow
  <2>2. PICK row : row = [o EXCEPT !.state = "SENT"]
    OBVIOUS
  <2>3. row.state = "SENT" /\ row.filled = o.filled /\ row.qty = o.qty
    BY <2>2 DEF OrderRow
  <2>4. OrderSound(row)
    BY <2>1, <2>3 DEF OrderSound
  <2> QED BY <1>2, <2>2, <2>4
<1>6. /\ BookSound(sent, fills, cash, fees, position) /\ Grows(orders, sent) /\ Len(sent) = Len(orders)
      /\ ~sent[i].forgotten /\ sent \in Seq(OrderRow)
  <2>1. /\ BookSound(sent, fills, cash, fees, position) /\ Grows(orders, sent) /\ Len(sent) = Len(orders)
        /\ ~sent[i].forgotten
    <3>1. PICK state \in OrderStates : state = "SENT"
      BY <1>4
    <3>2. OrderSound([orders[i] EXCEPT !.state = state])
      BY <1>5, <3>1
    <3>3. /\ BookSound([orders EXCEPT ![i].state = state], fills, cash, fees, position)
          /\ Grows(orders, [orders EXCEPT ![i].state = state])
          /\ Len([orders EXCEPT ![i].state = state]) = Len(orders)
          /\ [orders EXCEPT ![i].state = state][i].forgotten = orders[i].forgotten
      BY <1>1, <1>4, <3>2, OrderRestated
    <3> QED BY <1>1, <1>3, <3>1, <3>3
  <2> QED BY <2>1 DEF BookSound, BookTyped
<1>7. ASSUME NEW price \in Nat, FillsOrder(sent, i, Remaining(orders[i]), price) PROVE DeskInv'
  <2>1. PICK qty \in Int : qty = Remaining(orders[i])
    BY <1>2 DEF Remaining, OrderRow
  <2>2. FillsOrder(sent, i, qty, price) /\ i \in 1..Len(sent)
    BY <1>1, <1>6, <1>7, <2>1
  <2>3. BookSound(orders', fills', cash', fees', position') /\ Grows(sent, orders') /\ Len(orders') = Len(sent)
    BY <1>6, <2>2, OrderFilled
  <2>4. orders' \in Seq(OrderRow)
    BY <2>3 DEF BookSound, BookTyped
  <2>5. Grows(orders, orders')
    BY <1>1, <1>6, <2>3, <2>4, GrowsOn
  <2> QED BY <1>1, <1>6, <2>3, <2>5, BooksOnly
<1>8. CASE orders' = sent /\ UNCHANGED <<cash, fees, position, fills>>
  BY <1>1, <1>6, <1>8, BooksOnly
<1>9. CASE FillsOrder(sent, i, Remaining(orders[i]), orders[i].price)
  <2>1. orders[i].price \in Nat
    BY <1>2 DEF OrderRow
  <2> QED BY <1>7, <1>9, <2>1
<1>10. ASSUME NEW price \in Prices, FillsOrder(sent, i, Remaining(orders[i]), price) PROVE DeskInv'
  <2>1. price \in Nat
    BY DeskAssumption
  <2> QED BY <1>7, <1>10, <2>1
<1> QED BY <1>3, <1>8, <1>9, <1>10 DEF Confirms

LEMMA EndsOrderStep == ASSUME DeskInv, NEW i \in 1..NOrders, EndsOrder(i) PROVE DeskInv'
<1>1. PICK state \in {"CANCELLED", "REJECTED"} : orders' = [orders EXCEPT ![i].state = state]
  BY DEF EndsOrder
<1>2. /\ i \in 1..Len(orders) /\ orders[i].state \notin Final /\ KeepRows
      /\ BookSound(orders, fills, cash, fees, position) /\ orders \in Seq(OrderRow)
      /\ UNCHANGED <<cash, fees, position, fills>>
  BY DeskTypes DEF EndsOrder, Known, DeskInv
<1>3. PICK o \in OrderRow : o = orders[i]
  BY <1>2
<1>4. state \in OrderStates
  BY DEF OrderStates, Final
<1>5. OrderSound([orders[i] EXCEPT !.state = state])
  <2>1. OrderSound(o) /\ o.state # "FILLED"
    BY <1>2, <1>3, DeskTypes DEF Final
  <2>2. PICK row : row = [o EXCEPT !.state = state]
    OBVIOUS
  <2>3. row.state = state /\ row.filled = o.filled /\ row.qty = o.qty
    BY <2>2 DEF OrderRow
  <2>4. OrderSound(row)
    BY <2>1, <2>3 DEF OrderSound
  <2> QED BY <1>3, <2>2, <2>4
<1>6. /\ BookSound(orders', fills, cash, fees, position) /\ Grows(orders, orders') /\ Len(orders') = Len(orders)
  BY <1>1, <1>2, <1>4, <1>5, OrderRestated
<1> QED BY <1>2, <1>6, BooksOnly

LEMMA FillsStep == ASSUME DeskInv, NEW i \in 1..NOrders, Fills(i) PROVE DeskInv'
<1>1. PICK qty \in Lots \cup {Remaining(orders[i])}, price \in Prices : FillsOrder(orders, i, qty, price)
  BY DEF Fills
<1>2. /\ i \in 1..Len(orders) /\ ~orders[i].forgotten /\ KeepRows
      /\ BookSound(orders, fills, cash, fees, position) /\ orders \in Seq(OrderRow)
  BY DeskTypes DEF Fills, Known, DeskInv
<1>3. qty \in Int /\ price \in Nat
  <2>1. orders[i] \in OrderRow
    BY <1>2
  <2>2. Remaining(orders[i]) \in Int
    BY <2>1 DEF OrderRow, Remaining
  <2> QED BY <1>1, <2>2, DeskAssumption
<1>4. BookSound(orders', fills', cash', fees', position') /\ Grows(orders, orders') /\ Len(orders') = Len(orders)
  BY <1>1, <1>2, <1>3, OrderFilled
<1> QED BY <1>2, <1>4, BooksOnly

\* What the two services, the tracker and the restart keep of the rows.
LEMMA RowsOnly ==
    ASSUME DeskInv, UNCHANGED brokerVars, RowsSound(orders, rows', routing', polling') PROVE DeskInv'
BY DEF DeskInv, brokerVars

LEMMA NotPollingKnows ==
    ASSUME NEW o, NEW rs PROVE PollingKnows(o, rs, NotPolling) /\ NotPolling \in PollingRow
BY DEF PollingKnows, NotPolling, PollingRow, OrderStates

LEMMA NotRoutingKnows ==
    ASSUME NEW o, NEW rs PROVE RoutingKnows(o, rs, NotRouting) /\ NotRouting \in RoutingRow
BY DEF RoutingKnows, NotRouting, RoutingRow, OrderStates, Sides

LEMMA SubmitsStep ==
    ASSUME DeskInv, NEW via \in {"executor", "service"}, NEW side \in {"BUY", "SELL"}, NEW qty \in Quantities,
           NEW kind \in {"MARKET", "LIMIT"}, NEW price \in Prices \cup {0}, Submits(via, side, qty, kind, price)
    PROVE  DeskInv'
<1>1. /\ rows \in Seq(DeskRow) /\ Len(rows) \in Nat /\ routing.pc = "idle"
      /\ UNCHANGED brokerVars /\ polling' = polling /\ polling \in PollingRow
      /\ RowsSound(orders, rows, routing, polling)
  BY DeskTypes DEF Submits, DeskInv
<1>2. qty \in Nat /\ qty > 0 /\ price \in Nat
  BY DeskAssumption
<1>3. PICK s : s = [NotRouting EXCEPT !.pc = "place", !.via = via, !.side = side, !.qty = qty, !.kind = kind,
                                      !.price = price]
  OBVIOUS
<1>4. s = [pc |-> "place", via |-> via, side |-> side, qty |-> qty, kind |-> kind, price |-> price,
           row |-> 0, order |-> 0, state |-> "CREATED"]
  BY <1>3 DEF NotRouting
<1>5. s \in RoutingRow /\ s.pc = "place" /\ s.qty > 0 /\ s.row = 0 /\ s.side = side
  BY <1>2, <1>4 DEF RoutingRow, OrderStates, Sides
<1>6. CASE rows' = rows /\ routing' = s
  <2>1. RoutingKnows(orders, rows, s)
    BY <1>5 DEF RoutingKnows
  <2>2. RowsSound(orders, rows', routing', polling')
    BY <1>1, <1>5, <1>6, <2>1 DEF RowsSound
  <2> QED BY <1>1, <2>2, RowsOnly
<1>7. CASE /\ rows' = Append(rows, [order |-> 0, side |-> side, qty |-> qty, state |-> "CREATED", filled |-> 0,
                                    failed |-> FALSE])
           /\ routing' = [s EXCEPT !.row = Len(rows) + 1]
  <2>1. PICK row : row = [order |-> 0, side |-> side, qty |-> qty, state |-> "CREATED", filled |-> 0,
                          failed |-> FALSE]
    OBVIOUS
  <2>2. row \in DeskRow /\ FreshRow(row) /\ row.side = side /\ row.order = 0
    BY <1>2, <2>1 DEF DeskRow, FreshRow, OrderStates, Sides
  <2>3. PICK rs : rs = Append(rows, row)
    OBVIOUS
  <2>4. /\ rs \in Seq(DeskRow) /\ Len(rs) = Len(rows) + 1 /\ rs[Len(rows) + 1] = row
        /\ \A r \in 1..Len(rows) : rs[r] = rows[r]
    BY <1>1, <2>2, <2>3
  <2>5. PICK t : t = [s EXCEPT !.row = Len(rows) + 1]
    OBVIOUS
  <2>6. /\ t \in RoutingRow /\ t.pc = "place" /\ t.qty > 0 /\ t.row = Len(rows) + 1 /\ t.side = side
    <3>1. t = [pc |-> "place", via |-> via, side |-> side, qty |-> qty, kind |-> kind, price |-> price,
               row |-> Len(rows) + 1, order |-> 0, state |-> "CREATED"]
      BY <1>4, <2>5
    <3> QED BY <1>1, <1>2, <3>1 DEF RoutingRow, OrderStates, Sides
  <2>7. RoutingKnows(orders, rs, t)
    BY <2>2, <2>4, <2>6 DEF RoutingKnows
  <2>8. ASSUME NEW r \in 1..Len(rs) PROVE RowSound(orders, rs[r]) /\ (r # Len(rs) => r \in 1..Len(rows))
    <3>1. CASE r = Len(rows) + 1
      <4>1. Len(orders) \in Nat /\ 0 <= Len(orders)
        BY DeskTypes
      <4> QED BY <2>2, <2>4, <3>1, <4>1 DEF RowSound, FreshRow
    <3>2. CASE r # Len(rows) + 1
      <4>1. r \in 1..Len(rows) /\ rs[r] = rows[r]
        BY <1>1, <2>4, <3>2
      <4> QED BY <1>1, <4>1 DEF RowsSound
    <3> QED BY <3>1, <3>2
  <2>9. ASSUME NEW q \in 1..Len(rs), NEW r \in 1..Len(rs), q < r, rs[q].order # 0, rs[r].order # 0
        PROVE  rs[q].order < rs[r].order
    <3>1. q \in 1..Len(rows) /\ r \in 1..Len(rows)
      BY <1>1, <2>2, <2>4, <2>9
    <3> QED BY <1>1, <2>4, <2>9, <3>1 DEF RowsSound
  <2>10. PollingKnows(orders, rs, polling)
    <3>1. polling.todo \in SUBSET Nat /\ PollingKnows(orders, rows, polling)
      BY <1>1 DEF PollingRow, RowsSound
    <3>2. \A r \in polling.todo : r \in 1..Len(rows) /\ r \in 1..Len(rs) /\ rs[r] = rows[r] /\ rs[r].order # 0
      BY <1>1, <2>4, <3>1 DEF PollingKnows
    <3>3. ASSUME polling.pc = "write"
          PROVE  Behind(polling.filled, polling.state, orders[rs[Oldest(polling.todo)].order])
      <4>1. Oldest(polling.todo) \in polling.todo
        BY <3>1, <3>3, OldestOf DEF PollingKnows
      <4>2. rs[Oldest(polling.todo)] = rows[Oldest(polling.todo)]
        BY <3>2, <4>1
      <4> QED BY <3>1, <3>3, <4>2 DEF PollingKnows
    <3> QED BY <3>1, <3>2, <3>3 DEF PollingKnows
  <2>11. rows' = rs /\ routing' = t
    BY <1>7, <2>1, <2>3, <2>5
  <2>12. RowsSound(orders, rows', routing', polling')
    BY <1>1, <2>4, <2>6, <2>7, <2>8, <2>9, <2>10, <2>11 DEF RowsSound
  <2> QED BY <1>1, <2>12, RowsOnly
<1> QED BY <1>3, <1>6, <1>7 DEF Submits

LEMMA PlacesStep == ASSUME DeskInv, Places PROVE DeskInv'
<1>1. /\ rows \in Seq(DeskRow) /\ Len(rows) \in Nat /\ orders \in Seq(OrderRow) /\ Len(orders) \in Nat
      /\ rows' = rows /\ polling' = polling /\ polling \in PollingRow
      /\ BookSound(orders, fills, cash, fees, position) /\ RowsSound(orders, rows, routing, polling)
      /\ PlacesOrder(NewOrder(routing))
  BY DeskTypes DEF Places, DeskInv
<1>2. PICK s \in RoutingRow : s = routing /\ s.pc = "place" /\ s.qty > 0
  BY <1>1 DEF Places, RowsSound, RoutingKnows
<1>3. PICK first \in OrderStates : first = IF manualConfirm THEN "CREATED" ELSE "SENT"
  BY DEF OrderStates
<1>4. PICK o : o = [NewOrder(routing) EXCEPT !.state = first]
  OBVIOUS
<1>5. o = [side |-> s.side, qty |-> s.qty, kind |-> s.kind, price |-> s.price, state |-> first, filled |-> 0,
           forgotten |-> FALSE]
  BY <1>2, <1>4 DEF NewOrder
<1>6. /\ o \in OrderRow /\ o.side = s.side /\ o.filled = 0 /\ ~o.forgotten /\ o.qty = s.qty /\ o.price = s.price
      /\ s.qty \in Nat /\ s.price \in Nat
  BY <1>2, <1>5 DEF OrderRow, RoutingRow
<1>7. OrderSound(o)
  BY <1>2, <1>3, <1>5, <1>6 DEF OrderSound
<1>8. PICK placed : placed = Append(orders, o)
  OBVIOUS
<1>9. BookSound(placed, fills, cash, fees, position) /\ Grows(orders, placed)
  BY <1>1, <1>6, <1>7, <1>8, OrderPlaced
<1>10. /\ placed \in Seq(OrderRow) /\ Len(placed) = Len(orders) + 1 /\ placed[Len(orders) + 1] = o
       /\ Len(placed) \in 1..Len(placed)
  BY <1>1, <1>6, <1>8
<1>11. /\ BookSound(orders', fills', cash', fees', position') /\ Grows(placed, orders') /\ Len(orders') = Len(placed)
  <2>1. CASE FillsOrder(placed, Len(placed), s.qty, s.price)
    <3>1. PICK n \in 1..Len(placed) : n = Len(placed) /\ ~placed[n].forgotten
      BY <1>6, <1>10
    <3>2. PICK qty \in Int, price \in Nat : qty = s.qty /\ price = s.price
      BY <1>6
    <3>3. FillsOrder(placed, n, qty, price)
      BY <2>1, <3>1, <3>2
    <3> QED BY <1>9, <3>1, <3>3, OrderFilled
  <2>2. CASE orders' = placed /\ UNCHANGED <<cash, fees, position, fills>>
    <3>1. Grows(placed, placed)
      <4>1. \A k \in 1..Len(placed) : placed[k].filled \in Nat
        BY <1>10, OrderOf
      <4>2. Len(placed) \in Nat
        BY <1>10
      <4> QED BY <4>1, <4>2 DEF Grows
    <3> QED BY <1>9, <2>2, <3>1
  <2>3. /\ NewOrder(routing).qty = s.qty /\ NewOrder(routing).price = s.price
    BY <1>2 DEF NewOrder
  <2>4. Append(orders, [NewOrder(routing) EXCEPT !.state = IF manualConfirm THEN "CREATED" ELSE "SENT"]) = placed
    BY <1>3, <1>4, <1>8
  <2> QED BY <1>1, <2>1, <2>2, <2>3, <2>4 DEF PlacesOrder
<1>12. orders' \in Seq(OrderRow)
  BY <1>11 DEF BookSound, BookTyped
<1>13. Grows(orders, orders')
  BY <1>1, <1>9, <1>10, <1>11, <1>12, GrowsOn
<1>14. PICK n \in 1..Len(orders') : n = Len(orders') /\ n = Len(orders) + 1 /\ n \in Nat /\ n # 0
  BY <1>1, <1>10, <1>11
<1>15. orders'[n].side = s.side /\ orders'[n].filled \in Nat /\ orders'[n].state \in OrderStates
  <2>1. n \in 1..Len(placed) /\ placed[n].side = s.side
    BY <1>6, <1>10, <1>11, <1>14
  <2> QED BY <1>11, <1>12, <1>14, <2>1, OrderOf DEF Grows
<1>16. ASSUME NEW r \in 1..Len(rows) PROVE RowSound(orders', rows[r]) /\ rows[r].order < n
  <2>1. rows[r] \in DeskRow /\ rows[r].order \in Nat /\ RowSound(orders, rows[r])
    BY <1>1, DeskRowOf DEF RowsSound
  <2>2. rows[r].order <= Len(orders)
    BY <2>1 DEF RowSound
  <2> QED BY <1>1, <1>12, <1>13, <1>14, <2>1, <2>2, RowGrows
<1>17. PollingKnows(orders', rows, polling)
  BY <1>1, <1>12, <1>13, PollingGrows DEF RowsSound
<1>18. RoutingKnows(orders', rows, routing') /\ routing' \in RoutingRow
  <2>1. CASE s.row = 0
    BY <1>2, <2>1, NotRoutingKnows DEF Places
  <2>2. CASE s.row # 0
    <3>1. PICK t : t = routing'
      OBVIOUS
    <3>2. t = [s EXCEPT !.pc = "record", !.order = n, !.state = orders'[n].state]
      BY <1>2, <1>14, <2>2, <3>1 DEF Places
    <3>3. t = [pc |-> "record", via |-> s.via, side |-> s.side, qty |-> s.qty, kind |-> s.kind, price |-> s.price,
               row |-> s.row, order |-> n, state |-> orders'[n].state]
      BY <1>2, <3>2 DEF RoutingRow
    <3>4. t \in RoutingRow
      BY <1>2, <1>14, <1>15, <3>3 DEF RoutingRow
    <3>5. t.pc = "record" /\ t.row = s.row /\ t.order = n /\ t.state = orders'[n].state
      BY <3>3
    <3>6. s.row = Len(rows) /\ FreshRow(rows[s.row]) /\ rows[s.row].side = s.side
      BY <1>1, <1>2, <2>2 DEF RowsSound, RoutingKnows
    <3>7. Behind(0, t.state, orders'[n])
      BY <1>15, <3>5 DEF Behind
    <3>8. RoutingKnows(orders', rows, t)
      BY <1>14, <1>15, <1>16, <2>2, <3>5, <3>6, <3>7 DEF RoutingKnows
    <3> QED BY <3>1, <3>4, <3>8
  <2> QED BY <2>1, <2>2
<1>19. RowsSound(orders', rows', routing', polling')
  BY <1>1, <1>16, <1>17, <1>18 DEF RowsSound
<1> QED BY <1>11, <1>19 DEF DeskInv

\* A row is rewritten; it keeps its order, or is the last one and gets the last order.
LEMMA RowRewritten ==
    ASSUME NEW o, NEW rs, NEW s, NEW p, RowsSound(o, rs, s, p), NEW i \in 1..Len(rs), NEW row \in DeskRow,
           RowSound(o, row),
           \/ row.order = rs[i].order
           \/ i = Len(rs) /\ rs[i].order = 0 /\ \A r \in 1..Len(rs) : rs[r].order < row.order,
           NEW q \in PollingRow, PollingKnows(o, rs, q)
    PROVE  LET w == [rs EXCEPT ![i] = row]
           IN  /\ w \in Seq(DeskRow) /\ Len(w) = Len(rs)
               /\ \A r \in 1..Len(rs) : w[r] = IF r = i THEN row ELSE rs[r]
               /\ \A r \in 1..Len(w) : RowSound(o, w[r])
               /\ \A k, r \in 1..Len(w) : k < r /\ w[k].order # 0 /\ w[r].order # 0 => w[k].order < w[r].order
               /\ PollingKnows(o, w, q)
<1>1. PICK w : w = [rs EXCEPT ![i] = row]
  OBVIOUS
<1>2. rs \in Seq(DeskRow) /\ Len(rs) \in Nat /\ row.order \in Nat /\ \A r \in 1..Len(rs) : rs[r].order \in Nat
  <2>1. rs \in Seq(DeskRow) /\ row.order \in Nat
    BY DEF RowsSound, DeskRow
  <2>2. \A r \in 1..Len(rs) : rs[r].order \in Nat
    BY <2>1, DeskRowOf
  <2> QED BY <2>1, <2>2
<1>3. /\ w \in Seq(DeskRow) /\ Len(w) = Len(rs)
      /\ \A r \in 1..Len(rs) : w[r] = IF r = i THEN row ELSE rs[r]
  BY <1>1, <1>2
<1>4. \A r \in 1..Len(w) : RowSound(o, w[r])
  BY <1>3 DEF RowsSound
<1>5. ASSUME NEW k \in 1..Len(w), NEW r \in 1..Len(w), k < r, w[k].order # 0, w[r].order # 0
      PROVE  w[k].order < w[r].order
  <2>1. k \in 1..Len(rs) /\ r \in 1..Len(rs)
    BY <1>3
  <2>2. rs[k].order # 0 /\ rs[r].order # 0 => rs[k].order < rs[r].order
    BY <1>5, <2>1 DEF RowsSound
  <2>3. CASE row.order = rs[i].order
    <3>1. w[k].order = rs[k].order /\ w[r].order = rs[r].order
      BY <1>3, <2>1, <2>3
    <3> QED BY <1>5, <2>2, <3>1
  <2>4. CASE i = Len(rs) /\ \A m \in 1..Len(rs) : rs[m].order < row.order
    <3>1. k # i
      BY <1>2, <1>5, <2>1, <2>4
    <3>2. CASE r = i
      BY <1>3, <2>1, <2>4, <3>1, <3>2
    <3>3. CASE r # i
      BY <1>3, <1>5, <2>1, <2>2, <3>1, <3>3
    <3> QED BY <3>2, <3>3
  <2> QED BY <2>3, <2>4
<1>6. PollingKnows(o, w, q)
  <2>1. q.todo \in SUBSET Nat
    BY DEF PollingRow
  <2>2. \A r \in q.todo : r \in 1..Len(rs) /\ r \in 1..Len(w) /\ w[r].order = rs[r].order /\ rs[r].order # 0
    BY <1>3 DEF PollingKnows
  <2>3. ASSUME q.pc = "write" PROVE Behind(q.filled, q.state, o[w[Oldest(q.todo)].order])
    <3>1. Oldest(q.todo) \in q.todo
      BY <2>1, <2>3, OldestOf DEF PollingKnows
    <3>2. w[Oldest(q.todo)].order = rs[Oldest(q.todo)].order
      BY <2>2, <3>1
    <3> QED BY <2>3, <3>2 DEF PollingKnows
  <2> QED BY <2>2, <2>3 DEF PollingKnows
<1> QED BY <1>1, <1>3, <1>4, <1>5, <1>6

LEMMA RecordsStep == ASSUME DeskInv, Records PROVE DeskInv'
<1>1. /\ rows \in Seq(DeskRow) /\ Len(rows) \in Nat /\ orders \in Seq(OrderRow) /\ Len(orders) \in Nat
      /\ polling' = polling /\ polling \in PollingRow /\ UNCHANGED brokerVars /\ routing' = NotRouting
      /\ RowsSound(orders, rows, routing, polling)
  BY DeskTypes DEF Records, DeskInv
<1>2. PICK s \in RoutingRow : s = routing /\ s.pc = "record"
  BY <1>1 DEF Records, RowsSound
<1>3. /\ s.row = Len(rows) /\ s.row # 0 /\ FreshRow(rows[s.row])
      /\ s.order = Len(orders) /\ s.order # 0 /\ rows[s.row].side = orders[s.order].side
      /\ Behind(0, s.state, orders[s.order])
      /\ \A r \in 1..Len(rows) : rows[r].order < s.order
      /\ s.order \in Nat /\ s.state \in OrderStates
  BY <1>1, <1>2 DEF RowsSound, RoutingKnows, RoutingRow
<1>4. PICK i \in 1..Len(rows) : i = s.row
  BY <1>1, <1>3
<1>5. PICK old \in DeskRow : old = rows[i]
  BY <1>1
<1>6. old.order = 0 /\ old.state = "CREATED" /\ old.filled = 0 /\ old.side = orders[s.order].side
  BY <1>3, <1>4, <1>5 DEF FreshRow
<1>7. PollingKnows(orders, rows, polling)
  BY <1>1 DEF RowsSound
<1>8. ASSUME NEW row \in DeskRow, RowSound(orders, row), row.order = 0 \/ row.order = s.order,
             rows' = [rows EXCEPT ![i] = row]
      PROVE  DeskInv'
  <2>1. \/ row.order = rows[i].order
        \/ i = Len(rows) /\ rows[i].order = 0 /\ \A r \in 1..Len(rows) : rows[r].order < row.order
    BY <1>3, <1>4, <1>5, <1>6, <1>8
  <2>2. PICK w : w = [rows EXCEPT ![i] = row]
    OBVIOUS
  <2>3. /\ w \in Seq(DeskRow)
        /\ \A r \in 1..Len(w) : RowSound(orders, w[r])
        /\ \A k, r \in 1..Len(w) : k < r /\ w[k].order # 0 /\ w[r].order # 0 => w[k].order < w[r].order
        /\ PollingKnows(orders, w, polling)
    BY <1>1, <1>7, <1>8, <2>1, <2>2, RowRewritten
  <2>4. RoutingKnows(orders, w, NotRouting) /\ NotRouting \in RoutingRow
    BY NotRoutingKnows
  <2>5. RowsSound(orders, rows', routing', polling')
    BY <1>1, <1>8, <2>2, <2>3, <2>4 DEF RowsSound
  <2> QED BY <1>1, <2>5, RowsOnly
<1>9. CASE rows' = [rows EXCEPT ![s.row].order = s.order, ![s.row].state = s.state]
  <2>1. PICK row : row = [[old EXCEPT !.order = s.order] EXCEPT !.state = s.state]
    OBVIOUS
  <2>2. row \in DeskRow /\ row.order = s.order /\ row.state = s.state /\ row.filled = 0 /\ row.side = old.side
    <3>1. PICK one : one = [old EXCEPT !.order = s.order]
      OBVIOUS
    <3>2. one \in DeskRow /\ one.order = s.order /\ one.filled = old.filled /\ one.side = old.side
      BY <1>3, <3>1 DEF DeskRow
    <3>3. row = [one EXCEPT !.state = s.state]
      BY <2>1, <3>1
    <3> QED BY <1>3, <1>6, <3>2, <3>3 DEF DeskRow
  <2>3. RowSound(orders, row)
    BY <1>1, <1>3, <1>6, <2>2 DEF RowSound
  <2>4. rows' = [rows EXCEPT ![i] = row]
    BY <1>1, <1>4, <1>5, <1>9, <2>1
  <2> QED BY <1>8, <2>2, <2>3, <2>4
<1>10. CASE rows' = [rows EXCEPT ![s.row].failed = TRUE,
                                 ![s.row].state = IF s.via = "service" THEN "REJECTED" ELSE @]
  <2>1. PICK state \in OrderStates : state = IF s.via = "service" THEN "REJECTED" ELSE old.state
    BY DEF DeskRow, OrderStates, Final
  <2>2. PICK row : row = [[old EXCEPT !.failed = TRUE] EXCEPT !.state = state]
    OBVIOUS
  <2>3. /\ row \in DeskRow /\ row.order = 0 /\ row.state = state /\ row.failed
        /\ state \in {"CREATED", "REJECTED"}
    <3>1. PICK one : one = [old EXCEPT !.failed = TRUE]
      OBVIOUS
    <3>2. one \in DeskRow /\ one.order = old.order /\ one.failed = TRUE
      BY <3>1 DEF DeskRow
    <3>3. row = [one EXCEPT !.state = state]
      BY <2>2, <3>1
    <3> QED BY <1>6, <2>1, <3>2, <3>3 DEF DeskRow
  <2>4. RowSound(orders, row)
    BY <1>1, <2>3 DEF RowSound
  <2>5. rows' = [rows EXCEPT ![i] = row]
    BY <1>1, <1>4, <1>5, <1>10, <2>1, <2>2
  <2> QED BY <1>8, <2>3, <2>4, <2>5
<1> QED BY <1>2, <1>9, <1>10 DEF Records

LEMMA ListsPendingStep == ASSUME DeskInv, ListsPending PROVE DeskInv'
<1>1. /\ rows \in Seq(DeskRow) /\ Len(rows) \in Nat /\ rows' = rows /\ routing' = routing /\ UNCHANGED brokerVars
      /\ RowsSound(orders, rows, routing, polling)
  BY DeskTypes DEF ListsPending, DeskInv
<1>2. PICK pending \in SUBSET Nat :
        /\ pending = {r \in 1..Len(rows) : rows[r].state \in {"SENT", "PARTIAL"} /\ rows[r].order # 0}
        /\ pending # {} /\ polling' = [NotPolling EXCEPT !.pc = "ask", !.todo = pending]
  <2>1. {r \in 1..Len(rows) : rows[r].state \in {"SENT", "PARTIAL"} /\ rows[r].order # 0} \in SUBSET Nat
    OBVIOUS
  <2> QED BY <2>1 DEF ListsPending
<1>3. PICK p : p = polling'
  OBVIOUS
<1>4. p = [pc |-> "ask", todo |-> pending, state |-> "SENT", filled |-> 0]
  BY <1>2, <1>3 DEF NotPolling
<1>5. p \in PollingRow /\ p.todo = pending /\ p.pc = "ask"
  BY <1>4 DEF PollingRow, OrderStates
<1>6. PollingKnows(orders, rows, p)
  BY <1>2, <1>5 DEF PollingKnows
<1>7. RowsSound(orders, rows', routing', polling')
  BY <1>1, <1>3, <1>5, <1>6 DEF RowsSound
<1> QED BY <1>1, <1>7, RowsOnly

LEMMA AsksStatusStep == ASSUME DeskInv, AsksStatus PROVE DeskInv'
<1>1. /\ rows \in Seq(DeskRow) /\ orders \in Seq(OrderRow) /\ rows' = rows /\ routing' = routing
      /\ UNCHANGED brokerVars /\ RowsSound(orders, rows, routing, polling)
  BY DeskTypes DEF AsksStatus, DeskInv
<1>2. PICK p \in PollingRow : p = polling /\ p.pc = "ask" /\ PollingKnows(orders, rows, p)
  BY <1>1 DEF AsksStatus, RowsSound
<1>3. PICK r : r = Oldest(p.todo)
  OBVIOUS
<1>4. r \in p.todo /\ p.todo \in SUBSET Nat /\ p.todo # {}
  BY <1>2, <1>3, OldestOf DEF PollingRow, PollingKnows
<1>5. PICK q : q = polling'
  OBVIOUS
<1>6. q \in PollingRow /\ PollingKnows(orders, rows, q)
  <2>1. CASE Known(rows[r].order)
    <3>1. PICK i \in 1..Len(orders) : i = rows[r].order
      BY <2>1 DEF Known
    <3>2. q = [p EXCEPT !.pc = "write", !.state = orders[i].state, !.filled = orders[i].filled]
      BY <1>2, <1>3, <1>5, <2>1, <3>1 DEF AsksStatus
    <3>3. orders[i].filled \in Nat /\ orders[i].state \in OrderStates
      BY <1>1, OrderOf
    <3>4. q = [pc |-> "write", todo |-> p.todo, state |-> orders[i].state, filled |-> orders[i].filled]
      BY <1>2, <3>2 DEF PollingRow
    <3>5. /\ q \in PollingRow /\ q.todo = p.todo /\ q.pc = "write" /\ q.state = orders[i].state
          /\ q.filled = orders[i].filled
      BY <1>4, <3>3, <3>4 DEF PollingRow
    <3>6. Behind(q.filled, q.state, orders[rows[Oldest(q.todo)].order])
      BY <1>3, <3>1, <3>3, <3>5 DEF Behind
    <3> QED BY <1>2, <1>4, <3>5, <3>6 DEF PollingKnows
  <2>2. CASE ~Known(rows[r].order)
    <3>1. q = NotPolling
      BY <1>2, <1>3, <1>5, <2>2 DEF AsksStatus
    <3> QED BY <3>1, NotPollingKnows
  <2> QED BY <2>1, <2>2
<1>7. RowsSound(orders, rows', routing', polling')
  BY <1>1, <1>5, <1>6 DEF RowsSound
<1> QED BY <1>1, <1>7, RowsOnly

LEMMA WritesStatusStep == ASSUME DeskInv, WritesStatus PROVE DeskInv'
<1>1. /\ rows \in Seq(DeskRow) /\ Len(rows) \in Nat /\ orders \in Seq(OrderRow) /\ routing' = routing
      /\ UNCHANGED brokerVars /\ RowsSound(orders, rows, routing, polling) /\ routing \in RoutingRow
  BY DeskTypes DEF WritesStatus, DeskInv
<1>2. PICK p \in PollingRow : p = polling /\ p.pc = "write" /\ PollingKnows(orders, rows, p)
  BY <1>1 DEF WritesStatus, RowsSound
<1>3. PICK i : i = Oldest(p.todo)
  OBVIOUS
<1>4. i \in p.todo /\ p.todo \in SUBSET Nat /\ p.filled \in Nat /\ p.state \in OrderStates
  BY <1>2, <1>3, OldestOf DEF PollingRow, PollingKnows
<1>5. /\ i \in 1..Len(rows) /\ rows[i].order # 0 /\ Behind(p.filled, p.state, orders[rows[i].order])
  BY <1>2, <1>3, <1>4 DEF PollingKnows
<1>6. CASE rows' = rows /\ polling' = NotPolling
  <2>1. RowsSound(orders, rows', routing', polling')
    BY <1>1, <1>6, NotPollingKnows DEF RowsSound
  <2> QED BY <1>1, <2>1, RowsOnly
<1>7. CASE /\ rows' = [rows EXCEPT ![i].state = p.state, ![i].filled = p.filled]
           /\ polling' = IF p.todo \ {i} = {} THEN NotPolling ELSE [NotPolling EXCEPT !.pc = "ask", !.todo = p.todo \ {i}]
  <2>1. PICK old \in DeskRow : old = rows[i]
    BY <1>1, <1>5
  <2>2. PICK row : row = [[old EXCEPT !.state = p.state] EXCEPT !.filled = p.filled]
    OBVIOUS
  <2>3. /\ row \in DeskRow /\ row.order = old.order /\ row.state = p.state /\ row.filled = p.filled
        /\ row.side = old.side
    <3>1. PICK one : one = [old EXCEPT !.state = p.state]
      OBVIOUS
    <3>2. one \in DeskRow /\ one.order = old.order /\ one.state = p.state /\ one.side = old.side
      BY <1>4, <3>1 DEF DeskRow
    <3>3. row = [one EXCEPT !.filled = p.filled]
      BY <2>2, <3>1
    <3> QED BY <1>4, <3>2, <3>3 DEF DeskRow
  <2>4. RowSound(orders, row)
    <3>1. RowSound(orders, old)
      BY <1>1, <1>5, <2>1 DEF RowsSound
    <3> QED BY <1>5, <2>1, <2>3, <3>1 DEF RowSound
  <2>5. rows' = [rows EXCEPT ![i] = row]
    BY <1>1, <1>5, <1>7, <2>1, <2>2
  <2>6. PICK q : q = polling'
    OBVIOUS
  <2>7. q \in PollingRow /\ PollingKnows(orders, rows, q)
    <3>1. CASE p.todo \ {i} = {}
      BY <1>7, <2>6, <3>1, NotPollingKnows
    <3>2. CASE p.todo \ {i} # {}
      <4>1. PICK rest \in SUBSET Nat : rest = p.todo \ {i}
        BY <1>4
      <4>2. q = [pc |-> "ask", todo |-> rest, state |-> "SENT", filled |-> 0]
        BY <1>7, <2>6, <3>2, <4>1 DEF NotPolling
      <4>3. q \in PollingRow /\ q.todo = rest /\ q.pc = "ask"
        BY <4>2 DEF PollingRow, OrderStates
      <4> QED BY <1>2, <3>2, <4>1, <4>3 DEF PollingKnows
    <3> QED BY <3>1, <3>2
  <2>8. PICK w : w = [rows EXCEPT ![i] = row]
    OBVIOUS
  <2>9. /\ w \in Seq(DeskRow) /\ Len(w) = Len(rows)
        /\ \A r \in 1..Len(rows) : w[r] = IF r = i THEN row ELSE rows[r]
        /\ \A r \in 1..Len(w) : RowSound(orders, w[r])
        /\ \A k, r \in 1..Len(w) : k < r /\ w[k].order # 0 /\ w[r].order # 0 => w[k].order < w[r].order
        /\ PollingKnows(orders, w, q)
    <3>1. row.order = rows[i].order
      BY <2>1, <2>3
    <3>2. row \in DeskRow
      BY <2>3
    <3>3. Len(w) = Len(rows) /\ \A r \in 1..Len(rows) : w[r] = IF r = i THEN row ELSE rows[r]
      BY <1>1, <1>5, <2>8, <3>2
    <3>4. /\ w \in Seq(DeskRow)
          /\ \A r \in 1..Len(w) : RowSound(orders, w[r])
          /\ \A k, r \in 1..Len(w) : k < r /\ w[k].order # 0 /\ w[r].order # 0 => w[k].order < w[r].order
          /\ PollingKnows(orders, w, q)
      BY <1>1, <1>5, <2>4, <2>7, <2>8, <3>1, <3>2, RowRewritten
    <3> QED BY <3>3, <3>4
  <2>10. RoutingKnows(orders, w, routing)
    <3>1. PICK s \in RoutingRow : s = routing
      BY <1>1
    <3>2. RoutingKnows(orders, rows, s) /\ s.row \in Nat
      BY <1>1, <3>1 DEF RowsSound, RoutingRow
    <3>3. ASSUME s.row # 0, s.row = Len(rows), FreshRow(rows[s.row]) PROVE w[s.row] = rows[s.row]
      <4>1. s.row # i
        BY <1>5, <3>3 DEF FreshRow
      <4>2. s.row \in 1..Len(rows)
        BY <1>1, <3>2, <3>3
      <4> QED BY <2>9, <4>1, <4>2
    <3>4. \A r \in 1..Len(w) : w[r].order = rows[r].order
      BY <2>1, <2>3, <2>9
    <3>5. RoutingKnows(orders, w, s)
      BY <2>9, <3>2, <3>3, <3>4 DEF RoutingKnows
    <3> QED BY <3>1, <3>5
  <2>11. RowsSound(orders, rows', routing', polling')
    BY <1>1, <2>5, <2>6, <2>7, <2>8, <2>9, <2>10 DEF RowsSound
  <2> QED BY <1>1, <2>11, RowsOnly
<1> QED BY <1>2, <1>3, <1>6, <1>7 DEF WritesStatus

LEMMA DeskRestartedStep == ASSUME DeskInv, DeskRestarted PROVE DeskInv'
<1>1. /\ BookSound(orders, fills, cash, fees, position) /\ orders \in Seq(OrderRow) /\ Len(orders) \in Nat
      /\ RowsSound(orders, rows, routing, polling) /\ rows \in Seq(DeskRow)
  BY DeskTypes DEF DeskInv
<1>2. PICK u : u = [i \in 1..Len(orders) |-> [orders[i] EXCEPT !.forgotten = TRUE]]
  OBVIOUS
<1>3. BookSound(u, <<>>, InitialCash, 0, 0) /\ Grows(orders, u)
  BY <1>1, <1>2, BookForgotten
<1>4. /\ orders' = u /\ fills' = <<>> /\ cash' = InitialCash /\ fees' = 0 /\ position' = 0
      /\ rows' = rows /\ routing' = NotRouting /\ polling' = NotPolling
  BY <1>2 DEF DeskRestarted
<1>5. u \in Seq(OrderRow)
  BY <1>3 DEF BookSound, BookTyped
<1>6. \A r \in 1..Len(rows) : RowSound(u, rows[r])
  BY <1>1, <1>3, <1>5, RowGrows, DeskRowOf DEF RowsSound
<1>7. RowsSound(u, rows, NotRouting, NotPolling)
  BY <1>1, <1>6, NotRoutingKnows, NotPollingKnows DEF RowsSound
<1> QED BY <1>3, <1>4, <1>7 DEF DeskInv

LEMMA DeskInitially == ASSUME DeskInit PROVE DeskInv
<1>1. PICK none : none = <<>>
  OBVIOUS
<1>2. none \in Seq(OrderRow) /\ none \in Seq(FillRow) /\ none \in Seq(DeskRow) /\ Len(none) = 0 /\ 1..0 = {}
  BY <1>1
<1>3. InitialCash \in Int /\ InitialCash + 0 + 0 = InitialCash
  BY DeskAssumption
<1>4. BookTyped(none, none, InitialCash, 0, 0)
  BY <1>2, <1>3 DEF BookTyped
<1>5. /\ SumTo(SpentOf(none, none), 0) = 0 /\ SumTo(BoughtOf(none, none), 0) = 0 /\ SumTo(NetOf(none), 0) = 0
  BY <1>2, SumOfNothing
<1>6. BookSound(none, none, InitialCash, 0, 0)
  BY <1>2, <1>3, <1>4, <1>5 DEF BookSound
<1>7. RowsSound(none, none, NotRouting, NotPolling)
  BY <1>2, NotRoutingKnows, NotPollingKnows DEF RowsSound
<1> QED BY <1>1, <1>6, <1>7 DEF DeskInit, DeskInv

LEMMA DeskStep == ASSUME DeskInv, [DeskNext]_deskVars PROVE DeskInv'
<1>1. CASE UNCHANGED deskVars
  BY <1>1 DEF deskVars, DeskInv
<1>2. ASSUME NEW i \in 1..NOrders, Confirms(i) \/ EndsOrder(i) \/ Fills(i) PROVE DeskInv'
  BY <1>2, ConfirmsStep, EndsOrderStep, FillsStep
<1>3. ASSUME NEW via \in {"executor", "service"}, NEW side \in {"BUY", "SELL"}, NEW qty \in Quantities,
             NEW kind \in {"MARKET", "LIMIT"}, NEW price \in Prices \cup {0}, Submits(via, side, qty, kind, price)
      PROVE  DeskInv'
  BY <1>3, SubmitsStep
<1>4. CASE Places
  BY <1>4, PlacesStep
<1>5. CASE Records
  BY <1>5, RecordsStep
<1>6. CASE ListsPending \/ AsksStatus \/ WritesStatus
  BY <1>6, ListsPendingStep, AsksStatusStep, WritesStatusStep
<1>7. CASE DeskRestarted
  BY <1>7, DeskRestartedStep
<1> QED BY <1>1, <1>2, <1>3, <1>4, <1>5, <1>6, <1>7 DEF DeskNext

----
\* The first rows stand for the first orders.
Covers(r, m) ==
    /\ \A q \in 1..r : rows[q].order \in 0..m
    /\ \A i \in 1..m : \E q \in 1..r : rows[q].order = i

LEMMA CountedNumbers == ASSUME DeskInv PROVE Numbers(Counted, Len(rows))
<1>1. ASSUME NEW r \in 1..Len(rows) PROVE Counted[r] \in Int
  <2>1. PICK row \in DeskRow : row = rows[r]
    BY DeskTypes
  <2>2. PICK s \in {1, -1} : s = SignOf(row.side)
    BY SignIs
  <2>3. PICK n \in Nat : n = RowQuantity(row)
    BY DEF RowQuantity, DeskRow
  <2>4. s * n \in Int
    BY <2>2, <2>3
  <2> QED BY <2>1, <2>2, <2>3, <2>4 DEF Counted
<1> QED BY <1>1 DEF Numbers

\* A row that stands for no order counts for nothing, one that agrees with its order for what that was
\* filled.
LEMMA CountedOf ==
    ASSUME DeskInv, NEW r \in 1..Len(rows)
    PROVE  /\ rows[r].order = 0 => Counted[r] = 0
           /\ \A i \in 1..Len(orders) :
                /\ rows[r].order = i /\ ~orders[i].forgotten /\ ~EndedPartly(i)
                /\ rows[r].state = orders[i].state /\ RowQuantity(rows[r]) = orders[i].filled
                => Counted[r] = NetOf(orders)[i]
<1>1. PICK row \in DeskRow : row = rows[r] /\ RowSound(orders, row)
  BY DeskTypes DEF DeskInv, RowsSound
<1>2. ASSUME row.order = 0 PROVE Counted[r] = 0
  <2>1. row.state \notin {"FILLED", "PARTIAL"}
    BY <1>1, <1>2 DEF RowSound
  <2> QED BY <1>1, <2>1 DEF Counted
<1>3. ASSUME NEW i \in 1..Len(orders), row.order = i, ~orders[i].forgotten, ~EndedPartly(i),
             row.state = orders[i].state, RowQuantity(row) = orders[i].filled
      PROVE  Counted[r] = NetOf(orders)[i]
  <2>1. PICK o \in OrderRow : o = orders[i] /\ OrderSound(o)
    BY DeskTypes
  <2>2. PICK s \in {1, -1} : s = SignOf(o.side)
    BY SignIs
  <2>3. row.side = o.side
    <3>1. row.order # 0
      BY <1>3
    <3> QED BY <1>1, <1>3, <2>1, <3>1 DEF RowSound
  <2>4. o.filled \in Nat /\ o.state \in OrderStates
    BY DEF OrderRow
  <2>5. NetOf(orders)[i] = s * o.filled
    BY <1>3, <2>1, <2>2 DEF NetOf
  <2>6. CASE row.state \in {"FILLED", "PARTIAL"}
    BY <1>1, <1>3, <2>1, <2>2, <2>3, <2>5, <2>6 DEF Counted
  <2>7. CASE row.state \notin {"FILLED", "PARTIAL"}
    <3>1. o.filled = 0
      BY <1>3, <2>1, <2>4, <2>7 DEF OrderSound, EndedPartly, OrderStates, Final
    <3>2. s * 0 = 0
      BY <2>2
    <3> QED BY <1>1, <2>5, <2>7, <3>1, <3>2 DEF Counted
  <2> QED BY <2>6, <2>7
<1> QED BY <1>1, <1>2, <1>3

LEMMA RowsCount ==
    ASSUME DeskInv, Followed, \A i \in 1..Len(orders) : ~EndedPartly(i)
    PROVE  SumTo(Counted, Len(rows)) = SumTo(NetOf(orders), Len(orders))
<1>1. /\ Len(rows) \in Nat /\ Len(orders) \in Nat /\ rows \in Seq(DeskRow)
      /\ Numbers(Counted, Len(rows)) /\ Numbers(NetOf(orders), Len(orders))
      /\ \A r \in 1..Len(rows) : rows[r].order \in 0..Len(orders)
  <2>1. BookTyped(orders, fills, cash, fees, position)
    BY DEF DeskInv, BookSound
  <2>2. \A r \in 1..Len(rows) : rows[r].order \in Nat /\ rows[r].order <= Len(orders)
    BY DeskTypes, DeskRowOf DEF DeskInv, RowsSound, RowSound
  <2>3. \A r \in 1..Len(rows) : rows[r].order \in 0..Len(orders)
    BY <2>2, DeskTypes
  <2> QED BY <2>1, <2>3, CountedNumbers, BookNumbers, DeskTypes
<1>2. \A q, r \in 1..Len(rows) : q < r /\ rows[q].order # 0 /\ rows[r].order # 0 => rows[q].order < rows[r].order
  BY DEF DeskInv, RowsSound
<1> DEFINE Fails == {r \in 0..Len(rows) :
                        \E m \in 0..Len(orders) : Covers(r, m) /\ SumTo(Counted, r) # SumTo(NetOf(orders), m)}
<1>3. ASSUME Fails # {} PROVE FALSE
  <2>1. PICK r \in Fails : \A y \in Fails : r <= y
    <3>1. Fails \in SUBSET Nat
      OBVIOUS
    <3> HIDE DEF Fails
    <3> QED BY <1>3, <3>1, LeastOf
  <2>2. PICK m \in 0..Len(orders) : Covers(r, m) /\ SumTo(Counted, r) # SumTo(NetOf(orders), m)
    BY <2>1
  <2>3. r \in Nat /\ r <= Len(rows) /\ m \in Nat /\ Numbers(Counted, r) /\ Numbers(NetOf(orders), m)
    BY <1>1, <2>1 DEF Numbers
  <2>4. /\ SumTo(Counted, 0) = 0 /\ SumTo(NetOf(orders), 0) = 0
        /\ r > 0 => SumTo(Counted, r) = SumTo(Counted, r - 1) + Counted[r]
        /\ m > 0 => SumTo(NetOf(orders), m) = SumTo(NetOf(orders), m - 1) + NetOf(orders)[m]
    BY <2>3, SumToStep
  <2>5. CASE r = 0
    <3>1. m = 0
      BY <2>2, <2>3, <2>5 DEF Covers
    <3> QED BY <2>2, <2>4, <2>5, <3>1
  <2>6. CASE r > 0 /\ rows[r].order = 0
    <3>1. r \in 1..Len(rows) /\ r - 1 \in 0..Len(rows) /\ r - 1 < r
      BY <1>1, <2>3, <2>6
    <3>2. Covers(r - 1, m)
      <4>1. \A q \in 1..(r - 1) : rows[q].order \in 0..m
        BY <2>2, <2>3 DEF Covers
      <4>2. \A i \in 1..m : \E q \in 1..(r - 1) : rows[q].order = i
        <5>1. ASSUME NEW i \in 1..m PROVE \E q \in 1..(r - 1) : rows[q].order = i
          <6>1. PICK q \in 1..r : rows[q].order = i
            BY <2>2 DEF Covers
          <6>2. q \in 1..(r - 1)
            BY <2>3, <2>6, <6>1
          <6> QED BY <6>1, <6>2
        <5> QED BY <5>1
      <4> QED BY <4>1, <4>2 DEF Covers
    <3>3. SumTo(Counted, r - 1) = SumTo(NetOf(orders), m)
      BY <2>1, <3>1, <3>2
    <3>4. SumTo(NetOf(orders), m) \in Int
      BY <2>3, SumToStep
    <3>5. Counted[r] = 0
      BY <2>6, <3>1, CountedOf
    <3> QED BY <2>2, <2>4, <2>6, <3>3, <3>4, <3>5
  <2>7. CASE r > 0 /\ rows[r].order # 0
    <3>1. r \in 1..Len(rows) /\ r - 1 \in 0..Len(rows) /\ r - 1 < r
      BY <1>1, <2>3, <2>7
    <3>2. PICK j \in 1..m : j = rows[r].order
      BY <2>2, <2>3, <2>7, <3>1 DEF Covers
    <3>3. \A q \in 1..(r - 1) : rows[q].order # 0 => rows[q].order < j
      BY <1>2, <2>3, <2>7, <3>1, <3>2
    <3>4. j = m
      <4>1. m \in 1..m
        BY <2>3, <3>2
      <4>2. PICK q \in 1..r : rows[q].order = m
        BY <2>2, <4>1 DEF Covers
      <4>3. q # r => q \in 1..(r - 1)
        BY <2>3
      <4> QED BY <2>3, <3>2, <3>3, <4>1, <4>2, <4>3
    <3>5. Covers(r - 1, m - 1) /\ m - 1 \in 0..Len(orders) /\ m \in 1..Len(orders)
      <4>1. \A q \in 1..(r - 1) : rows[q].order \in 0..(m - 1)
        <5>1. ASSUME NEW q \in 1..(r - 1) PROVE rows[q].order \in 0..(m - 1)
          <6>1. rows[q].order \in 0..m
            BY <2>2, <2>3 DEF Covers
          <6> QED BY <2>3, <3>2, <3>3, <3>4, <6>1
        <5> QED BY <5>1
      <4>2. \A i \in 1..(m - 1) : \E q \in 1..(r - 1) : rows[q].order = i
        <5>1. ASSUME NEW i \in 1..(m - 1) PROVE \E q \in 1..(r - 1) : rows[q].order = i
          <6>1. i \in 1..m /\ i # m
            BY <2>3
          <6>2. PICK q \in 1..r : rows[q].order = i
            BY <2>2, <6>1 DEF Covers
          <6>3. q # r
            BY <3>2, <3>4, <6>1, <6>2
          <6>4. q \in 1..(r - 1)
            BY <2>3, <6>3
          <6> QED BY <6>2, <6>4
        <5> QED BY <5>1
      <4>3. m - 1 \in 0..Len(orders) /\ m \in 1..Len(orders)
        BY <1>1, <2>3, <3>2
      <4> QED BY <4>1, <4>2, <4>3 DEF Covers
    <3>6. SumTo(Counted, r - 1) = SumTo(NetOf(orders), m - 1)
      BY <2>1, <3>1, <3>5
    <3>7. SumTo(NetOf(orders), m - 1) \in Int /\ NetOf(orders)[m] \in Int
      <4>1. m - 1 \in Nat /\ Numbers(NetOf(orders), m - 1) /\ NetOf(orders)[m] \in Int
        BY <1>1, <2>3, <3>2, <3>5 DEF Numbers
      <4> QED BY <4>1, SumToStep
    <3>8. Counted[r] = NetOf(orders)[m]
      <4>1. Known(m)
        BY <3>5 DEF Followed
      <4>2. PICK k \in 1..Len(rows) : /\ rows[k].order = m /\ rows[k].state = orders[m].state
                                      /\ RowQuantity(rows[k]) = orders[m].filled
        BY <3>5 DEF Followed
      <4>3. k = r
        <5>1. rows[r].order = m /\ m # 0
          BY <2>7, <3>2, <3>4
        <5>2. ~(k < r) /\ ~(r < k)
          BY <1>2, <2>3, <3>1, <4>2, <5>1
        <5> QED BY <2>3, <3>1, <5>2
      <4>4. ~orders[m].forgotten
        BY <4>1 DEF Known
      <4> QED BY <3>1, <3>5, <4>2, <4>3, <4>4, CountedOf
    <3> QED BY <2>2, <2>3, <2>4, <2>7, <3>2, <3>4, <3>6, <3>7, <3>8
  <2> QED BY <2>3, <2>5, <2>6, <2>7
<1>4. Covers(Len(rows), Len(orders))
  BY <1>1 DEF Covers, Followed
<1> QED BY <1>1, <1>3, <1>4

LEMMA DeskInvBalances == ASSUME DeskInv PROVE DeskBalances
<1>1. /\ BookTyped(orders, fills, cash, fees, position) /\ BookSound(orders, fills, cash, fees, position)
      /\ Spent = SpentOf(orders, fills) /\ Acquired = BoughtOf(orders, fills)
      /\ \A i : FilledOf(i) = FilledBy(fills, i)
  BY DEF DeskInv, BookSound, Spent, SpentOf, Acquired, BoughtOf, FilledOf, FilledBy
<1>2. BooksBalance
  <2>1. cash + fees + SumTo(Spent, Len(fills)) = InitialCash
    BY <1>1 DEF BookSound
  <2>2. ASSUME NEW i \in 1..Len(orders), Known(i)
        PROVE  /\ orders[i].filled = SumTo(FilledOf(i), Len(fills)) /\ orders[i].filled <= orders[i].qty
               /\ (orders[i].state = "FILLED") <=> (orders[i].filled = orders[i].qty)
    <3>1. OrderSound(orders[i])
      BY DeskTypes
    <3>2. orders[i].filled = SumTo(FilledOf(i), Len(fills))
      BY <1>1, <2>2 DEF BookSound, Known
    <3> QED BY <3>1, <3>2 DEF OrderSound
  <2>3. \A k \in 1..Len(fills) : fills[k].after \notin Final
    BY <1>1 DEF BookTyped
  <2> QED BY <2>1, <2>2, <2>3 DEF BooksBalance
<1>3. RowsTrail
  <2>1. ASSUME NEW r \in 1..Len(rows)
        PROVE  /\ rows[r].order # 0 =>
                    /\ rows[r].filled <= orders[rows[r].order].filled
                    /\ rows[r].state \in Final => orders[rows[r].order].state = rows[r].state
               /\ rows[r].order = 0 /\ rows[r].state # "CREATED" => rows[r].failed
    <3>1. RowSound(orders, rows[r])
      BY DEF DeskInv, RowsSound
    <3> QED BY <3>1 DEF RowSound, Behind
  <2> QED BY <2>1 DEF RowsTrail
<1>4. RowsTellHolding
  <2>1. ASSUME Followed, NothingUncovered, \A i \in 1..Len(orders) : ~EndedPartly(i)
        PROVE  HeldByRows <=> position > 0
    <3>1. SumTo(Counted, Len(rows)) = SumTo(NetOf(orders), Len(orders))
      BY <2>1, RowsCount
    <3>2. SumTo(BoughtOf(orders, fills), Len(fills)) = SumTo(NetOf(orders), Len(orders))
      BY <1>1 DEF BookSound
    <3>3. position = SumTo(BoughtOf(orders, fills), Len(fills))
      BY <1>1, <2>1 DEF BookSound, NothingUncovered
    <3>4. HeldByRows <=> 0 < position
      BY <3>1, <3>2, <3>3 DEF HeldByRows
    <3> QED BY <3>4, DeskTypes
  <2> QED BY <2>1 DEF RowsTellHolding
<1> QED BY <1>2, <1>3, <1>4 DEF DeskBalances

\* The books of the paper broker balance, the rows of its orders trail them, and where the tracker has
\* caught up they tell what is held (PaperBroker, OrderTracker, get_open_live_position_tickers).
THEOREM DeskHolds == DeskSpec => []DeskBalances
<1>1. DeskInit => DeskInv
  BY DeskInitially
<1>2. DeskInv /\ [DeskNext]_deskVars => DeskInv'
  BY DeskStep
<1>3. DeskInv => DeskBalances
  BY DeskInvBalances
<1> QED
  BY <1>1, <1>2, <1>3, PTL DEF DeskSpec
=============================================================================
