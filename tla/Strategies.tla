----------------------------- MODULE Strategies -----------------------------
(***************************************************************************)
(* The trading signals: backend/app/strategies and the labels that         *)
(* services/backtest_service.py and services/research_run_service.py put   *)
(* on what happened afterwards.                                            *)
(*                                                                         *)
(* Prices, volumes and chip weights are natural numbers.  A ratio is kept  *)
(* as a fraction and compared with a percentage by cross multiplication,   *)
(* scores and confidences are kept in hundredths and in ten thousandths,   *)
(* so every threshold of the code is exact.  Volatility, moving averages,  *)
(* shadows, dojis and the wording of reasons decide nothing and are left   *)
(* out.                                                                    *)
(***************************************************************************)
EXTENDS Integers, Sequences, FiniteSetsExt, SequencesExt

CONSTANT None   \* Python's None

----------------------------------------------------------------------------
(* Fractions, with a positive denominator.                                 *)

Fraction(n, d) == [num |-> n, den |-> d]
AbsoluteValue(n) == IF n < 0 THEN -n ELSE n
AddFractions(a, b) == Fraction(a.num * b.den + b.num * a.den, a.den * b.den)

\* `ratio or 0` compared with a percentage.
Above(r, percent) == IF r = None THEN 0 > percent ELSE 100 * r.num > percent * r.den
AtLeast(r, percent) == IF r = None THEN 0 >= percent ELSE 100 * r.num >= percent * r.den
Below(r, percent) == IF r = None THEN 0 < percent ELSE 100 * r.num < percent * r.den

ReturnBetween(start, end) == IF start = 0 THEN None ELSE Fraction(end - start, start)

SumBy(items, Op(_)) == FoldLeft(LAMBDA total, x : total + Op(x), 0, items)

----------------------------------------------------------------------------
(* features.py: bars are in the order of their days, chips are a function  *)
(* from the days that have any to the points of that day, as answered.     *)

ChipPoint(day, price, percent) == [day |-> day, price |-> price, percent |-> percent]

LatestChips(chips) == IF chips = <<>> THEN <<>> ELSE chips[Max(DOMAIN chips)]

\* max() keeps the first of equal points.
DominantPeak(points) ==
  FoldLeft(LAMBDA peak, p : IF peak = None \/ p.percent > peak.percent THEN p ELSE peak, None, points)

WeightedChipCost(points) ==
  LET weight == SumBy(points, LAMBDA p : p.percent)
  IN IF weight <= 0 THEN None ELSE Fraction(SumBy(points, LAMBDA p : p.price * p.percent), weight)

PercentBelow(points, price) == SumBy(SelectSeq(points, LAMBDA p : p.price < price), LAMBDA p : p.percent)

\* The fall from the highest close so far stays above -percent.
DrawdownAbove(bars, percent) ==
  \A i, j \in DOMAIN bars :
    i <= j /\ bars[i].close > 0 => 100 * (bars[i].close - bars[j].close) < percent * bars[i].close

MarketFeatures(chips, bars) ==
  LET points == LatestChips(chips)
      close == IF bars = <<>> THEN None ELSE Last(bars).close
      peak == DominantPeak(points)
  IN [close |-> close,
      return |-> IF Len(bars) < 2 THEN None ELSE ReturnBetween(bars[1].close, close),
      calm |-> DrawdownAbove(bars, 8),
      peak |-> IF peak = None THEN None ELSE peak.price,
      cost |-> WeightedChipCost(points),
      below |-> IF close = None THEN 0 ELSE PercentBelow(points, close)]

----------------------------------------------------------------------------
(* composite.py: the baseline signal.                                      *)

HasMissingCoreFeatures(f) == f.close = None \/ f.peak = None \/ f.cost = None \/ f.return = None

OverPeak(f, percent) == 100 * f.close > percent * f.peak
UnderPeak(f, percent) == 100 * f.close < percent * f.peak
OverCost(f, percent) == 100 * f.close * f.cost.den > percent * f.cost.num
UnderCost(f, percent) == 100 * f.close * f.cost.den < percent * f.cost.num

Score(rule, points) == IF rule THEN points ELSE 0

BuyScore(f) ==
  Score(OverPeak(f, 103) /\ Above(f.return, 3) /\ f.calm, 42)
  + Score(OverCost(f, 102) /\ Above(f.return, 0), 22)

SellScore(f) ==
  Score(UnderCost(f, 97) /\ Below(f.return, -3), 45)
  + Score(UnderPeak(f, 97) /\ Below(f.return, 0), 30)
  + Score(f.below >= 70 /\ Below(f.return, -1), 22)

SelectAction(buy, sell) ==
  IF buy >= 55 /\ buy > sell + 15 THEN "BUY"
  ELSE IF sell >= 55 /\ sell > buy + 15 THEN "SELL" ELSE "HOLD"

ConfidenceUnclamped(action, buy, sell) ==
  CASE action = "BUY" -> 4500 + 100 * buy - 35 * sell
    [] action = "SELL" -> 4500 + 100 * sell - 35 * buy
    [] OTHER -> Max({3500, Min({6500, 5000 + 20 * AbsoluteValue(buy - sell)})})

ConfidenceFor(action, buy, sell) ==
  CASE action = "BUY" -> Min({9500, 4500 + 100 * buy - 35 * sell})
    [] action = "SELL" -> Min({9500, 4500 + 100 * sell - 35 * buy})
    [] OTHER -> Max({3500, Min({6500, 5000 + 20 * AbsoluteValue(buy - sell)})})

EvaluateCompositeSignal(f) ==
  IF HasMissingCoreFeatures(f) THEN [action |-> "HOLD", confidence |-> 2000]
  ELSE LET action == SelectAction(BuyScore(f), SellScore(f))
       IN [action |-> action, confidence |-> ConfidenceFor(action, BuyScore(f), SellScore(f))]

----------------------------------------------------------------------------
(* market_context.py and candidates.py: the follow-through strategy.       *)

\* Volumes may be missing; the latest known one is compared with the mean of the last five.
VolumeRatio(bars) ==
  LET recent == SubSeq(bars, Max({1, Len(bars) - 4}), Len(bars))
      known == SelectSeq(recent, LAMBDA b : b.vol # None)
      total == SumBy(known, LAMBDA b : b.vol)
  IN IF known = <<>> \/ total = 0 THEN None ELSE Fraction(Last(known).vol * Len(known), total)

MarketContext(bars) ==
  [return |-> IF bars = <<>> THEN None ELSE ReturnBetween(bars[1].close, Last(bars).close),
   volume |-> VolumeRatio(bars),
   edge |-> Len(SelectSeq(bars, LAMBDA b : b.close > b.open))
            - Len(SelectSeq(bars, LAMBDA b : b.close < b.open))]

FollowThrough(c) ==
  IF Above(c.return, 1) /\ AtLeast(c.volume, 105) /\ c.edge > 0 THEN [action |-> "BUY", confidence |-> 6800]
  ELSE IF Below(c.return, -1) /\ AtLeast(c.volume, 105) /\ c.edge <= 0 THEN [action |-> "SELL", confidence |-> 6600]
  ELSE [action |-> "HOLD", confidence |-> 5200]

ResearchStrategySignalsElse(baseline, context, strategies) ==
  [i \in DOMAIN strategies |->
     [strategy |-> strategies[i],
      signal |-> IF strategies[i] = "composite_baseline" THEN baseline ELSE FollowThrough(context)]]

\* SUPPORTED_RESEARCH_STRATEGIES.
SupportedStrategies == {"composite_baseline", "market_context_followthrough"}

\* Unknown strategies are passed over without a word.
KnownStrategies(strategies) ==
  LET known[n \in 0..Len(strategies)] ==
        IF n = 0 THEN <<>>
        ELSE IF strategies[n] \in SupportedStrategies THEN Append(known[n - 1], strategies[n])
        ELSE known[n - 1]
  IN known[Len(strategies)]

ResearchStrategySignals(baseline, context, strategies) ==
  LET known == KnownStrategies(strategies)
  IN [i \in DOMAIN known |->
        [strategy |-> known[i],
         signal |-> IF known[i] = "composite_baseline" THEN baseline ELSE FollowThrough(context)]]

----------------------------------------------------------------------------
(* What became of a signal.                                                *)

MatchLabel(action, return) ==
  CASE return = None -> "N/A"
    [] action = "BUY" -> IF Above(return, 0) THEN "MATCH" ELSE "MISMATCH"
    [] action = "SELL" -> IF Below(return, 0) THEN "MATCH" ELSE "MISMATCH"
    [] OTHER -> "NEUTRAL"

DirectionalScore(action, return) ==
  CASE action = "BUY" -> return
    [] action = "SELL" -> Fraction(-return.num, return.den)
    [] OTHER -> Fraction(-AbsoluteValue(return.num), return.den)
=============================================================================
