----------------------------- MODULE ChipFactors -----------------------------
(***************************************************************************)
(* The chip factor formulas (backend/app/factors/chip_factors.py): one     *)
(* snapshot per trading day from the chip distribution and the close of    *)
(* that day, and the factor values of a day from its snapshot and the one  *)
(* some trading days earlier.                                              *)
(*                                                                         *)
(* Numbers are fractions of naturals, so that every comparison is exact;   *)
(* the standard deviation is kept as its square, and the price moves are   *)
(* kept relative to the anchor.                                            *)
(***************************************************************************)
EXTENDS Strategies

Minus(a, b) == Fraction(a.num * b.den - b.num * a.den, a.den * b.den)
Over(a, b) == Fraction(a.num * b.den, a.den * b.num)
Whole(n) == Fraction(n, 1)
Leq(a, b) == a.num * b.den <= b.num * a.den
Percents(points) == SumBy(points, LAMBDA p : p.percent)

----------------------------------------------------------------------------
(* Snapshots.                                                              *)

\* Of the largest points the one nearest to the close, then the cheapest.
DominantPoint(points, close) ==
  LET largest == SelectSeq(points, LAMBDA p : \A q \in ToSet(points) : q.percent <= p.percent)
      Distance(p) == IF close = None THEN 0 ELSE AbsoluteValue(p.price - close)
      near == SelectSeq(largest, LAMBDA p : \A q \in ToSet(largest) : Distance(p) <= Distance(q))
  IN IF points = <<>> THEN None
     ELSE SelectSeq(near, LAMBDA p : \A q \in ToSet(near) : p.price <= q.price)[1]

\* The three shares of the chips bought below, above and at the close.
Shares(points, close) ==
  IF close = None THEN [below |-> None, above |-> None, at |-> None]
  ELSE [below |-> Percents(SelectSeq(points, LAMBDA p : p.price < close)),
        above |-> Percents(SelectSeq(points, LAMBDA p : p.price > close)),
        at |-> Percents(SelectSeq(points, LAMBDA p : p.price = close))]

ConcentrationWidthOfHundred(points, close, target) ==
  LET sorted == SortSeq(points, LAMBDA p, q : p.price < q.price)
      Covers(i, j) == Percents(SubSeq(sorted, i, j)) >= target
      Ends(i) == {j \in i..Len(sorted) : Covers(i, j)}
      widths == {sorted[Min(Ends(i))].price - sorted[i].price : i \in {k \in DOMAIN sorted : Ends(k) # {}}}
  IN IF close = None \/ close = 0 \/ Percents(points) = 0 \/ widths = {} THEN None
     ELSE Fraction(Min(widths), close)

\* The narrowest range of prices that holds `target` percent of the chips: for every start the
\* first end that is far enough.
ConcentrationWidth(points, close, target) ==
  LET sorted == SortSeq(points, LAMBDA p, q : p.price < q.price)
      Covers(i, j) == 100 * Percents(SubSeq(sorted, i, j)) >= target * Percents(points)
      Ends(i) == {j \in i..Len(sorted) : Covers(i, j)}
      widths == {sorted[Min(Ends(i))].price - sorted[i].price : i \in {k \in DOMAIN sorted : Ends(k) # {}}}
  IN IF close = None \/ close = 0 \/ Percents(points) = 0 THEN None ELSE Fraction(Min(widths), close)

\* The variance of the prices around their weighted mean, over the square of the close.
ChipWeightedVariance(points, close) ==
  LET cost == WeightedChipCost(points)
      Square(p) == (p.price * cost.den - cost.num) * (p.price * cost.den - cost.num)
  IN IF close = None \/ close = 0 \/ cost = None THEN None
     ELSE Fraction(SumBy(points, LAMBDA p : p.percent * Square(p)), Percents(points) * cost.den * cost.den * close * close)

SafeSubtract(a, b) == IF a = None \/ b = None THEN None ELSE Minus(a, b)
SafeRatioDelta(a, b) == IF a = None \/ b = None \/ b.num = 0 THEN None ELSE Over(Minus(a, b), b)
OrNone(n) == IF n = None THEN None ELSE Whole(n)

\* close is None where the day has no price bar.
BuildDailyChipSnapshot(day, chips, close) ==
  LET points == SelectSeq(chips, LAMBDA c : c.day = day)
      peak == DominantPoint(points, close)
      cost == WeightedChipCost(points)
  IN [day |-> day, close |-> OrNone(close), cost |-> cost,
      peakPrice |-> IF peak = None THEN None ELSE Whole(peak.price),
      peakPercent |-> IF peak = None THEN None ELSE Whole(peak.percent),
      profit |-> OrNone(Shares(points, close).below),
      loss |-> OrNone(Shares(points, close).above),
      atClose |-> OrNone(Shares(points, close).at),
      width70 |-> ConcentrationWidth(points, close, 70),
      width90 |-> ConcentrationWidth(points, close, 90),
      variance |-> ChipWeightedVariance(points, close),
      cgo |-> IF cost = None \/ close = None \/ close = 0 THEN None ELSE Over(Minus(Whole(close), cost), Whole(close)),
      inputDate |-> IF points = <<>> /\ close = None THEN None ELSE day,
      quality |-> IF points = <<>> THEN "MISSING_CHIP_DATA" ELSE IF close = None THEN "MISSING_PRICE_DATA" ELSE "OK"]

----------------------------------------------------------------------------
(* Factor values.  snapshots is a function from days.                      *)

MissingQuality(status) == IF status = "OK" THEN "PARTIAL" ELSE status

AsFactor(value, quality, inputDate) ==
  [value |-> value, inputDate |-> inputDate, quality |-> IF value = None THEN MissingQuality(quality) ELSE quality]

AsofValues(s) ==
  [profit_ratio_asof |-> s.profit, loss_ratio_asof |-> s.loss, cyq_cgo_asof |-> s.cgo,
   weighted_chip_cost_gap_asof |-> SafeRatioDelta(s.close, s.cost),
   dominant_peak_strength_asof |-> s.peakPercent,
   concentration_width_70_asof |-> s.width70, concentration_width_90_asof |-> s.width90,
   chip_weighted_std_asof |-> s.variance]

DeltaValues(s, a) ==
  [profit_ratio_delta_20d |-> SafeSubtract(s.profit, a.profit),
   loss_ratio_delta_20d |-> SafeSubtract(s.loss, a.loss),
   weighted_chip_cost_delta_20d |-> SafeRatioDelta(s.cost, a.cost),
   concentration_width_70_delta_20d |-> SafeSubtract(s.width70, a.width70),
   dominant_peak_price_delta_20d |-> SafeRatioDelta(s.peakPrice, a.peakPrice)]

DeltaIds == {"profit_ratio_delta_20d", "loss_ratio_delta_20d", "weighted_chip_cost_delta_20d",
             "concentration_width_70_delta_20d", "dominant_peak_price_delta_20d"}

\* FORMULA_PRUNED_FACTOR_REPLACEMENTS.
PrunedReplacements ==
  [profit_ratio_asof |-> "loss_ratio_asof",
   profit_ratio_delta_20d |-> "loss_ratio_delta_20d",
   cyq_cgo_asof |-> "weighted_chip_cost_gap_asof"]

LookbackSnapshotOfKnownDays(snapshots, day, lookback, expected) ==
  LET known == SelectSeq(expected, LAMBDA d : snapshots[d].quality = "OK")
      index == IF Contains(known, day) THEN Min({i \in DOMAIN known : known[i] = day}) ELSE 0
  IN IF index <= lookback THEN None ELSE snapshots[known[index - lookback]]

LookbackSnapshotFromEnd(snapshots, day, lookback, expected) ==
  IF Len(expected) <= lookback THEN None ELSE snapshots[expected[Len(expected) - lookback]]

\* The snapshot `lookback` trading days earlier, where every day of the window has one.
LookbackSnapshot(snapshots, day, lookback, expected) ==
  LET index == IF Contains(expected, day) THEN Min({i \in DOMAIN expected : expected[i] = day}) ELSE 0
  IN IF index <= lookback \/ ~(ToSet(SubSeq(expected, index - lookback, index)) \subseteq DOMAIN snapshots) THEN None
     ELSE snapshots[expected[index - lookback]]

\* max() of the input dates of the two snapshots: it raises where neither has one.
NoInputDate(current, anchor) == anchor # None /\ current.inputDate = None /\ anchor.inputDate = None

DeltaFactors(current, anchor) ==
  IF anchor = None
  THEN [f \in DeltaIds |-> [value |-> None, inputDate |-> current.inputDate, quality |-> "INSUFFICIENT_HISTORY"]]
  ELSE LET dates == {current.inputDate, anchor.inputDate} \ {None}
           values == DeltaValues(current, anchor)
       IN [f \in DeltaIds |-> AsFactor(values[f], current.quality, Max(dates))]

\* The active factors of a day, or None where the formulas raise.
BuildFactorValues(snapshots, day, lookback, expected) ==
  LET current == snapshots[day]
      anchor == LookbackSnapshot(snapshots, day, lookback, expected)
      asof == AsofValues(current)
      values == [f \in DOMAIN asof |-> AsFactor(asof[f], current.quality, current.inputDate)]
                @@ DeltaFactors(current, anchor)
  IN IF NoInputDate(current, anchor) THEN None
     ELSE [f \in DOMAIN values \ DOMAIN PrunedReplacements |-> values[f]]
=============================================================================
