-------------------------- MODULE SignalSimilarity --------------------------
(***************************************************************************)
(* Which factors trigger on the same days and are followed by the same     *)
(* returns (scripts/factor_signal_similarity_review.py).                   *)
(*                                                                         *)
(* Of an observation file there is the table of an instrument and its      *)
(* returns, a function from offsets to functions from days to integers or  *)
(* None; means are fractions.  settings is a record of quantile,           *)
(* similarity (fractions), triggers and spread (a number).  Win rates      *)
(* decide nothing and are left out.                                        *)
(***************************************************************************)
EXTENDS FactorRedundancy

\* _mean_or_none of the returns on some days.
MeanReturn(returns, days) == Fraction(SumFunctionOnSet(returns, days), Cardinality(days))

\* The days before one in the order of their values, of equal ones the earlier first.
DaysUnder(values, day) ==
  {d \in DOMAIN values : values[d] < values[day] \/ (values[d] = values[day] /\ d < day)}

\* values is a function from the days with a value and a return.
SignalStat(values, returns, quantile) ==
  LET days == DOMAIN values
      triggers == Max({1, (Cardinality(days) * quantile.num) \div quantile.den})
      low == {d \in days : Cardinality(DaysUnder(values, d)) < triggers}
      high == {d \in days : Cardinality(DaysUnder(values, d)) >= Cardinality(days) - triggers}
      spread == Minus(MeanReturn(returns, high), MeanReturn(returns, low))
  IN [low |-> low, high |-> high, lowMean |-> MeanReturn(returns, low), highMean |-> MeanReturn(returns, high),
      spread |-> spread, direction |-> DirectionHint(spread)]

\* _build_signal_stats: a function from factor and offset.
SignalStats(table, returns, quantile) ==
  LET Available(f, n) == {d \in DOMAIN table[f] : table[f][d] # None /\ returns[n][d] # None}
  IN [key \in {k \in (DOMAIN table) \X (DOMAIN returns) : Available(k[1], k[2]) # {}} |->
        SignalStat([d \in Available(key[1], key[2]) |-> table[key[1]][d]], returns[key[2]], quantile)]

Overlap(side, order, datesA, datesB) ==
  [side |-> side, order |-> order, count |-> Min({Cardinality(datesA), Cardinality(datesB)}),
   both |-> Cardinality(datesA \cap datesB), either |-> Cardinality(datesA \cup datesB)]

BestTriggerOverlapOfThree(a, b) ==
  LET candidates == {Overlap("high_vs_high", 1, a.high, b.high), Overlap("low_vs_low", 4, a.low, b.low),
                     Overlap("high_vs_low", 2, a.high, b.low)}
      Less(p, q) == p.both * q.either < q.both * p.either
  IN CHOOSE p \in candidates : \A q \in candidates \ {p} :
       Less(q, p) \/ (~Less(p, q) /\ (q.both < p.both \/ (q.both = p.both /\ q.order < p.order)))

\* The greatest Jaccard overlap of trigger days, then of their number, then the last side by name.
BestTriggerOverlap(a, b) ==
  LET candidates == {Overlap("high_vs_high", 1, a.high, b.high), Overlap("low_vs_low", 4, a.low, b.low),
                     Overlap("high_vs_low", 2, a.high, b.low), Overlap("low_vs_high", 3, a.low, b.high)}
      Less(p, q) == p.both * q.either < q.both * p.either
  IN CHOOSE p \in candidates : \A q \in candidates \ {p} :
       Less(q, p) \/ (~Less(p, q) /\ (q.both < p.both \/ (q.both = p.both /\ q.order < p.order)))

Directed(stat) == stat.direction \notin {"NO_SPREAD", "INSUFFICIENT_DATA"}

\* Two means are at most the spread threshold apart.
Close(x, y, spread) == LET d == Minus(x, y) IN Leq(Fraction(AbsoluteValue(d.num), d.den), Whole(spread))

BehaviorSimilarUnmirrored(a, b, overlap, spread) ==
  a.direction = b.direction /\ Directed(a) /\ Close(a.spread, b.spread, spread)

\* _behavior_comparison and what _relationship_type makes of it; where the best overlap is that of
\* a high with a low side, one of the factors is read upside down.
BehaviorSimilar(a, b, overlap, spread) ==
  IF overlap.side \in {"high_vs_low", "low_vs_high"}
  THEN /\ a.direction # b.direction /\ Directed(a) /\ Directed(b)
       /\ Close(a.spread, Minus(Whole(0), b.spread), spread)
       /\ Close(a.highMean, b.lowMean, spread) /\ Close(a.lowMean, b.highMean, spread)
  ELSE a.direction = b.direction /\ Directed(a) /\ Close(a.spread, b.spread, spread)

RelationshipType(a, b, settings) ==
  LET overlap == BestTriggerOverlap(a, b)
      trigger == overlap.both * settings.similarity.den >= settings.similarity.num * overlap.either
      behavior == BehaviorSimilar(a, b, overlap, settings.spread)
  IN CASE overlap.count < settings.triggers -> "insufficient_trigger_count"
       [] overlap.count >= settings.triggers /\ trigger /\ behavior -> "trigger_and_behavior_similar"
       [] overlap.count >= settings.triggers /\ trigger /\ ~behavior -> "trigger_similar"
       [] overlap.count >= settings.triggers /\ ~trigger /\ behavior -> "behavior_similar"
       [] OTHER -> "weak_or_no_similarity"

\* _build_pair_similarities: a function from pairs of factors and offset.
PairSimilarities(stats, settings) ==
  LET Factors(n) == {f \in ToSet(AllFactors) : <<f, n>> \in DOMAIN stats}
      keys == UNION {{<<p[1], p[2], n>> : p \in Combinations(Factors(n))} : n \in {k[2] : k \in DOMAIN stats}}
  IN [k \in keys |->
        LET a == stats[<<k[1], k[3]>>]
            b == stats[<<k[2], k[3]>>]
            overlap == BestTriggerOverlap(a, b)
        IN [type |-> RelationshipType(a, b, settings), both |-> overlap.both, either |-> overlap.either]]

TriggerTypes == {"trigger_similar", "trigger_and_behavior_similar"}
BehaviorTypes == {"behavior_similar", "trigger_and_behavior_similar"}

GlobalSignalSimilarityOfHalf(rows, similarity) ==
  LET Most(types) == 100 * Cardinality({i \in DOMAIN rows : rows[i].type \in types}) >= 50 * Cardinality(DOMAIN rows)
      several == Cardinality(DOMAIN rows) >= 2
  IN CASE ~several -> "single_instrument_only"
       [] several /\ Most(TriggerTypes) /\ Most(BehaviorTypes) -> "trigger_and_behavior"
       [] several /\ Most(TriggerTypes) /\ ~Most(BehaviorTypes) -> "trigger"
       [] several /\ ~Most(TriggerTypes) /\ Most(BehaviorTypes) -> "behavior"
       [] OTHER -> IF \E i \in DOMAIN rows : rows[i].both * similarity.den >= similarity.num * rows[i].either
                   THEN "instrument_specific" ELSE "none"

\* What the rows of the instruments with enough triggers say together.
GlobalSignalSimilarity(rows, similarity) ==
  LET Most(types) == 100 * Cardinality({i \in DOMAIN rows : rows[i].type \in types}) >= 60 * Cardinality(DOMAIN rows)
      several == Cardinality(DOMAIN rows) >= 2
  IN CASE ~several -> "single_instrument_only"
       [] several /\ Most(TriggerTypes) /\ Most(BehaviorTypes) -> "trigger_and_behavior"
       [] several /\ Most(TriggerTypes) /\ ~Most(BehaviorTypes) -> "trigger"
       [] several /\ ~Most(TriggerTypes) /\ Most(BehaviorTypes) -> "behavior"
       [] OTHER -> IF \E i \in DOMAIN rows : rows[i].both * similarity.den >= similarity.num * rows[i].either
                   THEN "instrument_specific" ELSE "none"

\* all: the pair similarities of the instruments, in their order.
CrossObjectSignals(all, settings) ==
  LET Eligible(key) == {i \in DOMAIN all : key \in DOMAIN all[i] /\ all[i][key].type # "insufficient_trigger_count"}
      Similar(key, types) == {i \in Eligible(key) : all[i][key].type \in types}
  IN [key \in {k \in UNION {DOMAIN s : s \in ToSet(all)} : Eligible(k) # {}} |->
        [eligible |-> Cardinality(Eligible(key)),
         trigger |-> Cardinality(Similar(key, TriggerTypes)),
         behavior |-> Cardinality(Similar(key, BehaviorTypes)),
         similarity |-> GlobalSignalSimilarity([i \in Eligible(key) |-> all[i][key]], settings.similarity)]]
=============================================================================
