-------------------------- MODULE FactorEvaluation --------------------------
(***************************************************************************)
(* What becomes of factor values: the forward returns of an evaluation     *)
(* (scripts/chip_factor_evaluator.py), the rows of a batch over its stocks *)
(* (scripts/chip_factor_batch.py), and the merge of batches                *)
(* (scripts/chip_factor_batch_aggregate.py).                               *)
(*                                                                         *)
(* snapshots is the sequence of the snapshots of a stock in the order of   *)
(* their file; factors is a function from days to factor values.  Of a     *)
(* correlation only its existence is kept.                                 *)
(***************************************************************************)
EXTENDS ChipFactors

----------------------------------------------------------------------------
(* Observations.                                                           *)

\* The factors of a day that have a value and are OK.
Usable(values) == {f \in DOMAIN values : values[f].quality = "OK" /\ values[f].value # None}

\* place: where its stock is among the outputs of the run.
Observation(place, day, f, factor, index, offset, snapshots) ==
  LET now == snapshots[index].close
      later == IF index + offset > Len(snapshots) THEN None ELSE snapshots[index + offset]
  IN [place |-> place, day |-> day, factor |-> f, value |-> factor.value, offset |-> offset,
      future |-> IF later = None THEN None ELSE later.day,
      return |-> IF later = None \/ later.close = None THEN None ELSE Over(Minus(later.close, now), now)]

StockObservationsOfKnownDays(place, snapshots, factors, offsets) ==
  LET known == SelectSeq(snapshots, LAMBDA s : s.close # None)
      Index(day) == CHOOSE i \in DOMAIN known : known[i].day = day
      HasClose(day) == \E i \in DOMAIN known : known[i].day = day /\ known[i].close.num # 0
      days == {d \in DOMAIN factors : HasClose(d)}
  IN UNION {{Observation(place, day, f, factors[day][f], Index(day), n, known) : n \in offsets, f \in Usable(factors[day])} : day \in days}

\* _build_stock_observations: a row for each usable factor value and offset; offsets count the
\* days of the snapshot file.
StockObservations(place, snapshots, factors, offsets) ==
  LET Index(day) == CHOOSE i \in DOMAIN snapshots : snapshots[i].day = day
      HasClose(day) == snapshots[Index(day)].close # None /\ snapshots[Index(day)].close.num # 0
      days == {d \in DOMAIN factors : HasClose(d)}
  IN UNION {{Observation(place, day, f, factors[day][f], Index(day), n, snapshots) :
               n \in offsets, f \in Usable(factors[day])} : day \in days}

Mean(fractions) ==
  LET total == FoldLeft(AddFractions, Whole(0), fractions)
  IN IF fractions = <<>> THEN None ELSE Fraction(total.num, total.den * Len(fractions))

Same(a, b) == a.num * b.den = b.num * a.den

\* The order of two rows of a factor and an offset in the file of the observations.
InFileOrder(r, q) == IF r.place = q.place THEN r.day < q.day ELSE r.place < q.place

\* The fifth of the rows with the lowest and with the highest factor values, of four rows at least.
BottomTopGroups(rows) ==
  LET Before(r, q) == IF Same(r.value, q.value) THEN InFileOrder(r, q) ELSE Leq(r.value, q.value)
      sorted == [i \in 1..Cardinality(rows) |-> CHOOSE r \in rows : Cardinality({q \in rows : Before(q, r)}) = i - 1]
      size == Max({1, Len(sorted) \div 5})
  IN IF Len(sorted) < 4 THEN <<<<>>, <<>>>>
     ELSE <<SubSeq(sorted, 1, size), SubSeq(sorted, Len(sorted) - size + 1, Len(sorted))>>

\* _pearson is None of fewer than three rows and where the values or the returns do not vary.
Correlated(rows) ==
  /\ Cardinality(rows) >= 3
  /\ \E r, q \in rows : ~Same(r.value, q.value)
  /\ \E r, q \in rows : ~Same(r.return, q.return)

SpreadOf(rows) ==
  LET groups == BottomTopGroups(rows)
      Returns(group) == Mean([i \in DOMAIN group |-> group[i].return])
  IN IF groups[1] = <<>> THEN None ELSE Minus(Returns(groups[2]), Returns(groups[1]))

DirectionHint(spread) ==
  CASE spread = None -> "INSUFFICIENT_DATA"
    [] spread.num > 0 -> "HIGH_FACTOR_OUTPERFORMS"
    [] spread.num < 0 -> "LOW_FACTOR_OUTPERFORMS"
    [] OTHER -> "NO_SPREAD"

\* One summary for each factor that has observations and each offset.
SummarizeObservations(observations, offsets) ==
  LET Rows(f, n) == {o \in observations : o.factor = f /\ o.offset = n}
      Available(f, n) == {o \in Rows(f, n) : o.return # None}
  IN [key \in {o.factor : o \in observations} \X offsets |->
        LET available == Available(key[1], key[2])
        IN [available |-> Cardinality(available),
            unavailable |-> Cardinality(Rows(key[1], key[2]) \ available),
            correlated |-> Correlated(available),
            direction |-> DirectionHint(SpreadOf(available))]]

----------------------------------------------------------------------------
(* Batches.  results is a sequence of stock results; the summary of a      *)
(* completed one is a function from (factor, offset).                      *)

Completed(results) == SelectSeq(results, LAMBDA r : r.status = "completed")

Count(items, Test(_)) == Len(SelectSeq(items, Test))

DirectionConsistency(directions) ==
  LET positive == Count(directions, LAMBDA d : d = "HIGH_FACTOR_OUTPERFORMS")
      negative == Count(directions, LAMBDA d : d = "LOW_FACTOR_OUTPERFORMS")
  IN CASE directions = <<>> -> "INSUFFICIENT_DATA"
       [] directions # <<>> /\ positive = Len(directions) -> "HIGH_FACTOR_OUTPERFORMS_ALL"
       [] directions # <<>> /\ negative = Len(directions) -> "LOW_FACTOR_OUTPERFORMS_ALL"
       [] positive > negative /\ positive < Len(directions) -> "HIGH_FACTOR_OUTPERFORMS_MAJORITY"
       [] negative > positive /\ negative < Len(directions) -> "LOW_FACTOR_OUTPERFORMS_MAJORITY"
       [] OTHER -> "MIXED"

\* _aggregate_stock_results: a row for each factor and offset some completed stock has.
AggregateStockResults(results) ==
  LET completed == Completed(results)
      Having(key) == SelectSeq(completed, LAMBDA r : key \in DOMAIN r.summary)
      Total(key, Op(_)) == SumBy(Having(key), LAMBDA r : Op(r.summary[key]))
      Directions(key) == SelectSeq([i \in DOMAIN Having(key) |-> Having(key)[i].summary[key].direction],
                                   LAMBDA d : d # "INSUFFICIENT_DATA")
  IN [key \in UNION {DOMAIN r.summary : r \in ToSet(completed)} |->
        [stocks |-> Len(Having(key)),
         available |-> Total(key, LAMBDA s : s.available),
         unavailable |-> Total(key, LAMBDA s : s.unavailable),
         direction |-> DirectionConsistency(Directions(key))]]

SuccessCount(results) == Cardinality({i \in DOMAIN results : results[i].status = "completed"})

BatchStatus(results) ==
  LET success == SuccessCount(results)
  IN IF success = Len(results) THEN "completed" ELSE IF success > 0 THEN "partial" ELSE "failed"

BatchSummary(id, results, timestamp) ==
  [id |-> id, status |-> BatchStatus(results), timestamp |-> timestamp,
   stocks |-> Len(results), success |-> SuccessCount(results), failed |-> Len(results) - SuccessCount(results),
   results |-> results, aggregate |-> AggregateStockResults(results)]

\* What the report repeats of its summary.
AggregateReport(summary) ==
  [id |-> summary.id, status |-> summary.status, success |-> summary.success, failed |-> summary.failed]

ShouldReplaceAlways(existing, candidate) == existing.stock = candidate.stock

\* Only a completed result takes the place of another, and only of one that is not.
ShouldReplaceStockResult(existing, candidate) ==
  candidate.status = "completed" /\ existing.status # "completed"

\* The dict of the results by their stock, to which one result after the other is offered.
WithStockResult(merged, r) ==
  IF r.stock \in DOMAIN merged /\ ~ShouldReplaceStockResult(merged[r.stock], r) THEN merged
  ELSE [s \in {r.stock} \cup DOMAIN merged |-> IF s = r.stock THEN r ELSE merged[s]]

MergedResults(all) ==
  LET merged[n \in 0..Len(all)] == IF n = 0 THEN <<>> ELSE WithStockResult(merged[n - 1], all[n])
  IN merged[Len(all)]

Sorted(S) == CHOOSE s \in [1..Cardinality(S) -> S] : \A i, j \in DOMAIN s : i < j => s[i] < s[j]

\* One result for each stock of the batches, in the order of the stock codes.
MergeStockResults(summaries) ==
  LET merged == MergedResults(FlattenSeq([i \in DOMAIN summaries |-> summaries[i].results]))
      stocks == Sorted(DOMAIN merged)
  IN [i \in DOMAIN stocks |-> merged[stocks[i]]]
=============================================================================
