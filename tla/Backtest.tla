------------------------------ MODULE Backtest ------------------------------
(***************************************************************************)
(* What BacktestService.run computes from the answers of its market data   *)
(* client (backend/app/services/backtest_service.py), and the scores that  *)
(* ResearchRunService gives its strategies.  Services makes the calls.     *)
(*                                                                         *)
(* A backtest looks at a window of trading days, takes its signal at the   *)
(* close of the last of them, and then at the days some offsets later.     *)
(***************************************************************************)
EXTENDS Strategies, FiniteSets

CONSTANTS
  Offsets,   \* OBSERVATION_OFFSETS, increasing
  Missing    \* a DataUnavailableError for an incomplete answer

ASSUME OffsetsAssumption ==
  /\ Offsets \in Seq(Nat \ {0})
  /\ Offsets # <<>>
  /\ \A i, j \in DOMAIN Offsets : i < j => Offsets[i] < Offsets[j]

RequiredDays(window) == window + Max(ToSet(Offsets))

ObservationDate(days, window, offset) ==
  IF window + offset > Len(days) THEN None ELSE days[window + offset]

ObservationDates(days, window) ==
  [i \in DOMAIN Offsets |-> ObservationDate(days, window, Offsets[i])]

LastAvailableObservationDate(days, window) ==
  LET dates == ObservationDates(days, window)
      available == {i \in DOMAIN dates : dates[i] # None}
  IN IF available = {} THEN days[window] ELSE dates[Max(available)]

----------------------------------------------------------------------------
(* prices: a function from the days of the answer to their bars; factors:  *)
(* one from days to adjustment factors, or None where the client has none. *)

\* _bar_for_date of the signal date and the length of analysis_prices: there is a bar for every day.
WindowIsComplete(days, window, prices) == \A i \in 1..window : days[i] \in DOMAIN prices

\* analysis_prices of a complete window.
AnalysisBars(days, window, prices) == [i \in 1..window |-> prices[days[i]]]

\* _period_return; Missing where a factor is.
PeriodReturn(start, end, prices, factors) ==
  LET from == prices[start].close
      to == prices[end].close
  IN IF factors = None THEN IF from = 0 THEN Fraction(0, 1) ELSE Fraction(to - from, from)
     ELSE IF ~({start, end} \subseteq DOMAIN factors) THEN Missing
     ELSE IF from * factors[start] = 0 THEN Fraction(0, 1)
     ELSE Fraction(to * factors[end] - from * factors[start], from * factors[start])

AdjustedContext(days, window, prices, factors) ==
  LET context == MarketContext(AnalysisBars(days, window, prices))
  IN IF factors = None THEN context
     ELSE [context EXCEPT !.return = PeriodReturn(days[1], days[window], prices, factors)]

BuildObservation(offset, date, signalDate, prices, factors) ==
  IF date = None \/ date \notin DOMAIN prices THEN [offset |-> offset, date |-> None, return |-> None]
  ELSE [offset |-> offset, date |-> date, return |-> PeriodReturn(signalDate, date, prices, factors)]

Observations(days, window, prices, factors) ==
  [i \in DOMAIN Offsets |->
     BuildObservation(Offsets[i], ObservationDate(days, window, Offsets[i]), days[window], prices, factors)]

\* The whole response, or Missing where a factor a return needs is.
BacktestResponse(days, window, prices, chips, factors) ==
  LET context == AdjustedContext(days, window, prices, factors)
      observations == Observations(days, window, prices, factors)
  IN IF context.return = Missing \/ \E i \in DOMAIN Offsets : observations[i].return = Missing THEN Missing
     ELSE [signalDate |-> days[window],
           signal |-> EvaluateCompositeSignal(MarketFeatures(chips, AnalysisBars(days, window, prices))),
           context |-> context,
           observations |-> observations]

----------------------------------------------------------------------------
(* Scores of a strategy over the observations of one sample, and over      *)
(* samples.                                                                *)

ScoreObservation(action, observation) ==
  [offset |-> observation.offset,
   label |-> MatchLabel(action, observation.return),
   score |-> IF observation.return = None THEN None ELSE DirectionalScore(action, observation.return)]

Labelled(scores, label) == Cardinality({i \in DOMAIN scores : scores[i].label = label})

\* The mean of the fractions, 0 of none.
Average(fractions) ==
  LET total == FoldLeft(AddFractions, Fraction(0, 1), fractions)
  IN IF fractions = <<>> THEN Fraction(0, 1) ELSE Fraction(total.num, total.den * Len(fractions))

Counts(match, mismatch, neutral, unavailable) ==
  [match |-> match, mismatch |-> mismatch, neutral |-> neutral, unavailable |-> unavailable]

ScoreStrategy(named, backtest) ==
  LET scores == [i \in DOMAIN Offsets |-> ScoreObservation(named.signal.action, backtest.observations[i])]
      scored == SelectSeq(scores, LAMBDA s : s.score # None)
  IN [strategy |-> named.strategy,
      signal |-> named.signal,
      scores |-> scores,
      average |-> Average([i \in DOMAIN scored |-> scored[i].score]),
      counts |-> Counts(Labelled(scores, "MATCH"), Labelled(scores, "MISMATCH"),
                        Labelled(scores, "NEUTRAL"), Labelled(scores, "N/A"))]

AddCounts(a, b) ==
  Counts(a.match + b.match, a.mismatch + b.mismatch, a.neutral + b.neutral, a.unavailable + b.unavailable)

SumCounts(scores) ==
  LET sum[n \in 0..Len(scores)] ==
        IF n = 0 THEN Counts(0, 0, 0, 0) ELSE AddCounts(sum[n - 1], scores[n].counts)
  IN sum[Len(scores)]

\* grouped: the scores so far by their strategy, empty where there is none yet.
GroupOf(groups, s) == IF s \in DOMAIN groups THEN groups[s] ELSE <<>>
WithScore(groups, score) ==
  [s \in DOMAIN groups \cup {score.strategy} |->
     IF s = score.strategy THEN Append(GroupOf(groups, s), score) ELSE groups[s]]

WithScores(groups, scores) ==
  LET grouped[n \in 0..Len(scores)] == IF n = 0 THEN groups ELSE WithScore(grouped[n - 1], scores[n])
  IN grouped[Len(scores)]

\* samples: the score lists of the samples.
GroupScores(samples) ==
  LET grouped[n \in 0..Len(samples)] == IF n = 0 THEN <<>> ELSE WithScores(grouped[n - 1], samples[n])
  IN grouped[Len(samples)]

\* A score for each strategy that has any; the order of the list decides nothing.
AggregateScores(samples) ==
  LET groups == GroupScores(samples)
  IN [s \in DOMAIN groups |->
        [samples |-> Len(groups[s]),
         average |-> Average([i \in DOMAIN groups[s] |-> groups[s][i].average]),
         counts |-> SumCounts(groups[s])]]
=============================================================================
