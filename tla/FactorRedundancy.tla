-------------------------- MODULE FactorRedundancy --------------------------
(***************************************************************************)
(* Which factors tell the same story                                       *)
(* (scripts/factor_redundancy_review.py): the relation of every two        *)
(* factors of an instrument, what is decided of each factor, and what is   *)
(* said of a pair over all instruments.                                    *)
(*                                                                         *)
(* A table is a function from factors to functions with one value, or      *)
(* None, for each day.  Of a correlation the sign and how it compares with *)
(* the threshold are kept; settings is a record of method, threshold (a    *)
(* fraction), observations, instruments and consensus (a fraction).        *)
(***************************************************************************)
EXTENDS FactorEvaluation

\* The factors a review may meet, in lexical order.
AllFactors == <<"chip_weighted_std_asof", "cyq_cgo_asof", "loss_ratio_asof", "loss_ratio_delta_20d",
                "profit_ratio_asof", "profit_ratio_delta_20d", "weighted_chip_cost_gap_asof">>

FormulaHints ==
  {[pair |-> {"profit_ratio_asof", "loss_ratio_asof"}, primary |-> "loss_ratio_asof"],
   [pair |-> {"profit_ratio_delta_20d", "loss_ratio_delta_20d"}, primary |-> "loss_ratio_delta_20d"],
   [pair |-> {"cyq_cgo_asof", "weighted_chip_cost_gap_asof"}, primary |-> "weighted_chip_cost_gap_asof"]}

\* _is_derived_pair: the current state of a measure and its change.
DerivedPairs == {{"loss_ratio_asof", "loss_ratio_delta_20d"}, {"profit_ratio_asof", "profit_ratio_delta_20d"}}

StrongTypes == {"same_direction_duplicate", "opposite_direction_duplicate"}
NoEvidenceTypes == {"insufficient_observations", "constant_values"}

\* The factors with a value on some day.
Columns(table) == {f \in DOMAIN table : \E d \in DOMAIN table[f] : table[f][d] # None}

Place(f) == CHOOSE i \in DOMAIN AllFactors : AllFactors[i] = f

\* combinations(sorted(table.columns), 2)
Combinations(factors) == {p \in factors \X factors : Place(p[1]) < Place(p[2])}

----------------------------------------------------------------------------
(* One instrument.                                                         *)

\* pair_values: a function from the days on which both factors have a value.
PairValues(table, a, b) ==
  [d \in {d \in DOMAIN table[a] : table[a][d] # None /\ table[b][d] # None} |-> <<table[a][d], table[b][d]>>]

\* Twice the rank of a value, ties sharing theirs.
Rank(values, v) ==
  2 * Cardinality({d \in DOMAIN values : values[d] < v}) + Cardinality({d \in DOMAIN values : values[d] = v})

Correlatable(values, method) ==
  IF method = "spearman" THEN [d \in DOMAIN values |-> Rank(values, values[d])] ELSE values

\* The covariance and the variances of the columns, times the square of the number of rows.
Covariance(xs, ys) ==
  Cardinality(DOMAIN xs) * SumFunction([d \in DOMAIN xs |-> xs[d] * ys[d]]) - SumFunction(xs) * SumFunction(ys)

Column(pairs, k, method) == Correlatable([d \in DOMAIN pairs |-> pairs[d][k]], method)

\* -1, 0 or 1: what the correlation says at a threshold above 0.
StrengthOf(pairs, method, threshold) ==
  LET xs == Column(pairs, 1, method)
      ys == Column(pairs, 2, method)
      c == Covariance(xs, ys)
      reached == c * c * threshold.den * threshold.den
                   >= threshold.num * threshold.num * Covariance(xs, xs) * Covariance(ys, ys)
  IN IF c = 0 \/ ~reached THEN 0 ELSE IF c > 0 THEN 1 ELSE -1

Constant(pairs) == \E k \in 1..2 : Cardinality({pairs[d][k] : d \in DOMAIN pairs}) <= 1

ClassifyRelationship(a, b, pairs, settings) ==
  IF Cardinality(DOMAIN pairs) < settings.observations THEN "insufficient_observations"
  ELSE IF Constant(pairs) THEN "constant_values"
  ELSE IF {a, b} \in DerivedPairs THEN "derived_but_not_duplicate"
  ELSE CASE StrengthOf(pairs, settings.method, settings.threshold) = 1 -> "same_direction_duplicate"
         [] StrengthOf(pairs, settings.method, settings.threshold) = -1 -> "opposite_direction_duplicate"
         [] OTHER -> "weak_or_no_relationship"

PairRecommendation(type, hinted) ==
  CASE type \in StrongTypes -> IF hinted THEN "exclude" ELSE "downweight"
    [] type \in NoEvidenceTypes -> "no_decision"
    [] OTHER -> "keep_with_warning"

\* The first factor of a pair is the first in lexical order.
PrimaryFactor(a, b) ==
  LET hints == {h \in FormulaHints : h.pair = {a, b}}
  IN IF hints = {} THEN a ELSE (CHOOSE h \in hints : TRUE).primary

BuildPairRelationship(a, b, type) ==
  LET hinted == \E h \in FormulaHints : h.pair = {a, b}
  IN [pair |-> <<a, b>>, type |-> type, hinted |-> hinted, primary |-> PrimaryFactor(a, b),
      recommendation |-> PairRecommendation(type, hinted)]

\* A function from the pairs of factors.
Relationships(table, settings) ==
  [p \in Combinations(Columns(table)) |->
     BuildPairRelationship(p[1], p[2], ClassifyRelationship(p[1], p[2], PairValues(table, p[1], p[2]), settings))]

\* What a relationship r does to the decision of one of its factors.
DecideOverProtection(decision, f, r, protected) ==
  LET other == CHOOSE g \in ToSet(r.pair) : g # f
  IN CASE f # r.primary /\ r.recommendation = "exclude" -> [decision |-> "exclude", replacement |-> r.primary]
       [] f # r.primary /\ r.recommendation = "downweight" /\ decision.decision # "exclude" ->
            [decision |-> "downweight", replacement |-> r.primary]
       [] f = r.primary /\ r.recommendation = "downweight" /\ other \in protected /\ decision.decision # "exclude" ->
            [decision |-> "downweight", replacement |-> other]
       [] OTHER -> decision

DecideLast(decision, f, r, protected) ==
  LET other == CHOOSE g \in ToSet(r.pair) : g # f
  IN CASE f # r.primary /\ r.recommendation = "exclude" -> [decision |-> "exclude", replacement |-> r.primary]
       [] f # r.primary /\ r.recommendation = "downweight" /\ f \notin protected ->
            [decision |-> "downweight", replacement |-> r.primary]
       [] f = r.primary /\ r.recommendation = "downweight" /\ other \in protected /\ f \notin protected ->
            [decision |-> "downweight", replacement |-> other]
       [] OTHER -> decision

Decide(decision, f, r, protected) ==
  LET other == CHOOSE g \in ToSet(r.pair) : g # f
      open == f \notin protected /\ decision.decision # "exclude"
  IN CASE f # r.primary /\ r.recommendation = "exclude" -> [decision |-> "exclude", replacement |-> r.primary]
       [] f # r.primary /\ r.recommendation = "downweight" /\ open -> [decision |-> "downweight", replacement |-> r.primary]
       [] f = r.primary /\ r.recommendation = "downweight" /\ other \in protected /\ open ->
            [decision |-> "downweight", replacement |-> other]
       [] OTHER -> decision

\* When the turn of a relationship comes in the lexical order of their pairs.
Turn(r) == Len(AllFactors) * Place(r.pair[1]) + Place(r.pair[2])
LastTurn == Len(AllFactors) * (Len(AllFactors) + 1)

\* _build_retention_decisions: the strong relationships one after the other; the primaries of
\* those with a formula are protected from the others.
RetentionDecisions(columns, relationships) ==
  LET strong == {r \in Range(relationships) : r.type \in StrongTypes}
      protected == {r.primary : r \in {q \in strong : q.hinted}}
      Apply(decisions, r) == [f \in DOMAIN decisions |->
                                IF f \in ToSet(r.pair) THEN Decide(decisions[f], f, r, protected) ELSE decisions[f]]
      decided[n \in 0..LastTurn] ==
        IF n = 0 THEN [f \in columns |-> [decision |-> "keep", replacement |-> None]]
        ELSE LET before == decided[n - 1]
                 now == {r \in strong : Turn(r) = n}
             IN IF now = {} THEN before ELSE Apply(before, CHOOSE r \in now : TRUE)
  IN decided[LastTurn]

----------------------------------------------------------------------------
(* All instruments: results is the sequence of their relationships.        *)

\* The most common of the types of the instruments, of equally common ones the first.
DominantRelationshipType(types) ==
  LET Number(t) == Cardinality({i \in DOMAIN types : types[i] = t})
      common == {i \in DOMAIN types : \A t \in StrongTypes : Number(t) <= Number(types[i])}
  IN IF common = {} THEN None ELSE types[Min(common)]

GlobalRecommendation(eligible, strong, settings) ==
  CASE strong = 0 -> "global_no_decision"
    [] strong > 0 /\ eligible >= settings.instruments /\ strong * settings.consensus.den >= settings.consensus.num * eligible ->
         "global_downweight_candidate"
    [] OTHER -> "global_review_required"

\* A function from the pairs for which some instrument gives evidence.
CrossObjectSummary(results, settings) ==
  LET Having(pair) == {i \in DOMAIN results : pair \in DOMAIN results[i]}
      Eligible(pair) == {i \in Having(pair) : results[i][pair].type \notin NoEvidenceTypes}
      Strong(pair) == {i \in Having(pair) : results[i][pair].type \in StrongTypes}
  IN [pair \in {p \in UNION {DOMAIN r : r \in ToSet(results)} : Eligible(p) # {}} |->
        LET eligible == Cardinality(Eligible(pair))
            strong == Cardinality(Strong(pair))
        IN [eligible |-> eligible, strong |-> strong, insufficient |-> Cardinality(Having(pair)) - eligible,
            dominant |-> DominantRelationshipType([i \in Strong(pair) |-> results[i][pair].type]),
            recommendation |-> GlobalRecommendation(eligible, strong, settings)]]

\* _build_groups: the type of every pair that deserves a look.
Groups(summary) ==
  LET grouped == {p \in DOMAIN summary :
                    summary[p].recommendation \in {"global_downweight_candidate", "global_review_required"}}
  IN [p \in grouped |-> IF summary[p].dominant = None THEN "mixed_evidence" ELSE summary[p].dominant]

\* One table with a row for each instrument and day.
PooledTable(tables) ==
  LET factors == UNION {DOMAIN t : t \in ToSet(tables)}
      rows == UNION {{<<i, d>> : d \in UNION {DOMAIN tables[i][f] : f \in DOMAIN tables[i]}} : i \in DOMAIN tables}
  IN [f \in factors |-> [row \in rows |-> IF f \in DOMAIN tables[row[1]] THEN tables[row[1]][f][row[2]] ELSE None]]

\* _build_pooled_diagnostics: what only looks related after pooling.
PooledDiagnostics(tables, summary, settings) ==
  LET pooled == PooledTable(tables)
      Suspicious(p) ==
        LET pairs == PairValues(pooled, p[1], p[2])
        IN /\ Cardinality(DOMAIN pairs) >= 2 /\ ~Constant(pairs)
           /\ StrengthOf(pairs, settings.method, settings.threshold) # 0
           /\ p \in DOMAIN summary /\ summary[p].recommendation = "global_no_decision"
  IN {p \in Combinations(Columns(pooled)) : Suspicious(p)}
=============================================================================
