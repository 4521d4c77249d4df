-------------------------- MODULE MCFactorReviews --------------------------
(***************************************************************************)
(* A small instance of FactorReviews: four days, factors that rise, fall,  *)
(* move up and down, stay or have gaps, and up to three instruments.       *)
(***************************************************************************)
EXTENDS FactorReviews

Arguments(how) ==
  [method |-> how, threshold |-> Fraction(9, 10), observations |-> 3, instruments |-> 2,
   consensus |-> Fraction(8, 10), quantile |-> Fraction(1, 2), similarity |-> Fraction(3, 4),
   triggers |-> 2, spread |-> 1]

Up == <<1, 2, 3, 6>>
Down == <<6, 5, 4, 1>>
UpDown == <<2, 5, 1, 4>>
Early == <<5, 1, 2, 3>>
First == <<1, 2, 6, 3>>
Second == <<2, 1, 3, 6>>
Flat == <<3, 3, 3, 3>>
Gaps == <<1, None, None, 4>>
Ties == <<1, 2, 2, 4>>

Instrument(id, values, returns) ==
  [id |-> id, present |-> TRUE, malformed |-> FALSE, table |-> values, returns |-> returns]

Late == <<<<0, 0, 5, 5>>, <<0, None, 5, 4>>>>
Level == <<<<1, 1, 1, 1>>, <<2, 2, 2, 2>>>>
Rising == <<<<0, 2, 5, 9>>, <<1, 1, None, 3>>>>
Mixed == <<<<4, -2, 5, -3>>, <<0, 0, 0, 0>>>>

\* The factors of every formula but that of the changes, and the factors with a change.
Six == ToSet(AllFactors) \ {"profit_ratio_delta_20d"}
Changes == {"loss_ratio_asof", "loss_ratio_delta_20d", "profit_ratio_asof", "profit_ratio_delta_20d"}
Pair == {"cyq_cgo_asof", "loss_ratio_asof"}
TwoFactors(patterns) == [Pair -> patterns]

Case(given, sequence) ==
  {[instruments |-> given, settings |-> Arguments(how), commands |-> sequence] : how \in {"pearson", "spearman"}}
Narrow == [Arguments("pearson") EXCEPT !.quantile = Fraction(1, 4), !.triggers = 1]
Batch(given, sequence) == [instruments |-> given, settings |-> Arguments("pearson"), commands |-> sequence]

MCCases ==
  UNION {Case(<<Instrument(1, t, Rising)>>, <<"redundancy">>) :
           t \in [Six -> {Up, Down, UpDown}] \cup [Changes -> {Up, Down, UpDown}]}
  \cup {Batch(<<Instrument(1, t, Rising), Instrument(2, u, Mixed)>>, <<"redundancy", "redundancy", "artifact">>) :
          t, u \in TwoFactors({Up, Down, UpDown, Flat, Gaps})}
  \cup {Batch(<<Instrument(1, t, r), Instrument(2, u, Mixed)>>, <<"signal", "signal">>) :
          t \in TwoFactors({Up, Down, UpDown, Ties, Gaps}), u \in TwoFactors({Up, Down, UpDown}), r \in {Rising, Mixed}}
  \cup {[Batch(<<Instrument(1, t, Level), Instrument(2, u, r)>>, <<"signal">>) EXCEPT !.settings = Narrow] :
          t \in TwoFactors({Up, Early}), u \in TwoFactors({Early, First, Second}), r \in {Late, Rising}}
  \cup {Batch(<<>>, <<"redundancy", "signal", "artifact">>)}
  \cup {Batch(<<Instrument(1, t, Rising), Instrument(1, t, Rising)>>, <<"redundancy", "artifact", "signal">>) :
          t \in TwoFactors({Up, UpDown})}
  \cup {Batch(<<[Instrument(1, t, Rising) EXCEPT !.present = p, !.malformed = ~p]>>, <<"redundancy", "artifact", "signal">>) :
          t \in TwoFactors({Up, Down}), p \in BOOLEAN}
=============================================================================
