-------------------------- MODULE MCFactorPipeline --------------------------
(***************************************************************************)
(* A small instance of FactorPipeline: up to seven exchange days around a  *)
(* weekend, two warmup days, two stocks of which one has gaps, and short   *)
(* sequences of commands.                                                  *)
(***************************************************************************)
EXTENDS FactorPipeline

\* Day 6 and day 7 are a weekend.
Open == <<1, 2, 3, 4, 5, 8, 9>>

Chips(days) ==
  FlattenSeq([i \in DOMAIN days |->
    <<ChipPoint(days[i], 5, 2), ChipPoint(days[i], 6 + (i % 3), 4), ChipPoint(days[i], 9, 3)>>])
Closes == <<6, 7, 8, 6, 9, 0, 0, 7, 10>>
Prices(days) == [d \in ToSet(days) |-> Closes[d]]

Without(days, gone) == SelectSeq(days, LAMBDA d : d \notin gone)

\* The second stock has no gaps.
World(open, start, end, noChips, noPrices) ==
  [open |-> open, start |-> start, end |-> end,
   chips |-> (1 :> Chips(Without(open, noChips)) @@ 2 :> Chips(open)),
   prices |-> (1 :> Prices(Without(open, noPrices)) @@ 2 :> Prices(open))]

Calm == World(Open, 3, 9, {}, {})
Short == World(Open, 9, 9, {}, {})
Gaps == {World(Open, 3, 9, chips, prices) : chips \in {{}, {4}, {2, 4}, ToSet(Open)}, prices \in {{}, {8}, {2, 4}}}
NoDays == {World(<<1, 2>>, 3, 9, {}, {}), World(<<>>, 6, 7, {}, {})}
NoWarmup == World(<<3, 4, 5, 8, 9>>, 3, 9, {}, {})

Run(id, stocks, dry) == [do |-> "run", id |-> id, stocks |-> stocks, dry |-> dry]
Evaluation(id, name) == [do |-> "evaluate", id |-> id, evaluation |-> name]
Batch(id, stocks, dry) == [do |-> "batch", id |-> id, stocks |-> stocks, dry |-> dry]
Merge(id, from) == [do |-> "aggregate", id |-> id, from |-> from]
Review(of, id, external) == [do |-> "review", of |-> of, id |-> id, external |-> external]

Case(worlds, given) == {[world |-> w, commands |-> given] : w \in worlds}

MCCases ==
  Case(Gaps \cup NoDays \cup {NoWarmup, Short},
       <<Run(1, <<1, 2>>, FALSE), Run(1, <<2>>, FALSE), Evaluation(1, 1), Review("run", 1, TRUE)>>)
  \cup Case(NoDays \cup {Calm},
            <<Run(2, <<1, 1>>, FALSE), Run(1, <<2>>, TRUE), Evaluation(1, 1), Evaluation(1, 1), Review("run", None, FALSE)>>)
  \cup Case({Calm, Short}, <<Batch(1, <<2, 1>>, FALSE), Review("batch", None, FALSE), Review("run", None, FALSE)>>)
  \cup Case({Calm, World(Open, 3, 9, {2, 4}, {2, 4})},
            <<Batch(2, <<1, 2, 1>>, FALSE), Batch(1, <<1>>, FALSE), Merge(9, <<2, 1>>), Review("batch", None, FALSE)>>)
=============================================================================
