----------------------------- MODULE MCServices -----------------------------
(***************************************************************************)
(* A small instance of Services: backtests of two days with observations   *)
(* one and two days later, in markets that rise and fall, miss a bar or a  *)
(* factor, split their shares or have no chips.                            *)
(***************************************************************************)
EXTENDS Services

CONSTANTS s1, s2, unknown

MCOffsets == <<1, 2>>

Day == 1..5
Bar(closes, d) == [open |-> 105, close |-> closes[d], vol |-> IF d = 1 THEN 100 ELSE 150]
Bars(closes, without) == [d \in Day \ without |-> Bar(closes, d)]
Chips(cost) == IF cost = 0 THEN <<>>
               ELSE [d \in Day |-> <<ChipPoint(d, IF d > 3 THEN 101 ELSE cost, 80), ChipPoint(d, 112, 10)>>]
Factors(split, without) == [d \in Day \ without |-> IF d >= split THEN 2 ELSE 1]

Rising == <<100, 110, 100, 120, 90>>
Falling == <<110, 100, 110, 90, 100>>

\* The second stock always rises.
World(open, closes, gap, cost, factors) ==
  [open |-> open,
   prices |-> (s1 :> Bars(closes, gap) @@ s2 :> Bars(Rising, {})),
   chips |-> (s1 :> Chips(cost) @@ s2 :> Chips(100)),
   factors |-> (s1 :> factors @@ s2 :> Factors(9, {}))]

MCWorlds ==
  {World(<<1, 2, 3, 4, 5>>, Rising, {}, cost, Factors(9, {})) : cost \in {0, 100, 111}}
  \cup {World(<<1, 2, 3, 4, 5>>, Falling, {}, cost, Factors(9, {})) : cost \in {100, 111}}
  \cup {World(<<1, 2, 3, 4, 5>>, Rising, gap, 111, Factors(9, {})) : gap \in {{2}, {4}, Day}}
  \cup {World(<<1, 2, 4, 5>>, Rising, {}, 111, Factors(3, gap)) : gap \in {{}, {4}, Day}}
  \cup {World(<<1, 2, 4, 5>>, Falling, {}, 111, Factors(3, {}))}

Raw(stock, lead) == [stock |-> stock, lead |-> lead, exchange |-> None, sixDigits |-> TRUE]

Strategy == {"composite_baseline", "market_context_followthrough"}

MCRequests ==
  {[kind |-> "scan", codes |-> codes, days |-> 2, end |-> end] :
     codes \in {<<Raw(s1, 6), Raw(s2, 0)>>, <<Raw(s2, 7), Raw(s1, 4), [Raw(s2, 0) EXCEPT !.exchange = "SZ"]>>}, end \in {1, 2}}
  \cup {[kind |-> "backtest", code |-> Raw(s1, lead), start |-> start, window |-> 2] :
          lead \in {6, 7}, start \in {1, 2}}
  \cup {[kind |-> "research", code |-> Raw(s1, 6), starts |-> starts, window |-> 2, strategies |-> strategies] :
          starts \in {<<1>>, <<2, 1>>},
          strategies \in {<<"composite_baseline", "market_context_followthrough">>, <<unknown, "market_context_followthrough">>}}
=============================================================================
