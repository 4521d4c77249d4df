---------------------------- MODULE MCReadThrough ----------------------------
(***************************************************************************)
(* A small instance of ReadThrough: three days, the middle one read on its *)
(* own as well, so that a longer read finds a gap it need not ask for.     *)
(* The provider has rows for the days around the gap; a change publishes   *)
(* or withdraws a row, or closes or withdraws a calendar day.              *)
(***************************************************************************)
EXTENDS ReadThrough

CONSTANTS long, short, p1

MCDays == 0..2

MCWorlds ==
  {[k \in Keys |-> IF k[1] = "trade_cal" THEN "open" ELSE IF k[2] = 1 THEN NoEntry ELSE p1]}

MCWanted ==
  [r \in Readers |->
     IF r = long THEN {[interval |-> <<0, 2>>, rows |-> x] : x \in BOOLEAN}
     ELSE {[interval |-> <<1, 1>>, rows |-> TRUE]}]
=============================================================================
