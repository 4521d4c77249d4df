-------------------------- MODULE MCMarketCacheStore --------------------------
(***************************************************************************)
(* Small instances of MarketCacheStore.  k1's date is the first day, k2's  *)
(* the second one, so that k2 starts as an entry dated in the future, as   *)
(* the calendar rows of resolve_trading_days_from are; k2's endpoint takes *)
(* no no-data marker (trade_cal).                                          *)
(***************************************************************************)
EXTENDS MarketCacheStore, TLC

CONSTANTS k1, k2

MCEntryDay == [k \in Keys |-> IF k = k1 THEN 0 ELSE 1]
MCNoDataKeys == Keys \ {k2}

Symmetry == Permutations(Payloads) \cup Permutations(Agents)
=============================================================================
