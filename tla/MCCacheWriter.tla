---------------------------- MODULE MCCacheWriter ----------------------------
(***************************************************************************)
(* Small instances of CacheWriter: one key that takes no-data markers.     *)
(***************************************************************************)
EXTENDS CacheWriter

CONSTANTS w1, w2

MCEntryDay == [k \in Keys |-> 0]
AutoOnly == {[w \in Writers |-> "auto"]}
AutoAndOther == {[w \in Writers |-> IF w = w1 THEN "auto" ELSE m] : m \in {"sync", "async"}}
Correct == [w \in Writers |-> TRUE]
OnlyFirstCorrects == [w \in Writers |-> w = w1]
=============================================================================
