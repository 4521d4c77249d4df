---------------------------- MODULE CacheFreshness ----------------------------
(***************************************************************************)
(* When a cached entry may still be served: MarketCacheStore._is_stale and *)
(* _is_recent_row_stale (backend/app/data/market_cache.py).                *)
(*                                                                         *)
(* Timestamps are ticks of a clock that counts TicksPerDay ticks a day, so *)
(* that "the date of a timestamp" and "the age of a timestamp" stay two    *)
(* different things, as they are in the code: rows are compared by date,   *)
(* no-data markers by age.  Timestamps are always ones that                *)
(* datetime.now(UTC).isoformat() wrote and date keys are YYYYMMDD, so the  *)
(* code's fallbacks for unparsable text have no counterpart here.          *)
(***************************************************************************)
EXTENDS Integers

CONSTANTS
  TicksPerDay,   \* resolution of the clock
  RecentDays,    \* recent_refresh_days
  NoDataTTL      \* provisional_no_data_ttl_seconds, in ticks

ASSUME FreshnessAssumption ==
  /\ TicksPerDay \in Nat \ {0}
  /\ RecentDays \in Nat
  /\ NoDataTTL \in Nat

EntryKinds == {"ROWS", "PROVISIONAL_NO_DATA", "PERMANENT_NO_DATA"}

Day(t) == t \div TicksPerDay

\* An entry is inside the refresh window on `today` when it is not older than
\* RecentDays; entries dated after today are inside it as well.
InRefreshWindow(entryDay, today) ==
  /\ RecentDays > 0
  /\ today - entryDay <= RecentDays

\* Mutant: the window is measured from the day of the fetch.
RowsStaleByFetchDay(entryDay, fetched, t) ==
  /\ InRefreshWindow(Day(fetched), Day(t))
  /\ entryDay > Day(t) \/ Day(fetched) < Day(t)

RowsStale(entryDay, fetched, t) ==
  /\ InRefreshWindow(entryDay, Day(t))
  /\ entryDay > Day(t) \/ Day(fetched) < Day(t)

IsStale(kind, entryDay, fetched, t) ==
  \/ kind = "ROWS" /\ RowsStale(entryDay, fetched, t)
  \/ kind = "PROVISIONAL_NO_DATA" /\ t - fetched > NoDataTTL
=============================================================================
