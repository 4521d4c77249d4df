----------------------------- MODULE ReadThrough -----------------------------
(***************************************************************************)
(* Reading market data through the cache: CachedMarketDataClient           *)
(* (backend/app/data/cached_market_data_client.py).                        *)
(*                                                                         *)
(* get_daily_prices, get_chip_distribution and get_adjustment_factors are  *)
(* one algorithm over three endpoints.  A read first turns its interval    *)
(* into trading days (_cached_trade_calendar), looks them all up, and asks *)
(* the provider for each run of consecutive days that it cannot serve,     *)
(* storing every answer before the next question.  resolve_trading_days    *)
(* and resolve_trading_days_from stop after the calendar.                  *)
(*                                                                         *)
(* The cache is CacheRegister, which MarketCacheStore implements.  A       *)
(* reader is a request being served; several run at once, each with its    *)
(* own client and connections, on one cache and one provider.  The writes  *)
(* enqueued are carried out one after the other, as by one flush           *)
(* (CacheWriter is about several); entries are not damaged here            *)
(* (MarketCacheStore), which to a read looks like a miss.                  *)
(***************************************************************************)
EXTENDS CacheFreshness, SequencesExt

CONSTANTS
  Readers,
  Wanted,         \* Wanted[r]: the reads r may make, [interval, rows]; rows is
                  \* FALSE for resolve_trading_days and resolve_trading_days_from
  Days,           \* the days there are data for, an interval of Nat
  Worlds,         \* what the provider may have at the outset, a set of functions on Keys
  Prices,         \* contents of a row, as its checksum tells them apart
  NoData, NoEntry, NoOp,
  Modes,          \* the write modes considered: "sync", "async"
  MaxStoreTicks,  \* how long after an answer its last row may be stamped
  MaxReads,       \* bound on the reads begun
  MaxQueue,       \* bound on the writes enqueued
  MaxChanges,     \* bound on the changes of the provider's data
  MaxLosses,      \* bound on the keys whose writes are lost
  MaxTime         \* bound on the clock

VARIABLES
  entry, request, now,   \* the cache
  mode,     \* how cache_writer hands over: "sync" or "async"
  queue,    \* writes enqueued and not yet materialised
  reads,    \* number of reads begun
  read,     \* read[r]: the local state of the request being served
  world,    \* what the provider has, NoEntry where it has no row
  had,      \* history: had[k] holds <<x, t>> if the provider had x for k during tick t
  changes,  \* changes of world so far
  lost      \* history: keys for which a write was lost

cacheVars == <<entry, request, now>>
worldVars == <<world, had, changes>>
vars == <<cacheVars, mode, queue, reads, read, worldVars, lost>>

Keys == {"trade_cal", "rows"} \X Days
NoDataKeys == {"rows"} \X Days
Payloads == Prices \cup {"open", "closed"}
Agents == Readers \cup {"drain"}

Cache == INSTANCE CacheRegister

ProviderHas(k) ==
  IF k[1] = "trade_cal" THEN {"open", "closed", NoEntry} ELSE Prices \cup {NoEntry}

Write ==
  [key: Keys, kind: {"ROWS"}, payload: Payloads]
    \cup [key: NoDataKeys, kind: {"PROVISIONAL_NO_DATA"}, payload: {NoData}]

Job ==
  [key: Keys, kind: {"ROWS"}, payload: Payloads, fetched: Nat]
    \cup [key: NoDataKeys, kind: {"PROVISIONAL_NO_DATA"}, payload: {NoData}, fetched: Nat]

Request == [write: Job, allow: {TRUE}, found: Payloads \cup {NoData, NoEntry}]

ASSUME ReadAssumption ==
  /\ \A f \in Worlds : DOMAIN f = Keys /\ \A k \in Keys : f[k] \in ProviderHas(k)
  /\ Days \subseteq Nat
  /\ Wanted \in [Readers -> SUBSET [interval: {i \in Days \X Days : i[1] <= i[2]}, rows: BOOLEAN]]
  /\ "drain" \notin Readers
  /\ NoEntry \notin Payloads \cup Cache!Value
  /\ NoOp \notin Request
  /\ Modes \subseteq {"sync", "async"}
  /\ {MaxStoreTicks, MaxReads, MaxQueue, MaxChanges, MaxLosses, MaxTime} \subseteq Nat

-----------------------------------------------------------------------------
(* Looking up *)

CalendarKey(d) == <<"trade_cal", d>>
RowsKey(d) == <<"rows", d>>
Between(i) == {d \in Days : i[1] <= d /\ d <= i[2]}

\* MarketCacheStore.read_many on one key.
IsHit(k) ==
  /\ entry[k] # NoEntry
  /\ ~IsStale(entry[k].kind, k[2], entry[k].fetched, now)

\* Mutant: a stale entry is served when it holds rows.
HitOrStaleWithRows(k) == entry[k] # NoEntry /\ entry[k].kind = "ROWS"

HitWithRows(k) == IsHit(k) /\ entry[k].kind = "ROWS"

\* Mutant: a no-data marker suppresses the question however old it is.
SuppressedForever(d) == entry[RowsKey(d)] # NoEntry /\ entry[RowsKey(d)].kind # "ROWS"

Suppressed(d) == IsHit(RowsKey(d)) /\ entry[RowsKey(d)].kind # "ROWS"

\* The rows a lookup of days D found.
Cached(endpoint, D) ==
  [d \in {e \in D : HitWithRows(<<endpoint, e>>)} |-> entry[<<endpoint, d>>].payload]

OpenDays(calendar) == {d \in DOMAIN calendar : calendar[d] = "open"}

\* Mutant: one question for everything from the first missing day to the last.
WholeSpan(D) == {d \in Days : Min(D) <= d /\ d <= Max(D)}

\* The first of _date_ranges: the days of D that follow each other without a gap.
FirstRun(D) == {d \in D : Min(D)..d \subseteq D}

\* Rows the provider has for days D of an endpoint.
Provided(endpoint, D) ==
  [d \in {e \in D : world[<<endpoint, e>>] # NoEntry} |-> world[<<endpoint, d>>]]

-----------------------------------------------------------------------------
(* A read *)

Nothing == << >>   \* the function with the empty domain

Idle ==
  [pc |-> "idle", interval |-> <<0, 0>>, wantsRows |-> FALSE, began |-> 0, answered |-> 0,
   calendar |-> Nothing, rows |-> Nothing, fetched |-> {}, todo |-> {}, unstored |-> Nothing]

Set(r, new) == read' = [read EXCEPT ![r] = new]

\* The read before, if any, has returned or raised to its caller.
Begin(r, q) ==
  /\ read[r].pc \in {"idle", "done", "failed", "failedStoring"}
  /\ reads < MaxReads
  /\ reads' = reads + 1
  /\ Set(r, [Idle EXCEPT !.pc = "lookupDays", !.interval = q.interval, !.wantsRows = q.rows,
                         !.began = now])
  /\ UNCHANGED <<cacheVars, mode, queue, worldVars, lost>>

\* After the calendar: trading days, or EMPTY_DATA when there are none.
AfterCalendar(r, calendar) ==
  CASE ~read[r].wantsRows -> "done"
    [] read[r].wantsRows /\ OpenDays(calendar) = {} -> "failed"
    [] read[r].wantsRows /\ OpenDays(calendar) # {} -> "lookupRows"

\* _cached_trade_calendar, up to the provider call.
LookupDays(r) ==
  LET D == Between(read[r].interval)
      cached == Cached("trade_cal", D)
  IN  /\ read[r].pc = "lookupDays"
      /\ Set(r, [read[r] EXCEPT !.calendar = cached,
                                !.pc = IF \A d \in D : IsHit(CalendarKey(d))
                                       THEN AfterCalendar(r, cached) ELSE "askDays"])
      /\ UNCHANGED <<cacheVars, mode, queue, reads, worldVars, lost>>

RowWrite(endpoint, d, p) == [key |-> <<endpoint, d>>, kind |-> "ROWS", payload |-> p]
NoDataWrite(d) == [key |-> RowsKey(d), kind |-> "PROVISIONAL_NO_DATA", payload |-> NoData]

\* The writes an answer asks for, one for each of its days.
RowWrites(endpoint, answer) == [d \in DOMAIN answer |-> RowWrite(endpoint, d, answer[d])]
NoDataWrites(D) == [d \in D |-> NoDataWrite(d)]

\* The rows of an answer are written first, then the markers, both day by day.
NextDay(writes) ==
  LET rows == {d \in DOMAIN writes : writes[d].kind = "ROWS"}
  IN  Min(IF rows = {} THEN DOMAIN writes ELSE rows)

NextWrite(r) == read[r].unstored[NextDay(read[r].unstored)]

\* f updated and extended by g (dict.update).
Updated(f, g) ==
  [d \in DOMAIN f \cup DOMAIN g |-> IF d \in DOMAIN g THEN g[d] ELSE f[d]]

\* Mutant: the calendar's missing days are marked, as those of the other endpoints.
AskDaysMarksMissing(r) ==
  LET D == Between(read[r].interval)
      answer == Provided("trade_cal", D)
      absent == D \ DOMAIN answer
  IN  /\ read[r].pc = "askDays"
      /\ DOMAIN answer # {}
      /\ Set(r, [read[r] EXCEPT !.pc = "storeDays", !.answered = now,
                                !.calendar = Updated(@, answer),
                                !.unstored = Updated(RowWrites("trade_cal", answer),
                                  [d \in absent |-> [NoDataWrite(d) EXCEPT !.key = CalendarKey(d)]])])
      /\ UNCHANGED <<cacheVars, mode, queue, reads, worldVars, lost>>

\* One day missing or stale: the whole interval is asked for again.
AskDays(r) ==
  LET answer == Provided("trade_cal", Between(read[r].interval))
  IN  /\ read[r].pc = "askDays"
      /\ DOMAIN answer # {}
      /\ Set(r, [read[r] EXCEPT !.pc = "storeDays", !.answered = now,
                                !.calendar = Updated(@, answer),
                                !.unstored = RowWrites("trade_cal", answer)])
      /\ UNCHANGED <<cacheVars, mode, queue, reads, worldVars, lost>>

LookupRows(r) ==
  LET D == OpenDays(read[r].calendar)
      cached == Cached("rows", D)
      missing == {d \in D : d \notin DOMAIN cached /\ ~Suppressed(d)}
  IN  /\ read[r].pc = "lookupRows"
      /\ Set(r, [read[r] EXCEPT !.rows = cached, !.todo = missing,
                                !.pc = IF missing = {} THEN "done" ELSE "askRows"])
      /\ UNCHANGED <<cacheVars, mode, queue, reads, worldVars, lost>>

\* Mutant: markers are written for every day still to be asked for.
AskRowsMarksAll(r) ==
  LET run == FirstRun(read[r].todo)
      answer == Provided("rows", run)
  IN  /\ read[r].pc = "askRows"
      /\ Set(r, [read[r] EXCEPT !.pc = "storeRows", !.answered = now, !.todo = @ \ run,
                                !.rows = Updated(@, answer),
                                !.fetched = @ \cup DOMAIN answer,
                                !.unstored = Updated(NoDataWrites(read[r].todo), RowWrites("rows", answer))])
      /\ UNCHANGED <<cacheVars, mode, queue, reads, worldVars, lost>>

\* Mutant: rows are kept back until every run has been answered.
AskRowsStoresLast(r) ==
  LET run == FirstRun(read[r].todo)
      answer == Provided("rows", run)
      all == Updated(read[r].rows, answer)
  IN  /\ read[r].pc = "askRows"
      /\ Set(r, [read[r] EXCEPT !.pc = IF read[r].todo = run THEN "storeRows" ELSE @,
                                !.answered = now, !.todo = @ \ run, !.rows = all,
                                !.fetched = @ \cup DOMAIN answer,
                                !.unstored = Updated(NoDataWrites(run), RowWrites("rows", all))])
      /\ UNCHANGED <<cacheVars, mode, queue, reads, worldVars, lost>>

\* The provider answers for the next run of days.  Its answer, rows or EMPTY_DATA,
\* becomes a row for each day it has and a marker for each day it has not.
AskRows(r) ==
  LET run == FirstRun(read[r].todo)
      answer == Provided("rows", run)
  IN  /\ read[r].pc = "askRows"
      /\ Set(r, [read[r] EXCEPT !.pc = "storeRows", !.answered = now, !.todo = @ \ run,
                                !.rows = Updated(@, answer),
                                !.fetched = @ \cup DOMAIN answer,
                                !.unstored = Updated(NoDataWrites(run), RowWrites("rows", answer))])
      /\ UNCHANGED <<cacheVars, mode, queue, reads, worldVars, lost>>

\* Mutant: any provider error is taken for EMPTY_DATA.
ProviderRaisesMarks(r) ==
  LET run == FirstRun(read[r].todo)
  IN  /\ read[r].pc = "askRows"
      /\ Set(r, [read[r] EXCEPT !.pc = "storeRows", !.answered = now, !.todo = @ \ run,
                                !.unstored = NoDataWrites(run)])
      /\ UNCHANGED <<cacheVars, mode, queue, reads, worldVars, lost>>

\* The provider raises: anything but EMPTY_DATA, or EMPTY_DATA for the calendar.
ProviderRaises(r) ==
  /\ read[r].pc \in {"askDays", "askRows"}
  /\ Set(r, [read[r] EXCEPT !.pc = "failed"])
  /\ UNCHANGED <<cacheVars, mode, queue, reads, worldVars, lost>>

\* fetched_at is the time of the write, not of the answer.
Stamped(w) == [key |-> w.key, kind |-> w.kind, payload |-> w.payload, fetched |-> now]

AfterStore(r) ==
  CASE read[r].pc = "storeDays" -> AfterCalendar(r, read[r].calendar)
    [] read[r].pc = "storeRows" -> IF read[r].todo = {} THEN "done" ELSE "askRows"

\* The read after the first of its writes has been handed over.
Handed(r) ==
  LET rest == Restrict(read[r].unstored, DOMAIN read[r].unstored \ {NextDay(read[r].unstored)}) IN
  IF DOMAIN rest = {} THEN [read[r] EXCEPT !.unstored = rest, !.pc = AfterStore(r), !.answered = 0]
  ELSE [read[r] EXCEPT !.unstored = rest]

IsStoring(r) == read[r].pc \in {"storeDays", "storeRows"}

Enqueue(r) ==
  /\ IsStoring(r)
  /\ mode = "async"
  /\ Len(queue) < MaxQueue
  /\ queue' = Append(queue, Stamped(NextWrite(r)))
  /\ Set(r, Handed(r))
  /\ UNCHANGED <<cacheVars, mode, reads, worldVars, lost>>

\* allow_provider_correction is true by default.
BeginUpsert(r) ==
  /\ IsStoring(r)
  /\ mode = "sync"
  /\ Cache!Begin(r, Stamped(NextWrite(r)), TRUE)
  /\ UNCHANGED <<mode, queue, reads, read, worldVars, lost>>

EndUpsert(r) ==
  /\ Cache!Put(r) \/ Cache!Keep(r)
  /\ Set(r, Handed(r))
  /\ UNCHANGED <<mode, queue, reads, worldVars, lost>>

\* cache_writer.write raises when the job cannot be enqueued: the read fails.
EnqueueRaises(r) ==
  /\ IsStoring(r)
  /\ mode = "async"
  /\ Cardinality(lost) < MaxLosses
  /\ Set(r, [read[r] EXCEPT !.pc = "failedStoring"])
  /\ lost' = lost \cup {NextWrite(r).key}
  /\ UNCHANGED <<cacheVars, mode, queue, reads, worldVars>>

\* A synchronous upsert that is rolled back raises to the caller of the read.
UpsertRaises(r) ==
  /\ Cardinality(lost) < MaxLosses
  /\ Cache!Fail(r)
  /\ Set(r, [read[r] EXCEPT !.pc = "failedStoring"])
  /\ lost' = lost \cup {request[r].write.key}
  /\ UNCHANGED <<mode, queue, reads, worldVars>>

-----------------------------------------------------------------------------
(* The writer's thread, the provider and time *)

DrainBegins ==
  /\ queue # << >>
  /\ Cache!Begin("drain", Head(queue), TRUE)
  /\ UNCHANGED <<mode, queue, reads, read, worldVars, lost>>

DrainEnds ==
  /\ Cache!Put("drain") \/ Cache!Keep("drain")
  /\ queue' = Tail(queue)
  /\ UNCHANGED <<mode, reads, read, worldVars, lost>>

\* The job runs out of attempts.
DrainGivesUp ==
  /\ Cardinality(lost) < MaxLosses
  /\ Cache!Fail("drain")
  /\ queue' = Tail(queue)
  /\ lost' = lost \cup {request["drain"].write.key}
  /\ UNCHANGED <<mode, reads, read, worldVars>>

\* The provider publishes, corrects or withdraws a row.
Change(k, x) ==
  /\ changes < MaxChanges
  /\ x # world[k]
  /\ world' = [world EXCEPT ![k] = x]
  /\ had' = [had EXCEPT ![k] = @ \cup {<<x, now>>}]
  /\ changes' = changes + 1
  /\ UNCHANGED <<cacheVars, mode, queue, reads, read, lost>>

\* Stamping what was answered takes MaxStoreTicks at most.
Tick ==
  /\ now < MaxTime
  /\ \A r \in Readers : IsStoring(r) => now < read[r].answered + MaxStoreTicks
  /\ Cache!Pass
  /\ had' = [k \in Keys |-> had[k] \cup {<<world[k], now + 1>>}]
  /\ UNCHANGED <<mode, queue, reads, read, world, changes, lost>>

-----------------------------------------------------------------------------

Init ==
  /\ Cache!Init
  /\ mode \in Modes
  /\ queue = << >>
  /\ reads = 0
  /\ read = [r \in Readers |-> Idle]
  /\ world \in Worlds
  /\ had = [k \in Keys |-> {<<world[k], 0>>}]
  /\ changes = 0
  /\ lost = {}

Serve(r) ==
  \/ LookupDays(r) \/ AskDays(r) \/ LookupRows(r) \/ AskRows(r) \/ ProviderRaises(r)
  \/ Enqueue(r) \/ EnqueueRaises(r) \/ BeginUpsert(r) \/ EndUpsert(r) \/ UpsertRaises(r)

Next ==
  \/ \E r \in Readers :
       \/ \E q \in Wanted[r] : Begin(r, q)
       \/ Serve(r)
  \/ DrainBegins \/ DrainEnds \/ DrainGivesUp
  \/ \E k \in Keys : \E x \in ProviderHas(k) : Change(k, x)
  \/ Tick

Spec == Init /\ [][Next]_vars

-----------------------------------------------------------------------------
(* Properties *)

Read ==
  [pc: {"idle", "lookupDays", "askDays", "storeDays", "lookupRows", "askRows", "storeRows",
        "done", "failed", "failedStoring"},
   interval: (Days \X Days) \cup {<<0, 0>>}, wantsRows: BOOLEAN,
   began: 0..MaxTime, answered: 0..MaxTime,
   calendar: UNION {[D -> {"open", "closed"}] : D \in SUBSET Days},
   rows: UNION {[D -> Prices] : D \in SUBSET Days},
   fetched: SUBSET Days, todo: SUBSET Days,
   unstored: UNION {[D -> Write] : D \in SUBSET Days}]

\* Every variable keeps its type, queue and clock their bounds.
TypeOK ==
  /\ entry \in [Keys -> Cache!Value \cup {NoEntry}]
  /\ now \in 0..MaxTime
  /\ mode \in Modes
  /\ queue \in Seq(Job) /\ Len(queue) <= MaxQueue
  /\ read \in [Readers -> Read]
  /\ DOMAIN world = Keys
  /\ lost \subseteq Keys

\* x is what the provider had for k at a tick from `first` on.
HadSince(k, x, first) == \E h \in had[k] : h[1] = x /\ h[2] >= first

Answered(v) ==
  LET x == IF v.kind = "ROWS" THEN v.payload ELSE NoEntry IN
  \E h \in had[v.key] : h[1] = x /\ h[2] \in (v.fetched - MaxStoreTicks)..v.fetched

\* Whatever the cache serves, or has queued, was the provider's answer for exactly
\* that key shortly before the stamp it carries: rows are the provider's rows, and
\* a no-data marker stands for a day the provider was asked for and had nothing
\* for, never for a failed question.  What a read writes after an answer
\* (get_daily_prices and its siblings, the EMPTY_DATA branch, _now_iso).
EntriesAreAnswers ==
  /\ \A k \in Keys : entry[k] # NoEntry =>
       Answered([key |-> k, kind |-> entry[k].kind, payload |-> entry[k].payload,
                 fetched |-> entry[k].fetched])
  /\ \A i \in DOMAIN queue : Answered(queue[i])

\* The same, and every reader, queue and history is well formed.
CacheHoldsAnswers == TypeOK /\ EntriesAreAnswers

\* The first tick whose answers a read begun at t may serve for days in the window.
DayBegins(t) == Day(t) * TicksPerDay - MaxStoreTicks

\* A read that returns serves, for every day still in the refresh window, a row
\* (and a calendar day) the provider had on the day the read began or later: the
\* calendar, the lookup of rows and the day's change fall in between, and other
\* readers' writes do too (_is_recent_row_stale as the client applies it).
RecentRowsAreOfToday ==
  \A r \in Readers : read[r].pc = "done" =>
    \A d \in Days : InRefreshWindow(d, Day(now)) =>
      /\ d \in DOMAIN read[r].calendar =>
           HadSince(CalendarKey(d), read[r].calendar[d], DayBegins(read[r].began))
      /\ d \in DOMAIN read[r].rows =>
           HadSince(RowsKey(d), read[r].rows[d], DayBegins(read[r].began))

\* A day left out of a result is a day the provider did not have recently: no
\* calendar day since the read began, no rows of an open day for longer than a
\* no-data marker lives.  Nothing else makes a day disappear silently from what
\* get_daily_prices and its siblings return.
AbsenceIsRecent ==
  \A r \in Readers : read[r].pc = "done" =>
    /\ \A d \in Between(read[r].interval) \ DOMAIN read[r].calendar :
         HadSince(CalendarKey(d), NoEntry, read[r].began)
    /\ read[r].wantsRows =>
         \A d \in OpenDays(read[r].calendar) \ DOMAIN read[r].rows :
           HadSince(RowsKey(d), NoEntry, read[r].began - NoDataTTL - MaxStoreTicks)

\* What a read returns is recent, in what it serves and in what it leaves out.
ResultsAreRecent == RecentRowsAreOfToday /\ AbsenceIsRecent

\* The rows of an answer are in the cache, or on their way to it, before the next
\* question is asked: a provider error on a later run of days costs nothing that
\* was already paid for, unless a write was lost.
FetchedIsKept ==
  \A r \in Readers : read[r].pc \in {"askRows", "failed", "done"} =>
    \A d \in read[r].fetched :
      \/ entry[RowsKey(d)] # NoEntry
      \/ \E i \in DOMAIN queue : queue[i].key = RowsKey(d)
      \/ RowsKey(d) \in lost

\* A question never covers a day that is closed or that the read has rows for:
\* extending a range fetches only what is new or stale (docs/exec-plans/active/
\* local-market-data-cache.md, acceptance criteria), in _date_ranges' runs.
OnlyMissingDaysAsked ==
  [][\A r \in Readers :
       read[r].pc = "askRows" /\ read'[r].pc = "storeRows" =>
         \A d \in DOMAIN read'[r].unstored :
           d \in OpenDays(read[r].calendar) /\ d \notin DOMAIN read[r].rows]_vars

\* No question is wasted: its answer is kept, and nothing is asked that the cache could tell.
QuestionsAreNotWasted == []FetchedIsKept /\ OnlyMissingDaysAsked
=============================================================================
