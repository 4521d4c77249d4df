-------------------------- MODULE ReadThrough_proofs --------------------------
(***************************************************************************)
(* What holds of any number of reads of one cache, over any days, with any *)
(* bounds, whatever the provider publishes, withdraws or refuses, and      *)
(* whatever is lost on the way to the cache.                               *)
(*                                                                         *)
(* A read acts on what it looked up earlier.  The history of the provider  *)
(* (had) makes that precise: each part of a read's local state remembers   *)
(* a tick at which it was true.                                            *)
(***************************************************************************)
EXTENDS ReadThrough, WellFoundedInduction, TLAPS

\* Something is cached for a key, on its way there, or was lost.
Held(k) ==
  \/ entry[k] # NoEntry
  \/ \E i \in DOMAIN queue : queue[i].key = k
  \/ k \in lost

\* A write repeats what the provider had at tick t.
AnsweredAt(w, t) == <<IF w.kind = "ROWS" THEN w.payload ELSE NoEntry, t>> \in had[w.key]

HistoryOK ==
  /\ DOMAIN had = Keys
  /\ \A k \in Keys : had[k] \subseteq ProviderHas(k) \X (0..now) /\ <<world[k], now>> \in had[k]

MarkersOK == \A k \in Keys : entry[k] # NoEntry /\ entry[k].kind # "ROWS" => k \in NoDataKeys

\* An upsert carries an answer: that of its reader's next write, or of the first of the queue.
RequestsOK ==
  /\ request \in [Agents -> Request \cup {NoOp}]
  /\ \A a \in Agents : request[a] # NoOp =>
       /\ Answered(request[a].write)
       /\ request[a].found # NoEntry => entry[request[a].write.key] # NoEntry
  /\ \A r \in Readers : request[r] # NoOp =>
       IsStoring(r) /\ mode = "sync" /\ request[r].write.key = NextWrite(r).key
  /\ request["drain"] # NoOp => queue # << >> /\ request["drain"].write = Head(queue)

ClockOK(r) ==
  /\ read[r].began <= now
  /\ IsStoring(r) => read[r].answered <= now /\ now <= read[r].answered + MaxStoreTicks

\* What is still to be stored is what the provider answered.
UnstoredOK(r) ==
  /\ IsStoring(r) =>
       /\ DOMAIN read[r].unstored # {}
       /\ \A d \in DOMAIN read[r].unstored : AnsweredAt(read[r].unstored[d], read[r].answered)
  /\ IsStoring(r) \/ read[r].pc = "failedStoring" \/ DOMAIN read[r].unstored = {}

\* The days still to be asked for are open days without rows.
PhaseOK(r) ==
  /\ read[r].pc \in {"lookupDays", "askDays", "storeDays", "lookupRows"} =>
       read[r].fetched = {} /\ read[r].todo = {}
  /\ read[r].pc \in {"askRows", "storeRows"} =>
       /\ read[r].todo \subseteq OpenDays(read[r].calendar)
       /\ read[r].todo \cap DOMAIN read[r].rows = {}
  /\ read[r].pc = "askRows" => read[r].todo # {}
  /\ read[r].pc = "done" => read[r].todo = {}

\* What was fetched is held, or still to be stored.
PaidOK(r) ==
  \A d \in read[r].fetched :
    \/ Held(RowsKey(d))
    \/ d \in DOMAIN read[r].unstored /\ read[r].unstored[d].key = RowsKey(d)

\* What a read has gathered was true on the day it began, or later, for the days that are
\* still in the window: a day that is in the window now was in it when it was looked up.
RecentOK(r) ==
  \A d \in Days : InRefreshWindow(d, Day(now)) =>
    /\ d \in DOMAIN read[r].calendar =>
         HadSince(CalendarKey(d), read[r].calendar[d], DayBegins(read[r].began))
    /\ d \in DOMAIN read[r].rows =>
         HadSince(RowsKey(d), read[r].rows[d], DayBegins(read[r].began))

\* What a read has given up on was absent.
AbsentOK(r) ==
  /\ read[r].pc \in {"storeDays", "lookupRows", "askRows", "storeRows", "done"} =>
       \A d \in Between(read[r].interval) \ DOMAIN read[r].calendar :
         HadSince(CalendarKey(d), NoEntry, read[r].began)
  /\ read[r].pc \in {"askRows", "storeRows"} \/ (read[r].pc = "done" /\ read[r].wantsRows) =>
       \A d \in (OpenDays(read[r].calendar) \ DOMAIN read[r].rows) \ read[r].todo :
         HadSince(RowsKey(d), NoEntry, read[r].began - NoDataTTL - MaxStoreTicks)

ReadOK(r) == ClockOK(r) /\ UnstoredOK(r) /\ PhaseOK(r) /\ PaidOK(r) /\ RecentOK(r) /\ AbsentOK(r)

IInv ==
  /\ TypeOK /\ HistoryOK /\ EntriesAreAnswers /\ MarkersOK /\ RequestsOK
  /\ \A r \in Readers : ReadOK(r)

-----------------------------------------------------------------------------
(* Days and times *)

LEMMA Parameters ==
  /\ TicksPerDay \in Nat \ {0} /\ RecentDays \in Nat /\ NoDataTTL \in Nat
  /\ MaxStoreTicks \in Nat /\ MaxTime \in Nat /\ Days \subseteq Nat
BY FreshnessAssumption, ReadAssumption DEF FreshnessAssumption, ReadAssumption

LEMMA DayBound ==
  ASSUME NEW t \in Nat
  PROVE  Day(t) \in Nat /\ Day(t) * TicksPerDay <= t
<1>1. TicksPerDay \in Nat \ {0} BY Parameters
<1> QED BY <1>1, SMTT(30) DEF Day

LEMMA DayIsMonotone ==
  ASSUME NEW s \in Nat, NEW t \in Nat, s <= t
  PROVE  Day(s) <= Day(t)
<1>1. TicksPerDay \in Nat \ {0} BY Parameters
<1> QED BY <1>1, SMTT(30) DEF Day

\* What was stamped on the day of t, or later, was answered at or after DayBegins(t).
LEMMA StampedThatDay ==
  ASSUME NEW t \in Nat, NEW fetched \in Nat, Day(t) <= Day(fetched)
  PROVE  DayBegins(t) <= fetched - MaxStoreTicks /\ DayBegins(t) \in Int
<1>1. Day(t) \in Nat /\ Day(fetched) \in Nat /\ Day(fetched) * TicksPerDay <= fetched BY DayBound
<1>2. Day(t) * TicksPerDay <= Day(fetched) * TicksPerDay
      /\ Day(t) * TicksPerDay \in Nat /\ Day(fetched) * TicksPerDay \in Nat
  BY <1>1, Parameters, SMTT(30)
<1> QED BY <1>1, <1>2, Parameters DEF DayBegins

\* What is answered now was answered after the day of an earlier tick began.
LEMMA NowIsLater ==
  ASSUME NEW t \in Nat, NEW u \in Nat, t <= u
  PROVE  DayBegins(t) <= u /\ DayBegins(t) \in Int
<1>1. Day(t) \in Nat /\ Day(t) * TicksPerDay <= t /\ Day(t) * TicksPerDay \in Int
  BY DayBound, Parameters
<1> QED BY <1>1, Parameters DEF DayBegins

\* A day leaves the refresh window once.
LEMMA WindowShrinks ==
  ASSUME NEW d \in Nat, NEW s \in Nat, NEW t \in Nat, s <= t, InRefreshWindow(d, Day(t))
  PROVE  InRefreshWindow(d, Day(s))
<1>1. Day(s) \in Nat /\ Day(t) \in Nat /\ Day(s) <= Day(t) BY DayBound, DayIsMonotone
<1> QED BY <1>1, Parameters DEF InRefreshWindow

LEMMA LeastElement ==
  ASSUME NEW T \in SUBSET Nat, T # {}
  PROVE  Min(T) \in T /\ \A y \in T : Min(T) <= y
<1>1. PICK x \in T : \A y \in T : ~(<<y, x>> \in OpToRel(<, Nat)) BY WFMin, NatLessThanWellFounded, Zenon
<1>2. \A y \in T : ~(y < x) BY <1>1, Zenon DEF OpToRel
<1>3. \A y \in T : x <= y BY <1>2
<1> QED BY <1>3 DEF Min

-----------------------------------------------------------------------------
(* Keys and the history of the provider *)

LEMMA KeyFacts ==
  ASSUME NEW d \in Days
  PROVE  /\ CalendarKey(d) \in Keys /\ CalendarKey(d)[1] = "trade_cal" /\ CalendarKey(d)[2] = d
         /\ CalendarKey(d) \notin NoDataKeys
         /\ RowsKey(d) \in Keys /\ RowsKey(d) \in NoDataKeys /\ RowsKey(d)[1] = "rows" /\ RowsKey(d)[2] = d
         /\ ProviderHas(CalendarKey(d)) = {"open", "closed", NoEntry}
         /\ ProviderHas(RowsKey(d)) = Prices \cup {NoEntry}
BY DEF CalendarKey, RowsKey, Keys, NoDataKeys, ProviderHas

LEMMA NoEntryIsNoRow ==
  /\ NoEntry \notin Prices /\ NoEntry # "open" /\ NoEntry # "closed" /\ NoEntry \notin Payloads
  /\ NoEntry \notin Cache!Value /\ NoOp \notin Request
BY ReadAssumption DEF ReadAssumption, Payloads

\* What was asked at tick t is among what the provider has had since any earlier one.
LEMMA HadNow ==
  ASSUME IInv, NEW k \in Keys, NEW first \in Int, first <= now
  PROVE  HadSince(k, world[k], first) /\ world[k] \in ProviderHas(k)
<1>1. <<world[k], now>> \in had[k] /\ had[k] \subseteq ProviderHas(k) \X (0..now) BY DEF IInv, HistoryOK
<1> QED BY <1>1 DEF HadSince

\* An entry was had by the provider at most MaxStoreTicks before its stamp.
LEMMA EntryWasHad ==
  ASSUME IInv, NEW k \in Keys, entry[k] # NoEntry, NEW first \in Int,
         first <= entry[k].fetched - MaxStoreTicks
  PROVE  LET x == IF entry[k].kind = "ROWS" THEN entry[k].payload ELSE NoEntry
         IN  HadSince(k, x, first) /\ x \in ProviderHas(k)
<1> DEFINE x == IF entry[k].kind = "ROWS" THEN entry[k].payload ELSE NoEntry
<1>1. entry[k].fetched \in Nat BY DEF IInv, TypeOK, Cache!Value
<1>2. PICK h \in had[k] : h[1] = x /\ h[2] \in (entry[k].fetched - MaxStoreTicks)..entry[k].fetched
  BY DEF IInv, EntriesAreAnswers, Answered
<1>3. had[k] \subseteq ProviderHas(k) \X (0..now) BY DEF IInv, HistoryOK
<1>4. h[1] \in ProviderHas(k) /\ h[2] \in Int BY <1>2, <1>3
<1>5. h[2] >= first BY <1>1, <1>2, <1>4, Parameters
<1> QED BY <1>2, <1>4, <1>5 DEF HadSince

-----------------------------------------------------------------------------
(* The parts of a read *)

LEMMA ReadTypes ==
  ASSUME IInv, NEW r \in Readers
  PROVE  /\ read[r] \in Read /\ now \in Nat
         /\ read[r].began \in Nat /\ read[r].answered \in Nat /\ read[r].wantsRows \in BOOLEAN
         /\ read[r].calendar \in [DOMAIN read[r].calendar -> {"open", "closed"}]
         /\ DOMAIN read[r].calendar \subseteq Days
         /\ read[r].rows \in [DOMAIN read[r].rows -> Prices] /\ DOMAIN read[r].rows \subseteq Days
         /\ read[r].fetched \subseteq Days /\ read[r].todo \subseteq Days
         /\ read[r].unstored \in [DOMAIN read[r].unstored -> Write]
         /\ DOMAIN read[r].unstored \subseteq Days
<1>1. read[r] \in Read /\ now \in 0..MaxTime BY DEF IInv, TypeOK
<1>2. now \in Nat /\ read[r].began \in Nat /\ read[r].answered \in Nat /\ read[r].wantsRows \in BOOLEAN
  BY <1>1, Parameters DEF Read
<1>3. PICK D \in SUBSET Days : read[r].calendar \in [D -> {"open", "closed"}] BY <1>1 DEF Read
<1>4. PICK E \in SUBSET Days : read[r].rows \in [E -> Prices] BY <1>1 DEF Read
<1>5. PICK F \in SUBSET Days : read[r].unstored \in [F -> Write] BY <1>1 DEF Read
<1>6. read[r].fetched \subseteq Days /\ read[r].todo \subseteq Days BY <1>1 DEF Read
<1> QED BY <1>1, <1>2, <1>3, <1>4, <1>5, <1>6

\* The record of a read is well formed when its parts are.
LEMMA ReadFormed ==
  ASSUME IInv, NEW r \in Readers, NEW pc, NEW answered, NEW calendar, NEW rows, NEW fetched, NEW todo, NEW unstored,
         pc \in {"idle", "lookupDays", "askDays", "storeDays", "lookupRows", "askRows", "storeRows",
                 "done", "failed", "failedStoring"},
         answered \in 0..MaxTime,
         calendar \in [DOMAIN calendar -> {"open", "closed"}], DOMAIN calendar \subseteq Days,
         rows \in [DOMAIN rows -> Prices], DOMAIN rows \subseteq Days,
         fetched \subseteq Days, todo \subseteq Days,
         unstored \in [DOMAIN unstored -> Write], DOMAIN unstored \subseteq Days
  PROVE  [read[r] EXCEPT !.pc = pc, !.answered = answered, !.calendar = calendar, !.rows = rows,
                         !.fetched = fetched, !.todo = todo, !.unstored = unstored] \in Read
<1>1. read[r] \in Read BY ReadTypes
<1>2. calendar \in UNION {[D -> {"open", "closed"}] : D \in SUBSET Days} OBVIOUS
<1>3. rows \in UNION {[D -> Prices] : D \in SUBSET Days} OBVIOUS
<1>4. unstored \in UNION {[D -> Write] : D \in SUBSET Days} OBVIOUS
<1> QED BY <1>1, <1>2, <1>3, <1>4 DEF Read

\* A read that does not move keeps what it stands on: the history grows, what is held stays
\* held, and time passes only as far as an answer may wait for its stamp.
LEMMA ReadStays ==
  ASSUME IInv, NEW r \in Readers, read'[r] = read[r], now' \in Nat, now <= now',
         IsStoring(r) => now' <= read[r].answered + MaxStoreTicks,
         \A k \in Keys : had[k] \subseteq had'[k],
         \A k \in Keys : Held(k) => Held(k)'
  PROVE  ReadOK(r)'
<1>0. ReadOK(r) /\ read[r].began \in Nat /\ read[r].answered \in Nat /\ now \in Nat /\ MaxStoreTicks \in Nat
  BY ReadTypes, Parameters DEF IInv
<1>1. IsStoring(r)' <=> IsStoring(r) BY DEF IsStoring
<1>2. ClockOK(r)' BY <1>0, <1>1 DEF ReadOK, ClockOK
<1>3. UnstoredOK(r)'
  <2>1. \A d \in DOMAIN read[r].unstored : read[r].unstored[d].key \in Keys
    BY ReadTypes DEF Write, NoDataKeys, Keys
  <2> QED BY <1>0, <1>1, <2>1 DEF ReadOK, UnstoredOK, AnsweredAt
<1>4. PhaseOK(r)' BY <1>0 DEF ReadOK, PhaseOK, OpenDays
<1>5. PaidOK(r)'
  <2>1. \A d \in read[r].fetched : RowsKey(d) \in Keys BY ReadTypes, KeyFacts
  <2>2. \A d \in read[r].fetched : Held(RowsKey(d)) => Held(RowsKey(d))' BY <2>1, Zenon DEF RowsKey
  <2> QED BY <1>0, <2>2 DEF ReadOK, PaidOK
<1>6. RecentOK(r)'
  <2> SUFFICES ASSUME NEW d \in Days, InRefreshWindow(d, Day(now'))
               PROVE  /\ d \in DOMAIN read[r].calendar =>
                           HadSince(CalendarKey(d), read[r].calendar[d], DayBegins(read[r].began))'
                      /\ d \in DOMAIN read[r].rows =>
                           HadSince(RowsKey(d), read[r].rows[d], DayBegins(read[r].began))'
    BY DEF RecentOK
  <2>1. d \in Nat /\ InRefreshWindow(d, Day(now)) BY <1>0, Parameters, WindowShrinks
  <2>2. CalendarKey(d) \in Keys /\ RowsKey(d) \in Keys BY KeyFacts
  <2> QED BY <1>0, <2>1, <2>2 DEF ReadOK, RecentOK, HadSince
<1>7. AbsentOK(r)'
  <2>1. Between(read[r].interval) \subseteq Days BY DEF Between
  <2>2. OpenDays(read[r].calendar) \subseteq Days BY ReadTypes DEF OpenDays
  <2>3. \A d \in Days : had[CalendarKey(d)] \subseteq had'[CalendarKey(d)] /\ had[RowsKey(d)] \subseteq had'[RowsKey(d)]
    BY KeyFacts
  <2>4. \A d \in Days : HadSince(CalendarKey(d), NoEntry, read[r].began) =>
                          HadSince(CalendarKey(d), NoEntry, read[r].began)'
    BY <2>3 DEF HadSince
  <2>5. \A d \in Days : HadSince(RowsKey(d), NoEntry, read[r].began - NoDataTTL - MaxStoreTicks) =>
                          HadSince(RowsKey(d), NoEntry, read[r].began - NoDataTTL - MaxStoreTicks)'
    BY <2>3 DEF HadSince
  <2> QED BY <1>0, <2>1, <2>2, <2>4, <2>5 DEF ReadOK, AbsentOK, OpenDays, Between
<1> QED BY <1>2, <1>3, <1>4, <1>5, <1>6, <1>7 DEF ReadOK

-----------------------------------------------------------------------------
(* Lookups and answers *)

\* An entry that is not stale, of a day in the window, was fetched today.
LEMMA HitOfToday ==
  ASSUME IInv, NEW k \in Keys, HitWithRows(k), InRefreshWindow(k[2], Day(now))
  PROVE  Day(now) <= Day(entry[k].fetched)
<1>1. entry[k] # NoEntry /\ entry[k].kind = "ROWS" /\ ~RowsStale(k[2], entry[k].fetched, now)
  BY DEF HitWithRows, IsHit, IsStale
<1>2. ~(Day(entry[k].fetched) < Day(now)) BY <1>1 DEF RowsStale
<1>3. entry[k].fetched \in Nat /\ now \in Nat BY <1>1 DEF IInv, TypeOK, Cache!Value
<1>4. Day(now) \in Nat /\ Day(entry[k].fetched) \in Nat BY <1>3, DayBound
<1> QED BY <1>2, <1>4

\* Rows found are rows the provider had; in the window they are of the day of the lookup.
LEMMA HitWasHad ==
  ASSUME IInv, NEW k \in Keys, HitWithRows(k)
  PROVE  /\ entry[k].payload \in ProviderHas(k) \ {NoEntry}
         /\ \A began \in Nat : began <= now /\ InRefreshWindow(k[2], Day(now)) =>
              HadSince(k, entry[k].payload, DayBegins(began))
<1>1. entry[k] # NoEntry /\ entry[k].kind = "ROWS" BY DEF HitWithRows, IsHit
<1>2. entry[k].fetched \in Nat /\ now \in Nat /\ entry[k].payload \in Payloads
  BY <1>1 DEF IInv, TypeOK, Cache!Value
<1>3. entry[k].payload \in ProviderHas(k)
  <2>1. entry[k].fetched - MaxStoreTicks \in Int BY <1>2, Parameters
  <2> QED BY <1>1, <2>1, EntryWasHad
<1>4. ASSUME NEW began \in Nat, began <= now, InRefreshWindow(k[2], Day(now))
      PROVE  HadSince(k, entry[k].payload, DayBegins(began))
  <2>1. Day(began) <= Day(now) /\ Day(now) <= Day(entry[k].fetched) BY <1>2, <1>4, HitOfToday, DayIsMonotone
  <2>2. Day(began) \in Nat /\ Day(now) \in Nat /\ Day(entry[k].fetched) \in Nat BY <1>2, DayBound
  <2>3. Day(began) <= Day(entry[k].fetched) BY <2>1, <2>2
  <2>4. DayBegins(began) <= entry[k].fetched - MaxStoreTicks /\ DayBegins(began) \in Int
    BY <1>2, <2>3, StampedThatDay
  <2> QED BY <1>1, <2>4, EntryWasHad
<1> QED BY <1>2, <1>3, <1>4, NoEntryIsNoRow

LEMMA CachedCalendar ==
  ASSUME IInv, NEW D \in SUBSET Days
  PROVE  LET c == Cached("trade_cal", D)
         IN  /\ c \in [DOMAIN c -> {"open", "closed"}] /\ DOMAIN c \subseteq D
             /\ \A d \in D : IsHit(CalendarKey(d)) => d \in DOMAIN c
             /\ \A began \in Nat : began <= now => \A d \in DOMAIN c : InRefreshWindow(d, Day(now)) =>
                  HadSince(CalendarKey(d), c[d], DayBegins(began))
<1> DEFINE c == Cached("trade_cal", D)
<1>1. DOMAIN c = {d \in D : HitWithRows(CalendarKey(d))} BY DEF Cached, CalendarKey
<1>2. \A d \in DOMAIN c : c[d] = entry[CalendarKey(d)].payload BY DEF Cached, CalendarKey
<1>3. \A d \in DOMAIN c : d \in Days /\ HitWithRows(CalendarKey(d)) BY <1>1
<1>4. \A d \in DOMAIN c : c[d] \in {"open", "closed"} BY <1>2, <1>3, HitWasHad, KeyFacts
<1>5. \A d \in D : IsHit(CalendarKey(d)) => d \in DOMAIN c
  <2> SUFFICES ASSUME NEW d \in D, IsHit(CalendarKey(d)) PROVE HitWithRows(CalendarKey(d)) BY <1>1
  <2>1. CalendarKey(d) \in Keys /\ CalendarKey(d) \notin NoDataKeys BY KeyFacts
  <2>2. entry[CalendarKey(d)] # NoEntry BY DEF IsHit
  <2> QED BY <2>1, <2>2 DEF IInv, MarkersOK, HitWithRows
<1>6. ASSUME NEW began \in Nat, began <= now, NEW d \in DOMAIN c, InRefreshWindow(d, Day(now))
      PROVE  HadSince(CalendarKey(d), c[d], DayBegins(began))
  <2>1. CalendarKey(d) \in Keys /\ CalendarKey(d)[2] = d /\ HitWithRows(CalendarKey(d)) BY <1>3, KeyFacts
  <2>2. HadSince(CalendarKey(d), entry[CalendarKey(d)].payload, DayBegins(began)) BY <1>6, <2>1, HitWasHad
  <2> QED BY <1>2, <2>2
<1>7. c = [d \in DOMAIN c |-> c[d]] BY DEF Cached
<1> QED BY <1>1, <1>4, <1>5, <1>6, <1>7

LEMMA CachedRows ==
  ASSUME IInv, NEW D \in SUBSET Days
  PROVE  LET c == Cached("rows", D)
         IN  /\ c \in [DOMAIN c -> Prices] /\ DOMAIN c \subseteq D
             /\ \A began \in Nat : began <= now => \A d \in DOMAIN c : InRefreshWindow(d, Day(now)) =>
                  HadSince(RowsKey(d), c[d], DayBegins(began))
<1> DEFINE c == Cached("rows", D)
<1>1. DOMAIN c = {d \in D : HitWithRows(RowsKey(d))} BY DEF Cached, RowsKey
<1>2. \A d \in DOMAIN c : c[d] = entry[RowsKey(d)].payload BY DEF Cached, RowsKey
<1>3. \A d \in DOMAIN c : d \in Days /\ HitWithRows(RowsKey(d)) BY <1>1
<1>4. \A d \in DOMAIN c : c[d] \in Prices BY <1>2, <1>3, HitWasHad, KeyFacts
<1>5. ASSUME NEW began \in Nat, began <= now, NEW d \in DOMAIN c, InRefreshWindow(d, Day(now))
      PROVE  HadSince(RowsKey(d), c[d], DayBegins(began))
  <2>1. RowsKey(d) \in Keys /\ RowsKey(d)[2] = d /\ HitWithRows(RowsKey(d)) BY <1>3, KeyFacts
  <2>2. HadSince(RowsKey(d), entry[RowsKey(d)].payload, DayBegins(began)) BY <1>5, <2>1, HitWasHad
  <2> QED BY <1>2, <2>2
<1>6. c = [d \in DOMAIN c |-> c[d]] BY DEF Cached
<1> QED BY <1>1, <1>4, <1>5, <1>6

\* A marker that suppresses a question is of a day that was absent within its time to live.
LEMMA SuppressedWasAbsent ==
  ASSUME IInv, NEW d \in Days, Suppressed(d), NEW began \in Nat, began <= now
  PROVE  HadSince(RowsKey(d), NoEntry, began - NoDataTTL - MaxStoreTicks)
<1> DEFINE k == RowsKey(d)
<1>1. k \in Keys BY KeyFacts
<1> HIDE DEF k
<1>2. entry[k] # NoEntry /\ entry[k].kind # "ROWS" /\ ~IsStale(entry[k].kind, k[2], entry[k].fetched, now)
  BY DEF Suppressed, IsHit, k
<1>3. entry[k] \in Cache!Value /\ now \in Nat BY <1>1, <1>2 DEF IInv, TypeOK
<1>4. entry[k].kind = "PROVISIONAL_NO_DATA" /\ entry[k].fetched \in Nat BY <1>2, <1>3 DEF Cache!Value
<1>5. ~(now - entry[k].fetched > NoDataTTL) BY <1>2, <1>4 DEF IsStale
<1>6. began - NoDataTTL - MaxStoreTicks \in Int
      /\ began - NoDataTTL - MaxStoreTicks <= entry[k].fetched - MaxStoreTicks
  BY <1>3, <1>4, <1>5, Parameters
<1>7. HadSince(k, NoEntry, began - NoDataTTL - MaxStoreTicks) BY <1>1, <1>2, <1>4, <1>6, EntryWasHad
<1> QED BY <1>7 DEF k

LEMMA ProvidedCalendar ==
  ASSUME IInv, NEW D \in SUBSET Days
  PROVE  LET a == Provided("trade_cal", D)
         IN  /\ a \in [DOMAIN a -> {"open", "closed"}]
             /\ DOMAIN a = {d \in D : world[CalendarKey(d)] # NoEntry}
             /\ \A d \in DOMAIN a : a[d] = world[CalendarKey(d)]
<1> DEFINE a == Provided("trade_cal", D)
<1>1. /\ DOMAIN a = {d \in D : world[CalendarKey(d)] # NoEntry}
      /\ \A d \in DOMAIN a : a[d] = world[CalendarKey(d)]
      /\ a = [d \in DOMAIN a |-> a[d]]
  BY DEF Provided, CalendarKey
<1>2. ASSUME NEW d \in DOMAIN a PROVE a[d] \in {"open", "closed"}
  <2>1. d \in Days /\ world[CalendarKey(d)] # NoEntry BY <1>1
  <2>2. now \in Int /\ now <= now BY DEF IInv, TypeOK
  <2>3. world[CalendarKey(d)] \in ProviderHas(CalendarKey(d)) BY <2>1, <2>2, KeyFacts, HadNow
  <2> QED BY <1>1, <2>1, <2>3, KeyFacts
<1> QED BY <1>1, <1>2

LEMMA ProvidedRows ==
  ASSUME IInv, NEW D \in SUBSET Days
  PROVE  LET a == Provided("rows", D)
         IN  /\ a \in [DOMAIN a -> Prices]
             /\ DOMAIN a = {d \in D : world[RowsKey(d)] # NoEntry}
             /\ \A d \in DOMAIN a : a[d] = world[RowsKey(d)]
<1> DEFINE a == Provided("rows", D)
<1>1. /\ DOMAIN a = {d \in D : world[RowsKey(d)] # NoEntry}
      /\ \A d \in DOMAIN a : a[d] = world[RowsKey(d)]
      /\ a = [d \in DOMAIN a |-> a[d]]
  BY DEF Provided, RowsKey
<1>2. ASSUME NEW d \in DOMAIN a PROVE a[d] \in Prices
  <2>1. d \in Days /\ world[RowsKey(d)] # NoEntry BY <1>1
  <2>2. now \in Int /\ now <= now BY DEF IInv, TypeOK
  <2>3. world[RowsKey(d)] \in ProviderHas(RowsKey(d)) BY <2>1, <2>2, KeyFacts, HadNow
  <2> QED BY <1>1, <2>1, <2>3, KeyFacts
<1> QED BY <1>1, <1>2

-----------------------------------------------------------------------------
(* The steps of a read that touch nothing else *)

Local(r) ==
  /\ UNCHANGED <<cacheVars, mode, queue, worldVars, lost>>
  /\ read' = [read EXCEPT ![r] = read'[r]]
  /\ ~IsStoring(r)

LEMMA LocalStep ==
  ASSUME IInv, NEW r \in Readers, Local(r), read'[r] \in Read, ReadOK(r)'
  PROVE  IInv'
<1>0. /\ UNCHANGED <<entry, request, now, mode, queue, world, had, changes, lost>>
      /\ read' = [read EXCEPT ![r] = read'[r]] /\ ~IsStoring(r)
  BY DEF Local, cacheVars, worldVars
<1>1. read \in [Readers -> Read] BY DEF IInv, TypeOK
<1>2. \A s \in Readers \ {r} : read'[s] = read[s] BY <1>0, <1>1
<1>3. read' \in [Readers -> Read] BY <1>0, <1>1
<1>4. TypeOK' BY <1>0, <1>3 DEF IInv, TypeOK
<1>5. HistoryOK' /\ MarkersOK' /\ EntriesAreAnswers'
  BY <1>0 DEF IInv, HistoryOK, MarkersOK, EntriesAreAnswers, Answered
<1>6. RequestsOK'
  <2>1. \A s \in Readers : request[s] # NoOp => s # r BY <1>0 DEF IInv, RequestsOK
  <2>2. \A s \in Readers \ {r} : (IsStoring(s)' <=> IsStoring(s)) /\ NextWrite(s)' = NextWrite(s)
    BY <1>2 DEF IsStoring, NextWrite
  <2>3. RequestsOK BY DEF IInv
  <2> QED BY <1>0, <2>1, <2>2, <2>3 DEF RequestsOK, Answered
<1>7. ASSUME NEW s \in Readers \ {r} PROVE ReadOK(s)'
  <2>1. now' \in Nat /\ now <= now' /\ (IsStoring(s) => now' <= read[s].answered + MaxStoreTicks)
    BY <1>0, ReadTypes DEF IInv, ReadOK, ClockOK
  <2>2. \A k \in Keys : had[k] \subseteq had'[k] /\ (Held(k) => Held(k)') BY <1>0 DEF Held
  <2> QED BY <1>2, <2>1, <2>2, ReadStays
<1> QED BY <1>4, <1>5, <1>6, <1>7 DEF IInv

LEMMA BeginKeeps ==
  ASSUME IInv, NEW r \in Readers, NEW q \in Wanted[r], Begin(r, q)
  PROVE  IInv'
<1>1. q.interval \in Days \X Days /\ q.rows \in BOOLEAN BY ReadAssumption DEF ReadAssumption
<1>2. read \in [Readers -> Read] /\ now \in 0..MaxTime BY DEF IInv, TypeOK
<1>3. read'[r] = [Idle EXCEPT !.pc = "lookupDays", !.interval = q.interval, !.wantsRows = q.rows, !.began = now]
  BY <1>2 DEF Begin, Set
<1>4. DOMAIN Nothing = {} BY DEF Nothing
<1>5. /\ read'[r].pc = "lookupDays" /\ read'[r].interval = q.interval /\ read'[r].wantsRows = q.rows
      /\ read'[r].began = now /\ read'[r].answered = 0 /\ read'[r].calendar = Nothing /\ read'[r].rows = Nothing
      /\ read'[r].fetched = {} /\ read'[r].todo = {} /\ read'[r].unstored = Nothing
  BY <1>3 DEF Idle
<1>6. read'[r] \in Read
  <2>1. Nothing \in [{} -> {"open", "closed"}] /\ Nothing \in [{} -> Prices] /\ Nothing \in [{} -> Write]
    BY <1>4 DEF Nothing
  <2>2. {} \in SUBSET Days OBVIOUS
  <2>3. /\ Nothing \in UNION {[D -> {"open", "closed"}] : D \in SUBSET Days}
        /\ Nothing \in UNION {[D -> Prices] : D \in SUBSET Days}
        /\ Nothing \in UNION {[D -> Write] : D \in SUBSET Days}
    BY <2>1, <2>2
  <2>4. 0 \in 0..MaxTime BY Parameters
  <2>5. read'[r] = [pc |-> "lookupDays", interval |-> q.interval, wantsRows |-> q.rows, began |-> now,
                    answered |-> 0, calendar |-> Nothing, rows |-> Nothing, fetched |-> {}, todo |-> {},
                    unstored |-> Nothing]
    BY <1>3 DEF Idle
  <2> HIDE DEF Nothing
  <2> QED BY <1>1, <1>2, <2>2, <2>3, <2>4, <2>5 DEF Read
<1>7. Local(r) /\ now' = now
  <2>1. ~IsStoring(r) BY DEF Begin, IsStoring
  <2>2. read' = [read EXCEPT ![r] = read'[r]] BY <1>2, <1>3 DEF Begin, Set
  <2> QED BY <2>1, <2>2 DEF Begin, Local, cacheVars
<1>8. ReadOK(r)'
  BY <1>2, <1>4, <1>5, <1>7, Parameters
     DEF ReadOK, ClockOK, UnstoredOK, PhaseOK, PaidOK, RecentOK, AbsentOK, IsStoring
<1> QED BY <1>6, <1>7, <1>8, LocalStep

\* Only the calendar and the place a read is at change.
LEMMA LookupDaysKeeps ==
  ASSUME IInv, NEW r \in Readers, LookupDays(r)
  PROVE  IInv'
<1> DEFINE D == Between(read[r].interval)
           cached == Cached("trade_cal", D)
           next == IF \A d \in D : IsHit(CalendarKey(d)) THEN AfterCalendar(r, cached) ELSE "askDays"
<1>1. D \in SUBSET Days BY DEF Between
<1>2. read \in [Readers -> Read] /\ read[r].pc = "lookupDays" BY DEF IInv, TypeOK, LookupDays
<1>3. read'[r] = [read[r] EXCEPT !.calendar = cached, !.pc = next] BY <1>2 DEF LookupDays, Set
<1>4. /\ cached \in [DOMAIN cached -> {"open", "closed"}] /\ DOMAIN cached \subseteq D
      /\ \A d \in D : IsHit(CalendarKey(d)) => d \in DOMAIN cached
      /\ \A began \in Nat : began <= now => \A d \in DOMAIN cached : InRefreshWindow(d, Day(now)) =>
           HadSince(CalendarKey(d), cached[d], DayBegins(began))
  BY <1>1, CachedCalendar
<1>5. next \in {"askDays", "done", "failed", "lookupRows"}
      /\ (next # "askDays" => \A d \in D : IsHit(CalendarKey(d)))
      /\ (next = "done" => ~read[r].wantsRows)
  <2>1. read[r].wantsRows \in BOOLEAN BY ReadTypes
  <2> QED BY <2>1 DEF AfterCalendar
<1>6. Local(r) /\ UNCHANGED <<cacheVars, queue, worldVars, lost>>
  <2>1. ~IsStoring(r) BY <1>2 DEF IsStoring
  <2>2. read' = [read EXCEPT ![r] = read'[r]] BY <1>2, <1>3 DEF LookupDays, Set
  <2> QED BY <2>1, <2>2 DEF LookupDays, Local
<1> HIDE DEF next, cached
<1>7. /\ read'[r].pc = next /\ read'[r].calendar = cached
      /\ read'[r].interval = read[r].interval /\ read'[r].wantsRows = read[r].wantsRows
      /\ read'[r].began = read[r].began /\ read'[r].answered = read[r].answered /\ read'[r].rows = read[r].rows
      /\ read'[r].fetched = read[r].fetched /\ read'[r].todo = read[r].todo /\ read'[r].unstored = read[r].unstored
  BY <1>2, <1>3 DEF Read
<1>8. read'[r] \in Read
  <2>1. cached \in UNION {[E -> {"open", "closed"}] : E \in SUBSET Days} BY <1>1, <1>4
  <2> QED BY <1>2, <1>3, <1>5, <2>1 DEF Read
<1>9. ReadOK(r)'
  <2>0. /\ UNCHANGED <<entry, now, queue, had, lost>> /\ ReadOK(r)
        /\ read[r].fetched = {} /\ read[r].todo = {} /\ DOMAIN read[r].unstored = {}
    BY <1>2, <1>6 DEF cacheVars, worldVars, IInv, ReadOK, PhaseOK, UnstoredOK, IsStoring
  <2>1. ClockOK(r)' /\ UnstoredOK(r)' /\ PhaseOK(r)' /\ PaidOK(r)'
    BY <1>5, <1>7, <2>0 DEF ReadOK, ClockOK, UnstoredOK, PhaseOK, PaidOK, IsStoring
  <2>2. RecentOK(r)'
    <3>1. read[r].began \in Nat /\ read[r].began <= now BY <2>0, ReadTypes DEF ReadOK, ClockOK
    <3>2. \A d \in DOMAIN cached : InRefreshWindow(d, Day(now)) =>
            HadSince(CalendarKey(d), cached[d], DayBegins(read[r].began))
      BY <1>4, <3>1
    <3>3. RecentOK(r) BY <2>0 DEF ReadOK
    <3> QED BY <1>7, <2>0, <3>2, <3>3 DEF RecentOK, HadSince
  <2>3. AbsentOK(r)'
    <3>1. next \in {"storeDays", "lookupRows", "askRows", "storeRows", "done"} => D \ DOMAIN cached = {}
      BY <1>4, <1>5
    <3> QED BY <1>5, <1>7, <3>1 DEF AbsentOK
  <2> QED BY <2>1, <2>2, <2>3 DEF ReadOK
<1> QED BY <1>6, <1>8, <1>9, LocalStep

\* What the provider answers may be written, and was had by it now.
LEMMA AnswerWritten ==
  ASSUME IInv, NEW k \in Keys, NEW w,
         \/ w = [key |-> k, kind |-> "ROWS", payload |-> world[k]] /\ world[k] # NoEntry
         \/ /\ w = [key |-> k, kind |-> "PROVISIONAL_NO_DATA", payload |-> NoData]
            /\ k \in NoDataKeys /\ world[k] = NoEntry
  PROVE  w \in Write /\ w.key = k /\ AnsweredAt(w, now)
<1>1. <<world[k], now>> \in had[k] BY DEF IInv, HistoryOK
<1>2. world[k] \in ProviderHas(k)
  <2>1. now \in Int /\ now <= now BY DEF IInv, TypeOK
  <2> QED BY <2>1, HadNow
<1>3. ProviderHas(k) \subseteq Payloads \cup {NoEntry} BY DEF ProviderHas, Payloads
<1>4. CASE w = [key |-> k, kind |-> "ROWS", payload |-> world[k]] /\ world[k] # NoEntry
  BY <1>1, <1>2, <1>3, <1>4 DEF Write, AnsweredAt
<1>5. CASE /\ w = [key |-> k, kind |-> "PROVISIONAL_NO_DATA", payload |-> NoData]
           /\ k \in NoDataKeys /\ world[k] = NoEntry
  BY <1>1, <1>5 DEF Write, AnsweredAt
<1> QED BY <1>4, <1>5

LEMMA AskDaysKeeps ==
  ASSUME IInv, NEW r \in Readers, AskDays(r)
  PROVE  IInv'
<1> DEFINE D == Between(read[r].interval)
           answer == Provided("trade_cal", D)
           calendar == Updated(read[r].calendar, answer)
           writes == RowWrites("trade_cal", answer)
<1>1. D \in SUBSET Days BY DEF Between
<1>2. read \in [Readers -> Read] /\ read[r].pc = "askDays" /\ DOMAIN answer # {} BY DEF IInv, TypeOK, AskDays
<1>3. read'[r] = [read[r] EXCEPT !.pc = "storeDays", !.answered = now, !.calendar = calendar, !.unstored = writes]
  BY <1>2 DEF AskDays, Set
<1>4. /\ answer \in [DOMAIN answer -> {"open", "closed"}]
      /\ DOMAIN answer = {d \in D : world[CalendarKey(d)] # NoEntry}
      /\ \A d \in DOMAIN answer : answer[d] = world[CalendarKey(d)]
  BY <1>1, ProvidedCalendar
<1>5. Local(r) /\ UNCHANGED <<cacheVars, queue, worldVars, lost>>
  <2>1. ~IsStoring(r) BY <1>2 DEF IsStoring
  <2>2. read' = [read EXCEPT ![r] = read'[r]] BY <1>2, <1>3 DEF AskDays, Set
  <2> QED BY <2>1, <2>2 DEF AskDays, Local
<1> HIDE DEF answer
<1>6. /\ DOMAIN calendar = DOMAIN read[r].calendar \cup DOMAIN answer
      /\ \A d \in DOMAIN calendar : calendar[d] = IF d \in DOMAIN answer THEN answer[d] ELSE read[r].calendar[d]
      /\ calendar = [d \in DOMAIN calendar |-> calendar[d]]
  BY DEF Updated
<1>7. DOMAIN writes = DOMAIN answer /\ writes = [d \in DOMAIN writes |-> writes[d]]
      /\ \A d \in DOMAIN writes : writes[d] = [key |-> CalendarKey(d), kind |-> "ROWS", payload |-> answer[d]]
  BY DEF RowWrites, RowWrite, CalendarKey
<1> HIDE DEF calendar, writes, D
<1>8. \A d \in DOMAIN writes : writes[d] \in Write /\ AnsweredAt(writes[d], now)
  <2> SUFFICES ASSUME NEW d \in DOMAIN writes PROVE writes[d] \in Write /\ AnsweredAt(writes[d], now) OBVIOUS
  <2> DEFINE w == writes[d]
  <2>1. w = [key |-> CalendarKey(d), kind |-> "ROWS", payload |-> world[CalendarKey(d)]]
        /\ world[CalendarKey(d)] # NoEntry /\ d \in Days
    BY <1>1, <1>4, <1>7
  <2>2. CalendarKey(d) \in Keys BY <2>1, KeyFacts
  <2> HIDE DEF w
  <2>3. w \in Write /\ AnsweredAt(w, now) BY <2>1, <2>2, AnswerWritten
  <2> QED BY <2>3 DEF w
<1>9. /\ read'[r].pc = "storeDays" /\ read'[r].calendar = calendar /\ read'[r].answered = now
      /\ read'[r].interval = read[r].interval /\ read'[r].wantsRows = read[r].wantsRows
      /\ read'[r].began = read[r].began /\ read'[r].rows = read[r].rows
      /\ read'[r].fetched = read[r].fetched /\ read'[r].todo = read[r].todo /\ read'[r].unstored = writes
  BY <1>2, <1>3 DEF Read
<1>10. read'[r] \in Read
  <2>1. calendar \in [DOMAIN calendar -> {"open", "closed"}] /\ DOMAIN calendar \subseteq Days
    BY <1>1, <1>4, <1>6, ReadTypes
  <2>2. calendar \in UNION {[E -> {"open", "closed"}] : E \in SUBSET Days} BY <2>1
  <2>3. writes \in UNION {[E -> Write] : E \in SUBSET Days} BY <1>1, <1>4, <1>7, <1>8
  <2>4. now \in 0..MaxTime BY DEF IInv, TypeOK
  <2>5. read[r] \in Read BY <1>2
  <2>6. /\ read[r].interval \in (Days \X Days) \cup {<<0, 0>>} /\ read[r].wantsRows \in BOOLEAN
        /\ read[r].began \in 0..MaxTime /\ read[r].rows \in UNION {[E -> Prices] : E \in SUBSET Days}
        /\ read[r].fetched \in SUBSET Days /\ read[r].todo \in SUBSET Days
    BY <2>5 DEF Read
  <2>7. read'[r] = [pc |-> "storeDays", interval |-> read[r].interval, wantsRows |-> read[r].wantsRows,
                    began |-> read[r].began, answered |-> now, calendar |-> calendar, rows |-> read[r].rows,
                    fetched |-> read[r].fetched, todo |-> read[r].todo, unstored |-> writes]
    BY <1>3, <2>5 DEF Read
  <2> QED BY <2>2, <2>3, <2>4, <2>6, <2>7 DEF Read
<1>11. ReadOK(r)'
  <2>0. /\ UNCHANGED <<entry, now, queue, had, lost>> /\ ReadOK(r)
        /\ read[r].fetched = {} /\ read[r].todo = {} /\ read[r].began \in Nat /\ now \in Nat
        /\ read[r].began <= now
    BY <1>2, <1>5, ReadTypes DEF cacheVars, worldVars, IInv, ReadOK, PhaseOK, ClockOK
  <2>1. ClockOK(r)' /\ PhaseOK(r)' /\ PaidOK(r)'
    BY <1>9, <2>0, Parameters DEF ReadOK, ClockOK, PhaseOK, PaidOK
  <2>2. UnstoredOK(r)'
    BY <1>2, <1>7, <1>8, <1>9, <2>0 DEF UnstoredOK, IsStoring, AnsweredAt
  <2>3. \A d \in Days : /\ HadSince(CalendarKey(d), world[CalendarKey(d)], DayBegins(read[r].began))
                        /\ HadSince(CalendarKey(d), world[CalendarKey(d)], read[r].began)
    BY <2>0, KeyFacts, HadNow, NowIsLater
  <2>4. RecentOK(r)'
    <3>1. RecentOK(r) BY <2>0 DEF ReadOK
    <3>2. \A d \in DOMAIN answer : d \in Days BY <1>1, <1>4
    <3> QED BY <1>4, <1>6, <1>9, <2>0, <2>3, <3>1, <3>2 DEF RecentOK, HadSince
  <2>5. AbsentOK(r)'
    <3>1. \A d \in D \ DOMAIN calendar : world[CalendarKey(d)] = NoEntry /\ d \in Days BY <1>1, <1>4, <1>6
    <3>2. \A d \in D \ DOMAIN calendar : HadSince(CalendarKey(d), NoEntry, read[r].began)
      <4> SUFFICES ASSUME NEW d \in D \ DOMAIN calendar PROVE HadSince(CalendarKey(d), NoEntry, read[r].began)
        OBVIOUS
      <4>1. world[CalendarKey(d)] = NoEntry /\ HadSince(CalendarKey(d), world[CalendarKey(d)], read[r].began)
        BY <2>3, <3>1
      <4> QED BY <4>1
    <3> QED BY <1>9, <2>0, <3>2 DEF AbsentOK, HadSince, D
  <2> QED BY <2>1, <2>2, <2>4, <2>5 DEF ReadOK
<1> QED BY <1>5, <1>10, <1>11, LocalStep

LEMMA LookupRowsKeeps ==
  ASSUME IInv, NEW r \in Readers, LookupRows(r)
  PROVE  IInv'
<1> DEFINE D == OpenDays(read[r].calendar)
           cached == Cached("rows", D)
           missing == {d \in D : d \notin DOMAIN cached /\ ~Suppressed(d)}
           next == IF missing = {} THEN "done" ELSE "askRows"
<1>1. D \in SUBSET Days BY ReadTypes DEF OpenDays
<1>2. read \in [Readers -> Read] /\ read[r].pc = "lookupRows" BY DEF IInv, TypeOK, LookupRows
<1>3. read'[r] = [read[r] EXCEPT !.rows = cached, !.todo = missing, !.pc = next] BY <1>2 DEF LookupRows, Set
<1>4. /\ cached \in [DOMAIN cached -> Prices] /\ DOMAIN cached \subseteq D
      /\ \A began \in Nat : began <= now => \A d \in DOMAIN cached : InRefreshWindow(d, Day(now)) =>
           HadSince(RowsKey(d), cached[d], DayBegins(began))
  BY <1>1, CachedRows
<1>5. Local(r) /\ UNCHANGED <<cacheVars, queue, worldVars, lost>>
  <2>1. ~IsStoring(r) BY <1>2 DEF IsStoring
  <2>2. read' = [read EXCEPT ![r] = read'[r]] BY <1>2, <1>3 DEF LookupRows, Set
  <2> QED BY <2>1, <2>2 DEF LookupRows, Local
<1> HIDE DEF cached
<1>6. /\ missing \subseteq D /\ missing \cap DOMAIN cached = {}
      /\ \A d \in (D \ DOMAIN cached) \ missing : Suppressed(d)
      /\ next \in {"done", "askRows"} /\ (next = "done" <=> missing = {})
  OBVIOUS
<1> HIDE DEF missing, next
<1>7. /\ read'[r].pc = next /\ read'[r].rows = cached /\ read'[r].todo = missing
      /\ read'[r].interval = read[r].interval /\ read'[r].wantsRows = read[r].wantsRows
      /\ read'[r].began = read[r].began /\ read'[r].answered = read[r].answered
      /\ read'[r].calendar = read[r].calendar
      /\ read'[r].fetched = read[r].fetched /\ read'[r].unstored = read[r].unstored
  BY <1>2, <1>3 DEF Read
<1>8. read'[r] \in Read
  <2>1. cached \in UNION {[E -> Prices] : E \in SUBSET Days} BY <1>1, <1>4
  <2>2. missing \in SUBSET Days BY <1>1, <1>6
  <2> HIDE DEF D
  <2> QED BY <1>2, <1>3, <1>6, <2>1, <2>2 DEF Read
<1>9. ReadOK(r)'
  <2>0. /\ UNCHANGED <<entry, now, queue, had, lost>> /\ ReadOK(r)
        /\ read[r].fetched = {} /\ DOMAIN read[r].unstored = {} /\ read[r].began \in Nat /\ read[r].began <= now
    BY <1>2, <1>5, ReadTypes DEF cacheVars, worldVars, IInv, ReadOK, PhaseOK, UnstoredOK, ClockOK, IsStoring
  <2>1. ClockOK(r)' /\ UnstoredOK(r)' /\ PhaseOK(r)' /\ PaidOK(r)'
    BY <1>6, <1>7, <2>0 DEF ReadOK, ClockOK, UnstoredOK, PhaseOK, PaidOK, IsStoring
  <2>2. RecentOK(r)'
    <3>1. \A d \in DOMAIN cached : InRefreshWindow(d, Day(now)) =>
            HadSince(RowsKey(d), cached[d], DayBegins(read[r].began))
      BY <1>4, <2>0
    <3>2. RecentOK(r) BY <2>0 DEF ReadOK
    <3> QED BY <1>7, <2>0, <3>1, <3>2 DEF RecentOK, HadSince
  <2>3. AbsentOK(r)'
    <3>1. AbsentOK(r) BY <2>0 DEF ReadOK
    <3>2. \A d \in (D \ DOMAIN cached) \ missing :
            HadSince(RowsKey(d), NoEntry, read[r].began - NoDataTTL - MaxStoreTicks)
      BY <1>1, <1>6, <2>0, SuppressedWasAbsent
    <3>3. OpenDays(read[r].calendar)' = D BY <1>7 DEF OpenDays
    <3>4. \A d \in Between(read[r].interval) \ DOMAIN read[r].calendar :
            HadSince(CalendarKey(d), NoEntry, read[r].began)
      BY <1>2, <3>1 DEF AbsentOK
    <3> HIDE DEF D
    <3> QED BY <1>7, <2>0, <3>2, <3>3, <3>4 DEF AbsentOK, HadSince
  <2> QED BY <2>1, <2>2, <2>3 DEF ReadOK
<1> QED BY <1>5, <1>8, <1>9, LocalStep

LEMMA RunFacts ==
  ASSUME NEW D \in SUBSET Days, D # {}
  PROVE  FirstRun(D) \subseteq D /\ FirstRun(D) # {}
<1>1. D \in SUBSET Nat BY Parameters
<1>2. Min(D) \in D /\ Min(D) \in Nat BY <1>1, LeastElement
<1> DEFINE m == Min(D)
<1>3. m \in Nat /\ m \in D BY <1>2
<1> HIDE DEF m
<1>4. m..m = {m} BY <1>3
<1>5. m \in {d \in D : m..d \subseteq D} BY <1>3, <1>4
<1> QED BY <1>5 DEF FirstRun, m

LEMMA AskRowsKeeps ==
  ASSUME IInv, NEW r \in Readers, AskRows(r)
  PROVE  IInv'
<1> DEFINE run == FirstRun(read[r].todo)
           answer == Provided("rows", run)
           rows == Updated(read[r].rows, answer)
           markers == NoDataWrites(run)
           rowWrites == RowWrites("rows", answer)
           writes == Updated(markers, rowWrites)
<1>0. read \in [Readers -> Read] /\ read[r].pc = "askRows" /\ ReadOK(r) /\ read[r].todo # {}
  BY DEF IInv, TypeOK, AskRows, ReadOK, PhaseOK
<1>1. run \subseteq read[r].todo /\ run # {} /\ run \in SUBSET Days /\ read[r].todo \subseteq Days
  BY <1>0, ReadTypes, RunFacts
<1>2. read'[r] = [read[r] EXCEPT !.pc = "storeRows", !.answered = now, !.todo = read[r].todo \ run,
                                 !.rows = rows, !.fetched = read[r].fetched \cup DOMAIN answer,
                                 !.unstored = writes]
  <2>1. read'[r] = [read[r] EXCEPT !.pc = "storeRows", !.answered = now, !.todo = @ \ run,
                                   !.rows = Updated(@, answer), !.fetched = @ \cup DOMAIN answer,
                                   !.unstored = writes]
    BY <1>0 DEF AskRows, Set
  <2> HIDE DEF run, answer, writes
  <2>2. read[r] \in Read BY <1>0
  <2> QED BY <2>1, <2>2 DEF Read
<1>3. /\ answer \in [DOMAIN answer -> Prices]
      /\ DOMAIN answer = {d \in run : world[RowsKey(d)] # NoEntry}
      /\ \A d \in DOMAIN answer : answer[d] = world[RowsKey(d)]
  BY <1>1, ProvidedRows
<1>4. Local(r) /\ UNCHANGED <<cacheVars, queue, worldVars, lost>>
  <2>1. ~IsStoring(r) BY <1>0 DEF IsStoring
  <2>2. UNCHANGED <<cacheVars, mode, queue, worldVars, lost>> BY DEF AskRows
  <2>3. \E v : read' = [read EXCEPT ![r] = v] BY DEF AskRows, Set
  <2>4. read' = [read EXCEPT ![r] = read'[r]] BY <1>0, <2>3
  <2> QED BY <2>1, <2>2, <2>4 DEF Local
<1> HIDE DEF run, answer
<1>5. /\ DOMAIN rows = DOMAIN read[r].rows \cup DOMAIN answer
      /\ \A d \in DOMAIN rows : rows[d] = IF d \in DOMAIN answer THEN answer[d] ELSE read[r].rows[d]
      /\ rows = [d \in DOMAIN rows |-> rows[d]]
  BY DEF Updated
<1>6. /\ DOMAIN markers = run /\ DOMAIN rowWrites = DOMAIN answer
      /\ \A d \in run : markers[d] = [key |-> RowsKey(d), kind |-> "PROVISIONAL_NO_DATA", payload |-> NoData]
      /\ \A d \in DOMAIN answer : rowWrites[d] = [key |-> RowsKey(d), kind |-> "ROWS", payload |-> answer[d]]
  BY DEF NoDataWrites, NoDataWrite, RowWrites, RowWrite, RowsKey
<1> HIDE DEF markers, rowWrites
<1>7. /\ DOMAIN writes = run /\ writes = [d \in DOMAIN writes |-> writes[d]]
      /\ \A d \in DOMAIN writes : writes[d] = IF d \in DOMAIN answer THEN rowWrites[d] ELSE markers[d]
  BY <1>3, <1>6 DEF Updated
<1> HIDE DEF rows, writes
<1>8. \A d \in run : writes[d] \in Write /\ writes[d].key = RowsKey(d) /\ AnsweredAt(writes[d], now)
  <2> SUFFICES ASSUME NEW d \in run
               PROVE  writes[d] \in Write /\ writes[d].key = RowsKey(d) /\ AnsweredAt(writes[d], now)
    OBVIOUS
  <2> DEFINE w == writes[d]
  <2>1. \/ w = [key |-> RowsKey(d), kind |-> "ROWS", payload |-> world[RowsKey(d)]] /\ world[RowsKey(d)] # NoEntry
        \/ /\ w = [key |-> RowsKey(d), kind |-> "PROVISIONAL_NO_DATA", payload |-> NoData]
           /\ world[RowsKey(d)] = NoEntry
    BY <1>3, <1>6, <1>7
  <2>2. RowsKey(d) \in Keys /\ RowsKey(d) \in NoDataKeys BY <1>1, KeyFacts
  <2> HIDE DEF w
  <2>3. w \in Write /\ w.key = RowsKey(d) /\ AnsweredAt(w, now) BY <2>1, <2>2, AnswerWritten
  <2> QED BY <2>3 DEF w
<1>t. read[r] \in Read /\ now \in 0..MaxTime BY <1>0 DEF IInv, TypeOK
<1>9. /\ read'[r].pc = "storeRows" /\ read'[r].rows = rows /\ read'[r].answered = now
      /\ read'[r].interval = read[r].interval /\ read'[r].wantsRows = read[r].wantsRows
      /\ read'[r].began = read[r].began /\ read'[r].calendar = read[r].calendar
      /\ read'[r].fetched = read[r].fetched \cup DOMAIN answer /\ read'[r].todo = read[r].todo \ run
      /\ read'[r].unstored = writes
  BY <1>t, <1>2 DEF Read
<1>10. read'[r] \in Read
  <2>1. rows \in [DOMAIN rows -> Prices] /\ DOMAIN rows \subseteq Days
    BY <1>1, <1>3, <1>5, ReadTypes
  <2>2. rows \in UNION {[E -> Prices] : E \in SUBSET Days} BY <2>1
  <2>3. writes \in UNION {[E -> Write] : E \in SUBSET Days} BY <1>1, <1>7, <1>8
  <2>4. /\ read[r].interval \in (Days \X Days) \cup {<<0, 0>>} /\ read[r].wantsRows \in BOOLEAN
        /\ read[r].began \in 0..MaxTime /\ read[r].calendar \in UNION {[E -> {"open", "closed"}] : E \in SUBSET Days}
        /\ read[r].fetched \cup DOMAIN answer \in SUBSET Days /\ read[r].todo \ run \in SUBSET Days
    BY <1>t, <1>1, <1>3 DEF Read
  <2>5. read'[r] = [pc |-> "storeRows", interval |-> read[r].interval, wantsRows |-> read[r].wantsRows,
                    began |-> read[r].began, answered |-> now, calendar |-> read[r].calendar, rows |-> rows,
                    fetched |-> read[r].fetched \cup DOMAIN answer, todo |-> read[r].todo \ run,
                    unstored |-> writes]
    BY <1>2, <1>t DEF Read
  <2> QED BY <1>t, <2>2, <2>3, <2>4, <2>5 DEF Read
<1>11. ReadOK(r)'
  <2>0. /\ UNCHANGED <<entry, now, queue, had, lost>>
        /\ read[r].began \in Nat /\ now \in Nat /\ read[r].began <= now
    BY <1>0, <1>4, ReadTypes DEF cacheVars, worldVars, ReadOK, ClockOK
  <2>1. ClockOK(r)' BY <1>9, <2>0, Parameters DEF ClockOK
  <2>2. UnstoredOK(r)' BY <1>1, <1>7, <1>8, <1>9, <2>0 DEF UnstoredOK, IsStoring, AnsweredAt
  <2>3. PhaseOK(r)'
    <3>1. read[r].todo \subseteq OpenDays(read[r].calendar) /\ read[r].todo \cap DOMAIN read[r].rows = {}
      BY <1>0 DEF ReadOK, PhaseOK
    <3>2. DOMAIN answer \subseteq run BY <1>3
    <3> QED BY <1>5, <1>9, <3>1, <3>2 DEF PhaseOK, OpenDays
  <2>4. PaidOK(r)'
    <3>1. DOMAIN read[r].unstored = {} BY <1>0 DEF ReadOK, UnstoredOK, IsStoring
    <3>2. \A d \in read[r].fetched : Held(RowsKey(d)) BY <1>0, <3>1 DEF ReadOK, PaidOK
    <3>3. \A d \in read[r].fetched : Held(RowsKey(d))' BY <2>0, <3>2 DEF Held, RowsKey
    <3>4. \A d \in DOMAIN answer : d \in DOMAIN writes /\ writes[d].key = RowsKey(d) BY <1>3, <1>7, <1>8
    <3> QED BY <1>9, <3>3, <3>4 DEF PaidOK, RowsKey
  <2>5. \A d \in Days :
          /\ HadSince(RowsKey(d), world[RowsKey(d)], DayBegins(read[r].began))
          /\ HadSince(RowsKey(d), world[RowsKey(d)], read[r].began - NoDataTTL - MaxStoreTicks)
    <3>1. read[r].began - NoDataTTL - MaxStoreTicks \in Int /\ read[r].began - NoDataTTL - MaxStoreTicks <= now
      BY <2>0, Parameters
    <3> QED BY <2>0, <3>1, KeyFacts, HadNow, NowIsLater
  <2>6. RecentOK(r)'
    <3>1. RecentOK(r) BY <1>0 DEF ReadOK
    <3>2. \A d \in DOMAIN answer : d \in Days BY <1>1, <1>3
    <3> QED BY <1>3, <1>5, <1>9, <2>0, <2>5, <3>1, <3>2 DEF RecentOK, HadSince
  <2>7. AbsentOK(r)'
    <3> DEFINE open == OpenDays(read[r].calendar)
    <3>1. AbsentOK(r) BY <1>0 DEF ReadOK
    <3>2. \A d \in Between(read[r].interval) \ DOMAIN read[r].calendar :
            HadSince(CalendarKey(d), NoEntry, read[r].began)
      BY <1>0, <3>1 DEF AbsentOK
    <3>3. \A d \in (open \ DOMAIN read[r].rows) \ read[r].todo :
            HadSince(RowsKey(d), NoEntry, read[r].began - NoDataTTL - MaxStoreTicks)
      BY <1>0, <3>1 DEF AbsentOK
    <3>4. ASSUME NEW d \in (open \ DOMAIN rows) \ (read[r].todo \ run)
          PROVE  HadSince(RowsKey(d), NoEntry, read[r].began - NoDataTTL - MaxStoreTicks)
      <4>1. CASE d \notin read[r].todo BY <1>5, <3>3, <4>1
      <4>2. CASE d \in run
        <5>1. world[RowsKey(d)] = NoEntry BY <1>3, <1>5, <4>2
        <5>2. HadSince(RowsKey(d), world[RowsKey(d)], read[r].began - NoDataTTL - MaxStoreTicks)
          BY <1>1, <2>5, <4>2
        <5> QED BY <5>1, <5>2
      <4> QED BY <3>4, <4>1, <4>2
    <3>5. OpenDays(read[r].calendar)' = open BY <1>9 DEF OpenDays
    <3> HIDE DEF open
    <3> QED BY <1>9, <2>0, <3>2, <3>4, <3>5 DEF AbsentOK, HadSince
  <2> QED BY <2>1, <2>2, <2>3, <2>4, <2>6, <2>7 DEF ReadOK
<1> QED BY <1>4, <1>10, <1>11, LocalStep

\* The provider raises, or the write does: only the place the read is at changes.
LEMMA ProviderRaisesKeeps ==
  ASSUME IInv, NEW r \in Readers, ProviderRaises(r)
  PROVE  IInv'
<1>0. read \in [Readers -> Read] /\ read[r].pc \in {"askDays", "askRows"} /\ ReadOK(r) /\ read[r] \in Read
  BY DEF IInv, TypeOK, ProviderRaises
<1>1. read'[r] = [read[r] EXCEPT !.pc = "failed"] BY <1>0 DEF ProviderRaises, Set
<1>2. Local(r) /\ UNCHANGED <<cacheVars, queue, worldVars, lost>>
  <2>1. ~IsStoring(r) BY <1>0 DEF IsStoring
  <2>2. read' = [read EXCEPT ![r] = read'[r]] BY <1>0, <1>1 DEF ProviderRaises, Set
  <2> QED BY <2>1, <2>2 DEF ProviderRaises, Local
<1>3. /\ read'[r].pc = "failed" /\ read'[r].calendar = read[r].calendar /\ read'[r].rows = read[r].rows
      /\ read'[r].began = read[r].began /\ read'[r].fetched = read[r].fetched
      /\ read'[r].unstored = read[r].unstored
  BY <1>0, <1>1 DEF Read
<1>4. read'[r] \in Read BY <1>0, <1>1 DEF Read
<1>5. ReadOK(r)'
  BY <1>0, <1>2, <1>3
     DEF ReadOK, ClockOK, UnstoredOK, PhaseOK, PaidOK, RecentOK, AbsentOK, IsStoring, Held, HadSince,
         cacheVars, worldVars
<1> QED BY <1>2, <1>4, <1>5, LocalStep

-----------------------------------------------------------------------------
(* Handing a write over *)

EntriesOK ==
  \A k \in Keys : entry[k] # NoEntry =>
    Answered([key |-> k, kind |-> entry[k].kind, payload |-> entry[k].payload, fetched |-> entry[k].fetched])

QueueOK == \A i \in DOMAIN queue : Answered(queue[i])

LEMMA NextWriteFacts ==
  ASSUME IInv, NEW r \in Readers, IsStoring(r)
  PROVE  /\ NextDay(read[r].unstored) \in DOMAIN read[r].unstored
         /\ NextWrite(r) = read[r].unstored[NextDay(read[r].unstored)]
         /\ NextWrite(r) \in Write /\ NextWrite(r).key \in Keys
         /\ AnsweredAt(NextWrite(r), read[r].answered)
<1> DEFINE writes == read[r].unstored
           rows == {d \in DOMAIN writes : writes[d].kind = "ROWS"}
           chosen == IF rows = {} THEN DOMAIN writes ELSE rows
<1>1. DOMAIN writes # {} /\ \A d \in DOMAIN writes : AnsweredAt(writes[d], read[r].answered)
  BY DEF IInv, ReadOK, UnstoredOK
<1>2. writes \in [DOMAIN writes -> Write] /\ DOMAIN writes \subseteq Nat BY ReadTypes, Parameters
<1> HIDE DEF writes
<1>3. chosen \in SUBSET Nat /\ chosen # {} /\ chosen \subseteq DOMAIN writes BY <1>1, <1>2
<1>4. NextDay(writes) = Min(chosen) BY DEF NextDay
<1>5. NextDay(writes) \in DOMAIN writes BY <1>3, <1>4, LeastElement
<1>6. writes[NextDay(writes)] \in Write BY <1>2, <1>5
<1>7. \A w \in Write : w.key \in Keys BY DEF Write, NoDataKeys, Keys
<1> QED BY <1>1, <1>5, <1>6, <1>7 DEF NextWrite, writes

LEMMA StampedFacts ==
  ASSUME IInv, NEW r \in Readers, IsStoring(r)
  PROVE  /\ Stamped(NextWrite(r)) \in Job /\ Stamped(NextWrite(r)).key = NextWrite(r).key
         /\ Stamped(NextWrite(r)).kind = NextWrite(r).kind /\ Answered(Stamped(NextWrite(r)))
<1> DEFINE w == NextWrite(r)
<1>1. w \in Write /\ w.key \in Keys /\ AnsweredAt(w, read[r].answered) BY NextWriteFacts
<1>2. /\ now \in Nat /\ read[r].answered \in Nat
      /\ read[r].answered <= now /\ now <= read[r].answered + MaxStoreTicks
  BY ReadTypes DEF IInv, ReadOK, ClockOK
<1> HIDE DEF w
<1>3. Stamped(w) \in Job BY <1>1, <1>2 DEF Stamped, Write, Job
<1>4. Answered(Stamped(w))
  <2> DEFINE x == IF w.kind = "ROWS" THEN w.payload ELSE NoEntry
  <2>1. <<x, read[r].answered>> \in had[w.key] BY <1>1 DEF AnsweredAt
  <2>2. read[r].answered \in (now - MaxStoreTicks)..now BY <1>2, Parameters
  <2>3. Stamped(w).kind = w.kind /\ Stamped(w).payload = w.payload /\ Stamped(w).key = w.key
        /\ Stamped(w).fetched = now
    BY DEF Stamped
  <2>4. \E h \in had[w.key] : h[1] = x /\ h[2] \in (now - MaxStoreTicks)..now BY <2>1, <2>2
  <2> QED BY <2>3, <2>4 DEF Answered
<1>5. Stamped(w).key = w.key /\ Stamped(w).kind = w.kind BY DEF Stamped
<1> QED BY <1>3, <1>4, <1>5 DEF w

\* After a write was handed over its day is held, and the others are still to be stored.
LEMMA HandedKeeps ==
  ASSUME IInv, NEW r \in Readers, IsStoring(r), read' = [read EXCEPT ![r] = Handed(r)],
         UNCHANGED <<now, world, had>>, \A k \in Keys : Held(k) => Held(k)',
         NEW written \in Keys, written = NextWrite(r).key, Held(written)'
  PROVE  read' \in [Readers -> Read] /\ ReadOK(r)'
<1> DEFINE day == NextDay(read[r].unstored)
           rest == Restrict(read[r].unstored, DOMAIN read[r].unstored \ {day})
           last == DOMAIN rest = {}
<1>0. read \in [Readers -> Read] /\ read[r] \in Read /\ ReadOK(r) BY DEF IInv, TypeOK
<1>1. read'[r] = IF last THEN [read[r] EXCEPT !.unstored = rest, !.pc = AfterStore(r), !.answered = 0]
                 ELSE [read[r] EXCEPT !.unstored = rest]
  BY <1>0 DEF Handed
<1>2. /\ day \in DOMAIN read[r].unstored /\ read[r].unstored[day].key = written
      /\ DOMAIN rest = DOMAIN read[r].unstored \ {day} /\ rest = [d \in DOMAIN rest |-> rest[d]]
      /\ \A d \in DOMAIN rest : rest[d] = read[r].unstored[d]
  BY NextWriteFacts DEF Restrict
<1>3. rest \in [DOMAIN rest -> Write] /\ DOMAIN rest \subseteq Days BY <1>2, ReadTypes
<1> HIDE DEF day, rest
<1>4. /\ read[r].pc \in {"storeDays", "storeRows"}
      /\ read[r].pc = "storeDays" => AfterStore(r) \in {"done", "failed", "lookupRows"}
                                     /\ (AfterStore(r) = "done" => ~read[r].wantsRows)
      /\ read[r].pc = "storeRows" => AfterStore(r) = IF read[r].todo = {} THEN "done" ELSE "askRows"
  <2>1. read[r].wantsRows \in BOOLEAN BY ReadTypes
  <2> QED BY <2>1 DEF IsStoring, AfterStore, AfterCalendar
<1> DEFINE pc == IF last THEN AfterStore(r) ELSE read[r].pc
           answered == IF last THEN 0 ELSE read[r].answered
<1>5. /\ pc \in {"storeDays", "storeRows", "lookupRows", "askRows", "done", "failed"}
      /\ pc = "storeDays" => read[r].pc = "storeDays" /\ ~last
      /\ pc = "storeRows" => read[r].pc = "storeRows" /\ ~last
      /\ pc \in {"lookupRows", "askRows", "done", "failed"} => last
      /\ pc = "lookupRows" => read[r].pc = "storeDays"
      /\ pc = "askRows" => read[r].pc = "storeRows" /\ read[r].todo # {}
      /\ pc = "done" => \/ read[r].pc = "storeRows" /\ read[r].todo = {}
                        \/ read[r].pc = "storeDays" /\ ~read[r].wantsRows
  BY <1>4
<1>6. read'[r] = [read[r] EXCEPT !.unstored = rest, !.pc = pc, !.answered = answered]
  BY <1>0, <1>1 DEF Read
<1> HIDE DEF pc
<1>7. /\ read'[r].pc = pc /\ read'[r].answered = answered /\ read'[r].unstored = rest
      /\ read'[r].interval = read[r].interval /\ read'[r].wantsRows = read[r].wantsRows
      /\ read'[r].began = read[r].began /\ read'[r].calendar = read[r].calendar /\ read'[r].rows = read[r].rows
      /\ read'[r].fetched = read[r].fetched /\ read'[r].todo = read[r].todo
  BY <1>0, <1>6 DEF Read
<1>8. read'[r] \in Read
  <2>1. rest \in UNION {[E -> Write] : E \in SUBSET Days} BY <1>3
  <2>2. answered \in 0..MaxTime BY <1>0, Parameters DEF Read
  <2> HIDE DEF answered, last
  <2>3. read'[r] = [pc |-> pc, interval |-> read[r].interval, wantsRows |-> read[r].wantsRows,
                    began |-> read[r].began, answered |-> answered, calendar |-> read[r].calendar,
                    rows |-> read[r].rows, fetched |-> read[r].fetched, todo |-> read[r].todo, unstored |-> rest]
    BY <1>0, <1>6 DEF Read
  <2>4. /\ read[r].interval \in (Days \X Days) \cup {<<0, 0>>} /\ read[r].wantsRows \in BOOLEAN
        /\ read[r].began \in 0..MaxTime /\ read[r].calendar \in UNION {[E -> {"open", "closed"}] : E \in SUBSET Days}
        /\ read[r].rows \in UNION {[E -> Prices] : E \in SUBSET Days}
        /\ read[r].fetched \in SUBSET Days /\ read[r].todo \in SUBSET Days
    BY <1>0 DEF Read
  <2> QED BY <1>5, <2>1, <2>2, <2>3, <2>4 DEF Read
<1>9. read' \in [Readers -> Read] BY <1>0, <1>8
<1>10. ClockOK(r)' /\ UnstoredOK(r)'
  <2>1. answered = IF pc \in {"storeDays", "storeRows"} THEN read[r].answered ELSE 0 BY <1>5
  <2>2. ClockOK(r)' BY <1>0, <1>5, <1>7, <2>1 DEF ReadOK, ClockOK, IsStoring
  <2>3. UnstoredOK(r)'
    BY <1>0, <1>2, <1>5, <1>7, <2>1 DEF ReadOK, UnstoredOK, IsStoring, AnsweredAt
  <2> QED BY <2>2, <2>3
<1>11. PhaseOK(r)' BY <1>0, <1>5, <1>7 DEF ReadOK, PhaseOK, OpenDays
<1>12. PaidOK(r)'
  <2> SUFFICES ASSUME NEW d \in read[r].fetched
               PROVE  \/ Held(RowsKey(d))'
                      \/ d \in DOMAIN rest /\ rest[d].key = RowsKey(d)
    BY <1>7 DEF PaidOK, RowsKey
  <2>1. RowsKey(d) \in Keys BY ReadTypes, KeyFacts
  <2>2. CASE Held(RowsKey(d))
    <3> DEFINE k == RowsKey(d)
    <3>1. k \in Keys /\ Held(k) BY <2>1, <2>2
    <3>2. Held(k)' BY <3>1 DEF RowsKey
    <3> QED BY <3>2
  <2>3. CASE d \in DOMAIN read[r].unstored /\ read[r].unstored[d].key = RowsKey(d)
    <3>1. CASE d = day
      <4>1. written = RowsKey(d) BY <1>2, <2>3, <3>1
      <4>2. Held(written)' OBVIOUS
      <4> QED BY <4>1, <4>2 DEF Held, RowsKey
    <3>2. CASE d # day BY <1>2, <2>3, <3>2
    <3> QED BY <3>1, <3>2
  <2> QED BY <1>0, <2>2, <2>3 DEF ReadOK, PaidOK
<1>13. RecentOK(r)' BY <1>0, <1>7 DEF ReadOK, RecentOK, HadSince
<1>14. AbsentOK(r)'
  <2>1. AbsentOK(r) BY <1>0 DEF ReadOK
  <2>2. \A d \in Between(read[r].interval) \ DOMAIN read[r].calendar :
          HadSince(CalendarKey(d), NoEntry, read[r].began)
    BY <1>4, <2>1 DEF AbsentOK
  <2>3. pc \in {"askRows", "storeRows"} \/ (pc = "done" /\ read[r].wantsRows) => read[r].pc = "storeRows"
    BY <1>5
  <2>4. pc \in {"askRows", "storeRows"} \/ (pc = "done" /\ read[r].wantsRows) =>
          \A d \in (OpenDays(read[r].calendar) \ DOMAIN read[r].rows) \ read[r].todo :
            HadSince(RowsKey(d), NoEntry, read[r].began - NoDataTTL - MaxStoreTicks)
    BY <2>1, <2>3 DEF AbsentOK
  <2>5. OpenDays(read[r].calendar)' = OpenDays(read[r].calendar) BY <1>7 DEF OpenDays
  <2> QED BY <1>7, <2>2, <2>4, <2>5 DEF AbsentOK, HadSince
<1> QED BY <1>9, <1>10, <1>11, <1>12, <1>13, <1>14 DEF ReadOK

-----------------------------------------------------------------------------
(* The cache and the queue *)

LEMMA HadSame ==
  ASSUME had' = had
  PROVE  /\ \A w : Answered(w)' <=> Answered(w)
         /\ \A k \in Keys : had[k] \subseteq had'[k]
BY DEF Answered

\* The others do not notice.
LEMMA OthersStay ==
  ASSUME IInv, NEW r, read' = [read EXCEPT ![r] = read'[r]] \/ read' = read, UNCHANGED <<now, had>>,
         \A k \in Keys : Held(k) => Held(k)'
  PROVE  \A s \in Readers \ {r} : read'[s] = read[s] /\ ReadOK(s)'
<1> SUFFICES ASSUME NEW s \in Readers \ {r} PROVE read'[s] = read[s] /\ ReadOK(s)' OBVIOUS
<1>1. read'[s] = read[s] BY DEF IInv, TypeOK
<1>2. now' \in Nat /\ now <= now' /\ (IsStoring(s) => now' <= read[s].answered + MaxStoreTicks)
  BY ReadTypes DEF IInv, ReadOK, ClockOK
<1> QED BY <1>1, <1>2, ReadStays

\* An upsert that ends leaves every key that had an entry with one, and a key it wrote too.
LEMMA UpsertEnds ==
  ASSUME IInv, NEW a \in Agents, Cache!Put(a) \/ Cache!Keep(a) \/ Cache!Fail(a), had' = had
  PROVE  /\ request[a] # NoOp /\ request[a].write \in Job /\ request[a].write.key \in Keys
         /\ entry' \in [Keys -> Cache!Value \cup {NoEntry}] /\ now' = now
         /\ request' = [request EXCEPT ![a] = NoOp]
         /\ EntriesOK' /\ MarkersOK'
         /\ \A k \in Keys : entry[k] # NoEntry => entry'[k] # NoEntry
         /\ Cache!Put(a) \/ Cache!Keep(a) => entry'[request[a].write.key] # NoEntry
<1> DEFINE w == request[a].write
           k == w.key
           v == [kind |-> w.kind, payload |-> w.payload, fetched |-> w.fetched]
<1>0. /\ request[a] # NoOp /\ request[a] \in Request /\ Answered(w)
      /\ request[a].found # NoEntry => entry[k] # NoEntry
      /\ entry \in [Keys -> Cache!Value \cup {NoEntry}] /\ EntriesOK /\ MarkersOK
      /\ now' = now /\ request' = [request EXCEPT ![a] = NoOp]
  BY DEF Cache!Put, Cache!Keep, Cache!Fail, Cache!Done, IInv, RequestsOK, TypeOK, EntriesAreAnswers, EntriesOK
<1>1. w \in Job BY <1>0 DEF Request
<1>2. k \in Keys /\ v \in Cache!Value /\ (w.kind # "ROWS" => k \in NoDataKeys)
  BY <1>1 DEF Job, Cache!Value, NoDataKeys, Keys
<1>3. v # NoEntry BY <1>2, NoEntryIsNoRow
<1>4. CASE entry' = entry
  <2>1. Cache!Put(a) \/ Cache!Keep(a) => entry[k] # NoEntry
    <3>1. CASE Cache!Keep(a) BY <1>0, <3>1 DEF Cache!Keep, Cache!Accepts
    <3>2. CASE Cache!Put(a)
      <4>1. entry' = [entry EXCEPT ![k] = v] BY <3>2 DEF Cache!Put, Cache!ValueOf
      <4> QED BY <1>0, <1>2, <1>3, <1>4, <4>1
    <3> QED BY <3>1, <3>2
  <2> QED BY <1>0, <1>1, <1>2, <1>4, <2>1, HadSame DEF EntriesOK, MarkersOK, Answered
<1>5. CASE Cache!Put(a)
  <2>1. entry' = [entry EXCEPT ![k] = v] BY <1>5 DEF Cache!Put, Cache!ValueOf
  <2>2. Answered([key |-> k, kind |-> v.kind, payload |-> v.payload, fetched |-> v.fetched])
    BY <1>0 DEF Answered
  <2> HIDE DEF v, k
  <2>3. entry'[k] = v /\ \A j \in Keys \ {k} : entry'[j] = entry[j] BY <1>0, <1>2, <2>1
  <2>4. entry' \in [Keys -> Cache!Value \cup {NoEntry}] BY <1>0, <1>2, <2>1
  <2>5. \A j \in Keys : entry'[j] # NoEntry =>
          Answered([key |-> j, kind |-> entry'[j].kind, payload |-> entry'[j].payload, fetched |-> entry'[j].fetched])
    BY <1>0, <2>2, <2>3 DEF EntriesOK
  <2>6. EntriesOK' BY <2>5 DEF EntriesOK, Answered
  <2>7. v.kind = w.kind BY DEF v
  <2>8. MarkersOK' BY <1>0, <1>2, <2>3, <2>7 DEF MarkersOK
  <2>9. \A j \in Keys : entry[j] # NoEntry => entry'[j] # NoEntry BY <1>3, <2>3
  <2> QED BY <1>0, <1>1, <1>2, <1>3, <2>3, <2>4, <2>6, <2>8, <2>9 DEF k
<1> QED BY <1>4, <1>5 DEF Cache!Keep, Cache!Fail

\* What an upsert carries when it begins.
LEMMA UpsertBegins ==
  ASSUME IInv, NEW a \in Agents, NEW w \in Job, Answered(w), Cache!Begin(a, w, TRUE)
  PROVE  \E new \in Request :
           /\ request' = [request EXCEPT ![a] = new] /\ UNCHANGED <<entry, now>>
           /\ new.write = w /\ (new.found # NoEntry => entry[w.key] # NoEntry)
<1> DEFINE new == [write |-> w, allow |-> TRUE, found |-> Cache!Found(w)]
<1>1. w.key \in Keys BY DEF Job, NoDataKeys, Keys
<1>2. entry[w.key] \in Cache!Value \cup {NoEntry} BY <1>1 DEF IInv, TypeOK
<1>3. Cache!Found(w) \in Payloads \cup {NoData, NoEntry} BY <1>2 DEF Cache!Found, Cache!Value
<1>4. new \in Request BY <1>3 DEF Request
<1>5. new.found # NoEntry => entry[w.key] # NoEntry BY DEF Cache!Found
<1> QED BY <1>4, <1>5 DEF Cache!Begin, Cache!BeginFrom

\* Requests after the end of one of them: the first of the queue may change when the drain is through.
LEMMA RequestsAfterEnd ==
  ASSUME IInv, NEW a \in Agents, request' = [request EXCEPT ![a] = NoOp], UNCHANGED <<mode, had>>,
         \A k \in Keys : entry[k] # NoEntry => entry'[k] # NoEntry,
         \A s \in Readers \ {a} : read'[s] = read[s],
         a # "drain" => queue' = queue
  PROVE  RequestsOK'
<1>0. RequestsOK /\ request \in [Agents -> Request \cup {NoOp}] BY DEF IInv, RequestsOK
<1>1. request' \in [Agents -> Request \cup {NoOp}] /\ request'[a] = NoOp
      /\ \A b \in Agents \ {a} : request'[b] = request[b]
  BY <1>0
<1>2. ASSUME NEW b \in Agents, request'[b] # NoOp
      PROVE  /\ b # a /\ request'[b] = request[b]
             /\ Answered(request[b].write)'
             /\ request[b].found # NoEntry => entry'[request[b].write.key] # NoEntry
  <2>1. b # a /\ request'[b] = request[b] /\ request[b] # NoOp BY <1>1, <1>2
  <2>2. request[b] \in Request BY <1>0, <2>1
  <2>3. request[b].write.key \in Keys BY <2>2 DEF Request, Job, NoDataKeys, Keys
  <2>4. Answered(request[b].write) /\ (request[b].found # NoEntry => entry[request[b].write.key] # NoEntry)
    BY <1>0, <2>1 DEF RequestsOK
  <2> QED BY <2>1, <2>3, <2>4 DEF Answered
<1>3. ASSUME NEW s \in Readers, request'[s] # NoOp
      PROVE  IsStoring(s)' /\ mode' = "sync" /\ request'[s].write.key = NextWrite(s)'.key
  <2>1. s \in Agents BY DEF Agents
  <2>2. s # a /\ request'[s] = request[s] /\ request[s] # NoOp BY <1>2, <1>3, <2>1
  <2>3. read'[s] = read[s] BY <2>2
  <2>4. IsStoring(s) /\ mode = "sync" /\ request[s].write.key = NextWrite(s).key
    BY <1>0, <2>2 DEF RequestsOK
  <2> QED BY <2>2, <2>3, <2>4 DEF IsStoring, NextWrite
<1>4. request'["drain"] # NoOp => queue' # << >> /\ request'["drain"].write = Head(queue')
  <2>1. "drain" \in Agents BY DEF Agents
  <2> QED BY <1>0, <1>2, <2>1 DEF RequestsOK
<1>5. (\A b \in Agents : request[b] # NoOp =>
         /\ Answered(request[b].write)
         /\ request[b].found # NoEntry => entry[request[b].write.key] # NoEntry)'
  BY <1>2
<1> QED BY <1>1, <1>3, <1>4, <1>5 DEF RequestsOK

-----------------------------------------------------------------------------
(* The steps that store *)

LEMMA EnqueueKeeps ==
  ASSUME IInv, NEW r \in Readers, Enqueue(r)
  PROVE  IInv'
<1>0. /\ IsStoring(r) /\ mode = "async" /\ Len(queue) < MaxQueue /\ queue \in Seq(Job)
      /\ queue' = Append(queue, Stamped(NextWrite(r))) /\ read' = [read EXCEPT ![r] = Handed(r)]
      /\ UNCHANGED <<entry, request, now, mode, world, had, lost>>
  BY DEF Enqueue, Set, cacheVars, worldVars, IInv, TypeOK
<1>1. PICK w \in Job : w = Stamped(NextWrite(r)) /\ w.key = NextWrite(r).key /\ Answered(w) BY <1>0, StampedFacts
<1>2. /\ queue' \in Seq(Job) /\ Len(queue') = Len(queue) + 1 /\ queue'[Len(queue) + 1] = w
      /\ \A i \in DOMAIN queue : i \in DOMAIN queue' /\ queue'[i] = queue[i]
      /\ DOMAIN queue' = DOMAIN queue \cup {Len(queue) + 1}
  BY <1>0, <1>1
<1>3. w.key \in Keys BY DEF Job, NoDataKeys, Keys
<1>4. \A k \in Keys : Held(k) => Held(k)' BY <1>0, <1>2 DEF Held
<1>5. PICK k \in Keys : k = w.key BY <1>3
<1>6. Held(k)' BY <1>2, <1>5 DEF Held
<1>7. read' \in [Readers -> Read] /\ ReadOK(r)' BY <1>0, <1>1, <1>4, <1>5, <1>6, HandedKeeps
<1>8. \A s \in Readers \ {r} : read'[s] = read[s] /\ ReadOK(s)'
  <2>1. read' = [read EXCEPT ![r] = read'[r]] BY <1>0 DEF IInv, TypeOK
  <2> QED BY <1>0, <1>4, <2>1, OthersStay
<1>9. TypeOK'
  <2>1. Len(queue) \in Nat /\ MaxQueue \in Nat BY <1>0, ReadAssumption DEF ReadAssumption
  <2>2. Len(queue') <= MaxQueue BY <1>0, <1>2, <2>1
  <2> QED BY <1>0, <1>2, <1>7, <2>2 DEF IInv, TypeOK
<1>10. HistoryOK' /\ MarkersOK' BY <1>0 DEF IInv, HistoryOK, MarkersOK
<1>11. EntriesAreAnswers'
  BY <1>0, <1>1, <1>2 DEF IInv, EntriesAreAnswers, Answered
<1>12. RequestsOK'
  <2>1. RequestsOK BY DEF IInv
  <2>2. \A s \in Readers : request[s] = NoOp BY <1>0, <2>1 DEF RequestsOK
  <2>3. request["drain"] # NoOp => queue' # << >> /\ Head(queue') = Head(queue)
    BY <1>0, <1>2, <2>1 DEF RequestsOK
  <2> QED BY <1>0, <2>1, <2>2, <2>3 DEF RequestsOK, Answered
<1> QED BY <1>7, <1>8, <1>9, <1>10, <1>11, <1>12 DEF IInv

LEMMA BeginUpsertKeeps ==
  ASSUME IInv, NEW r \in Readers, BeginUpsert(r)
  PROVE  IInv'
<1>0. /\ IsStoring(r) /\ mode = "sync" /\ request[r] = NoOp
      /\ UNCHANGED <<entry, now, mode, queue, read, world, had, lost>>
  BY DEF BeginUpsert, Cache!Begin, Cache!BeginFrom, worldVars
<1>1. PICK w \in Job : w = Stamped(NextWrite(r)) /\ w.key = NextWrite(r).key /\ Answered(w) BY <1>0, StampedFacts
<1>a. r \in Agents /\ r # "drain" BY ReadAssumption DEF Agents, ReadAssumption
<1>2. PICK new \in Request : /\ request' = [request EXCEPT ![r] = new]
                             /\ new.write = w /\ (new.found # NoEntry => entry[w.key] # NoEntry)
  <2>1. Cache!Begin(r, w, TRUE) BY <1>1 DEF BeginUpsert
  <2>2. \E new \in Request :
           /\ request' = [request EXCEPT ![r] = new] /\ UNCHANGED <<entry, now>>
           /\ new.write = w /\ (new.found # NoEntry => entry[w.key] # NoEntry)
    BY <1>1, <1>a, <2>1, UpsertBegins
  <2> QED BY <2>2
<1>3. \A s \in Readers : ReadOK(s)'
  <2>1. \A k \in Keys : Held(k) => Held(k)' BY <1>0 DEF Held
  <2>3. ASSUME NEW s \in Readers PROVE ReadOK(s)'
    <3>1. now' \in Nat /\ now <= now' /\ (IsStoring(s) => now' <= read[s].answered + MaxStoreTicks)
      BY <1>0, ReadTypes DEF IInv, ReadOK, ClockOK
    <3> QED BY <1>0, <2>1, <3>1, ReadStays
  <2> QED BY <2>3
<1>4. TypeOK' /\ HistoryOK' /\ MarkersOK' /\ EntriesAreAnswers'
  BY <1>0 DEF IInv, TypeOK, HistoryOK, MarkersOK, EntriesAreAnswers, Answered
<1>5. RequestsOK'
  <2>1. RequestsOK BY DEF IInv
  <2>2. request' \in [Agents -> Request \cup {NoOp}] /\ request'[r] = new
        /\ \A b \in Agents \ {r} : request'[b] = request[b]
    BY <1>2, <1>a, <2>1 DEF RequestsOK
  <2>3. (\A a \in Agents : request[a] # NoOp =>
           /\ Answered(request[a].write)
           /\ request[a].found # NoEntry => entry[request[a].write.key] # NoEntry)'
    BY <1>0, <1>1, <1>2, <2>1, <2>2 DEF RequestsOK, Answered
  <2>4. (\A s \in Readers : request[s] # NoOp =>
           IsStoring(s) /\ mode = "sync" /\ request[s].write.key = NextWrite(s).key)'
    BY <1>0, <1>1, <1>2, <1>a, <2>1, <2>2 DEF RequestsOK, Agents, IsStoring, NextWrite
  <2>5. "drain" \in Agents /\ request'["drain"] = request["drain"] BY <1>a, <2>2 DEF Agents
  <2> QED BY <1>0, <2>1, <2>2, <2>3, <2>4, <2>5 DEF RequestsOK
<1> QED BY <1>3, <1>4, <1>5 DEF IInv

LEMMA EndUpsertKeeps ==
  ASSUME IInv, NEW r \in Readers, EndUpsert(r)
  PROVE  IInv'
<1>a. r \in Agents /\ r # "drain" BY ReadAssumption DEF Agents, ReadAssumption
<1>0. /\ read' = [read EXCEPT ![r] = Handed(r)] /\ (Cache!Put(r) \/ Cache!Keep(r))
      /\ UNCHANGED <<mode, queue, world, had, lost>>
  BY DEF EndUpsert, Set, worldVars
<1>1. /\ request[r] # NoOp /\ request[r].write.key \in Keys
      /\ entry' \in [Keys -> Cache!Value \cup {NoEntry}] /\ now' = now
      /\ request' = [request EXCEPT ![r] = NoOp]
      /\ EntriesOK' /\ MarkersOK'
      /\ \A k \in Keys : entry[k] # NoEntry => entry'[k] # NoEntry
      /\ entry'[request[r].write.key] # NoEntry
  BY <1>0, <1>a, UpsertEnds
<1>2. IsStoring(r) /\ request[r].write.key = NextWrite(r).key BY <1>1 DEF IInv, RequestsOK
<1>3. PICK k \in Keys : k = NextWrite(r).key /\ entry'[k] # NoEntry BY <1>1, <1>2
<1>4. Held(k)' BY <1>3 DEF Held
<1>5. \A j \in Keys : Held(j) => Held(j)' BY <1>0, <1>1 DEF Held
<1>6. read' \in [Readers -> Read] /\ ReadOK(r)' BY <1>0, <1>1, <1>2, <1>3, <1>4, <1>5, HandedKeeps
<1>7. \A s \in Readers \ {r} : read'[s] = read[s] /\ ReadOK(s)'
  <2>1. read' = [read EXCEPT ![r] = read'[r]] BY <1>0 DEF IInv, TypeOK
  <2> QED BY <1>0, <1>1, <1>5, <2>1, OthersStay
<1>8. TypeOK' BY <1>0, <1>1, <1>6 DEF IInv, TypeOK
<1>9. HistoryOK' BY <1>0, <1>1 DEF IInv, HistoryOK
<1>10. EntriesAreAnswers' BY <1>0, <1>1 DEF IInv, EntriesAreAnswers, EntriesOK, Answered
<1>11. RequestsOK' BY <1>0, <1>1, <1>7, <1>a, RequestsAfterEnd
<1> QED BY <1>1, <1>6, <1>7, <1>8, <1>9, <1>10, <1>11 DEF IInv

\* A read that fails while it stores keeps what it has gathered; what it was storing is lost.
LEMMA FailedStoring ==
  ASSUME IInv, NEW r \in Readers, IsStoring(r), read' = [read EXCEPT ![r] = [read[r] EXCEPT !.pc = "failedStoring"]],
         UNCHANGED <<now, had>>, \A k \in Keys : Held(k) => Held(k)'
  PROVE  read' \in [Readers -> Read] /\ ReadOK(r)'
<1>0. read \in [Readers -> Read] /\ read[r] \in Read /\ ReadOK(r) BY DEF IInv, TypeOK
<1>1. read'[r] = [read[r] EXCEPT !.pc = "failedStoring"] BY <1>0
<1>2. /\ read'[r].pc = "failedStoring" /\ read'[r].calendar = read[r].calendar /\ read'[r].rows = read[r].rows
      /\ read'[r].began = read[r].began /\ read'[r].fetched = read[r].fetched
      /\ read'[r].unstored = read[r].unstored
  BY <1>0, <1>1 DEF Read
<1>3. read'[r] \in Read
  <2>1. read'[r] = [pc |-> "failedStoring", interval |-> read[r].interval, wantsRows |-> read[r].wantsRows,
                    began |-> read[r].began, answered |-> read[r].answered, calendar |-> read[r].calendar,
                    rows |-> read[r].rows, fetched |-> read[r].fetched, todo |-> read[r].todo,
                    unstored |-> read[r].unstored]
    BY <1>0, <1>1 DEF Read
  <2>2. /\ read[r].interval \in (Days \X Days) \cup {<<0, 0>>} /\ read[r].wantsRows \in BOOLEAN
        /\ read[r].began \in 0..MaxTime /\ read[r].answered \in 0..MaxTime
        /\ read[r].calendar \in UNION {[E -> {"open", "closed"}] : E \in SUBSET Days}
        /\ read[r].rows \in UNION {[E -> Prices] : E \in SUBSET Days}
        /\ read[r].fetched \in SUBSET Days /\ read[r].todo \in SUBSET Days
        /\ read[r].unstored \in UNION {[E -> Write] : E \in SUBSET Days}
    BY <1>0 DEF Read
  <2> QED BY <2>1, <2>2 DEF Read
<1>4. ClockOK(r)' /\ UnstoredOK(r)' /\ PhaseOK(r)' /\ RecentOK(r)' /\ AbsentOK(r)'
  BY <1>0, <1>2 DEF ReadOK, ClockOK, UnstoredOK, PhaseOK, RecentOK, AbsentOK, IsStoring, HadSince
<1>5. PaidOK(r)'
  <2>1. \A d \in read[r].fetched : RowsKey(d) \in Keys BY ReadTypes, KeyFacts
  <2>2. \A d \in read[r].fetched : Held(RowsKey(d)) => Held(RowsKey(d))' BY <2>1, Zenon DEF RowsKey
  <2> QED BY <1>0, <1>2, <2>2 DEF ReadOK, PaidOK
<1>6. read' \in [Readers -> Read] BY <1>0, <1>3
<1> QED BY <1>4, <1>5, <1>6 DEF ReadOK

LEMMA EnqueueRaisesKeeps ==
  ASSUME IInv, NEW r \in Readers, EnqueueRaises(r)
  PROVE  IInv'
<1>0. /\ IsStoring(r) /\ mode = "async" /\ lost' = lost \cup {NextWrite(r).key}
      /\ read' = [read EXCEPT ![r] = [read[r] EXCEPT !.pc = "failedStoring"]]
      /\ UNCHANGED <<entry, request, now, mode, queue, world, had>>
  BY DEF EnqueueRaises, Set, cacheVars, worldVars
<1>1. \A k \in Keys : Held(k) => Held(k)' BY <1>0 DEF Held
<1>2. read' \in [Readers -> Read] /\ ReadOK(r)' BY <1>0, <1>1, FailedStoring
<1>3. \A s \in Readers \ {r} : read'[s] = read[s] /\ ReadOK(s)'
  <2>1. read' = [read EXCEPT ![r] = read'[r]] BY <1>0 DEF IInv, TypeOK
  <2> QED BY <1>0, <1>1, <2>1, OthersStay
<1>4. NextWrite(r).key \in Keys BY <1>0, NextWriteFacts
<1>5. TypeOK' /\ HistoryOK' /\ MarkersOK' /\ EntriesAreAnswers'
  BY <1>0, <1>2, <1>4 DEF IInv, TypeOK, HistoryOK, MarkersOK, EntriesAreAnswers, Answered
<1>6. RequestsOK'
  <2>1. RequestsOK BY DEF IInv
  <2>2. \A s \in Readers : request[s] = NoOp BY <1>0, <2>1 DEF RequestsOK
  <2> QED BY <1>0, <2>1, <2>2 DEF RequestsOK, Answered
<1> QED BY <1>2, <1>3, <1>5, <1>6 DEF IInv

LEMMA UpsertRaisesKeeps ==
  ASSUME IInv, NEW r \in Readers, UpsertRaises(r)
  PROVE  IInv'
<1>a. r \in Agents /\ r # "drain" BY ReadAssumption DEF Agents, ReadAssumption
<1>0. /\ Cache!Fail(r) /\ entry' = entry /\ lost' = lost \cup {request[r].write.key}
      /\ read' = [read EXCEPT ![r] = [read[r] EXCEPT !.pc = "failedStoring"]]
      /\ UNCHANGED <<mode, queue, world, had>>
  BY DEF UpsertRaises, Set, worldVars, Cache!Fail
<1>1. /\ request[r] # NoOp /\ request[r].write.key \in Keys /\ now' = now
      /\ request' = [request EXCEPT ![r] = NoOp]
  BY <1>0, <1>a, UpsertEnds
<1>2. IsStoring(r) BY <1>1 DEF IInv, RequestsOK
<1>3. \A k \in Keys : Held(k) => Held(k)' BY <1>0 DEF Held
<1>4. read' \in [Readers -> Read] /\ ReadOK(r)' BY <1>0, <1>1, <1>2, <1>3, FailedStoring
<1>5. \A s \in Readers \ {r} : read'[s] = read[s] /\ ReadOK(s)'
  <2>1. read' = [read EXCEPT ![r] = read'[r]] BY <1>0 DEF IInv, TypeOK
  <2> QED BY <1>0, <1>1, <1>3, <2>1, OthersStay
<1>6. TypeOK' /\ HistoryOK' /\ MarkersOK' /\ EntriesAreAnswers'
  BY <1>0, <1>1, <1>4 DEF IInv, TypeOK, HistoryOK, MarkersOK, EntriesAreAnswers, Answered
<1>7. RequestsOK' BY <1>0, <1>1, <1>5, <1>a, RequestsAfterEnd
<1> QED BY <1>4, <1>5, <1>6, <1>7 DEF IInv

-----------------------------------------------------------------------------
(* The writer's thread, the provider and time *)

\* What is queued comes forward, and is held as long as the first of it is.
LEMMA QueueMoves ==
  ASSUME IInv, queue # << >>, queue' = Tail(queue), UNCHANGED had,
         \A k \in Keys : entry[k] # NoEntry => entry'[k] # NoEntry, lost \subseteq lost',
         entry'[Head(queue).key] # NoEntry \/ Head(queue).key \in lost'
  PROVE  /\ queue' \in Seq(Job) /\ Len(queue') <= MaxQueue
         /\ \A i \in DOMAIN queue' : Answered(queue'[i])
         /\ \A k \in Keys : Held(k) => Held(k)'
<1>0. queue \in Seq(Job) /\ Len(queue) <= MaxQueue /\ MaxQueue \in Nat /\ \A i \in DOMAIN queue : Answered(queue[i])
  BY ReadAssumption DEF IInv, TypeOK, EntriesAreAnswers, ReadAssumption
<1>1. /\ queue' \in Seq(Job) /\ Len(queue') = Len(queue) - 1 /\ Len(queue) \in Nat
      /\ \A i \in 1..Len(queue') : i + 1 \in 1..Len(queue) /\ queue'[i] = queue[i + 1]
      /\ \A i \in 1..Len(queue) : i # 1 => i - 1 \in 1..Len(queue') /\ queue'[i - 1] = queue[i]
      /\ Head(queue) = queue[1]
  BY <1>0
<1>2. DOMAIN queue = 1..Len(queue) /\ DOMAIN queue' = 1..Len(queue') BY <1>0, <1>1
<1>3. Len(queue') <= MaxQueue BY <1>0, <1>1
<1>4. \A i \in DOMAIN queue' : Answered(queue'[i]) BY <1>0, <1>1, <1>2
<1>5. ASSUME NEW k \in Keys, Held(k) PROVE Held(k)'
  <2>1. CASE entry[k] # NoEntry \/ k \in lost BY <2>1 DEF Held
  <2>2. CASE \E i \in DOMAIN queue : queue[i].key = k
    <3>1. PICK i \in 1..Len(queue) : queue[i].key = k BY <1>2, <2>2
    <3>2. CASE i = 1 BY <1>1, <3>1, <3>2 DEF Held
    <3>3. CASE i # 1 BY <1>1, <1>2, <3>1, <3>3 DEF Held
    <3> QED BY <3>2, <3>3
  <2> QED BY <1>5, <2>1, <2>2 DEF Held
<1> QED BY <1>1, <1>3, <1>4, <1>5

LEMMA DrainBeginsKeeps ==
  ASSUME IInv, DrainBegins
  PROVE  IInv'
<1>a. "drain" \in Agents /\ "drain" \notin Readers BY ReadAssumption DEF Agents, ReadAssumption
<1>0. /\ queue # << >> /\ queue \in Seq(Job)
      /\ UNCHANGED <<entry, now, mode, queue, read, world, had, lost>>
  BY DEF DrainBegins, Cache!Begin, Cache!BeginFrom, worldVars, IInv, TypeOK
<1>1. PICK w \in Job : w = Head(queue) /\ Answered(w) /\ Cache!Begin("drain", w, TRUE)
  <2>1. Head(queue) = queue[1] /\ 1 \in DOMAIN queue /\ queue[1] \in Job BY <1>0
  <2> QED BY <2>1 DEF IInv, EntriesAreAnswers, DrainBegins
<1>2. PICK new \in Request : /\ request' = [request EXCEPT !["drain"] = new]
                             /\ new.write = w /\ (new.found # NoEntry => entry[w.key] # NoEntry)
  <2>1. \E new \in Request :
           /\ request' = [request EXCEPT !["drain"] = new] /\ UNCHANGED <<entry, now>>
           /\ new.write = w /\ (new.found # NoEntry => entry[w.key] # NoEntry)
    BY <1>1, <1>a, UpsertBegins
  <2> QED BY <2>1
<1>3. ASSUME NEW s \in Readers PROVE ReadOK(s)'
  <2>1. \A k \in Keys : Held(k) => Held(k)' BY <1>0 DEF Held
  <2>2. now' \in Nat /\ now <= now' /\ (IsStoring(s) => now' <= read[s].answered + MaxStoreTicks)
    BY <1>0, ReadTypes DEF IInv, ReadOK, ClockOK
  <2> QED BY <1>0, <2>1, <2>2, ReadStays
<1>4. TypeOK' /\ HistoryOK' /\ MarkersOK' /\ EntriesAreAnswers'
  BY <1>0 DEF IInv, TypeOK, HistoryOK, MarkersOK, EntriesAreAnswers, Answered
<1>5. RequestsOK'
  <2>1. RequestsOK BY DEF IInv
  <2>2. request' \in [Agents -> Request \cup {NoOp}] /\ request'["drain"] = new
        /\ \A b \in Agents \ {"drain"} : request'[b] = request[b]
    BY <1>2, <1>a, <2>1 DEF RequestsOK
  <2>3. (\A a \in Agents : request[a] # NoOp =>
           /\ Answered(request[a].write)
           /\ request[a].found # NoEntry => entry[request[a].write.key] # NoEntry)'
    BY <1>0, <1>1, <1>2, <2>1, <2>2 DEF RequestsOK, Answered
  <2>4. (\A s \in Readers : request[s] # NoOp =>
           IsStoring(s) /\ mode = "sync" /\ request[s].write.key = NextWrite(s).key)'
    BY <1>0, <1>a, <2>1, <2>2 DEF RequestsOK, Agents, IsStoring, NextWrite
  <2> QED BY <1>0, <1>1, <1>2, <2>2, <2>3, <2>4 DEF RequestsOK
<1> QED BY <1>3, <1>4, <1>5 DEF IInv

\* The drain's upsert is through, one way or the other: the queue moves on.
LEMMA DrainThrough ==
  ASSUME IInv, Cache!Put("drain") \/ Cache!Keep("drain") \/ Cache!Fail("drain"),
         queue' = Tail(queue), UNCHANGED <<mode, read, world, had>>,
         lost \subseteq lost', lost' \subseteq Keys,
         Cache!Put("drain") \/ Cache!Keep("drain") \/ request["drain"].write.key \in lost'
  PROVE  IInv'
<1>a. "drain" \in Agents BY DEF Agents
<1>1. /\ request["drain"] # NoOp
      /\ entry' \in [Keys -> Cache!Value \cup {NoEntry}] /\ now' = now
      /\ request' = [request EXCEPT !["drain"] = NoOp]
      /\ EntriesOK' /\ MarkersOK'
      /\ \A k \in Keys : entry[k] # NoEntry => entry'[k] # NoEntry
      /\ Cache!Put("drain") \/ Cache!Keep("drain") => entry'[request["drain"].write.key] # NoEntry
  BY <1>a, UpsertEnds
<1>2. queue # << >> /\ request["drain"].write = Head(queue) BY <1>1 DEF IInv, RequestsOK
<1>3. /\ queue' \in Seq(Job) /\ Len(queue') <= MaxQueue
      /\ \A i \in DOMAIN queue' : Answered(queue'[i])
      /\ \A k \in Keys : Held(k) => Held(k)'
  BY <1>1, <1>2, QueueMoves
<1>4. ASSUME NEW s \in Readers PROVE ReadOK(s)'
  <2>1. now' \in Nat /\ now <= now' /\ (IsStoring(s) => now' <= read[s].answered + MaxStoreTicks)
    BY <1>1, ReadTypes DEF IInv, ReadOK, ClockOK
  <2>2. read'[s] = read[s] /\ \A k \in Keys : had[k] \subseteq had'[k] OBVIOUS
  <2> QED BY <1>3, <2>1, <2>2, ReadStays
<1>5. TypeOK' BY <1>1, <1>3 DEF IInv, TypeOK
<1>6. HistoryOK' BY <1>1 DEF IInv, HistoryOK
<1>7. EntriesAreAnswers' BY <1>1, <1>3 DEF EntriesAreAnswers, EntriesOK, Answered
<1>8. RequestsOK' BY <1>1, <1>a, RequestsAfterEnd
<1> QED BY <1>1, <1>4, <1>5, <1>6, <1>7, <1>8 DEF IInv

LEMMA DrainEndsKeeps ==
  ASSUME IInv, DrainEnds
  PROVE  IInv'
BY DrainThrough DEF DrainEnds, worldVars, IInv, TypeOK

LEMMA DrainGivesUpKeeps ==
  ASSUME IInv, DrainGivesUp
  PROVE  IInv'
<1>1. /\ Cache!Fail("drain") /\ queue' = Tail(queue) /\ lost' = lost \cup {request["drain"].write.key}
      /\ UNCHANGED <<mode, read, world, had>>
  BY DEF DrainGivesUp, worldVars
<1>2. "drain" \in Agents /\ had' = had BY <1>1 DEF Agents
<1>3. request["drain"].write.key \in Keys BY <1>1, <1>2, UpsertEnds
<1> QED BY <1>1, <1>3, DrainThrough DEF IInv, TypeOK

\* The history grows: nothing else is disturbed.
LEMMA HistoryGrows ==
  ASSUME IInv, UNCHANGED <<entry, request, mode, queue, read, lost>>, HistoryOK', DOMAIN world' = Keys,
         now' \in 0..MaxTime, now <= now',
         \A r \in Readers : IsStoring(r) => now' <= read[r].answered + MaxStoreTicks,
         \A k \in Keys : had[k] \subseteq had'[k]
  PROVE  IInv'
<1>1. \A k \in Keys : Held(k) => Held(k)' BY DEF Held
<1>2. ASSUME NEW s \in Readers PROVE ReadOK(s)'
  <2>1. now' \in Nat BY Parameters
  <2> QED BY <1>1, <2>1, ReadStays
<1>3. TypeOK' /\ MarkersOK' BY DEF IInv, TypeOK, MarkersOK
<1>4. ASSUME NEW w, w.key \in Keys, Answered(w) PROVE Answered(w)'
  BY <1>4 DEF Answered
<1>5. EntriesAreAnswers'
  <2>1. queue \in Seq(Job) BY DEF IInv, TypeOK
  <2>2. \A i \in DOMAIN queue : queue[i].key \in Keys BY <2>1 DEF Job, NoDataKeys, Keys
  <2> QED BY <1>4, <2>2 DEF IInv, EntriesAreAnswers
<1>6. RequestsOK'
  <2>1. RequestsOK BY DEF IInv
  <2>2. \A a \in Agents : request[a] # NoOp => request[a].write.key \in Keys
    BY <2>1 DEF RequestsOK, Request, Job, NoDataKeys, Keys
  <2>3. \A a \in Agents : request[a] # NoOp => Answered(request[a].write)' BY <1>4, <2>1, <2>2 DEF RequestsOK
  <2> QED BY <2>1, <2>3 DEF RequestsOK, IsStoring, NextWrite
<1> QED BY <1>2, <1>3, <1>5, <1>6 DEF IInv

LEMMA ChangeKeeps ==
  ASSUME IInv, NEW k \in Keys, NEW x \in ProviderHas(k), Change(k, x)
  PROVE  IInv'
<1>1. /\ world' = [world EXCEPT ![k] = x] /\ had' = [had EXCEPT ![k] = @ \cup {<<x, now>>}]
      /\ UNCHANGED <<entry, request, now, mode, queue, read, lost>>
  BY DEF Change, cacheVars
<1>2. HistoryOK /\ DOMAIN world = Keys /\ now \in 0..MaxTime /\ now \in Nat BY Parameters DEF IInv, TypeOK
<1>3. /\ DOMAIN had' = Keys /\ had'[k] = had[k] \cup {<<x, now>>} /\ \A j \in Keys \ {k} : had'[j] = had[j]
      /\ DOMAIN world' = Keys /\ world'[k] = x /\ \A j \in Keys \ {k} : world'[j] = world[j]
  BY <1>1, <1>2 DEF HistoryOK
<1>4. HistoryOK'
  <2> SUFFICES ASSUME NEW j \in Keys
               PROVE  had'[j] \subseteq ProviderHas(j) \X (0..now) /\ <<world'[j], now>> \in had'[j]
    BY <1>1, <1>3 DEF HistoryOK, ProviderHas
  <2>1. had[j] \subseteq ProviderHas(j) \X (0..now) /\ <<world[j], now>> \in had[j] BY <1>2 DEF HistoryOK
  <2>2. now \in 0..now BY <1>2
  <2>3. CASE j = k
    <3>1. had'[j] = had[j] \cup {<<x, now>>} /\ world'[j] = x /\ x \in ProviderHas(j) BY <1>3, <2>3
    <3> QED BY <2>1, <2>2, <3>1
  <2>4. CASE j # k
    <3>1. had'[j] = had[j] /\ world'[j] = world[j] BY <1>3, <2>4
    <3> QED BY <2>1, <3>1
  <2> QED BY <2>3, <2>4
<1>5. \A j \in Keys : had[j] \subseteq had'[j] BY <1>3
<1>6. \A r \in Readers : IsStoring(r) => now' <= read[r].answered + MaxStoreTicks
  BY <1>1 DEF IInv, ReadOK, ClockOK
<1> QED BY <1>1, <1>2, <1>3, <1>4, <1>5, <1>6, HistoryGrows

LEMMA TickKeeps ==
  ASSUME IInv, Tick
  PROVE  IInv'
<1>1. /\ now < MaxTime /\ now' = now + 1 /\ had' = [k \in Keys |-> had[k] \cup {<<world[k], now + 1>>}]
      /\ \A r \in Readers : IsStoring(r) => now < read[r].answered + MaxStoreTicks
      /\ UNCHANGED <<entry, request, mode, queue, read, world, lost>>
  BY DEF Tick, Cache!Pass
<1>2. HistoryOK /\ DOMAIN world = Keys /\ now \in Nat /\ MaxTime \in Nat BY Parameters DEF IInv, TypeOK
<1>3. now' \in 0..MaxTime /\ now <= now' /\ 0..now \subseteq 0..now' /\ now' \in 0..now' BY <1>1, <1>2
<1>4. \A k \in Keys : world[k] \in ProviderHas(k) BY <1>2 DEF HistoryOK
<1>5. HistoryOK'
  <2> SUFFICES ASSUME NEW k \in Keys
               PROVE  had'[k] \subseteq ProviderHas(k) \X (0..now') /\ <<world[k], now'>> \in had'[k]
    BY <1>1 DEF HistoryOK, ProviderHas
  <2>1. had[k] \subseteq ProviderHas(k) \X (0..now) BY <1>2 DEF HistoryOK
  <2>2. had'[k] = had[k] \cup {<<world[k], now'>>} BY <1>1
  <2> QED BY <1>3, <1>4, <2>1, <2>2
<1>6. \A k \in Keys : had[k] \subseteq had'[k] BY <1>1
<1>7. ASSUME NEW r \in Readers, IsStoring(r) PROVE now' <= read[r].answered + MaxStoreTicks
  <2>1. read[r].answered \in Nat /\ MaxStoreTicks \in Nat BY ReadTypes, Parameters
  <2> QED BY <1>1, <1>2, <1>7, <2>1
<1> QED BY <1>1, <1>2, <1>3, <1>5, <1>6, <1>7, HistoryGrows

-----------------------------------------------------------------------------
(* The invariant *)

LEMMA InitIInv == Init => IInv
<1> SUFFICES ASSUME Init PROVE IInv OBVIOUS
<1>1. /\ entry = [k \in Keys |-> NoEntry] /\ request = [a \in Agents |-> NoOp] /\ now = 0
      /\ mode \in Modes /\ queue = << >> /\ read = [r \in Readers |-> Idle] /\ world \in Worlds
      /\ had = [k \in Keys |-> {<<world[k], 0>>}] /\ lost = {}
  BY DEF Init, Cache!Init
<1>2. DOMAIN world = Keys /\ \A k \in Keys : world[k] \in ProviderHas(k) BY <1>1, ReadAssumption DEF ReadAssumption
<1>3. DOMAIN Nothing = {} BY DEF Nothing
<1>4. Idle \in Read
  <2>1. Nothing \in [{} -> {"open", "closed"}] /\ Nothing \in [{} -> Prices] /\ Nothing \in [{} -> Write]
    BY <1>3 DEF Nothing
  <2>2. {} \in SUBSET Days OBVIOUS
  <2>3. /\ Nothing \in UNION {[D -> {"open", "closed"}] : D \in SUBSET Days}
        /\ Nothing \in UNION {[D -> Prices] : D \in SUBSET Days}
        /\ Nothing \in UNION {[D -> Write] : D \in SUBSET Days}
    BY <2>1, <2>2
  <2>4. 0 \in 0..MaxTime BY Parameters
  <2> HIDE DEF Nothing
  <2> QED BY <2>2, <2>3, <2>4 DEF Idle, Read
<1>5. TypeOK
  <2>1. 0 <= MaxQueue BY ReadAssumption DEF ReadAssumption
  <2>2. queue \in Seq(Job) /\ Len(queue) = 0 BY <1>1
  <2>3. now \in 0..MaxTime BY <1>1, Parameters
  <2> QED BY <1>1, <1>2, <1>4, <2>1, <2>2, <2>3 DEF TypeOK
<1>6. HistoryOK BY <1>1, <1>2 DEF HistoryOK, ProviderHas
<1>7. EntriesAreAnswers /\ MarkersOK
  <2>1. DOMAIN queue = {} BY <1>1
  <2> QED BY <1>1, <2>1 DEF EntriesAreAnswers, MarkersOK
<1>8. RequestsOK BY <1>1 DEF RequestsOK, Agents
<1>9. ASSUME NEW r \in Readers PROVE ReadOK(r)
  <2>1. read[r] = Idle BY <1>1
  <2>2. /\ read[r].pc = "idle" /\ read[r].began = 0 /\ DOMAIN read[r].calendar = {} /\ DOMAIN read[r].rows = {}
        /\ read[r].fetched = {} /\ DOMAIN read[r].unstored = {}
    BY <1>3, <2>1 DEF Idle
  <2> QED BY <1>1, <2>2 DEF ReadOK, ClockOK, UnstoredOK, PhaseOK, PaidOK, RecentOK, AbsentOK, IsStoring
<1> QED BY <1>5, <1>6, <1>7, <1>8, <1>9 DEF IInv

LEMMA StutterKeeps ==
  ASSUME IInv, UNCHANGED vars
  PROVE  IInv'
<1>1. UNCHANGED <<entry, request, now, mode, queue, read, world, had, lost>> BY DEF vars, cacheVars, worldVars
<1>2. HistoryOK' /\ DOMAIN world' = Keys /\ now' \in 0..MaxTime BY <1>1 DEF IInv, HistoryOK, TypeOK
<1>3. now <= now' BY <1>1, <1>2
<1>4. \A r \in Readers : IsStoring(r) => now' <= read[r].answered + MaxStoreTicks
  BY <1>1 DEF IInv, ReadOK, ClockOK
<1> QED BY <1>1, <1>2, <1>3, <1>4, HistoryGrows

LEMMA StepIInv == IInv /\ [Next]_vars => IInv'
<1> SUFFICES ASSUME IInv, [Next]_vars PROVE IInv' OBVIOUS
<1>1. ASSUME NEW r \in Readers, NEW q \in Wanted[r], Begin(r, q) PROVE IInv' BY <1>1, BeginKeeps
<1>2. ASSUME NEW r \in Readers, Serve(r) PROVE IInv'
  BY <1>2, LookupDaysKeeps, AskDaysKeeps, LookupRowsKeeps, AskRowsKeeps, ProviderRaisesKeeps,
     EnqueueKeeps, EnqueueRaisesKeeps, BeginUpsertKeeps, EndUpsertKeeps, UpsertRaisesKeeps DEF Serve
<1>3. CASE DrainBegins BY <1>3, DrainBeginsKeeps
<1>4. CASE DrainEnds BY <1>4, DrainEndsKeeps
<1>5. CASE DrainGivesUp BY <1>5, DrainGivesUpKeeps
<1>6. ASSUME NEW k \in Keys, NEW x \in ProviderHas(k), Change(k, x) PROVE IInv' BY <1>6, ChangeKeeps
<1>7. CASE Tick BY <1>7, TickKeeps
<1>8. CASE UNCHANGED vars BY <1>8, StutterKeeps
<1> QED BY <1>1, <1>2, <1>3, <1>4, <1>5, <1>6, <1>7, <1>8 DEF Next

LEMMA Invariant == Spec => []IInv
BY InitIInv, StepIInv, PTL DEF Spec

-----------------------------------------------------------------------------
(* What follows for callers *)

\* Whatever the cache holds, or has queued, was the provider's answer for exactly that key,
\* at most MaxStoreTicks before its stamp: no interleaving of reads, no correction or
\* withdrawal in between, no failed question and no lost write puts anything else there.
THEOREM EntriesComeFromAnswers == Spec => []CacheHoldsAnswers
<1>1. IInv => CacheHoldsAnswers BY DEF IInv, CacheHoldsAnswers
<1> QED BY <1>1, Invariant, PTL

\* A read that returns serves rows of today for the days in the refresh window, and leaves
\* out only days the provider did not have recently.
THEOREM ReadsReturnRecentRows == Spec => []ResultsAreRecent
<1>1. IInv => ResultsAreRecent
  <2> SUFFICES ASSUME IInv PROVE ResultsAreRecent OBVIOUS
  <2>1. \A r \in Readers : RecentOK(r) /\ AbsentOK(r) /\ PhaseOK(r) BY DEF IInv, ReadOK
  <2>2. RecentRowsAreOfToday BY <2>1 DEF RecentRowsAreOfToday, RecentOK
  <2>3. AbsenceIsRecent BY <2>1 DEF AbsenceIsRecent, AbsentOK, PhaseOK
  <2> QED BY <2>2, <2>3 DEF ResultsAreRecent
<1> QED BY <1>1, Invariant, PTL

\* Only AskRows makes an answered read of one that asks.
LEMMA OnlyAskRowsAnswers ==
  ASSUME IInv, [Next]_vars, NEW r \in Readers, read[r].pc = "askRows", read'[r].pc = "storeRows"
  PROVE  AskRows(r)
<1>0. read \in [Readers -> Read] BY DEF IInv, TypeOK
<1>1. ~IsStoring(r) BY DEF IsStoring
<1>2. request[r] = NoOp BY <1>1 DEF IInv, RequestsOK
<1>3. read' # read OBVIOUS
<1>4. PICK s \in Readers : Serve(s) \/ \E q \in Wanted[s] : Begin(s, q)
  BY <1>3 DEF Next, vars, DrainBegins, DrainEnds, DrainGivesUp, Change, Tick
<1>5. read' = [read EXCEPT ![s] = read'[s]]
  BY <1>0, <1>3, <1>4 DEF Serve, Begin, LookupDays, AskDays, LookupRows, AskRows, ProviderRaises, Enqueue,
                          EnqueueRaises, BeginUpsert, EndUpsert, UpsertRaises, Set
<1>6. s = r BY <1>0, <1>5
<1>7. Serve(r) BY <1>4, <1>6 DEF Begin
<1>8. CASE ProviderRaises(r)
  <2>1. read'[r].pc = "failed" BY <1>0, <1>8 DEF ProviderRaises, Set, Read
  <2> QED BY <2>1
<1>9. CASE BeginUpsert(r) BY <1>3, <1>9 DEF BeginUpsert
<1>10. ~EndUpsert(r) /\ ~UpsertRaises(r) BY <1>2 DEF EndUpsert, UpsertRaises, Cache!Put, Cache!Keep, Cache!Fail
<1>11. ~Enqueue(r) /\ ~EnqueueRaises(r) BY <1>1 DEF Enqueue, EnqueueRaises
<1>12. ~LookupDays(r) /\ ~AskDays(r) /\ ~LookupRows(r) BY DEF LookupDays, AskDays, LookupRows
<1> QED BY <1>7, <1>8, <1>9, <1>10, <1>11, <1>12 DEF Serve

\* What was fetched before a provider error is in the cache, on its way there, or was lost
\* by the writer; and a question covers only open days that the read has no rows for.
THEOREM NothingPaidForIsLost == Spec => QuestionsAreNotWasted
<1>1. IInv => FetchedIsKept
  <2> SUFFICES ASSUME IInv, NEW r \in Readers, read[r].pc \in {"askRows", "failed", "done"}, NEW d \in read[r].fetched
               PROVE  Held(RowsKey(d))
    BY DEF FetchedIsKept, Held
  <2>1. UnstoredOK(r) /\ PaidOK(r) BY DEF IInv, ReadOK
  <2>2. DOMAIN read[r].unstored = {} BY <2>1 DEF UnstoredOK, IsStoring
  <2> QED BY <2>1, <2>2 DEF PaidOK
<1>2. IInv /\ [Next]_vars =>
        \A r \in Readers : read[r].pc = "askRows" /\ read'[r].pc = "storeRows" =>
          \A d \in DOMAIN read'[r].unstored : d \in OpenDays(read[r].calendar) /\ d \notin DOMAIN read[r].rows
  <2> SUFFICES ASSUME IInv, [Next]_vars, NEW r \in Readers, read[r].pc = "askRows", read'[r].pc = "storeRows",
                      NEW d \in DOMAIN read'[r].unstored
               PROVE  d \in OpenDays(read[r].calendar) /\ d \notin DOMAIN read[r].rows
    OBVIOUS
  <2> DEFINE run == FirstRun(read[r].todo)
             answer == Provided("rows", run)
  <2>1. AskRows(r) BY OnlyAskRowsAnswers
  <2>2. PhaseOK(r) /\ read \in [Readers -> Read] /\ read[r] \in Read BY DEF IInv, ReadOK, TypeOK
  <2>3. read'[r].unstored = Updated(NoDataWrites(run), RowWrites("rows", answer))
    BY <2>1, <2>2 DEF AskRows, Set, Read
  <2>4. DOMAIN answer \subseteq run BY DEF Provided
  <2>5. DOMAIN read'[r].unstored \subseteq run BY <2>3, <2>4 DEF Updated, NoDataWrites, RowWrites
  <2>6. run \subseteq read[r].todo BY DEF FirstRun
  <2> QED BY <2>2, <2>5, <2>6 DEF PhaseOK
<1>3. Spec => []IInv /\ [][Next]_vars BY Invariant DEF Spec
<1>4. Spec => []FetchedIsKept BY <1>1, <1>3, PTL
<1>5. Spec => OnlyMissingDaysAsked
  <2>1. []IInv /\ [][Next]_vars => OnlyMissingDaysAsked BY <1>2, PTL DEF OnlyMissingDaysAsked
  <2> QED BY <1>3, <2>1, PTL
<1> QED BY <1>4, <1>5, PTL DEF QuestionsAreNotWasted
=============================================================================
