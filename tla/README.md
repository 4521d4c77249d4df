# Cost Basis Trading: TLA+ models, checks and proofs

Cost Basis Trading reads market data (calendar, daily prices, chip distribution, adjustment factors) from
Tushare, keeps it in a versioned SQLite cache, and computes scans, backtests, research runs and factor runs
from it. This directory models the program's core logic in TLA+, checks it with TLC and proves its safety properties
with TLAPS, all but one: those of the cache, its writer, reads and provider calls, of requests, of factor runs,
batches, aggregates and their reviews, and of what the factor reviews decide. Paths are relative to `src/`.

`PROJECT.json` lists, in machine-readable form, the components, runs, mutants, hazards, findings, theorems and,
for every definition that models code, the lines it models.

## 1. The system

| Component | Code | State | Operations | What makes it correct | Modelled |
|---|---|---|---|---|---|
| Cache store | `backend/app/data/market_cache.py` | tables of versions, current pointers, conflicts, jobs | `upsert`, `read_many`, job rows | one register per key; payloads immutable; corrections on record | yes |
| Cache writer | `backend/app/data/cache_writer.py` | lock, daemon thread, job statuses | `write`, `flush`, `_flush_until_idle` | every job settles once, by its last outcome; no job left without a thread | yes |
| Read-through client | `backend/app/data/cached_market_data_client.py` | one read's lookup, answers, pending writes | calendar and three row endpoints | cache holds answers only; results are recent; nothing fetched is lost | mostly |
| Tushare client | `backend/app/data/tushare_client.py` | attempt counter, rate-limit window, retry handler | `_call_tushare`, `_wait_for_rate_limit` | final errors not retried, backoff kept, calls per minute bounded, every call ends | mostly |
| Backtest, scan | `backend/app/services/{backtest,scan}_service.py` | none between requests | `run`, `scan` | no future data in the signal; one stock does not fail a scan | yes |
| Research run | `backend/app/services/research_run_service.py` | run directory, handlers, logs, manifests | `run`, `_run_sample`, the agent stage | artifacts complete when a manifest says so; handlers restored; logs per sample | mostly |
| Factor run, batch, aggregate, evaluation | `scripts/chip_factor_*.py` | immutable directories, logs, summaries, `latest.json` | one command each | a directory is never overwritten or added to once sealed; statuses follow from outcomes | mostly |
| Factor formulas | `backend/app/factors/chip_factors.py` | none | snapshots, as-of and delta factors | a day's factors use that day and the past only; lookback in exchange days | yes |
| Strategies | `backend/app/strategies` | none | features, composite signal, follow-through | thresholds, ranges of confidences | yes, but for unread features |
| Quality workflow | `scripts/ecc_quality_workflow.py` | none of its own | pick the latest run or batch, review it | the latest is the newest finished one | factor runs and batches |
| Artifact review | `scripts/ecc_artifact_reviewer.py` | review directory | collect, find, decide | passes only what is whole | factor runs, batches, redundancy reviews |
| Factor reviews | `scripts/factor_{redundancy,signal_similarity}_review.py` | review directory | relations per instrument, decisions, summaries | decisions independent of order; one factor of each story stays; evidence per instrument | yes |
| API, models | `backend/app/api`, `backend/app/domain` | none | handlers, validators | every request gets one answer | yes, partly |
| Client factory, configuration | `data/market_data_client_factory.py`, `core/config.py` | none | wiring | one client and one writer per request | as constants |
| Frontend, cache inspector, vendored skills | `frontend`, `data/market_cache_inspector.py`, `tushare-skills` | none | layout, reports, examples | | no |

How they interact. `build_market_data_client` wraps the Tushare client in a `CachedMarketDataClient` with a
`MarketCacheStore` and a `CacheWriter` of its own, on one database file. Every HTTP request and every script
builds its own. A read asks the store, then the provider for what is missing, then hands each answer to the
writer: the writer upserts it at once (`sync`), or inserts a job (`async`) which a `flush()` or, by default, a
daemon thread upserts later. The services and scripts call the client, and install retry and cache-event
handlers on it.

The hard behaviours, listed line by line under `hazards` in `PROJECT.json`:

* `upsert` reads the current row, and judges the version it names, before the transaction that acts on them;
* an auto-flush writer decides to stop its thread while a caller enqueues; a thread can die of an exception
  outside the `try`; a process can die between an upsert and its job's mark; several writers flush one table;
* a read looks up once, then asks several questions; the provider changes, fails on a later question, answers
  late; other reads write in between; answers are stamped when they are written;
* a provider call is admitted, paused, sent, retried; the event handler it reports to may raise in between;
* freshness depends on calendar dates for rows and on an age in seconds for no-data markers;
* a research run installs handlers on one client for each of its samples and takes them off again, whatever is
  raised; a run that fails or dies leaves a directory without a manifest; stage manifests hold checksums of
  files written before them;
* prices up to the last observation date come in one answer and serve the signal, which may not see them; factors
  of a day are computed while snapshots of later days are at hand, over exchange days a stock may not trade on;
* one stock of a scan or batch fails in a call, a flush, the formulas or the evaluation, and the others go on;
* directories are immutable and their ids come back: a stock listed twice, a batch repeated, a command after a
  crash; "latest" is a timestamp in a manifest that may be missing;
* retention decisions are changed pair after pair, and majorities over instruments are joined.

## 2. Modules

    CacheFreshness ──extends── MarketCacheStore ──implements──> CacheRegister
          │                        │                                 │
          │                  instance in CacheWriter          instance in ReadThrough
          └───────────────────────extends────────────────────────────┘

**CacheFreshness** (`_is_stale`, `_is_recent_row_stale`): operators over ticks and days. `TicksPerDay` keeps
"fetched on an earlier date" and "older than the TTL" apart.

**MarketCacheStore**: `versions` is the table of entry versions in insertion order (the version id is its
position), `current` the pointer rows, `conflicts` the conflict rows, `op[a]` what agent *a* (a connection) has
read for the upsert it is in, `now` the clock. `BeginUpsert` is validation, `_current_row` and
`_current_version_is_valid`; `CommitUpsert` is the transaction, with the six outcomes of `upsert` as operators
(`InsertFirst`, `Repair`, `Refresh`, `Idempotent`, `RejectConflict`, `Supersede`); `AbortUpsert` is its
rollback. `Damage` and `Misdirect` are rows that no longer match their checksum, kind or key. Reader and writer test
different columns: `Readable` (`read_many`) refuses a row whose `payload_kind` the program does not know, at which
`CurrentVersionIsValid` does not look. A checksum is the payload it is the checksum of; `semantic_params` are part of
the key.

**CacheRegister** is what a user of the store relies on: one register per key with the payload served, or nothing. An
upsert finds something, and later puts, keeps or renews according to what it *found*, which may be a payload that is
stored and cannot be served (`BeginUnserved`). It has no versions, pointers or conflicts.
`MarketCacheStore!ImplementsRegister` maps `entry` to what `read_many` can serve (`Served`) and `request` to the upserts
in progress.

**CacheWriter** composes writers with the store (`Store == INSTANCE MarketCacheStore`), so that a flush's
attempt is the store's own two steps. Each writer has a caller and a drain (the daemon thread) with program
counters, the flush lock, its snapshot of pending jobs and the attempts made. `WriteSync`, `WriteAsync`,
`WriteAuto`/`EnqueueLocked`, `CallFlush`, `StartFlush`, `BeginAttempt`, `CommitAttempt`, `FailAttempt`,
`MarkSucceeded`, `MarkFailed`, `ReturnFromFlush`, `DrainUntilIdle` follow the code's statements. `FlushRaises`
is a database call that raises outside the `try`, `ThreadEnds` the moment `is_alive()` turns false, `Crash` the
end of the process: table rows survive, lock and threads do not.

**ReadThrough** is a read: calendar lookup, calendar question, row lookup, one question per run of
consecutive missing days, each answer stored before the next question. The three row endpoints are the same
code over other payloads and are one endpoint here; the calendar is the other one. What a read has still to store
is `unstored`, a function from days to writes, which `NextDay` empties in the code's order (rows by day, then
markers by day). The cache below is `CacheRegister`, which the store implements, without what only damaged rows do to it
(`Lose`, `BeginUnserved`). `had[k]` is the history of what the provider had for a key, tick by tick, against which
results are judged.

**TushareCalls** is the provider side, one client and the thread that calls it. `pc` is where the call in progress
is, `windowStart` and `windowCount` the limiter's fields. `Admit`, `Pace`, `Paced` are `_wait_for_rate_limit`;
`Call`, `Send`, `Return`, `Fail`, `Retry`, `NextAttempt` the loop of `_call_tushare`. `ProviderRaises` raises an
error of one of the classes of `_map_tushare_error`. `HandlerRaisesInside` is an event handler that raises where
the `try` catches it, `HandlerRaisesOutside` one that raises while an exception is handled. It is not composed
with `ReadThrough`, which sees only the answer or error a call ends with (`ProviderRaises` there).


    Strategies ──> Backtest ──> Services
         │
         └──> ChipFactors ──> FactorEvaluation ──> ArtifactReview ──> FactorPipeline ──implements──> Artifacts
                                     └──> FactorRedundancy ──> SignalSimilarity ──> FactorReviews ──implements──┘

(each arrow: the right-hand module extends the left-hand one, unless it says otherwise)

**Strategies** and **Backtest** are pure: features of a window, the composite signal (`BuyScore`, `SellScore`,
`SelectAction`, `ConfidenceFor`), the market context and follow-through strategy; window checks, observation
dates, adjusted returns, labels, scores and their aggregates (a function of the strategy: the order in which the
code lists them decides nothing). Floats are exact fractions or integers in fixed
units; comparisons are cross-multiplied. Where the code uses a standard deviation, its square is used.

**Services** is one request to the API, from validation to the answer. `pc` is the statement it is at, `samples`
and `memory` what the service keeps of finished samples, `client` the handlers installed on its client, `logs` and
`files` what is on disk. `Receive` validates and makes the run directory; `InstallHandlers` and
`RestoreHandlers` are `LoggingMarketDataClient.__init__` and `close`; `Call` is one call of the client, with its
log row, its retry and cache events, and its exception; `CheckWindow`, `Evaluate` the rest of
`BacktestService.run`; `StartStock`, `FinishStock` the loop of a scan; `WriteSampleFile` and
`WriteAggregateFile` write one file each, in the code's order; `AskAgent` is the external agent, not configured,
failing, or answering with a text that has some `N+k` in it (any subset of `Numbers`), to which
`EnsureObservationCoverage` appends the program's own section if labels are missing; `Reply` is the handler in `routes.py`; `Crash` ends the process. What a
call answers is taken from `world`, the market; how the cached client behind it finds the answer is `ReadThrough`,
composed here only through what both have in common: an answer or an error.

**ChipFactors** and **FactorEvaluation** are the formulas (`BuildDailyChipSnapshot`, `BuildFactorValues`, the
lookback anchor, forward observations, groups and directions, batch aggregates and merges); of a Pearson
correlation only its existence is kept. An observation carries the place of its stock in the manifest, so that equal
rows of two stocks count twice and ties keep the order of the file. **ArtifactReview** is the list of deterministic findings for a
factor run and a batch.

**FactorPipeline** is a sequence of commands, each a process of its own, on one tree of files: run (live or
dry), evaluation, batch (runs and evaluations of its stocks), aggregate, review of a run or batch, named or latest. `dirs` and `files`
are the tree, `todo` the files a stage is about to write, `run`, `batch`, `review` and `client` the process's
locals, `error` the exception under way, `endings` how earlier commands ended. `StartRun` to `WriteManifest` follow
`run_factor_production` with its `finally` clause (`RestoreHandlers`, `FlushCacheWriter`, which may raise
itself); `HandleError` is the `except` clause of the batch, which takes operational errors for the result of a
stock; `Crash` ends a process between any two steps and leaves the tree.

**FactorRedundancy** and **SignalSimilarity** are relations between factors: formula hints, rank correlation by sign
and threshold, overlaps of triggers, behaviours, majorities. A table is a function from factors to series, relations
are functions from `Combinations`, the pairs in lexical order, and what the code gets by sorting is stated by what
comes before what: `DaysUnder` are the days before one in the stable order of values that gives the trigger days, and
`Turn` is when a pair comes in the loop over all pairs. `Decide` is the body of that loop, and `RetentionDecisions` the
recursive function that runs it, turn after turn. **FactorReviews** runs both reviews, and the artifact review of what
they left, stage by stage, over tables of a few instruments. `WriteReport`, `NoteArtifacts` and `CompleteReview` are the
report and the events after it; a process that ends between them has ended `"unclosed"`. An instrument listed twice meets the directory of its
first listing, which fails; properties about the files of an instrument therefore speak of its first listing
(`Reviewed`).

**Artifacts** is what readers of these trees rely on: a directory gets files, each written once, until it is sealed,
and then never changes. `FactorPipeline` and `FactorReviews` both implement it, with the file that seals each kind of
directory (`Sealed`) in the mapping and the growing logs left out of it.

**FileTree** is the tree both keep their files in, a function from paths to contents, and the three ways the scripts
write to it; it is apart so that both modules, and the proofs about them, use the same operators.

**MC** modules give constants their small values. **`_proofs`** modules hold the theorems: `MarketCacheStore_proofs`,
`CacheRegister_proofs`, `CacheWriter_proofs`, `ReadThrough_proofs`, `TushareCalls_proofs`, `Services_proofs`,
`FactorPipeline_proofs`, `FactorReviews_proofs`.

## 3. Runs

| Run | Question | Instance |
|---|---|---|
| `store_serial` | every outcome of `upsert` and `read_many`, one connection at a time | 2 keys (one dated tomorrow, without markers), 2 payloads, 3 versions, 1 damaged column, 5 half-day ticks |
| `store_race` | what survives overlapping upserts; refinement of the register | 2 connections, 2 keys, 2 payloads, 3 versions, 1 damaged column, 2 ticks |
| `writer_single` | one auto-flush writer with faults, an exception in its thread, a crash | 2 jobs, 2 attempts, 3 failing transactions, 1 exception, 1 crash |
| `writer_two` | an auto-flush writer beside a `sync` or manually flushed one that rejects corrections | 2 jobs, 1 synchronous write, 2 failing transactions, 1 exception |
| `read_through` | two reads together or in sequence, with a changing, failing provider | 3 days with a gap, 3 one-day ticks, 1 change, 1 lost write, queue of 1, both write modes |
| `tushare_calls` | calls with retries, limiter, failing provider and event handler | 3 calls of 3 attempts, 2 calls a minute of 3 ticks, 1 handler exception, 5 ticks outside sleeps |
| `research_run` | one scan, backtest or research run on either client, with failures, retries and a crash | 13 markets of 5 days, window of 2, offsets 1 and 2, agents that write `N+1`, `N+2` and `N+10` or not, up to 2 samples, 1 failing call, 1 retried call, 1 crash |
| `factor_pipeline` | lists of commands on one file tree | 7 exchange days around a weekend, lookback 2, 2 warmup days, offsets 1 and 3, 2 stocks (one with gaps), up to 5 commands, 1 fault, 1 crash |
| `factor_reviews` | reviews repeated, refused, cut short, and their artifact reviews | tables of 4 days, up to 6 factors of 7, up to 2 instruments, 1 crash |
| `writer_lost_wakeup`, `research_na`, `factor_anchor` | violations, section 6 | the instances above |

Why the bounds are enough. Three versions are a version, its correction and a repair or second correction; two
keys are needed for misdirected pointers; a second damaged column tells reader and writer nothing that one does not. Five half-day ticks cover a day before, inside and after a window of
one day, and an age on either side of the TTL. Two jobs are the shortest queue in which order, a second job
enqueued during a flush, and a replay of one of two differ. Three failing transactions exhaust one job's two
attempts and fail the next one's first. Three days are the shortest interval with a gap in the middle, which
splits a question in two, so that the second can fail after the first was stored. Three calls of three attempts
are up to nine sends, more than two full windows, which the bound of twice the limit needs to be tested. `MaxStoreTicks` bounds how
long an answer waits for its stamp; it is a parameter of the properties, not a claim about the code, which has
no such limit.

Five days leave room for a window of two, an offset that exists and one that does not, a gap in prices or
factors, and for data after the signal date that must not matter. Seven days hold a lookback with and without
enough history, a missing anchor, and an observation beyond the end. Five commands are a run or batch, its repetition
under the same id after a crash or failure, a second batch, their aggregate and a review. Two instruments are the
fewest over which a majority and a witness can differ; the tables of six factors hold two formula pairs and a chain of
relations that is not a clique, those of four the pair of changes beside that of shares. `N+10` begins like `N+1` and
does not name it. Markets and lists of commands are chosen one per hazard, not all combinations of prices.

All bounds are constants. They stop models that the program would go on from, which is why deadlock is not
checked in the cache modules (and in `research_run`, where a request is answered once and then nothing happens); `factor_pipeline` and
`factor_reviews` check it, their end is the step `Done`. What must not get stuck is stated as `EveryJobSettles` and `NoLostWakeup...`.

What the passing runs show:

* *Store, serially*: the pointer names the newest version of its key; a usable payload is replaced only with a
  conflict row; nothing that is served is replaced as unusable, and what is refused the next upsert repairs unless
  its kind is not known (`OnlyUnknownKindsAreStuck`); a stale entry is served again only after a write or when it
  leaves the window.
* *Store, overlapping*: pointers stay sound, payloads immutable, the ledger of corrections complete in both
  directions, and the whole is still a register. `CurrentIsNewest` and `CorrectionsAreRecorded` do **not** survive
  overlap, because the transaction acts on rows read before it: a no-data refresh can point back to a version
  superseded meanwhile, and of two first writes of a key the later replaces the earlier without a conflict row.
* *Writer*: lock and snapshot belong together, a job that succeeded is stored, a job that failed was rejected or
  out of attempts, pointers hold (`StatusFollowsOutcome`, several writers); no job is left without a thread unless
  one dies of an exception; replay after a crash adds no version, settles nothing twice and moves no key back to an
  earlier fetch (`ReplayIsHarmless`, one writer); jobs settle. With two writers the marks of one overwrite those of
  the other, and an overlapping flush can bring an older fetch back
  (`docs/design/local-market-data-cache.md:249` asks for one writer per process; requests build their own).
* *Read*: everything cached is the provider's answer for that very key, and a marker stands only for a day that
  was asked for (`CacheHoldsAnswers`); what is served for a day in the window was true on the day the read began,
  or later, and what is left out was absent within the TTL (`ResultsAreRecent`); answers are kept when a later
  question fails, and only missing days are asked for (`QuestionsAreNotWasted`). These hold with other reads,
  provider changes and the passing of days anywhere in between.
* *Provider calls*: no minute sees more than twice the limit, retries included; the events tell how a call ended
  and how many attempts it took; attempts keep the exponential backoff apart and nothing is asked again once it
  was refused or answered, unless a handler raised, when the code does throw an answer away and ask again
  (`RetriesAreJustified`); every call ends.
* *Requests*: whatever is raised, the client has its handlers back; a success is answered exactly with a manifest,
  and every file and checksum a manifest names is there at any moment a process could end; a signal is the one the
  market up to its signal date gives; logs, samples and calls agree, a failed call is the last row of its run;
  counts of scores add up and confidences are in range; for every observation the agent's text leaves out, the report has
  the label of every sample and strategy as the score files have it (`ReportTellsScores`); a stock of
  a scan is not changed by another's failure; every request is answered.
* *Factor commands*: a stock's files have a row for every day of its factors, whose factors, deltas and observations
  use exactly the days they should (`FactorFilesAreSound`); what seals a run or batch accounts for each stock with its files, and only refused,
  broken or killed commands leave no seal (`SealsAccountForStocks`); an aggregate prefers a completed result
  (`AggregatePrefersCompleted`); a review takes the newest finished run or batch and passes only a whole one; handlers are given back; the tree
  implements `Artifacts`; every command ends.
* *Factor reviews*: formula pairs decide whatever comes before or after, and of factors that tell one story, directly
  or through others, one is kept (`DecisionsStand`); relations depend on neither order nor sign; evidence is of one instrument, and a summary has a
  witness; an artifact review passes exactly a review that was written to its report, and then the files of every
  instrument are there (`ReviewsPassWhole`); the events that close its log may be missing (section 6).

The larger properties are conjunctions of parts which are defined and explained one by one in the modules.

Each property has at least one mutant: a plausible bug in a mapped definition which makes TLC refute it.

## 4. Fairness

`CacheWriter`, `TushareCalls`, `Services` and `FactorPipeline` have liveness. In `CacheWriter`, `Fairness` is weak fairness of each thread's next statement
(`Work`): Python runs every thread that can run, and `flush_lock` is freed by its holder in bounded work.
Nothing is assumed of callers (nobody must write or flush again), of faults, or of the clock.
`EveryJobSettles` therefore says that threads already there finish the work, and excepts runs in which a
thread or the process dies, after which jobs wait for the next write or flush. In `TushareCalls` it is weak fairness of the calling thread's next step (`Step`): a sleep ends, and a request is
answered or fails; nobody has to call. In `Services` it
is weak fairness of `Handle`, the thread that serves the request: a call answers or raises, and the server runs
its threads. In `FactorPipeline` it is fairness of the process of the current command, written as: the commands
are through, or steps other than crashes go on; this is what weak fairness of `Step` means there, since some step other
than a crash is possible until the commands are through. `ReadThrough`, `MarketCacheStore` and `FactorReviews` state
safety only.

## 5. Proofs

Every theorem holds for all values of the constants that satisfy the assumptions named below. Each `_proofs` module
states an inductive invariant (`IInv`, or the names given here), shows that the initial states satisfy it and each
action keeps it, lemma by lemma, and derives the properties the runs check from it.

| Module | Theorems | Property of the runs |
|---|---|---|
| `MarketCacheStore_proofs` | `TypeCorrect`, `PointersSound`, `OthersAreRepaired`, `LedgerIsConsistent`, `PayloadsKept`, `StaleIsCured` | `TypeOK`, `PointerIntegrity`, `OnlyUnknownKindsAreStuck`, `LedgerConsistent`, `PayloadsImmutable`, `StaleOnlyCuredByWriteOrAge` |
| | `SerialCurrentIsNewest`, `SerialCorrectionsRecorded` (one agent) | `CurrentIsNewest`, `CorrectionsAreRecorded` |
| `CacheRegister_proofs` | `StoreImplementsRegister` | `ImplementsRegister` |
| `CacheWriter_proofs` | `MutualExclusion`, `NoJobLeftBehind`, `StatusesAreEarned` | `NoLostWakeupUnlessThreadRaises`, `StatusFollowsOutcome` |
| | `ReplayLeavesNoTrace` (one writer) | `ReplayIsHarmless` |
| `ReadThrough_proofs` | `EntriesComeFromAnswers`, `ReadsReturnRecentRows`, `NothingPaidForIsLost` | `CacheHoldsAnswers`, `ResultsAreRecent`, `QuestionsAreNotWasted` |
| `TushareCalls_proofs` | `TypeCorrect`, `MinuteBounded`, `RetriesHaveReasons`, `EventsTell` | `TypeOK`, `PacedByWindow`, `RetriesAreJustified`, `EventsTellOutcome` |
| `Services_proofs` | `HandlersAreRestored`, `ReportIsComplete`, `ManifestsAreTrue` | `HandlersRestored`, `ReportTellsScores`, `ManifestsTellTheTruth` |
| | `LogsAreTrue`, `SignalsAreOfTheirDate`, `StocksAreApart` | `LogsTellTheRun`, `SignalsIgnoreTheFuture`, `ScanKeepsStocksApart` |
| | `ScoresAgree` | `ScoresAreConsistent` |
| `FactorPipeline_proofs` | `HandlersAlwaysReturned`, `PipelineImplementsArtifacts` | `HandlersReturned`, `ImplementsArtifacts` |
| | `SealsAccount`, `AggregatesPreferCompleted`, `ReviewsAreTrue` | `SealsAccountForStocks`, `AggregatePrefersCompleted`, `ReviewsAreOfTheLatest` |
| `FactorReviews_proofs` | `PassedIsWhole`, `ReviewsImplementArtifacts` | `ReviewsPassWhole`, `ImplementsArtifacts` |
| | `DecisionsHold`, `EvidenceIsOwn`, `RelationsHold` | `DecisionsStand`, `EvidenceIsPerInstrument`, `RelationsAreSymmetric` |

**The store.** Assumed are `StoreAssumption` and `FreshnessAssumption`: distinct markers are distinct from payloads
and pointers, time and bounds are naturals, and there is at least one tick a day. None of the properties is
inductive on its own, because a commit acts on a row read earlier. What an agent carries remains meaningful whatever
the others do: `OpSound` says that the version it read is still there (versions are never removed), that if it was
judged valid it still has the key and checksum it was read with (only markers' fetch times move), and that if it was
judged invalid it never becomes valid. Two smaller parts say that conflicts and `supersedes` columns name stored
versions. `VersionsKept` is proved of every step first; `OpSound` follows from it for the agents that do not move, and
each property from `OpSound` and the shape of the outcome taken. `StaleIsCured` needs in addition that nothing was
fetched in the future (`FetchedBefore`), so that age and date only grow. Which entry is newest is a question of serial
use: `OneAgent` is the hypothesis of the two theorems about it, and `ReadIsCurrent` and `IntactIsNewest` their
invariant: until it commits, what the only agent has read is what the tables say, and the writer builds on pointers to
rows it holds to be usable, which name the newest version whether or not their kind lets them be served. With two agents both properties are false (section 3).

**The register.** A step of the store is a step of the register or leaves `Served` and `Requested` alone: first
versions, repairs and corrections are `Put`, as is a refresh of a sound marker; a refresh of one that cannot be served,
because of its kind or of damage since it was read, is `RenewDamaged`; unchanged rows and rejected conflicts are `Keep`; damage and misdirection are `Lose` for the keys that
pointed there (misdirection can only take a key's value away, since a pointer to another key's version serves nothing).

**The writer.** Any number of writers in any modes, jobs, faults and crashes. Exclusion and wakeups rest on `Shape`,
the ranges of the writers' variables: a mark settles one job and touches no owner (`MarksSettle`), although nothing
says that the marking agent's batch still names a job. Exclusion is then inductive. The absence of lost wakeups is
not: a thread on its way out counts as alive, so an enqueue behind it starts no other one. `Wakeup` adds that while no
exception was raised no thread is on its way out or dead: the drain leaves with its last look at the table, under the
lock. `StaysAwake` treats the steps that add no job and end no thread, `EndsKeepWakeup` the three ways a thread ends.
For `StatusesAreEarned`, `Sound` adds where each agent is in its job (`Progress`: who is at a mark has stored the
payload, was refused it, or has made its attempts) and what settled jobs stand on (`Outcome`). The tables are the
store's, through an instance of `MarketCacheStore_proofs`, whose step lemmas say that no outcome of an upsert removes
a version or a conflict row (`TablesKept`).

`ReplayLeavesNoTrace` has the hypothesis `OneWriter`: one client, whose writes are queued. With two writers a mark of
one overwrites a mark of the other (section 3), and a `sync` write makes a version without a job. `Replay` is its
invariant. Jobs are fetched in the order they are queued (`JobsInOrder`); what is left of a batch is pending and
precedes every other pending job (`BatchComesFirst`), so that whichever flush replays it, the job it is at is the first
of all; nothing comes between the read and the commit of an upsert (`UpsertIsCurrent`), and since nothing damages rows
here no upsert finds one to repair (`PointersAreSound`). What is served was fetched for some job and before every
pending one of its key (`ServedWasQueued`, `ServedIsEarlier`): a replay cannot go back. `OneVersionPerJob` counts
versions against used jobs, those settled and the first pending one if its payload is served already, which is what a
crash between the commit and the mark leaves behind: replaying it finds an equal checksum and adds nothing.

Assumed are `TablesAssumption` (the store's own, for the tables used) and `WriterAssumption`.

**Reads.** Any number of reads, any days, answers, changes and losses. What a read has looked up is no longer what the
cache or the provider says when it returns; `ReadOK` says at which tick each part of it was true. `UnstoredOK`: what
is still to be stored is what the provider answered at the tick noted in `answered`, and `ClockOK` that this tick is at
most `MaxStoreTicks` ago. `RecentOK`: of the days that are in the window *now*, rows and calendar days were had by the
provider on the day the read began, or later; the window only shrinks (`WindowShrinks`), so that a day in it at the end
was in it at the lookup, where the freshness test was passed on that very date (`HitOfToday`). `AbsentOK`: days given
up were absent, when asked or within the lifetime of the marker found. `PhaseOK` and `PaidOK` say that days still to be
asked for are open days without rows, and that what was fetched is held or still to be stored. `RequestsOK` ties an
upsert in progress to the write it carries, `HistoryOK` the provider's history to the clock. `ReadStays` shows once that
a read keeps all this while others move, time passes, or the provider changes; `HandedKeeps` treats a write handed
over, by whichever way. Assumed is `ReadAssumption`: days are natural numbers, intervals are ordered, `NoEntry` and
`NoOp` are told apart from payloads and requests. The cache is `CacheRegister`, which the store implements.

**Provider calls.** The bound on a minute is not inductive: it follows from `WindowsApart`, which says that calls
counted before the current window were sent before it began, and those counted before the window preceding it a minute
earlier still. Sending twice the limit after a call therefore lies a minute after it. Retries have an invariant of
their own, `Retries`, on top of `IInv`: how many attempts were sent at each point of the loop, that whoever may send
again is past the backoff of the attempt before (`InTime`), that it was neither refused for good nor answered unless a
handler raised (`OpenQuestion`), and how many events were reported by then (`Announced`). Assumed are
`CallsAssumption` and `BackoffAssumption` (powers of two are natural numbers and grow, about which the provers know
nothing).

**Requests.** Any market, request, failures and moment of a crash. The invariant has a part for each concern:
`HandlersOK` (what was found on the client is put aside while a sample's handlers are on it), `SamplesOK`
(samples are written one after the other, each until its last manifest), `AnswerOK` (the run's manifest comes last,
and with it the success), and `ChecksumsMatch`, a part of the property.

Five more invariants, proved on top of these, say what is in the files.

* `LogInv`, for `LogsAreTrue`. That a failed call is the last row needs that an exception stays on its way until it is
  answered (`PointsOK`, `RowsOK`), and that retries are counted needs to know whose handler is installed (`CountsOK`).
  The cache summary is a sum over samples: `CachesOK` says at each point of the run that the log is the sum of what
  finished samples stored and of what the one under way remembers. `ManifestOK` says that nothing the manifest tells of
  changes after it. The sum itself is a recursive function; that it exists and adds up is proved by induction, written
  as the statement that a set of naturals that holds 0 and the successor of each of its members holds all (`AllNaturals`).
* `SignalInv`, for `SignalsAreOfTheirDate`. `AnswersOK` is what a backtest has been answered when it gets to each
  call, although the one answer to `daily` reaches to the last observation; `SignalsOK` that the signal is the one
  the market gives when it is cut off at the signal date. `EvaluateCompositeSignal` stays closed in this proof: that
  its arguments are equal is what there is to show.
* `ScanInv`, for `StocksAreApart`. `StockOK` says what belongs to the stock the scan is at, `ResultsOK` that every
  result before it is that of its own rows, or of a failure.
* `ScoreInv`, for `ScoresAgree`. The manifest is written from samples that finished long before, so `SamplesScored` says
  of each of them, from when it is appended, that it has one score of every known strategy, in the order of the
  request, and that the four labels of each score count its observations once (`ScoresOf`). The aggregate groups and
  adds them in nested loops, which are recursive functions: `GroupsAreLast` and `SumIsLast` say what they hold after each
  turn, by the same induction over naturals, and `AggregateAddsUp` that every group ends with one score per
  sample. It needs that the strategies asked for are distinct, which validation sees to. `CompositeIsConsistent` follows
  the composite signal from the weights of its reasons to the range of its confidence, for any features.
* `ReportInv`, for `ReportIsComplete`. The report and the score files are written at different times from what the
  service keeps in memory. `ObservedOK` says that what is remembered of a sample has a score for every offset, in their
  order; `StoredOK` that the score file of every finished sample holds just that, whatever is written later; `SectionOK`
  that a section is made of all samples whenever the text leaves an offset out, from `AskAgent` to the file.

Assumed are `ServicesAssumption` (calendars are increasing sequences of naturals, windows and numbers of days naturals,
codes, starts and strategies sequences, `None` neither a failure nor the status 200) and `AnswersAssumption`
(what there is to answer is told apart from `Missing`, the answer that there is nothing).

**File trees.** `Artifacts` is implemented step by step: every step of `FactorPipeline` or `FactorReviews` makes
directories, adds one file to a directory that is not sealed, writes what is outside the tree, or does nothing to it
(`TreeKept`). For the pipeline this needs `TodoOK`: what a stage is about to write is new, in a directory that was
made, and whatever seals that directory comes last; `RunOK`, `BatchOK` and `ReviewOK` carry it through the stages of a
run that may be part of a batch, `TreeOK` keeps `latest.json` apart. `HandlersReturned` is inductive as it stands. For
the reviews, `NothingAhead` bounds what a review can have written so far and `NothingMissing` says what it must have;
with `ReportMeansFinished` (the report is there exactly when a command wrote it, one that is closing its log or one
before, whatever ended it then) and `PassedMeansFinished` it follows that an artifact review finds everything it looks
for exactly then. The steps after the report touch the log only (`LogOnlyKeeps`). Assumed are `PipelineAssumption` (lists of commands are sequences of
known commands, ids naturals, their stocks and sources sequences of naturals) and `ReviewsAssumption`, below.

What is in the files of the pipeline takes invariants of their own, since a seal is written last and speaks of all that
was written before:

* `SealsAccount` rests on `RunInv` and `BatchInv`. `RunProgress` says that the run under way has an output, with
  files and checksums that are there, for each stock before the one it is at, and gets to its manifest only after the
  last; `PlanOK` that no stage plans to write what a run or batch keeps for itself, so that `ManifestsOK` stays true.
  `BatchState` and `BatchSteps` say the same of a batch and its results, through the run and evaluation of each stock and
  whatever they raise; `SummariesOK` carries it into the summary, planned or written. That only refused, broken or
  killed commands leave no seal needs `BatchDirsOK`: a batch's directory was made by a command that had its id.
* `AggregatesPreferCompleted` rests on `MergeInv`. What an aggregate merged stays true because the summaries it read
  do not change (`TreeKept`); `AggregateSteps` follows it from the merge through the writes to its ending. The merge is
  a recursive function, whose value is found by induction over the list of results: one result of each stock, a completed one where
  there is one.
* `ReviewsAreTrue` rests on two invariants. `ReviewInv` says that what passes is whole (`Truth`: a live, completed run
  with a warmup, every factor of which is `OK` and every call of which succeeded, or a batch of completed stocks) from
  the moment the findings are empty; `LogInv` ties logs and quality files to the manifests that seal them. `LatestInv`
  says that timestamps and ids are naturals and directories finite, so that there is a latest one (`Greatest`).

**Factor reviews.** `ReviewInv` says that files are what the operators make of an instrument's own table, whatever other
instruments are loaded: `DecidedOK`, `ComparedOK`, and for the summary `ResultsCompared` (what the review remembers of the
instruments behind it is in their files) and `SummaryOK`. What the operators make is proved of any table, without a
bound:

* *Decisions.* The turns of `RetentionDecisions` are shown to exist and to follow one another (`Turns`). `Sound` is
  the invariant of a turn: a factor that a formula protects is kept, every decision has a reason among the strong
  relations, and of the formulas whose turn has come each has excluded the other factor. It needs that two formulas
  with a factor in common are the same (`SameFormula`). A story keeps a protected factor or, if it has none, the one
  that comes first: without protected factors, one loses its place only to another that comes before it.
* *Relations.* The position of a day among its series is a bijection (`Position`), so the low and the high side have
  equally many days, also when values are equal. The four overlaps then differ by the number of common days and by
  their order only, so there is exactly one best, and turning the factors round turns it round. A mirrored series turns
  positions and swaps sides; differences of fractions change their sign only.
* *Summaries.* Two sets that each hold at least six in ten instruments have one in common, which is the witness.

Assumed is `ReviewsAssumption`: settings are numbers, ratios fractions in (0, 1] and the quantile at most a half, which
the command line checks; tables have known factors, series of a table are equally long and hold integers or `None`,
which is neither a factor nor a fraction; an instrument's id is not that of the review itself.

**Only model-checked**, and why:

* liveness (`EveryJobSettles`, `EveryCallEnds`, `EveryRequestAnswered`, `EveryCommandEnds`), which the prover cannot treat
  under fairness;
* `FactorFilesAreSound`: the rows of a stock are sorted out of sets, filtered and aggregated by factor. The operators that
  do it in the library (`SelectSeq`, `SetToSortSeq`, and the recursion behind them) take an operator as an argument; the
  facts about them would need theorems of the same kind, which the provers cannot instantiate. That a seal names the
  right stocks, and files that are those its checksums were taken of, is proved as `SealsAccount`.

## 6. Disagreements between code and documents

With a run:

* `writer_lost_wakeup`: a job enqueued while the thread is dying of an exception gets no thread
  (`backend/tests/test_cache_writer.py:98`).
* `research_na`: a backtest whose later observation dates are not in the calendar yet fails, where
  `docs/product-specs/current-state.md:43` promises `N/A` (`services/backtest_service.py:47`).
* `factor_anchor`: a delta whose lookback day has a price and no chips has a value and the quality OK, where
  `docs/design/chip-factor-production-plan-2026q1.md:715` asks for null or `INSUFFICIENT_HISTORY`
  (`factors/chip_factors.py:332`).

Without a run of their own:

* an entry whose `payload_kind` is no `CachePayloadKind`, as a later release may leave behind, is a miss for every read
  (`data/market_cache.py:215`); `_current_version_is_valid` (`:534`) does not look at that column, so an upsert of the
  same rows ends as idempotent and leaves the entry as it is, to be fetched again by every read. Entries refused for
  another reason are repaired (`backend/tests/test_market_cache.py:284`). `OnlyUnknownKindsAreStuck` and the theorem
  `OthersAreRepaired` say that this is the only such case;
* a redundancy review whose process ends after the report (`scripts/factor_redundancy_review.py:162`) and before its
  last two events is passed by the artifact review, which asks only that the log exists
  (`docs/design/factor-redundancy-review-skill.md:499` requires `review_completed` in it);
* rows refetched with an unchanged checksum keep their fetch time and stay stale, so a read fetches them again
  until they leave the window (`docs/design/local-market-data-cache.md:383`, `data/market_cache.py:155`);
* a no-data refresh that overlaps a correction points back to the superseded version (`:389` of the same document,
  `data/market_cache.py:153`);
* `write()` waits for the flush lock, which the thread holds through a batch of upserts (`:346`,
  `data/cache_writer.py:59`);
* a full window of calls can follow another within a minute
  (`docs/exec-plans/active/factor-discovery-dry-run-603799-202401.md:83`, `data/tushare_client.py:262`), which is
  why `PacedByWindow` has the factor two;
* errors whose wording the client does not know are retried as network errors, where `docs/RELIABILITY.md:28`
  excludes schema and parameter errors;
* the cached client has no retry hook, so retries behind it are in no log (`docs/product-specs/current-state.md:56`);
* the cache warnings of a factor run count the jobs its own flush failed, not those the daemon thread failed before
  (`docs/exec-plans/active/local-market-data-cache.md:217`, `scripts/chip_factor_runner.py:136`); a flush that raises
  takes the place of the exception under way;
* ties between factors of a pair are broken by formula hint and then by name, where
  `docs/design/factor-redundancy-review-skill.md:409` prefers data quality.

Observed on the way, against no document: when neither a day nor its anchor has chips or a price, `max()` of no dates
raises and ends a batch without a summary (`chip_factors.py:322`, `chip_factor_batch.py:243`); an aggregate's
directory is made before its summaries are read, so a failed id cannot be used again; the replacement named for a
downweighted factor may itself be excluded; every pair with a formula hint holds a factor that current runs no longer
write.

## 7. Not modelled, and the plan

Not modelled by choice: files cut in the middle of a write and writes that fail (each write of a file is one step, which
happens or not), number formats, JSON, SQL text, wording of messages, reports and prompts, configuration
parsing, rounding of floats, the frontend, vendored examples. In `ReadThrough`: cache events, `get_stock_name`,
`calculate_adjusted_return`, calendar errors inside `get_chip_distribution` of the Tushare client (its own
calendar lookup can raise EMPTY_DATA, which the cached client takes for missing rows), overlapping flushes and
damaged entries (the modules below treat them). In `TushareCalls`: row conversion, environment parsing, and
several clients, each of which has a limiter of its own. In `Services`: the payload and redaction for the agent,
several requests at once (they share the cache only, which the cache modules treat), agent clients other than the one
that is built in, which takes any text as its answer, and what that text says beside the labels: a label counts as named
wherever it stands. In `FactorPipeline`: the JSON
cache a run writes and never reads, worker, retry, cache and batch event logs, two commands at once, the quality
gate (a list of commands that stops at the first failure), reviews of research runs. In `Strategies`: features no
decision reads (volatility, averages, shadows). In `SignalSimilarity`: win rates as numbers in the report.

What may follow, most important first:

1. Reviews of research runs over the files `Services` writes, and the choice of the latest research run, which goes
   by directory name and may be incomplete.
2. `FactorFilesAreSound` over definitions that select and sort by recursive functions, as the factor reviews and the
   aggregate of scores do, in place of the library's operators.
