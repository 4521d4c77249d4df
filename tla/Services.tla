------------------------------ MODULE Services ------------------------------
(***************************************************************************)
(* One request to the API (backend/app/api/routes.py): a scan, a backtest  *)
(* or a research run, with the market data client built for it             *)
(* (backend/app/services).                                                 *)
(*                                                                         *)
(* Every call of the client is a step: it may be served from the cache,    *)
(* may be retried by the provider, and may raise.  A research run wraps    *)
(* the client in a LoggingMarketDataClient for each of its samples and     *)
(* writes its files one after the other, so a failure or the end of the    *)
(* process can come between any two of them.                               *)
(***************************************************************************)
EXTENDS Backtest, Functions, FileTree

CONSTANTS
  Worlds,      \* what the market may look like: calendar, bars, chips, factors
  Clients,     \* kinds of client, a subset of {"tushare", "cached"}
  Requests,    \* the requests a caller may make
  Agents,      \* research agents, a subset of {"none", "configured"}
  Numbers,     \* the k for which an agent may write N+k
  Caller,      \* the handler the client had before the request
  MaxFaults,   \* bound on calls that raise
  MaxRetries   \* bound on provider calls that were retried

\* A calendar lists its open days in order.
ASSUME ServicesAssumption ==
  /\ \A w \in Worlds : w.open \in Seq(Nat) /\ \A i, j \in DOMAIN w.open : i < j => w.open[i] < w.open[j]
  /\ \A r \in Requests :
       /\ r.kind = "scan" => r.codes \in Seq(ToSet(r.codes)) /\ r.days \in Nat
       /\ r.kind # "scan" => r.window \in Nat
       /\ r.kind = "research" => r.starts \in Seq(ToSet(r.starts)) /\ r.strategies \in Seq(ToSet(r.strategies))
  /\ None \notin {"unavailable", "error"} /\ None # 200
  /\ Clients \subseteq {"tushare", "cached"}
  /\ Agents \subseteq {"none", "configured"}
  /\ Numbers \subseteq Nat
  /\ {MaxFaults, MaxRetries} \subseteq Nat

VARIABLES
  world, request, agent,
  client,      \* its kind and the event handlers it has
  saved,       \* previous_retry_event_handler and previous_cache_event_handler
  pc,
  item,        \* which stock of the scan, which start date of the research run
  got,         \* what the calls for it have answered
  failure,     \* the exception on its way up
  logs,        \* api-calls.jsonl, and the counts in the two event logs
  memory,      \* cache_events of the logging client
  backtest,    \* the BacktestResponse of the item
  files,       \* the other files of the run directory
  samples,     \* the results of the finished items
  review,
  reply,
  calls, retries, faults   \* history: calls made, provider retries, calls that raised

vars == <<world, request, agent, client, saved, pc, item, got, failure, logs, memory, backtest,
          files, samples, review, reply, calls, retries, faults>>

----------------------------------------------------------------------------
(* A raw code is six digits, of which the first decides, or not, and may   *)
(* name an exchange.                                                       *)
Exchange(lead) ==
  CASE lead \in {5, 6, 9} -> "SH" [] lead \in 0..3 -> "SZ" [] lead \in {4, 8} -> "BJ" [] OTHER -> None

NormalizeTsCode(raw) ==
  IF ~raw.sixDigits THEN None
  ELSE IF raw.exchange \in {"SH", "SZ", "BJ"} THEN [stock |-> raw.stock, exchange |-> raw.exchange]
  ELSE IF raw.exchange # None \/ Exchange(raw.lead) = None THEN None
  ELSE [stock |-> raw.stock, exchange |-> Exchange(raw.lead)]

\* What the validators of ScanRequest, BacktestRequest and ResearchRunRequest let through.
ValidRequest(r) ==
  CASE r.kind = "scan" -> r.codes # <<>> /\ IsInjective(r.codes) /\ r.days >= 1
    [] r.kind = "backtest" -> r.window >= 2
    [] r.kind = "research" -> /\ r.starts # <<>> /\ IsInjective(r.starts)
                              /\ r.strategies # <<>> /\ IsInjective(r.strategies)
                              /\ r.window >= 2

Code == IF request.kind = "scan" THEN request.codes[item] ELSE request.code
Stock == NormalizeTsCode(Code).stock
Start == IF request.kind = "research" THEN request.starts[item] ELSE request.start
Research == request.kind = "research"
NoCalls == [days |-> <<>>, prices |-> <<>>, chips |-> <<>>, factors |-> None]
RunDir == 0   \* in the place of a sample: the run directory itself
NoEvents == [hits |-> 0, misses |-> 0]

AddEvents(a, b) == [hits |-> a.hits + b.hits, misses |-> a.misses + b.misses]

\* summarize_cache_event_rows, of summaries.
SumEvents(summaries) ==
  LET sum[n \in 0..Len(summaries)] == IF n = 0 THEN NoEvents ELSE AddEvents(sum[n - 1], summaries[n])
  IN sum[Len(summaries)]

----------------------------------------------------------------------------
(* What the client answers to a call.                                      *)

DaysFrom(start, n) ==
  LET before == Cardinality({i \in DOMAIN world.open : world.open[i] < start})
  IN IF before + n > Len(world.open) THEN Missing ELSE SubSeq(world.open, before + 1, before + n)

DaysTo(end, n) ==
  LET until == Cardinality({i \in DOMAIN world.open : world.open[i] <= end})
  IN IF until < n THEN Missing ELSE SubSeq(world.open, until - n + 1, until)

Between(rows, first, last) == Restrict(rows, {d \in DOMAIN rows : d \in first..last})

\* What there is to answer is no error.
ASSUME AnswersAssumption ==
  \A r \in Requests : r.kind = "scan" => \A i \in DOMAIN r.codes :
    LET stock == r.codes[i].stock
    IN /\ stock # Missing
       /\ \A w \in Worlds : \A first, last \in ToSet(w.open) :
            /\ Between(w.prices[stock], first, last) # Missing
            /\ Between(w.chips[stock], first, last) # Missing

LastDay ==
  IF request.kind = "scan" THEN Last(got.days) ELSE LastAvailableObservationDate(got.days, request.window)
SignalDay == IF request.kind = "scan" THEN Last(got.days) ELSE got.days[request.window]

\* Tushare raises for an answer without rows, the cached client returns it.
OrEmpty(answer, empty) == IF answer = empty /\ client.kind = "tushare" THEN Missing ELSE answer

Answer(endpoint) ==
  CASE endpoint = "trade_cal" ->
         IF request.kind = "scan" THEN DaysTo(request.end, request.days)
         ELSE DaysFrom(Start, RequiredDays(request.window))
    [] endpoint = "stock_basic" -> Stock
    [] endpoint = "daily" ->
         OrEmpty(Between(world.prices[Stock], got.days[1], LastDay), <<>>)
    [] endpoint = "cyq_chips" ->
         OrEmpty(Between(world.chips[Stock], got.days[1], SignalDay), <<>>)
    [] endpoint = "adj_factor" ->
         OrEmpty(Between(world.factors[Stock], got.days[1], LastDay), <<>>)

\* The cached client reads the calendar before the rows of a range.
CacheEvents(endpoint, asked) ==
  CASE client.kind # "cached" \/ endpoint = "stock_basic" -> NoEvents
    [] endpoint = "trade_cal" -> IF asked THEN [hits |-> 0, misses |-> 1] ELSE [hits |-> 1, misses |-> 0]
    [] OTHER -> IF asked THEN [hits |-> 1, misses |-> 1] ELSE [hits |-> 2, misses |-> 0]

----------------------------------------------------------------------------
Init ==
  /\ world \in Worlds
  /\ request \in Requests
  /\ ValidRequest(request)
  /\ agent \in Agents
  /\ \E kind \in Clients :
       client = [kind |-> kind,
                 retry |-> IF kind = "tushare" THEN Caller ELSE None,
                 cache |-> IF kind = "cached" THEN Caller ELSE None]
  /\ saved = [retry |-> None, cache |-> None]
  /\ pc = "received" /\ item = 1
  /\ got = NoCalls /\ failure = None
  /\ logs = [api |-> <<>>, retries |-> 0, cache |-> NoEvents]
  /\ memory = NoEvents /\ backtest = None
  /\ files = <<>> /\ samples = <<>> /\ review = None /\ reply = None
  /\ calls = 0 /\ retries = 0 /\ faults = 0

Inputs == <<world, request, agent>>
History == <<calls, retries, faults>>
RunOutputs == <<logs, memory, files, samples, review>>

Finish(status) == pc' = "done" /\ reply' = status

\* create_scan, create_backtest and create_research_run: the first thing each service does.
Receive ==
  /\ pc = "received"
  /\ UNCHANGED <<Inputs, client, saved, item, got, failure, logs, memory, backtest, samples, review, History>>
  /\ IF request.kind # "scan" /\ NormalizeTsCode(Code) = None
     THEN Finish(503) /\ UNCHANGED files
     ELSE /\ pc' = IF Research THEN "sample" ELSE "trade_cal"
          /\ files' = IF Research THEN WithFile(files, <<RunDir, "run-config.json">>, request) ELSE files
          /\ UNCHANGED reply

InstallHandlersSharedMemory ==
  /\ pc = "sample"
  /\ saved' = [retry |-> client.retry, cache |-> client.cache]
  /\ client' = [client EXCEPT !.retry = IF client.kind = "tushare" THEN Start ELSE @,
                              !.cache = IF client.kind = "cached" THEN Start ELSE @]
  /\ got' = NoCalls
  /\ pc' = "trade_cal"
  /\ UNCHANGED <<Inputs, item, failure, logs, memory, backtest, files, samples, review, reply, History>>

InstallHandlersWithoutRetry ==
  /\ pc = "sample"
  /\ saved' = [retry |-> client.retry, cache |-> client.cache]
  /\ client' = [client EXCEPT !.cache = IF client.kind = "cached" THEN Start ELSE @]
  /\ memory' = NoEvents
  /\ got' = NoCalls
  /\ pc' = "trade_cal"
  /\ UNCHANGED <<Inputs, item, failure, logs, backtest, files, samples, review, reply, History>>

\* LoggingMarketDataClient.__init__: the handlers of the sample replace those the client has.
InstallHandlers ==
  /\ pc = "sample"
  /\ saved' = [retry |-> client.retry, cache |-> client.cache]
  /\ client' = [client EXCEPT !.retry = IF client.kind = "tushare" THEN Start ELSE @,
                              !.cache = IF client.kind = "cached" THEN Start ELSE @]
  /\ memory' = NoEvents
  /\ got' = NoCalls
  /\ pc' = "trade_cal"
  /\ UNCHANGED <<Inputs, item, failure, logs, backtest, files, samples, review, reply, History>>

\* The exception of a call: it ends a scan, or only this stock of it, or passes
\* through the logging client.
Fail(kind) ==
  /\ failure' = kind
  /\ pc' = CASE Research -> "close" [] request.kind = "scan" /\ pc # "trade_cal" -> "scanned" [] OTHER -> "failed"

NextCall(endpoint) ==
  CASE request.kind = "scan" ->
         (CASE endpoint = "trade_cal" -> "stock" [] endpoint = "stock_basic" -> "cyq_chips"
            [] endpoint = "cyq_chips" -> "daily" [] OTHER -> "scanned")
    [] OTHER ->
         (CASE endpoint = "trade_cal" -> "stock_basic" [] endpoint = "stock_basic" -> "daily"
            [] endpoint = "daily" -> "cyq_chips" [] endpoint = "cyq_chips" -> "check" [] OTHER -> "evaluate")

Remember(endpoint, answer) ==
  CASE endpoint = "trade_cal" -> [got EXCEPT !.days = answer]
    [] endpoint = "daily" -> [got EXCEPT !.prices = answer]
    [] endpoint = "cyq_chips" -> [got EXCEPT !.chips = answer]
    [] endpoint = "adj_factor" -> [got EXCEPT !.factors = answer]
    [] OTHER -> got

OfThisSample(handler) == Research /\ handler = Start

RecordTwice(endpoint, ok, retried, events) ==
  /\ logs' = IF ~Research THEN logs
             ELSE [api |-> Append(logs.api, [sample |-> Start, endpoint |-> endpoint, ok |-> ok]),
                   retries |-> logs.retries + (IF retried /\ OfThisSample(client.retry) THEN 2 ELSE 0),
                   cache |-> IF OfThisSample(client.cache) THEN AddEvents(logs.cache, events) ELSE logs.cache]
  /\ memory' = IF OfThisSample(client.cache) THEN AddEvents(memory, events) ELSE memory

\* _record: a row for the call, OK or ERROR; _record_retry_event and _record_cache_event where
\* the client has a handler of this sample.
Record(endpoint, ok, retried, events) ==
  /\ logs' = IF ~Research THEN logs
             ELSE [api |-> Append(logs.api, [sample |-> Start, endpoint |-> endpoint, ok |-> ok]),
                   retries |-> logs.retries + (IF retried /\ OfThisSample(client.retry) THEN 1 ELSE 0),
                   cache |-> IF OfThisSample(client.cache) THEN AddEvents(logs.cache, events) ELSE logs.cache]
  /\ memory' = IF OfThisSample(client.cache) THEN AddEvents(memory, events) ELSE memory

\* One call of the market data client; asked: the provider was asked for something.
\* get_stock_name raises nothing: a name that cannot be had is None.
Call ==
  /\ pc \in {"trade_cal", "stock_basic", "daily", "cyq_chips", "adj_factor"}
  /\ calls' = calls + 1
  /\ \E asked, retried \in BOOLEAN, raised \in {None, "unavailable", "error"} :
       LET fault == IF raised = None /\ Answer(pc) = Missing THEN "unavailable" ELSE raised
           events == IF raised = None THEN CacheEvents(pc, asked)
                     ELSE [CacheEvents(pc, asked) EXCEPT !.misses = 0]
       IN /\ asked \/ (client.kind = "cached" /\ pc # "stock_basic")
          /\ (retried \/ raised # None) => asked
          /\ retried => retries < MaxRetries
          /\ raised # None => faults < MaxFaults /\ pc # "stock_basic"
          /\ retries' = retries + (IF retried THEN 1 ELSE 0)
          /\ faults' = faults + (IF raised # None THEN 1 ELSE 0)
          /\ Record(pc, fault = None, retried, events)
          /\ IF fault # None THEN Fail(fault) /\ UNCHANGED got
             ELSE pc' = NextCall(pc) /\ got' = Remember(pc, Answer(pc)) /\ UNCHANGED failure
  /\ UNCHANGED <<Inputs, client, saved, item, backtest, files, samples, review, reply>>

\* The checks between the calls of a backtest.
CheckWindow ==
  /\ pc = "check"
  /\ IF WindowIsComplete(got.days, request.window, got.prices)
     THEN pc' = "adj_factor" /\ UNCHANGED failure
     ELSE Fail("unavailable")
  /\ UNCHANGED <<Inputs, client, saved, item, got, RunOutputs, backtest, reply, History>>

Evaluate ==
  /\ pc = "evaluate"
  /\ backtest' = BacktestResponse(got.days, request.window, got.prices, got.chips, got.factors)
  /\ IF backtest' = Missing THEN Fail("unavailable")
     ELSE pc' = (IF Research THEN "close" ELSE "answered") /\ UNCHANGED failure
  /\ UNCHANGED <<Inputs, client, saved, item, got, RunOutputs, reply, History>>

----------------------------------------------------------------------------
(* Scans: one stock after the other, each with its own failure.            *)

StartStock ==
  /\ pc = "stock"
  /\ IF item > Len(request.codes) THEN pc' = "answered" /\ UNCHANGED <<got, failure>>
     ELSE /\ got' = [NoCalls EXCEPT !.days = got.days]
          /\ IF NormalizeTsCode(Code) = None THEN Fail("unavailable")
             ELSE pc' = "stock_basic" /\ UNCHANGED failure
  /\ UNCHANGED <<Inputs, client, saved, item, RunOutputs, backtest, reply, History>>

\* sorted(price_bars, key=trade_date).
SortedBars(prices) == LET days == SetToSortSeq(DOMAIN prices, <) IN [i \in DOMAIN days |-> prices[days[i]]]

ScanSignal(answers) == EvaluateCompositeSignal(MarketFeatures(answers.chips, SortedBars(answers.prices)))

FinishStockKeepsFailure ==
  /\ pc = "scanned"
  /\ failure # "error"
  /\ LET bad == failure = "unavailable" \/ got.chips = <<>> \/ got.prices = <<>>
     IN samples' = Append(samples, [code |-> Code,
                                    status |-> IF bad THEN "ERROR" ELSE "OK",
                                    signal |-> IF bad THEN [action |-> "HOLD", confidence |-> 0] ELSE ScanSignal(got)])
  /\ item' = item + 1
  /\ pc' = "stock"
  /\ UNCHANGED <<Inputs, client, saved, got, failure, logs, memory, files, review, backtest, reply, History>>

FinishStock ==
  /\ pc = "scanned"
  /\ failure # "error"
  /\ LET bad == failure = "unavailable" \/ got.chips = <<>> \/ got.prices = <<>>
     IN samples' = Append(samples, [code |-> Code,
                                    status |-> IF bad THEN "ERROR" ELSE "OK",
                                    signal |-> IF bad THEN [action |-> "HOLD", confidence |-> 0] ELSE ScanSignal(got)])
  /\ failure' = None
  /\ item' = item + 1
  /\ pc' = "stock"
  /\ UNCHANGED <<Inputs, client, saved, got, logs, memory, files, review, backtest, reply, History>>

----------------------------------------------------------------------------
(* Research runs.                                                          *)

RestoreHandlersOnSuccess ==
  /\ pc = "close"
  /\ client' = IF failure # None THEN client
               ELSE [client EXCEPT !.retry = IF client.kind = "tushare" THEN saved.retry ELSE @,
                                   !.cache = IF client.kind = "cached" THEN saved.cache ELSE @]
  /\ pc' = IF failure = None THEN "artifacts" ELSE "failed"
  /\ UNCHANGED <<Inputs, saved, item, got, failure, RunOutputs, backtest, reply, History>>

RestoreHandlersSkipsSample ==
  /\ pc = "close"
  /\ client' = [client EXCEPT !.retry = IF client.kind = "tushare" THEN saved.retry ELSE @,
                              !.cache = IF client.kind = "cached" THEN saved.cache ELSE @]
  /\ pc' = IF failure = None THEN "artifacts" ELSE IF item < Len(request.starts) THEN "sample" ELSE "review"
  /\ item' = IF failure = None THEN item ELSE item + 1
  /\ failure' = None
  /\ UNCHANGED <<Inputs, saved, got, RunOutputs, backtest, reply, History>>

\* LoggingMarketDataClient.close, in the finally clause.
RestoreHandlers ==
  /\ pc = "close"
  /\ client' = [client EXCEPT !.retry = IF client.kind = "tushare" THEN saved.retry ELSE @,
                              !.cache = IF client.kind = "cached" THEN saved.cache ELSE @]
  /\ pc' = IF failure = None THEN "artifacts" ELSE "failed"
  /\ UNCHANGED <<Inputs, saved, item, got, failure, RunOutputs, backtest, reply, History>>

Signals(strategies, response) == ResearchStrategySignals(response.signal, response.context, strategies)

StrategyScores ==
  LET named == Signals(request.strategies, backtest)
  IN [i \in DOMAIN named |-> ScoreStrategy(named[i], backtest)]

SignalFiles(sample) ==
  LET named == Signals(request.strategies, backtest) IN [i \in DOMAIN named |-> <<sample, "signal", named[i].strategy>>]

SampleFilesManifestFirst(sample) ==
  <<<<sample, "features", "manifest.json">>, <<sample, "feature_set.json">>>>
  \o SignalFiles(sample)
  \o <<<<sample, "agent_decision_log.jsonl">>, <<sample, "signals", "manifest.json">>,
       <<sample, "backtest_score.json">>, <<sample, "backtest", "manifest.json">>>>

\* The files of a sample in the order in which _run_sample writes them.
SampleFiles(sample) ==
  <<<<sample, "feature_set.json">>, <<sample, "features", "manifest.json">>>>
  \o SignalFiles(sample)
  \o <<<<sample, "agent_decision_log.jsonl">>, <<sample, "signals", "manifest.json">>,
       <<sample, "backtest_score.json">>, <<sample, "backtest", "manifest.json">>>>

\* The files whose checksums a stage manifest records.
Stages == {"features", "signals", "backtest"}

StageOutputs(path) ==
  CASE path[2] = "features" -> {<<path[1], "feature_set.json">>}
    [] path[2] = "signals" -> ToSet(SignalFiles(path[1]))
    [] path[2] = "backtest" -> {<<path[1], "backtest_score.json">>}

Checksum(path) == IF path \in DOMAIN files THEN files[path] ELSE None

SampleContent(path) ==
  CASE path[2] \in Stages -> [checksum |-> [f \in StageOutputs(path) |-> Checksum(f)]]
    [] path[2] = "feature_set.json" -> [signal |-> backtest.signal, context |-> backtest.context]
    [] path[2] = "signal" ->
         SelectSeq(Signals(request.strategies, backtest), LAMBDA n : n.strategy = path[3])[1].signal
    [] path[2] = "agent_decision_log.jsonl" -> Signals(request.strategies, backtest)
    [] path[2] = "backtest_score.json" -> [scores |-> StrategyScores, cache |-> memory]

NextFile(order) == order[Min({i \in DOMAIN order : order[i] \notin DOMAIN files})]

WriteSampleFile ==
  /\ pc = "artifacts"
  /\ LET order == SampleFiles(Start)
         path == NextFile(order)
     IN /\ files' = WithFile(files, path, SampleContent(path))
        /\ IF path # Last(order) THEN UNCHANGED <<item, samples, pc>>
           ELSE /\ samples' = Append(samples, [sample |-> Start, signalDate |-> backtest.signalDate,
                                               strategies |-> StrategyScores])
                /\ item' = item + 1
                /\ pc' = IF item < Len(request.starts) THEN "sample" ELSE "review"
  /\ UNCHANGED <<Inputs, client, saved, got, failure, logs, memory, backtest, review, reply, History>>

Scores == AggregateScores([i \in DOMAIN samples |-> samples[i].strategies])

ContainsPrefix(mentions, offset) == \E k \in mentions : k = offset \/ k \div 10 = offset

\* mentions: the numbers k for which the text of a report has N+k somewhere.  N+15 does not name N+1.
ContainsObservationLabel(mentions, offset) == offset \in mentions

\* One line for a strategy of a sample, with what became of each of its observations.
ObservationLine(sample, score) ==
  [sample |-> sample.sample, signalDate |-> sample.signalDate,
   strategy |-> score.strategy, action |-> score.signal.action,
   observations |-> [k \in DOMAIN score.scores |->
                       [offset |-> score.scores[k].offset, label |-> score.scores[k].label]]]

SectionOfLastSample(results) ==
  {ObservationLine(Last(results), score) : score \in ToSet(Last(results).strategies)}

\* _build_deterministic_observation_section: every strategy of every sample.
ObservationSection(results) ==
  UNION {{ObservationLine(sample, score) : score \in ToSet(sample.strategies)} : sample \in ToSet(results)}

\* A report that leaves labels out keeps its text and has the section appended.
EnsureObservationCoverage(status, mentions) ==
  LET missing == {offset \in ToSet(Offsets) : ~ContainsObservationLabel(mentions, offset)}
  IN [status |-> status,
      missing |-> missing,
      mentions |-> mentions,
      section |-> IF missing = {} THEN {} ELSE ObservationSection(samples),
      decisions |-> IF status = "completed" THEN 1 ELSE 0]

\* No agent: skipped; an exception or a missing SDK: failed; an answer, whatever its text: completed.
\* The texts the program puts in place of an answer name no observation.
AskAgent ==
  /\ pc = "review"
  /\ \E status \in {"skipped", "failed", "completed"}, mentions \in SUBSET Numbers :
       /\ status = "skipped" <=> agent = "none"
       /\ status # "completed" => mentions = {}
       /\ review' = EnsureObservationCoverage(status, mentions)
  /\ pc' = "aggregate"
  /\ UNCHANGED <<Inputs, client, saved, item, got, failure, logs, memory, backtest, files, samples, reply, History>>

AggregateFilesManifestFirst ==
  <<<<RunDir, "run-manifest.json">>, <<RunDir, "ai_review.json">>, <<RunDir, "agent-decisions.jsonl">>,
    <<RunDir, "final_report.md">>>>

AggregateFiles ==
  <<<<RunDir, "ai_review.json">>, <<RunDir, "agent-decisions.jsonl">>, <<RunDir, "final_report.md">>,
    <<RunDir, "run-manifest.json">>>>

AggregateContent(path) ==
  CASE path[2] = "ai_review.json" -> review
    [] path[2] = "agent-decisions.jsonl" -> review.decisions
    [] path[2] = "final_report.md" -> 
         [mentions |-> review.mentions, section |-> review.section, cache |-> logs.cache]
    [] path[2] = "run-manifest.json" ->
         [sampleCount |-> Len(samples), callCount |-> Len(logs.api), hadRetry |-> logs.retries > 0,
          cache |-> logs.cache, scores |-> Scores, reviewStatus |-> review.status]

WriteAggregateFile ==
  /\ pc = "aggregate"
  /\ LET path == NextFile(AggregateFiles)
     IN /\ files' = WithFile(files, path, AggregateContent(path))
        /\ pc' = IF path = Last(AggregateFiles) THEN "answered" ELSE pc
  /\ UNCHANGED <<Inputs, client, saved, item, got, failure, logs, memory, backtest, samples, review, reply, History>>

----------------------------------------------------------------------------
ReplyToKnownErrors ==
  /\ \/ pc = "answered" /\ Finish(200)
     \/ pc = "failed" /\ failure = "unavailable" /\ Finish(503)
  /\ UNCHANGED <<Inputs, client, saved, item, got, failure, RunOutputs, backtest, History>>

Reply ==
  /\ \/ pc = "answered" /\ Finish(200)
     \/ pc \in {"failed", "scanned"} /\ failure = "error" /\ Finish(500)
     \/ pc = "failed" /\ failure = "unavailable" /\ Finish(503)
  /\ UNCHANGED <<Inputs, client, saved, item, got, failure, RunOutputs, backtest, History>>

\* The server process ends.
Crash ==
  /\ pc \notin {"done", "dead"}
  /\ pc' = "dead"
  /\ UNCHANGED <<Inputs, client, saved, item, got, failure, RunOutputs, backtest, reply, History>>

Handle ==
  \/ Receive \/ InstallHandlers \/ Call \/ CheckWindow \/ Evaluate
  \/ StartStock \/ FinishStock
  \/ RestoreHandlers \/ WriteSampleFile \/ AskAgent \/ WriteAggregateFile
  \/ Reply

Next == Handle \/ Crash

Spec == Init /\ [][Next]_vars /\ WF_vars(Handle)

----------------------------------------------------------------------------
(* Properties.                                                             *)

Manifest == <<RunDir, "run-manifest.json">>
Report == <<RunDir, "final_report.md">>
Written(path) == path \in DOMAIN files
BacktestPoints == {"trade_cal", "stock_basic", "daily", "cyq_chips", "check", "adj_factor", "evaluate", "close"}

\* The steps of a request, its answer and the counts of what went wrong stay in their ranges.
TypeOK ==
  /\ pc \in BacktestPoints \cup {"received", "sample", "stock", "scanned", "artifacts", "review", "aggregate",
                                 "answered", "failed", "done", "dead"}
  /\ item \in 1..(1 + CASE Research -> Len(request.starts) [] request.kind = "scan" -> Len(request.codes) [] OTHER -> 0)
  /\ failure \in {None, "unavailable", "error"}
  /\ reply \in {None, 200, 500, 503}
  /\ {client.retry, client.cache} \subseteq {None, Caller} \cup (IF Research THEN ToSet(request.starts) ELSE {})
  /\ retries \in 0..MaxRetries /\ logs.retries \in 0..retries /\ faults \in 0..MaxFaults

\* Whatever a backtest of a run ends in, the client has its caller's handlers again when the
\* run goes on or is answered: no later event lands in the log of a finished sample.
HandlersRestored ==
  pc \notin BacktestPoints \cup {"dead"} =>
    /\ client.retry = IF client.kind = "tushare" THEN Caller ELSE None
    /\ client.cache = IF client.kind = "cached" THEN Caller ELSE None

\* A run is answered with success exactly when it has a manifest, and then every file its manifests
\* and its payload to the agent refer to is there, for every start date: the manifest is what tells
\* a finished run from the remains of one.
ManifestMeansComplete ==
  /\ Research /\ reply # None => (reply = 200 <=> Written(Manifest))
  /\ Written(Manifest) =>
       /\ files[Manifest].sampleCount = Len(request.starts)
       /\ {<<RunDir, f>> : f \in {"ai_review.json", "agent-decisions.jsonl", "final_report.md"}} \subseteq DOMAIN files
       /\ \A start \in ToSet(request.starts) :
         /\ \A f \in {"feature_set.json", "agent_decision_log.jsonl", "backtest_score.json"} : Written(<<start, f>>)
         /\ \A s \in {"features", "signals", "backtest"} : Written(<<start, s, "manifest.json">>)

\* The checksums in a stage manifest are those of files that are there, at every moment at
\* which the process could end.
ChecksumsMatch ==
  \A path \in DOMAIN files :
    path[2] \in Stages =>
      \A f \in DOMAIN files[path].checksum : Written(f) /\ files[path].checksum[f] = files[f]

\* A manifest, of a stage or of the run, tells what is on disk at every moment at which the
\* process could end.
ManifestsTellTheTruth == ManifestMeansComplete /\ ChecksumsMatch

\* The market after a day is cut off.
WorldUpTo(stock, day) ==
  [bars |-> Restrict(world.prices[stock], {d \in DOMAIN world.prices[stock] : d <= day}),
   chips |-> Restrict(world.chips[stock], {d \in DOMAIN world.chips[stock] : d <= day})]

\* A signal is the one the market up to its signal date gives: nothing that happens later can
\* change it, whatever the client returned beyond that date.
SignalsIgnoreTheFuture ==
  \A start \in (IF Research THEN ToSet(request.starts) ELSE {}) :
    Written(<<start, "feature_set.json">>) =>
      LET days == DaysFrom(start, request.window)
          past == WorldUpTo(Stock, Last(days))
      IN files[<<start, "feature_set.json">>].signal
           = EvaluateCompositeSignal(MarketFeatures(Between(past.chips, days[1], Last(days)),
                                                    [i \in DOMAIN days |-> past.bars[days[i]]]))

\* The cache summary of a finished run, read back from the log file, is the sum of the summaries
\* its samples kept in memory, and the calls it counts are the calls that were made.
LogsAgreeWithSamples ==
  Written(Manifest) =>
    /\ files[Manifest].cache
         = SumEvents([i \in DOMAIN samples |-> files[<<samples[i].sample, "backtest_score.json">>].cache])
    /\ files[Manifest].callCount = calls

\* A call that raises is the last row of the call log, and its run never gets a manifest.
ErrorRowsEndTheRun ==
  \A i \in DOMAIN logs.api : ~logs.api[i].ok => i = Len(logs.api) /\ ~Written(Manifest)

\* Every known strategy has one group in the aggregate, over every sample, and each of its
\* observations is counted under exactly one label.
ScoresAddUp ==
  Written(Manifest) =>
    LET scores == files[Manifest].scores
    IN /\ DOMAIN scores = ToSet(request.strategies) \cap SupportedStrategies
       /\ \A s \in DOMAIN scores :
            LET counts == scores[s].counts
            IN /\ scores[s].samples = Len(request.starts)
               /\ counts.match + counts.mismatch + counts.neutral + counts.unavailable
                    = Len(request.starts) * Len(Offsets)

\* A finished run's report never leaves its reader without an observation: for every offset the agent's own text
\* does not name, the report has what became of it for every start date and every scored strategy, as that
\* sample's score file on disk has it.
ReportTellsScores ==
  Written(Report) =>
    \A offset \in ToSet(Offsets) \ files[Report].mentions, start \in ToSet(request.starts) :
      \A score \in ToSet(files[<<start, "backtest_score.json">>].scores) :
        \E line \in files[Report].section, k \in DOMAIN Offsets :
          /\ line.sample = start /\ line.strategy = score.strategy
          /\ score.scores[k].offset = offset
          /\ line.observations[k] = [offset |-> offset, label |-> score.scores[k].label]

HasData(code) ==
  LET stock == NormalizeTsCode(code).stock
      days == DaysTo(request.end, request.days)
  IN /\ NormalizeTsCode(code) # None
     /\ \E d \in DOMAIN world.prices[stock] : d \in days[1]..Last(days)
     /\ \E d \in DOMAIN world.chips[stock] : d \in days[1]..Last(days)

\* Every code of an answered scan has a result, and the result is the one that stock would have
\* on its own: neither a failure nor the rows of another stock show in it.
ScanKeepsStocksApart ==
  request.kind = "scan" =>
    /\ reply = 200 => Len(samples) = Len(request.codes)
    /\ \A i \in DOMAIN samples :
         /\ samples[i].code = request.codes[i]
         /\ samples[i].status = "ERROR" => faults > 0 \/ ~HasData(request.codes[i])
         /\ samples[i].status = "OK" =>
              LET stock == NormalizeTsCode(request.codes[i]).stock
                  days == DaysTo(request.end, request.days)
                  past == WorldUpTo(stock, Last(days))
              IN samples[i].signal = ScanSignal([prices |-> Between(past.bars, days[1], Last(days)),
                                                 chips |-> Between(past.chips, days[1], Last(days))])

\* A confidence, in hundredths of a percent, in the range its response model accepts (StrategySignal
\* refuses others), and above that of any HOLD where the signal is directional.
Consistent(signal) ==
  /\ signal.confidence \in 0..10000
  /\ signal.action # "HOLD" => signal.confidence > 6500

\* The sum of the scores never takes a confidence out of that range.
SignalsAreConsistent ==
  \A path \in DOMAIN files : path[2] = "feature_set.json" => Consistent(files[path].signal)

\* Where the client has a hook for them, a run that was retried says so in its manifest.
RetriesVisibleWithHook ==
  client.kind = "tushare" /\ Written(Manifest) => (files[Manifest].hadRetry <=> retries > 0)

\* The logs tell what the run did: the calls and cache events of every sample under that sample,
\* a failed call as their end, and retries where the client reports them.
LogsTellTheRun == TypeOK /\ LogsAgreeWithSamples /\ ErrorRowsEndTheRun /\ RetriesVisibleWithHook

\* The counts of an aggregate add up to its samples, and the confidence of a signal in a file is in its range.
ScoresAreConsistent == ScoresAddUp /\ SignalsAreConsistent

\* docs/product-specs/current-state.md:43: unavailable future observations are N/A and do not
\* fail the backtest.
MissingFutureIsNotAFailure ==
  request.kind = "backtest" /\ reply = 503 =>
    \/ faults > 0
    \/ NormalizeTsCode(Code) = None
    \/ DaysFrom(request.start, request.window) = Missing
    \/ ~WindowIsComplete(DaysFrom(request.start, request.window), request.window, world.prices[Stock])
    \/ ~(ToSet(world.open) \subseteq DOMAIN world.factors[Stock])
    \/ WorldUpTo(Stock, Last(DaysFrom(request.start, request.window))).chips = <<>>

\* Every request is answered unless the process ends.
EveryRequestAnswered == <>(reply # None \/ pc = "dead")
=============================================================================
