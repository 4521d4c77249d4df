--------------------------- MODULE FactorPipeline ---------------------------
(***************************************************************************)
(* The command line tools that produce factors, evaluate them, run batches *)
(* of stocks, merge batches and review what they wrote:                    *)
(* scripts/chip_factor_runner.py, chip_factor_evaluator.py,                *)
(* chip_factor_batch.py, chip_factor_batch_aggregate.py,                   *)
(* ecc_quality_workflow.py and ecc_artifact_reviewer.py.                   *)
(*                                                                         *)
(* An operator gives one command after the other; all they share is the    *)
(* file tree.  A command can fail, and its process can end, between any    *)
(* two of its steps.  A step is one provider call, or what is done and     *)
(* written between two points at which the next command could tell the     *)
(* difference.                                                             *)
(***************************************************************************)
EXTENDS ArtifactReview, FileTree

CONSTANTS
  Cases,          \* the markets and requests, each with a sequence of commands
  Clients,        \* kinds of client, a subset of {"tushare", "cached"}
  Offsets,        \* the offsets of forward returns, a set
  LookbackDays,   \* lookback_days of build_factor_values
  WarmupDays,     \* warmup_trading_days of run_factor_production
  ProbeDays,      \* how many days before the start the calendar is asked for
  Missing,        \* a DataUnavailableError for an answer without rows
  Caller,         \* the event handlers the client had before the run
  MaxFaults,      \* bound on the calls and flushes that raise
  MaxCrashes      \* bound on the processes that end

\* SystemExit, a DataUnavailableError and any other exception.
Errors == {"SystemExit", "unavailable", "error"}

\* A stock is its place in the order of the stock codes, and an id its place in the order of ids.
ASSUME PipelineAssumption ==
  /\ \A case \in Cases :
       /\ case.commands \in Seq(ToSet(case.commands))
       /\ \A i \in DOMAIN case.commands :
            LET command == case.commands[i]
            IN /\ command.do \in {"run", "evaluate", "batch", "aggregate", "review"}
               /\ command.do # "review" => command.id \in Nat
               /\ command.do \in {"run", "batch"} => command.stocks \in Seq(Nat)
               /\ command.do = "aggregate" => command.from \in Seq(Nat)
  /\ None \notin Errors
  /\ Clients \subseteq {"tushare", "cached"}
  /\ Offsets \subseteq Nat \ {0} /\ Offsets # {}
  /\ {LookbackDays, WarmupDays, ProbeDays, MaxFaults, MaxCrashes} \subseteq Nat

VARIABLES
  world, commands, turn,   \* turn: which command is next or running
  pc,
  files,                   \* a function from <<directory, name>> to contents
  dirs,                    \* the directories that exist
  todo,                    \* files of the command that are computed and not yet written
  run, batch, review,      \* the local variables of the command that runs
  error,                   \* the exception on its way up
  client,                  \* kind of the client, and whose event handlers it has
  clock,                   \* orders the completed_at and created_at timestamps
  faults, crashes,
  endings                  \* history: how each command ended

vars == <<world, commands, turn, pc, files, dirs, todo, run, batch, review, error, client, clock,
          faults, crashes, endings>>

Command == commands[turn]
Inputs == <<world, commands>>
History == <<turn, clock, faults, crashes, endings>>
Tree == <<files, dirs>>
Locals == <<run, batch, review>>

RunDir(id) == <<"run", id>>
StockDir(id, stock) == <<"stock", id, stock>>
EvaluationDir(id, evaluation) == <<"evaluation", id, evaluation>>
BatchDir(id) == <<"batch", id>>
ReviewDir(dir) == <<"review", dir, turn>>

RunConfig(id) == <<RunDir(id), "factor-run-config.json">>
RunManifest(id) == <<RunDir(id), "factor-run-manifest.json">>
CallLog(id) == <<RunDir(id), "api-calls.jsonl">>
BatchConfig(id) == <<BatchDir(id), "factor-batch-config.json">>
StockLog(id) == <<BatchDir(id), "stock-results.jsonl">>
Summary(id) == <<BatchDir(id), "factor-batch-summary.json">>
Report(id) == <<BatchDir(id), "aggregate-factor-report.md">>

\* factor-run-<batch id>-<stock>, in the order of batch ids and then of stocks.
StockRunId(batchId, stock) == 10 * batchId + stock

\* days are the factor days, and outputDays those of them the request is for.
NoRun == [id |-> 0, stocks |-> <<>>, dry |-> FALSE, item |-> 0, days |-> <<>>, outputDays |-> <<>>,
          chips |-> <<>>, snapshots |-> <<>>, outputs |-> <<>>, warned |-> FALSE]
NoBatch == [id |-> 0, stocks |-> <<>>, item |-> 1, results |-> <<>>]
NewRun(id, stocks, dry) == [NoRun EXCEPT !.id = id, !.stocks = stocks, !.dry = dry, !.item = 1]
NewClient(kind) == [kind |-> kind, handlers |-> Caller]

Written(path) == path \in DOMAIN files
Stock == run.stocks[run.item]
InBatch == batch # NoBatch
MoreStocks == InBatch /\ batch.item <= Len(batch.stocks)

Init ==
  /\ \E case \in Cases : world = case.world /\ commands = case.commands
  /\ turn = 1 /\ pc = "command"
  /\ files = <<>> /\ dirs = {} /\ todo = <<>>
  /\ run = NoRun /\ batch = NoBatch /\ review = None /\ error = None
  /\ \E kind \in Clients : client = NewClient(kind)
  /\ clock = 0 /\ faults = 0 /\ crashes = 0 /\ endings = <<>>

----------------------------------------------------------------------------
(* Commands.                                                               *)

Begin ==
  /\ pc = "command"
  /\ turn <= Len(commands)
  /\ pc' = Command.do
  /\ run' = CASE Command.do = "run" -> NewRun(Command.id, Command.stocks, Command.dry)
              [] Command.do = "evaluate" -> [NoRun EXCEPT !.id = Command.id]
              [] OTHER -> NoRun
  /\ UNCHANGED <<Inputs, Tree, todo, batch, review, error, client, History>>

\* The process ends, and with it everything but the file tree.
EndProcess(how) ==
  /\ endings' = Append(endings, how)
  /\ turn' = turn + 1 /\ pc' = "command"
  /\ run' = NoRun /\ batch' = NoBatch /\ review' = None /\ todo' = <<>> /\ error' = None
  /\ client' = NewClient(client.kind)

End ==
  /\ pc = "ended"
  /\ EndProcess("ok")
  /\ UNCHANGED <<Inputs, Tree, clock, faults, crashes>>

Crash ==
  /\ pc # "command"
  /\ crashes < MaxCrashes
  /\ crashes' = crashes + 1
  /\ EndProcess("crash")
  /\ UNCHANGED <<Inputs, Tree, clock, faults>>

Raise(e) == error' = e /\ pc' = "raised"

\* Inside the try block of a live run.
RaiseInRun(e) == error' = e /\ pc' = "finally"

\* One file of a command; only latest.json may replace another.
WriteFile ==
  /\ pc = "write"
  /\ todo # <<>>
  /\ files' = WrittenOver(OneFile(todo[1].path, todo[1].content), files)
  /\ todo' = Tail(todo)
  /\ pc' = IF Len(todo) > 1 THEN "write" ELSE IF MoreStocks THEN "stock result" ELSE "ended"
  /\ UNCHANGED <<Inputs, dirs, Locals, error, client, History>>

File(path, content) == [path |-> path, content |-> content]

----------------------------------------------------------------------------
(* run_factor_production.                                                  *)

Weekdays == SelectSeq([i \in 1..world.end |-> i], LAMBDA d : d >= world.start /\ d % 7 \in 1..5)

StartRunOverExisting ==
  /\ pc = "run"
  /\ IF run.stocks = <<>> THEN Raise("SystemExit") /\ UNCHANGED <<Tree, run, client>>
     ELSE /\ dirs' = dirs \cup {RunDir(run.id)}
          /\ files' = WrittenOver(OneFile(RunConfig(run.id), [stocks |-> run.stocks, dry |-> run.dry]),
                               WrittenOver(OneFile(CallLog(run.id), <<>>), files))
          /\ IF ~run.dry THEN /\ pc' = "trade_cal"
                              /\ client' = [client EXCEPT !.handlers = run.id]
                              /\ UNCHANGED <<run, error>>
             ELSE /\ IF ToSet(Weekdays) = {} THEN Raise("SystemExit") ELSE pc' = "dry stock" /\ UNCHANGED error
                  /\ run' = [run EXCEPT !.days = Weekdays, !.outputDays = Weekdays]
                  /\ UNCHANGED client
  /\ UNCHANGED <<Inputs, todo, batch, review, History>>

\* The directory with its config and empty logs; a live run installs its event handlers.
StartRun ==
  /\ pc = "run"
  /\ IF run.stocks = <<>> \/ RunDir(run.id) \in dirs
     THEN Raise("SystemExit") /\ UNCHANGED <<Tree, run, client>>
     ELSE /\ dirs' = dirs \cup {RunDir(run.id)}
          /\ files' = WrittenOver(OneFile(RunConfig(run.id), [stocks |-> run.stocks, dry |-> run.dry]),
                               WrittenOver(OneFile(CallLog(run.id), <<>>), files))
          /\ IF ~run.dry THEN /\ pc' = "trade_cal"
                              /\ client' = [client EXCEPT !.handlers = run.id]
                              /\ UNCHANGED <<run, error>>
             ELSE /\ IF ToSet(Weekdays) = {} THEN Raise("SystemExit") ELSE pc' = "dry stock" /\ UNCHANGED error
                  /\ run' = [run EXCEPT !.days = Weekdays, !.outputDays = Weekdays]
                  /\ UNCHANGED client
  /\ UNCHANGED <<Inputs, todo, batch, review, History>>

\* Tushare raises for an answer without rows; the cached client does only for the calendar.
OrEmpty(answer, empty) == IF answer = empty /\ client.kind = "tushare" THEN Missing ELSE answer

FetchedDays == run.days[1]..Last(run.days)

Answer(endpoint) ==
  CASE endpoint = "trade_cal" ->
         LET open == SelectSeq(world.open, LAMBDA d : d \in (world.start - ProbeDays)..world.end)
         IN IF open = <<>> THEN Missing ELSE open
    [] endpoint = "cyq_chips" -> OrEmpty(SelectSeq(world.chips[Stock], LAMBDA c : c.day \in FetchedDays), <<>>)
    [] endpoint = "daily" -> OrEmpty(Restrict(world.prices[Stock], DOMAIN world.prices[Stock] \cap FetchedDays), <<>>)

OutputDays(days) == SelectSeq(days, LAMBDA d : d \in world.start..world.end)

\* _resolve_live_factor_dates: the output days and the warmup days before them.
FactorDays(open) ==
  LET output == OutputDays(open)
      first == Len(SelectSeq(open, LAMBDA d : d < output[1])) + 1
  IN IF output = <<>> THEN open ELSE SubSeq(open, Max({1, first - WarmupDays}), Len(open))

CloseOn(prices, day) == IF day \in DOMAIN prices THEN prices[day] ELSE None

Snapshots(days, chips, prices) ==
  [i \in DOMAIN days |-> BuildDailyChipSnapshot(days[i], chips, CloseOn(prices, days[i]))]

Receive(endpoint, answer) ==
  CASE endpoint = "trade_cal" ->
         LET days == FactorDays(answer)
             output == OutputDays(days)
         IN IF ToSet(output) = {} THEN RaiseInRun("SystemExit") /\ UNCHANGED run
            ELSE pc' = "stock" /\ run' = [run EXCEPT !.days = days, !.outputDays = output] /\ UNCHANGED error
    [] endpoint = "cyq_chips" -> pc' = "daily" /\ run' = [run EXCEPT !.chips = answer] /\ UNCHANGED error
    [] endpoint = "daily" ->
         pc' = "factors" /\ run' = [run EXCEPT !.snapshots = Snapshots(run.days, run.chips, answer)] /\ UNCHANGED error

\* _call_with_api_log: a row for the call, ok or failed.
CallWithApiLog ==
  /\ pc \in {"trade_cal", "cyq_chips", "daily"}
  /\ \E raised \in {None, "unavailable", "error"} :
       LET answer == Answer(pc)
           fault == IF raised = None /\ answer = Missing THEN "unavailable" ELSE raised
       IN /\ raised # None => faults < MaxFaults
          /\ faults' = faults + (IF raised = None THEN 0 ELSE 1)
          /\ files' = [files EXCEPT ![CallLog(run.id)] = Append(@, [endpoint |-> pc, ok |-> fault = None])]
          /\ IF fault # None THEN RaiseInRun(fault) /\ UNCHANGED run ELSE Receive(pc, answer)
  /\ UNCHANGED <<Inputs, dirs, todo, batch, review, client, turn, clock, crashes, endings>>

\* mkdir of the stock's directory: it raises for a stock that is listed twice.
StartStock ==
  /\ pc = "stock"
  /\ IF run.item > Len(run.stocks) THEN pc' = "finally" /\ UNCHANGED <<dirs, error>>
     ELSE IF StockDir(run.id, Stock) \in dirs THEN RaiseInRun("error") /\ UNCHANGED dirs
     ELSE dirs' = dirs \cup {StockDir(run.id, Stock)} /\ pc' = "cyq_chips" /\ UNCHANGED error
  /\ UNCHANGED <<Inputs, files, todo, Locals, client, History>>

ByDay(snapshots) == [d \in {s.day : s \in ToSet(snapshots)} |-> SelectSeq(snapshots, LAMBDA s : s.day = d)[1]]

\* The days at which build_factor_values raises.
RaisingDays(byDay, days, outputs) ==
  {d \in ToSet(outputs) : NoInputDate(byDay[d], LookbackSnapshot(byDay, d, LookbackDays, days))}

\* The rows of the two files grow together, up to the day at which the formulas raise.
StockRows(snapshots, days, outputs) ==
  LET byDay == ByDay(snapshots)
      raising == RaisingDays(byDay, days, outputs)
      Done(d) == \A r \in raising : d < r
      done == {d \in ToSet(outputs) : Done(d)}
      factors == [d \in done |-> BuildFactorValues(byDay, d, LookbackDays, days)]
  IN WrittenOver(OneFile("daily-chip-snapshots.jsonl", SelectSeq(snapshots, LAMBDA s : \A r \in raising : s.day <= r)),
                 IF done = {} THEN <<>> ELSE OneFile("factors.jsonl", factors))

StockFiles(rows) ==
  WrittenOver(OneFile("factor-quality.json", QualityStatuses(rows["factors.jsonl"])),
  WrittenOver(OneFile("factor-traceability.json", "FACTOR_TRACES"),
  WrittenOver(OneFile("factor-retention-policy.json", "retention policy"), rows)))

In(dir, contents) == [path \in {<<dir, name>> : name \in DOMAIN contents} |-> contents[path[2]]]

StockOutput(days, outputs, contents) ==
  [stock |-> Stock, dates |-> Len(outputs), warmup |-> Len(days) - Len(outputs), checksums |-> contents]

NextOutput(output) == [run EXCEPT !.outputs = Append(@, output), !.item = @ + 1, !.chips = <<>>, !.snapshots = <<>>]

\* The files of a stock: where the formulas raise, the rows before that day stay.
WriteStock(snapshots, next, failed) ==
  LET outputs == run.outputDays
      rows == StockRows(snapshots, run.days, outputs)
      dir == StockDir(run.id, Stock)
  IN IF RaisingDays(ByDay(snapshots), run.days, outputs) # {}
     THEN /\ files' = WrittenOver(In(dir, rows), files)
          /\ error' = "error" /\ pc' = failed
          /\ UNCHANGED run
     ELSE /\ files' = WrittenOver(In(dir, StockFiles(rows)), files)
          /\ run' = NextOutput(StockOutput(run.days, outputs, StockFiles(rows)))
          /\ pc' = next
          /\ UNCHANGED error

\* _write_live_stock after its calls.
WriteLiveStock ==
  /\ pc = "factors"
  /\ WriteStock(run.snapshots, "stock", "finally")
  /\ UNCHANGED <<Inputs, dirs, todo, batch, review, client, History>>

\* The fixture of _write_dry_run_stock: three prices around a close that rises day by day.
DryChips(days) ==
  FlattenSeq([i \in DOMAIN days |-> <<ChipPoint(days[i], 19 + i, 2), ChipPoint(days[i], 21 + i, 5), ChipPoint(days[i], 23 + i, 3)>>])
DryPrices(days) == [d \in ToSet(days) |-> 22 + Min({i \in DOMAIN days : days[i] = d})]

WriteDryRunStock ==
  /\ pc = "dry stock"
  /\ UNCHANGED <<Inputs, todo, batch, review, client, History>>
  /\ IF run.item > Len(run.stocks) THEN pc' = "manifest" /\ UNCHANGED <<Tree, run, error>>
     ELSE IF StockDir(run.id, Stock) \in dirs THEN Raise("error") /\ UNCHANGED <<Tree, run>>
     ELSE /\ dirs' = dirs \cup {StockDir(run.id, Stock)}
          /\ WriteStock(Snapshots(run.days, DryChips(run.days), DryPrices(run.days)), "dry stock", "raised")

RestoreHandlersOnSuccess ==
  /\ pc = "finally"
  /\ client' = IF error = None THEN [client EXCEPT !.handlers = Caller] ELSE client
  /\ pc' = "flush"
  /\ UNCHANGED <<Inputs, Tree, todo, Locals, error, History>>

\* The finally clause gives the client its handlers back ...
RestoreHandlers ==
  /\ pc = "finally"
  /\ client' = [client EXCEPT !.handlers = Caller]
  /\ pc' = "flush"
  /\ UNCHANGED <<Inputs, Tree, todo, Locals, error, History>>

FlushReturnsManifest ==
  /\ pc = "flush"
  /\ \E failed, raised \in BOOLEAN :
       /\ failed => client.kind = "cached" /\ ~raised
       /\ raised => client.kind = "cached" /\ faults < MaxFaults
       /\ faults' = faults + (IF raised THEN 1 ELSE 0)
       /\ run' = [run EXCEPT !.warned = failed]
       /\ IF raised THEN Raise("error") ELSE pc' = "manifest" /\ UNCHANGED error
  /\ UNCHANGED <<Inputs, Tree, todo, batch, review, client, turn, clock, crashes, endings>>

\* ... and flushes the cache writer: some of its jobs may fail, and an exception of the flush
\* takes the place of the one on its way.
FlushCacheWriter ==
  /\ pc = "flush"
  /\ \E failed, raised \in BOOLEAN :
       /\ failed => client.kind = "cached" /\ ~raised
       /\ raised => client.kind = "cached" /\ faults < MaxFaults
       /\ faults' = faults + (IF raised THEN 1 ELSE 0)
       /\ run' = [run EXCEPT !.warned = failed]
       /\ IF raised THEN Raise("error")
          ELSE pc' = (IF error = None THEN "manifest" ELSE "raised") /\ UNCHANGED error
  /\ UNCHANGED <<Inputs, Tree, todo, batch, review, client, turn, clock, crashes, endings>>

WriteManifest ==
  /\ pc = "manifest"
  /\ LET output == run.outputDays
         manifest == [status |-> IF run.warned THEN "completed_with_cache_warnings" ELSE "completed",
                      timestamp |-> clock + 1, dry |-> run.dry,
                      dates |-> Len(output), warmup |-> Len(run.days) - Len(output), outputs |-> run.outputs]
     IN files' = WrittenOver(OneFile(RunManifest(run.id), manifest), files)
  /\ clock' = clock + 1
  /\ pc' = IF InBatch THEN "evaluate" ELSE "ended"
  /\ UNCHANGED <<Inputs, dirs, todo, Locals, error, client, turn, faults, crashes, endings>>

----------------------------------------------------------------------------
(* evaluate_factor_run.                                                    *)

\* The observations of one stock after the other.
Observations(id, offsets) ==
  LET outputs == files[RunManifest(id)].outputs
      Content(place, name) == files[<<StockDir(id, outputs[place].stock), name>>]
  IN [place \in DOMAIN outputs |->
        StockObservations(place, Content(place, "daily-chip-snapshots.jsonl"), Content(place, "factors.jsonl"), offsets)]

ObservationCount(observations) == SumBy(observations, LAMBDA rows : Cardinality(rows))

Evaluate ==
  /\ pc = "evaluate"
  /\ LET id == run.id
         evaluation == IF InBatch THEN batch.id ELSE Command.evaluation
         dir == EvaluationDir(id, evaluation)
         observations == Observations(id, Offsets)
         summary == [observations |-> ObservationCount(observations),
                     factors |-> SummarizeObservations(UNION ToSet(observations), Offsets)]
         all == <<File(<<dir, "factor-forward-observations.jsonl">>, observations),
                  File(<<dir, "factor-evaluation-summary.json">>, summary),
                  File(<<dir, "factor-evaluation-report.md">>, summary.observations),
                  File(<<<<"evaluations", id>>, "latest.json">>, evaluation)>>
     IN IF ~Written(RunManifest(id)) THEN Raise("error") /\ UNCHANGED <<dirs, todo>>
        ELSE IF dir \in dirs THEN Raise("SystemExit") /\ UNCHANGED <<dirs, todo>>
        ELSE /\ dirs' = dirs \cup {dir}
             /\ todo' = IF summary.observations = 0 THEN Tail(all) ELSE all
             /\ pc' = "write"
             /\ UNCHANGED error
  /\ UNCHANGED <<Inputs, files, Locals, client, History>>

----------------------------------------------------------------------------
(* run_factor_batch.                                                       *)

StartBatch ==
  /\ pc = "batch"
  /\ IF Command.stocks = <<>> \/ BatchDir(Command.id) \in dirs
     THEN Raise("SystemExit") /\ UNCHANGED <<Tree, batch>>
     ELSE /\ dirs' = dirs \cup {BatchDir(Command.id)}
          /\ files' = WrittenOver(OneFile(BatchConfig(Command.id), Command.stocks), files)
          /\ batch' = [id |-> Command.id, stocks |-> Command.stocks, item |-> 1, results |-> <<>>]
          /\ pc' = "next stock"
          /\ UNCHANGED error
  /\ UNCHANGED <<Inputs, todo, run, review, client, History>>

SummaryFiles(summary) == <<File(Summary(summary.id), summary), File(Report(summary.id), AggregateReport(summary))>>

\* Every stock has a run of its own, with a client of its own.
NextStock ==
  /\ pc = "next stock"
  /\ IF MoreStocks
     THEN LET stock == batch.stocks[batch.item]
          IN /\ run' = NewRun(StockRunId(batch.id, stock), <<stock>>, Command.dry)
             /\ pc' = "run"
             /\ UNCHANGED <<todo, clock>>
     ELSE /\ todo' = SummaryFiles(BatchSummary(batch.id, batch.results, clock + 1))
          /\ clock' = clock + 1
          /\ pc' = "write"
          /\ run' = NoRun
  /\ client' = NewClient(client.kind)
  /\ UNCHANGED <<Inputs, Tree, batch, review, error, turn, faults, crashes, endings>>

AddResultOverLog(result) ==
  /\ batch' = [batch EXCEPT !.results = Append(@, result), !.item = @ + 1]
  /\ files' = WrittenOver(OneFile(StockLog(batch.id), <<result>>), files)
  /\ pc' = "next stock"

\* A stock's result goes into the summary and, at once, into the log.
AddResult(result) ==
  /\ batch' = [batch EXCEPT !.results = Append(@, result), !.item = @ + 1]
  /\ LET log == IF Written(StockLog(batch.id)) THEN files[StockLog(batch.id)] ELSE <<>>
     IN files' = WrittenOver(OneFile(StockLog(batch.id), Append(log, result)), files)
  /\ pc' = "next stock"

StockCompleted ==
  /\ pc = "stock result"
  /\ LET stock == batch.stocks[batch.item]
         dir == EvaluationDir(run.id, batch.id)
         summary == files[<<dir, "factor-evaluation-summary.json">>]
     IN AddResult([stock |-> stock, status |-> "completed", runDir |-> RunDir(run.id), evaluationDir |-> dir,
                   observations |-> summary.observations, summary |-> summary.factors])
  /\ UNCHANGED <<Inputs, dirs, todo, run, review, error, client, History>>

HandleErrorOnlyExits ==
  /\ pc = "raised"
  /\ IF MoreStocks /\ error = "SystemExit"
     THEN /\ AddResult([stock |-> batch.stocks[batch.item], status |-> "failed", error |-> error])
          /\ error' = None
          /\ UNCHANGED <<turn, todo, run, review, client, endings>>
     ELSE EndProcess(error) /\ UNCHANGED files
  /\ UNCHANGED <<Inputs, dirs, clock, faults, crashes>>

HandleErrorAgain ==
  /\ pc = "raised"
  /\ IF MoreStocks /\ error \in {"SystemExit", "unavailable"}
     THEN pc' = "next stock" /\ error' = None /\ UNCHANGED <<files, batch, turn, todo, run, review, client, endings>>
     ELSE EndProcess(error) /\ UNCHANGED files
  /\ UNCHANGED <<Inputs, dirs, clock, faults, crashes>>

\* _run_one_stock: a SystemExit or an operational error becomes a failed result of the stock;
\* any other ends the batch.
HandleError ==
  /\ pc = "raised"
  /\ IF MoreStocks /\ error \in {"SystemExit", "unavailable"}
     THEN /\ AddResult([stock |-> batch.stocks[batch.item], status |-> "failed", error |-> error])
          /\ error' = None
          /\ UNCHANGED <<turn, todo, run, review, client, endings>>
     ELSE EndProcess(error) /\ UNCHANGED files
  /\ UNCHANGED <<Inputs, dirs, clock, faults, crashes>>

\* aggregate_factor_batches: its directory is made before the summaries are read.
Aggregate ==
  /\ pc = "aggregate"
  /\ LET dir == BatchDir(Command.id)
         from == Command.from
         results == MergeStockResults([i \in DOMAIN from |-> files[Summary(from[i])]])
     IN IF from = <<>> \/ dir \in dirs THEN Raise("SystemExit") /\ UNCHANGED <<dirs, todo, clock>>
        ELSE /\ dirs' = dirs \cup {dir}
             /\ IF \E i \in DOMAIN from : ~Written(Summary(from[i])) THEN Raise("error") /\ UNCHANGED <<todo, clock>>
                ELSE /\ todo' = SummaryFiles(BatchSummary(Command.id, results, clock + 1))
                     /\ clock' = clock + 1
                     /\ pc' = "write"
                     /\ UNCHANGED error
  /\ UNCHANGED <<Inputs, files, Locals, client, turn, faults, crashes, endings>>

----------------------------------------------------------------------------
(* Reviews.                                                                *)

Kind == IF Command.of = "run" THEN "run" ELSE "batch"

ManifestOf(dir) == IF dir[1] = "run" THEN RunManifest(dir[2]) ELSE Summary(dir[2])

LatestByName ==
  LET candidates == {d \in dirs : d[1] = Kind}
  IN IF candidates = {} THEN None ELSE CHOOSE d \in candidates : \A e \in candidates : e[2] <= d[2]

\* find_latest_factor_run and find_latest_factor_batch: by timestamp, then by name; what has no
\* manifest or summary comes first.
Latest ==
  LET candidates == {d \in dirs : d[1] = Kind}
      Timestamp(d) == IF Written(ManifestOf(d)) THEN files[ManifestOf(d)].timestamp ELSE 0
      Before(d, e) == Timestamp(d) < Timestamp(e) \/ (Timestamp(d) = Timestamp(e) /\ d[2] <= e[2])
  IN IF candidates = {} THEN None ELSE CHOOSE d \in candidates : \A e \in candidates : Before(e, d)

\* The required files of a run are written together with its directory, but for the manifest.
Collectable(dir) ==
  /\ Written(ManifestOf(dir))
  /\ dir[1] = "batch" => Written(Report(dir[2]))

DeterministicFindings(dir) ==
  IF dir[1] = "run"
  THEN FactorRunFindings(files[ManifestOf(dir)], files[CallLog(dir[2])], files,
                         [s \in {o.stock : o \in ToSet(files[RunManifest(dir[2])].outputs)} |-> StockDir(dir[2], s)])
  ELSE FactorBatchFindings(files[ManifestOf(dir)], files[Report(dir[2])],
                           IF Written(StockLog(dir[2])) THEN files[StockLog(dir[2])] ELSE <<>>, dirs)

\* The latest directory, or the one that is named; what is missing is found out after the
\* directory of the review is made.
StartReview ==
  /\ pc = "review"
  /\ LET dir == IF Command.id = None THEN Latest ELSE <<Kind, Command.id>>
     IN IF dir \notin dirs THEN Raise("error") /\ UNCHANGED <<dirs, review>>
        ELSE /\ dirs' = dirs \cup {ReviewDir(dir)}
             /\ IF Collectable(dir)
                THEN review' = [dir |-> dir, findings |-> DeterministicFindings(dir)] /\ pc' = "external" /\ UNCHANGED error
                ELSE Raise("error") /\ UNCHANGED review
  /\ UNCHANGED <<Inputs, files, todo, run, batch, client, History>>

\* An external reviewer gives no findings of its own; its failure is one.
AskExternalReviewer ==
  /\ pc = "external"
  /\ \E failed \in IF Command.external THEN BOOLEAN ELSE {FALSE} :
       LET findings == review.findings \cup Finding("external review failed", None, failed)
           dir == ReviewDir(review.dir)
           state == [status |-> IF findings = {} THEN "passed" ELSE "needs_fix", of |-> review.dir, findings |-> findings]
       IN todo' = <<File(<<dir, "findings.json">>, findings), File(<<dir, "artifact-review-report.md">>, findings),
                    File(<<dir, "fix-plan-draft.md">>, findings), File(<<dir, "review-config.json">>, review.dir),
                    File(<<dir, "review-state.json">>, state), File(<<<<"reviews", review.dir>>, "latest.json">>, dir)>>
  /\ pc' = "write"
  /\ UNCHANGED <<Inputs, Tree, Locals, error, client, History>>

----------------------------------------------------------------------------
Step ==
  \/ Begin \/ End \/ WriteFile
  \/ StartRun \/ CallWithApiLog \/ StartStock \/ WriteLiveStock \/ WriteDryRunStock
  \/ RestoreHandlers \/ FlushCacheWriter \/ WriteManifest
  \/ Evaluate
  \/ StartBatch \/ NextStock \/ StockCompleted \/ HandleError
  \/ Aggregate
  \/ StartReview \/ AskExternalReviewer

Done == turn > Len(commands) /\ UNCHANGED vars

Next == Step \/ Crash \/ Done

\* Weak fairness of Step: a process that does not end by itself goes on until its commands are
\* done.  Step is enabled exactly until then, or a run would report a deadlock; saying so spares
\* TLC the evaluation of ENABLED Step.
Fairness == []<>(turn > Len(commands)) \/ []<><<crashes' = crashes>>_vars

Spec == Init /\ [][Next]_vars /\ Fairness
----------------------------------------------------------------------------
(* Properties.                                                             *)

LiveRun == {"trade_cal", "stock", "cyq_chips", "daily", "factors", "finally"}

\* The steps of a command, its exception and the counts of faults stay in their ranges, and
\* what is still to be written belongs to a directory that exists or is a latest.json.
TypeOK ==
  /\ pc \in LiveRun \cup {"command", "run", "dry stock", "flush", "manifest", "evaluate", "write", "batch",
                          "next stock", "stock result", "aggregate", "review", "external", "raised", "ended"}
  /\ turn \in 1..(Len(commands) + 1) /\ Len(endings) = turn - 1
  /\ error \in Errors \cup {None}
  /\ pc = "raised" => error # None
  /\ error # None => pc \in {"finally", "flush", "raised"}
  /\ ToSet(endings) \subseteq Errors \cup {"ok", "crash"}
  /\ faults \in 0..MaxFaults /\ crashes \in 0..MaxCrashes
  /\ \A i \in DOMAIN todo : todo[i].path[1] \in dirs \/ todo[i].path[2] = "latest.json"

Runs == {d[2] : d \in {e \in dirs : e[1] = "run"}}
Batches == {d[2] : d \in {e \in dirs : e[1] = "batch"}}
Finished(id) == Written(RunManifest(id))

\* The whole tree implements the abstract directories: the logs apart, no file of any run, stock,
\* evaluation, batch or review is ever changed or lost, and a directory gains none after the file
\* that seals it (docs/design/chip-factor-production-plan-2026q1.md:818), also when ids are used
\* again and processes end half way.
Sealed(dir) ==
  CASE dir[1] \in {"run", "stock"} -> Finished(dir[2])
    [] dir[1] = "evaluation" -> Written(<<dir, "factor-evaluation-report.md">>)
    [] dir[1] = "batch" -> Written(Report(dir[2]))
    [] dir[1] = "review" -> Written(<<dir, "review-state.json">>)

Logs == {"api-calls.jsonl", "stock-results.jsonl"}
A == INSTANCE Artifacts WITH
       content <- [path \in {p \in DOMAIN files : p[1] \in dirs /\ p[2] \notin Logs} |-> files[path]],
       sealed <- {dir \in dirs : Sealed(dir)}

ImplementsArtifacts == A!Spec

\* A finished run has an output for each of its stocks in their order, and all five files of each
\* with the checksums its manifest gives, whatever was raised on the way.
ManifestSeals ==
  \A id \in Runs : Finished(id) =>
    LET outputs == files[RunManifest(id)].outputs
    IN /\ [i \in DOMAIN outputs |-> outputs[i].stock] = files[RunConfig(id)].stocks
       /\ \A o \in ToSet(outputs) :
            /\ Cardinality(DOMAIN o.checksums) = 5
            /\ In(StockDir(id, o.stock), o.checksums) = Restrict(files, {<<StockDir(id, o.stock), n>> : n \in DOMAIN o.checksums})

\* The rows of the stock a live run has just finished.
JustWritten == IF pc = "stock" /\ run.outputs # <<>> THEN Last(run.outputs) ELSE None
Rows(output, name) == output.checksums[name]

\* The factors of a day are those of a market that ends with that day: nothing later, and no
\* longer request, changes them.
FactorsIgnoreTheFuture ==
  JustWritten # None =>
    LET factors == Rows(JustWritten, "factors.jsonl")
        stock == JustWritten.stock
    IN \A day \in DOMAIN factors :
         LET open == SelectSeq(run.days, LAMBDA d : d <= day)
             chips == SelectSeq(world.chips[stock], LAMBDA c : c.day <= day)
         IN factors[day] = BuildFactorValues(ByDay(Snapshots(open, chips, world.prices[stock])), day, LookbackDays, open)

\* A delta with a value compares a day with the one LookbackDays exchange days before it, also
\* where the stock did not trade, and there is none without that much history.
DeltasSpanTheLookback ==
  JustWritten # None =>
    LET factors == Rows(JustWritten, "factors.jsonl")
        chips == world.chips[JustWritten.stock]
        prices == world.prices[JustWritten.stock]
        LossOn(d) == BuildDailyChipSnapshot(d, chips, CloseOn(prices, d)).loss
        Earlier(d) == SelectSeq(world.open, LAMBDA e : e < d)
    IN \A day \in DOMAIN factors :
         LET delta == factors[day]["loss_ratio_delta_20d"].value
             past == Earlier(day)
         IN delta # None =>
              /\ Len(past) >= LookbackDays
              /\ delta = SafeSubtract(LossOn(day), LossOn(past[Len(past) - LookbackDays + 1]))

\* The narrowest range with 70 percent of the chips is no wider than the one with 90, and the
\* chips below, above and at the close are all the chips there are.
ChipShapesAreSound ==
  JustWritten # None =>
    \A s \in ToSet(Rows(JustWritten, "daily-chip-snapshots.jsonl")) : s.quality = "OK" =>
      /\ s.width70 # None /\ s.width90 # None /\ Leq(s.width70, s.width90)
      /\ s.profit.num + s.loss.num + s.atClose.num
           = Percents(SelectSeq(world.chips[JustWritten.stock], LAMBDA c : c.day = s.day))

\* An observation looks exactly its offset of exchange days ahead, within the request, and its
\* return is missing only where that day has no price.
ObservationsLookAhead ==
  \A i \in DOMAIN todo : todo[i].path[2] = "factor-forward-observations.jsonl" =>
    \A place \in DOMAIN todo[i].content : \A o \in todo[i].content[place] :
      files[RunManifest(run.id)].dry
      \/ LET stock == files[RunManifest(run.id)].outputs[place].stock
             ahead == SelectSeq(world.open, LAMBDA d : d > o.day /\ d <= world.end)
             future == IF Len(ahead) < o.offset THEN None ELSE ahead[o.offset]
         IN /\ o.future = future
            /\ o.return = None <=> (future = None \/ future \notin DOMAIN world.prices[stock])

\* The row of a factor in the summary of a batch or an aggregate is over all stocks that have the
\* factor: it counts no fewer of them, and no fewer returns, than any one of its stocks has.
RowsCoverStocks ==
  \A id \in Batches : Written(Summary(id)) =>
    LET summary == files[Summary(id)]
    IN \A r \in ToSet(summary.results) : r.status = "completed" =>
         \A key \in DOMAIN r.summary :
           /\ summary.aggregate[key].available >= r.summary[key].available
           /\ summary.aggregate[key].stocks
                >= Cardinality({q.stock : q \in {q \in ToSet(summary.results) : q.status = "completed" /\ key \in DOMAIN q.summary}})

\* What the files say is what the market says: factors look back only, deltas exactly LookbackDays
\* exchange days, observations exactly their offset ahead, shapes are of all chips, and rows of
\* all stocks.
FactorFilesAreSound ==
  /\ FactorsIgnoreTheFuture /\ DeltasSpanTheLookback /\ ChipShapesAreSound /\ ObservationsLookAhead
  /\ RowsCoverStocks

\* The summary of a batch has the result of every stock it was asked for, in that order and as in
\* its log; a completed one has a finished run and evaluation with as many observations.
SummaryAccountsForStocks ==
  \A id \in Batches : Written(BatchConfig(id)) /\ Written(Summary(id)) =>
    LET results == files[Summary(id)].results
    IN /\ [i \in DOMAIN results |-> results[i].stock] = files[BatchConfig(id)]
       /\ results = files[StockLog(id)]
       /\ \A r \in ToSet(results) : r.status = "completed" =>
            /\ Finished(r.runDir[2]) /\ Sealed(r.evaluationDir)
            /\ r.observations = files[<<r.evaluationDir, "factor-evaluation-summary.json">>].observations

\* No stock's missing data or refused run ends a batch: without a summary it was refused
\* itself, met an error that is not operational, or its process ended.
OneStockStopsNothing ==
  \A i \in DOMAIN endings : commands[i].do = "batch" =>
    /\ endings[i] # "unavailable"
    /\ endings[i] = "ok" => Written(Summary(commands[i].id))
    /\ endings[i] = "SystemExit" => commands[i].stocks = <<>> \/ \E j \in 1..(i - 1) : commands[j].id = commands[i].id

\* What seals a run or a batch accounts for every stock it was asked for, and only what is
\* refused, broken or killed stays without a seal.
SealsAccountForStocks == TypeOK /\ ManifestSeals /\ SummaryAccountsForStocks /\ OneStockStopsNothing

\* An aggregate has one result for each stock of its batches, a completed one wherever any of
\* them completed the stock.
AggregatePrefersCompleted ==
  \A i \in DOMAIN endings : commands[i].do = "aggregate" /\ endings[i] = "ok" =>
    LET merged == files[Summary(commands[i].id)].results
        sources == UNION {ToSet(files[Summary(b)].results) : b \in ToSet(commands[i].from)}
    IN /\ {r.stock : r \in ToSet(merged)} = {r.stock : r \in sources}
       /\ Len(merged) = Cardinality({r.stock : r \in sources})
       /\ \A r \in ToSet(merged) :
            /\ r \in sources
            /\ r.status = "completed" <=> \E q \in sources : q.stock = r.stock /\ q.status = "completed"

\* What "latest" picks is finished if anything is, and nothing finished is newer.
LatestIsNewestFinished ==
  pc = "external" /\ Command.id = None =>
    \A d \in dirs : d[1] = Kind /\ Written(ManifestOf(d)) =>
      files[ManifestOf(d)].timestamp <= files[ManifestOf(review.dir)].timestamp

WholeRun(id) ==
  LET manifest == files[RunManifest(id)]
  IN ~manifest.dry /\ manifest.status = "completed" /\ ~(manifest.warmup <= 0)
     /\ \A o \in ToSet(manifest.outputs) : \A day \in DOMAIN Rows(o, "factors.jsonl") :
          \A f \in DOMAIN Rows(o, "factors.jsonl")[day] : Rows(o, "factors.jsonl")[day][f].quality = "OK"

\* A review passes a run only when it is live, has warmup days, no cache warnings, no failed call
\* and an OK value for every factor of every day; a batch only when every stock that its
\* commands were asked for completed and every factor has a return at every offset.
ReviewTellsTheTruth ==
  \A d \in dirs : d[1] = "review" /\ Sealed(d) =>
    LET state == files[<<d, "review-state.json">>]
    IN state.status = "passed" =>
         IF state.of[1] = "run"
         THEN WholeRun(state.of[2]) /\ \A c \in ToSet(files[CallLog(state.of[2])]) : c.ok
         ELSE LET summary == files[Summary(state.of[2])]
              IN /\ \A r \in ToSet(summary.results) : r.status = "completed" /\ Finished(r.runDir[2])
                 /\ \A r, q \in ToSet(summary.results) : r.stock = q.stock => r = q
                 /\ \A key \in DOMAIN summary.aggregate : summary.aggregate[key].available # 0

\* A review picks the latest finished run or batch, and passes it only if it is whole.
ReviewsAreOfTheLatest == LatestIsNewestFinished /\ ReviewTellsTheTruth

\* However a run ends, by an answer, an exception of any kind or a flush that raises, the client
\* has its handlers back.
HandlersReturned == pc \notin LiveRun => client.handlers = Caller

\* Every command comes to an end, whatever its calls do.
EveryCommandEnds == <>[](turn > Len(commands))

\* docs/design/chip-factor-production-plan-2026q1.md:715: delta factors are null or
\* INSUFFICIENT_HISTORY when the lookback anchor is missing.
OkDeltasHaveAnchors ==
  JustWritten # None =>
    LET factors == Rows(JustWritten, "factors.jsonl")
        snapshots == ByDay(Rows(JustWritten, "daily-chip-snapshots.jsonl"))
    IN \A day \in DOMAIN factors : \A f \in DeltaIds \cap DOMAIN factors[day] :
         factors[day][f].quality = "OK" =>
           LookbackSnapshot(snapshots, day, LookbackDays, run.days).quality # "MISSING_CHIP_DATA"
=============================================================================
