--------------------------- MODULE ArtifactReview ---------------------------
(***************************************************************************)
(* The deterministic findings of a review of a factor run or a factor      *)
(* batch (scripts/ecc_artifact_reviewer.py), as functions of the files the *)
(* review collects.                                                        *)
(*                                                                         *)
(* A checksum is the content it is taken of.  Of a finding its title is    *)
(* kept, in one word, and the stock it is about.                           *)
(***************************************************************************)
EXTENDS FactorEvaluation

Finding(title, about, found) == IF found THEN {<<title, about>>} ELSE {}

Read(files, path) == IF path \in DOMAIN files THEN files[path] ELSE None

----------------------------------------------------------------------------
(* A factor run: its manifest, the rows of its call log, and the files of  *)
(* its stocks.                                                             *)

\* snapshot_ref, factor_ref, quality_ref and traceability_ref.
StockRefs == {"daily-chip-snapshots.jsonl", "factors.jsonl", "factor-quality.json", "factor-traceability.json"}

\* The statuses of the rows of factors.jsonl.
QualityStatuses(factors) == UNION {{factors[day][f].quality : f \in DOMAIN factors[day]} : day \in DOMAIN factors}

StockFindingsWithoutQuality(manifest, output, files, dir) ==
  LET Content(name) == Read(files, <<dir, name>>)
      present == {name \in StockRefs : Content(name) # None}
      snapshots == Content("daily-chip-snapshots.jsonl")
      factors == Content("factors.jsonl")
      about == output.stock
  IN Finding("checksums missing", about, ~(present \subseteq DOMAIN output.checksums))
     \cup Finding("checksums differ", about,
                  \E name \in present \cap DOMAIN output.checksums : output.checksums[name] # Content(name))
     \cup Finding("files missing", about, present # StockRefs)
     \cup Finding("snapshot rows", about,
                  snapshots = None \/ Len(snapshots) # output.dates + output.warmup)
     \cup Finding("stock warmup", about, output.warmup # manifest.warmup)
     \cup Finding("factor dates", about,
                  (IF factors = None THEN 0 ELSE Cardinality(DOMAIN factors)) # output.dates)

StockFindings(manifest, output, files, dir) ==
  LET Content(name) == Read(files, <<dir, name>>)
      present == {name \in StockRefs : Content(name) # None}
      snapshots == Content("daily-chip-snapshots.jsonl")
      factors == Content("factors.jsonl")
      quality == Content("factor-quality.json")
      about == output.stock
  IN Finding("checksums missing", about, ~(present \subseteq DOMAIN output.checksums))
     \cup Finding("checksums differ", about,
                  \E name \in present \cap DOMAIN output.checksums : output.checksums[name] # Content(name))
     \cup Finding("files missing", about, present # StockRefs)
     \cup Finding("snapshot rows", about,
                  snapshots = None \/ Len(snapshots) # output.dates + output.warmup)
     \cup Finding("stock warmup", about, output.warmup # manifest.warmup)
     \cup Finding("factor dates", about,
                  (IF factors = None THEN 0 ELSE Cardinality(DOMAIN factors)) # output.dates)
     \cup Finding("quality", about, quality # None /\ quality # {"OK"} /\ quality # {})

FactorRunFindings(manifest, calls, files, dirOf) ==
  Finding("status", None, manifest.status # "completed")
  \cup Finding("no dates", None, manifest.dates <= 0)
  \cup Finding("no warmup", None, manifest.warmup <= 0)
  \cup {<<"no call", endpoint>> : endpoint \in {"trade_cal", "cyq_chips", "daily"} \ {c.endpoint : c \in ToSet(calls)}}
  \cup Finding("failed calls", None, \E c \in ToSet(calls) : ~c.ok)
  \cup UNION {StockFindings(manifest, o, files, dirOf[o.stock]) : o \in ToSet(manifest.outputs)}

----------------------------------------------------------------------------
(* A factor batch or an aggregate of batches: its summary, its report, and *)
(* the log of stock results, which an aggregate does not have.             *)

BatchDirections ==
  {"HIGH_FACTOR_OUTPERFORMS_ALL", "HIGH_FACTOR_OUTPERFORMS_MAJORITY", "LOW_FACTOR_OUTPERFORMS_ALL",
   "LOW_FACTOR_OUTPERFORMS_MAJORITY", "MIXED", "INSUFFICIENT_DATA"}

\* A dict of the rows by their stock: the last row of a stock stays.
LastRowOf(rows, stock) == rows[Max({i \in DOMAIN rows : rows[i].stock = stock})]

StockResultLogFindings(results, log) ==
  LET Stocks(rows) == {r.stock : r \in ToSet(rows)}
  IN IF log = <<>> THEN {}
     ELSE IF Len(log) # Len(results) THEN {<<"log rows", None>>}
     ELSE IF Stocks(log) # Stocks(results) THEN {<<"log stocks", None>>}
     ELSE Finding("log differs", None, \E s \in Stocks(log) : LastRowOf(results, s) # LastRowOf(log, s))

CompletedResultFindings(result, dirs) ==
  Finding("dirs missing", result.stock, ~({result.runDir, result.evaluationDir} \subseteq dirs))
  \cup Finding("no observations", result.stock, result.observations <= 0)
  \cup Finding("no summary", result.stock, result.summary = <<>>)

AggregateRowFindings(key, row, success) ==
  Finding("row coverage", key, row.stocks <= 0 \/ row.stocks > success)
  \cup Finding("row gap", key, row.stocks > 0 /\ row.stocks < success)
  \cup Finding("row without returns", key, row.available <= 0)
  \cup Finding("row direction", key, row.direction \notin BatchDirections)

SummaryFindings(summary) ==
  LET completed == SuccessCount(summary.results)
  IN Finding("status", None, summary.status # "completed")
     \cup Finding("counts", None, summary.success + summary.failed # summary.stocks)
     \cup Finding("failed stocks", None, summary.failed # 0)
     \cup Finding("duplicates", None, ~IsInjective([i \in DOMAIN summary.results |-> summary.results[i].stock]))
     \cup Finding("rows", None, Len(summary.results) # summary.stocks)
     \cup Finding("counters", None, completed # summary.success \/ Len(summary.results) - completed # summary.failed)

\* Every factor and offset of a completed stock needs its row.
ExpectedAggregateKeys(results) == UNION {DOMAIN r.summary : r \in ToSet(Completed(results))}

AggregateKeyFindings(summary) ==
  Finding("no aggregate", None, summary.success > 0 /\ summary.aggregate = <<>>)
  \cup Finding("aggregate keys", None, ~(ExpectedAggregateKeys(summary.results) \subseteq DOMAIN summary.aggregate))

FactorBatchFindings(summary, report, log, dirs) ==
  SummaryFindings(summary)
  \cup StockResultLogFindings(summary.results, log)
  \cup (UNION {CompletedResultFindings(r, dirs) : r \in ToSet(Completed(summary.results))})
  \cup AggregateKeyFindings(summary)
  \cup (UNION {AggregateRowFindings(key, summary.aggregate[key], summary.success) : key \in DOMAIN summary.aggregate})
  \cup Finding("report", None, report # AggregateReport(summary))
=============================================================================
