------------------------ MODULE FactorPipeline_proofs ------------------------
(***************************************************************************)
(* What holds of the factor scripts for every market, every sequence of    *)
(* commands and every number of faults and crashes.                        *)
(***************************************************************************)
EXTENDS FactorPipeline, FiniteSetTheorems, WellFoundedInduction, TLAPS

\* No step leaves a live run, by an answer, an exception or the end of its process, with the
\* handlers of the run still on the client.
LEMMA HandlersStep ==
  ASSUME HandlersReturned, [Next]_vars
  PROVE  HandlersReturned'
<1> USE DEF HandlersReturned, LiveRun
<1>1. CASE Begin
  BY <1>1 DEF Begin
<1>2. CASE End
  BY <1>2 DEF End, EndProcess, NewClient
<1>3. CASE WriteFile
  BY <1>3 DEF WriteFile
<1>4. CASE StartRun
  BY <1>4 DEF StartRun, Raise
<1>5. CASE CallWithApiLog
  BY <1>5 DEF CallWithApiLog, RaiseInRun, Receive
<1>6. CASE StartStock
  BY <1>6 DEF StartStock, RaiseInRun
<1>7. CASE WriteLiveStock
  BY <1>7 DEF WriteLiveStock, WriteStock
<1>8. CASE WriteDryRunStock
  BY <1>8 DEF WriteDryRunStock, WriteStock, Raise
<1>9. CASE RestoreHandlers
  BY <1>9 DEF RestoreHandlers
<1>10. CASE FlushCacheWriter
  BY <1>10 DEF FlushCacheWriter, Raise
<1>11. CASE WriteManifest
  BY <1>11 DEF WriteManifest
<1>12. CASE Evaluate
  BY <1>12 DEF Evaluate, Raise
<1>13. CASE StartBatch
  BY <1>13 DEF StartBatch, Raise
<1>14. CASE NextStock
  BY <1>14 DEF NextStock, NewClient
<1>15. CASE StockCompleted
  BY <1>15 DEF StockCompleted, AddResult
<1>16. CASE HandleError
  <2>1. pc = "raised" /\ client.handlers = Caller
    BY <1>16 DEF HandleError
  <2>2. CASE MoreStocks /\ error \in {"SystemExit", "unavailable"}
    <3>1. client' = client
      BY <1>16, <2>2 DEF HandleError
    <3> QED
      BY <2>1, <3>1
  <2>3. CASE ~(MoreStocks /\ error \in {"SystemExit", "unavailable"})
    <3>1. EndProcess(error)
      BY <1>16, <2>3 DEF HandleError
    <3> QED
      BY <3>1 DEF EndProcess, NewClient
  <2> QED
    BY <2>2, <2>3
<1>17. CASE Aggregate
  BY <1>17 DEF Aggregate, Raise
<1>18. CASE StartReview
  BY <1>18 DEF StartReview, Raise
<1>19. CASE AskExternalReviewer
  BY <1>19 DEF AskExternalReviewer
<1>20. CASE Crash
  BY <1>20 DEF Crash, EndProcess, NewClient
<1>21. CASE UNCHANGED vars
  BY <1>21 DEF vars
<1>22. Next => Begin \/ End \/ WriteFile \/ StartRun \/ CallWithApiLog \/ StartStock \/ WriteLiveStock
              \/ WriteDryRunStock \/ RestoreHandlers \/ FlushCacheWriter \/ WriteManifest \/ Evaluate
              \/ StartBatch \/ NextStock \/ StockCompleted \/ HandleError \/ Aggregate \/ StartReview
              \/ AskExternalReviewer \/ Crash \/ UNCHANGED vars
  BY DEF Next, Step, Done
<1> QED
  BY <1>1, <1>2, <1>3, <1>4, <1>5, <1>6, <1>7, <1>8, <1>9, <1>10, <1>11, <1>12, <1>13, <1>14, <1>15, <1>16,
     <1>17, <1>18, <1>19, <1>20, <1>21, <1>22

\* run_factor_production: whenever no live run is under way, the client has the event handlers
\* it had before, whichever call raised (chip_factor_runner.py, the finally clause).
THEOREM HandlersAlwaysReturned == Spec => []HandlersReturned
<1>1. Init => HandlersReturned
  BY DEF Init, HandlersReturned, NewClient
<1>2. HandlersReturned /\ [Next]_vars => HandlersReturned'
  BY HandlersStep
<1> QED
  BY <1>1, <1>2, PTL DEF Spec
-----------------------------------------------------------------------------
(* The inductive invariant of the file tree *)

Phases == LiveRun \cup {"command", "run", "dry stock", "flush", "manifest", "evaluate", "write", "batch",
                        "next stock", "stock result", "aggregate", "review", "external", "raised", "ended"}
Kinds == {"run", "stock", "evaluation", "batch", "review"}

\* The file after which a directory is left alone.
SealOf(dir) ==
  CASE dir[1] \in {"run", "stock"} -> RunManifest(dir[2])
    [] dir[1] = "evaluation" -> <<dir, "factor-evaluation-report.md">>
    [] dir[1] = "batch" -> Report(dir[2])
    [] dir[1] = "review" -> <<dir, "review-state.json">>

\* A sequence, of whatever is in it.
IsSeq(s) == s \in Seq(ToSet(s))

InputOK ==
  /\ commands \in Seq(ToSet(commands))
  /\ \A i \in DOMAIN commands :
       /\ commands[i].do \in {"run", "evaluate", "batch", "aggregate", "review"}
       /\ commands[i].do # "review" => commands[i].id \in Nat
       /\ commands[i].do \in {"run", "batch"} => commands[i].stocks \in Seq(Nat) /\ IsSeq(commands[i].stocks)
       /\ commands[i].do = "aggregate" => commands[i].from \in Seq(Nat) /\ IsSeq(commands[i].from)

\* Every file is in a directory that was made, but for latest.json, which stands beside them.
TreeOK ==
  /\ \A d \in dirs : d[1] \in Kinds
  /\ \A p \in DOMAIN files :
       \/ p[1] \in dirs
       \/ p[2] = "latest.json" /\ p[1][1] \notin Kinds

\* What is still to be written is new, and whatever seals a directory is the last of its files.
TodoOK ==
  /\ todo \in Seq(ToSet(todo))
  /\ pc # "write" => todo = <<>>
  /\ \A i \in DOMAIN todo :
       LET p == todo[i].path
       IN \/ p[1] \notin dirs /\ p[2] = "latest.json" /\ p[1][1] \notin Kinds
          \/ /\ p[1] \in dirs /\ p \notin DOMAIN files /\ ~Written(SealOf(p[1]))
             /\ \A j \in DOMAIN todo : j < i => todo[j].path # p /\ todo[j].path # SealOf(p[1])

\* A run that is under way has its directory and no manifest, and the directory of a stock is
\* empty while its calls are made.
RunOK ==
  /\ DOMAIN run = DOMAIN NoRun
  /\ pc \in LiveRun \cup {"dry stock", "flush", "manifest"} =>
       RunDir(run.id) \in dirs /\ ~Written(RunManifest(run.id))
  /\ pc \in {"cyq_chips", "daily", "factors"} =>
       /\ StockDir(run.id, Stock) \in dirs
       /\ \A p \in DOMAIN files : p[1] # StockDir(run.id, Stock)

\* A batch that still has stocks, or has just had its last one, has its directory and no summary.
BatchOK ==
  /\ InBatch \/ pc = "next stock" =>
       BatchDir(batch.id) \in dirs /\ DOMAIN batch = {"id", "stocks", "item", "results"}
  /\ pc = "stock result" => MoreStocks
  /\ MoreStocks \/ pc = "next stock" =>
       /\ ~Written(Summary(batch.id)) /\ ~Written(Report(batch.id))
       /\ \A i \in DOMAIN todo : todo[i].path[1] # BatchDir(batch.id)

\* The directory of a review is named for its turn and empty until the review writes.
ReviewOK ==
  /\ turn \in Nat \ {0}
  /\ \A d \in dirs : d[1] = "review" => d[3] \in Nat /\ d[3] <= turn /\ (pc \in {"command", "review"} => d[3] < turn)
  /\ pc = "external" =>
       /\ ReviewDir(review.dir) \in dirs
       /\ \A p \in DOMAIN files : p[1] # ReviewDir(review.dir)

IInv == pc \in Phases /\ InputOK /\ TreeOK /\ TodoOK /\ RunOK /\ BatchOK /\ ReviewOK

\* What a step does to the tree: directories stay, files too, but for the logs and for what
\* stands beside the directories, and no directory gains a file after the one that seals it.
TreeKept ==
  /\ dirs \subseteq dirs'
  /\ \A p \in DOMAIN files : p \in DOMAIN files' /\ (p[1] \in dirs /\ p[2] \notin Logs => files'[p] = files[p])
  /\ \A p \in DOMAIN files' \ DOMAIN files : p[2] \notin Logs /\ p[1] \in dirs' => ~Written(SealOf(p[1]))
  /\ \A p \in DOMAIN files : p[1] \in dirs' => p[1] \in dirs

-----------------------------------------------------------------------------
(* What the steps are made of *)

LEMMA Directories ==
  ASSUME NEW id
  PROVE  /\ RunDir(id)[1] = "run" /\ RunDir(id)[2] = id /\ BatchDir(id)[1] = "batch" /\ BatchDir(id)[2] = id
         /\ ReviewDir(id)[1] = "review" /\ ReviewDir(id)[3] = turn
BY DEF RunDir, BatchDir, ReviewDir

LEMMA StockDirectories ==
  ASSUME NEW id, NEW name
  PROVE  /\ StockDir(id, name)[1] = "stock" /\ StockDir(id, name)[2] = id
         /\ EvaluationDir(id, name)[1] = "evaluation"
BY DEF StockDir, EvaluationDir

LEMMA Paths ==
  ASSUME NEW id
  PROVE  /\ RunConfig(id)[1] = RunDir(id) /\ RunManifest(id)[1] = RunDir(id) /\ CallLog(id)[1] = RunDir(id)
         /\ BatchConfig(id)[1] = BatchDir(id) /\ StockLog(id)[1] = BatchDir(id)
         /\ Summary(id)[1] = BatchDir(id) /\ Report(id)[1] = BatchDir(id)
         /\ RunConfig(id)[2] = "factor-run-config.json" /\ RunManifest(id)[2] = "factor-run-manifest.json"
         /\ CallLog(id)[2] = "api-calls.jsonl" /\ BatchConfig(id)[2] = "factor-batch-config.json"
         /\ StockLog(id)[2] = "stock-results.jsonl" /\ Summary(id)[2] = "factor-batch-summary.json"
         /\ Report(id)[2] = "aggregate-factor-report.md"
BY DEF RunConfig, RunManifest, CallLog, BatchConfig, StockLog, Summary, Report

LEMMA Seals ==
  ASSUME NEW id, NEW name
  PROVE  /\ SealOf(RunDir(id)) = RunManifest(id) /\ SealOf(StockDir(id, name)) = RunManifest(id)
         /\ SealOf(EvaluationDir(id, name)) = <<EvaluationDir(id, name), "factor-evaluation-report.md">>
         /\ SealOf(BatchDir(id)) = Report(id)
         /\ SealOf(ReviewDir(id)) = <<ReviewDir(id), "review-state.json">>
<1>1. /\ RunDir(id)[1] = "run" /\ StockDir(id, name)[1] = "stock" /\ EvaluationDir(id, name)[1] = "evaluation"
      /\ BatchDir(id)[1] = "batch" /\ ReviewDir(id)[1] = "review"
      /\ RunDir(id)[2] = id /\ StockDir(id, name)[2] = id /\ BatchDir(id)[2] = id
  BY DEF RunDir, StockDir, EvaluationDir, BatchDir, ReviewDir
<1> QED BY <1>1 DEF SealOf

LEMMA FileShape ==
  ASSUME NEW path, NEW content
  PROVE  DOMAIN OneFile(path, content) = {path}
BY DEF OneFile

LEMMA OverShape ==
  ASSUME NEW new, NEW old
  PROVE  /\ DOMAIN WrittenOver(new, old) = DOMAIN new \cup DOMAIN old
         /\ \A p \in DOMAIN old \ DOMAIN new : WrittenOver(new, old)[p] = old[p]
BY DEF WrittenOver

\* A sequence is one of its own elements.
LEMMA OwnElements == ASSUME NEW S, NEW s \in Seq(S) PROVE s \in Seq(ToSet(s))
<1>1. s \in [1..Len(s) -> ToSet(s)] /\ Len(s) \in Nat BY DEF ToSet
<1> QED BY <1>1

\* What has no file and no kind of directory: a directory that is not made has no files.
LEMMA NoFilesYet == ASSUME TreeOK, NEW d, d[1] \in Kinds, d \notin dirs PROVE \A p \in DOMAIN files : p[1] # d
BY DEF TreeOK

\* Files that are new, in directories that are there and not sealed, or logs.
LEMMA NewFilesKeep ==
  ASSUME TreeOK, NEW new, DOMAIN files' = DOMAIN files \cup new, \A p \in DOMAIN files \ new : files'[p] = files[p],
         dirs \subseteq dirs', \A d \in dirs' \ dirs : d[1] \in Kinds,
         \A p \in new : p[1] \in dirs' /\ (p[2] \in Logs \/ (p \notin DOMAIN files /\ ~Written(SealOf(p[1]))))
  PROVE  TreeOK' /\ TreeKept
<1>1. \A d \in dirs' : d[1] \in Kinds BY DEF TreeOK
<1>2. TreeOK' BY <1>1 DEF TreeOK
<1>3. TreeKept BY <1>1 DEF TreeKept, TreeOK
<1> QED BY <1>2, <1>3

\* Directories may be made without files.
LEMMA SameFilesKeep ==
  ASSUME TreeOK, files' = files, dirs \subseteq dirs', \A d \in dirs' \ dirs : d[1] \in Kinds
  PROVE  TreeOK' /\ TreeKept
<1>1. \A d \in dirs' : d[1] \in Kinds BY DEF TreeOK
<1>2. TreeOK' BY <1>1 DEF TreeOK
<1>3. TreeKept BY <1>1 DEF TreeKept, TreeOK
<1> QED BY <1>2, <1>3

LEMMA NothingPlanned == ASSUME todo' = <<>> PROVE \A i \in DOMAIN todo' : FALSE
OBVIOUS

LEMMA EmptyPlan == ASSUME todo' = <<>> PROVE TodoOK'
<1>1. todo' \in Seq(ToSet(todo')) BY OwnElements
<1> QED BY <1>1 DEF TodoOK

\* A step of a command that plans no files: what is left to show is about its run.
LEMMA CommandKeeps ==
  ASSUME IInv, TreeOK', TreeKept, UNCHANGED <<commands, turn, batch>>, todo = <<>>, todo' = todo,
         pc' \in Phases \ {"command", "review", "external", "next stock", "stock result"},
         \A d \in dirs' \ dirs : d[1] # "review",
         \A p \in DOMAIN files' \ DOMAIN files : p[1][1] # "batch",
         RunOK'
  PROVE  IInv' /\ TreeKept
<1> USE DEF IInv
<1>1. InputOK' BY DEF InputOK
<1>2. TodoOK' BY EmptyPlan
<1>3. BatchOK'
  <2>1. DOMAIN files \subseteq DOMAIN files' /\ dirs \subseteq dirs' BY DEF TreeKept
  <2>2. ASSUME NEW p \in {Summary(batch.id), Report(batch.id)}, p \in DOMAIN files' PROVE p \in DOMAIN files
    <3>1. p[1] = BatchDir(batch.id) BY Paths
    <3>2. BatchDir(batch.id)[1] = "batch" BY DEF BatchDir
    <3>3. p[1][1] = BatchDir(batch.id)[1] BY <3>1
    <3>4. p[1][1] = "batch" BY <3>2, <3>3
    <3> QED BY <2>2, <3>4
  <2> QED BY <2>1, <2>2 DEF BatchOK, InBatch, MoreStocks, Written
<1>4. ReviewOK' BY DEF ReviewOK
<1> QED BY <1>1, <1>2, <1>3, <1>4

LEMMA IdlePlan == ASSUME IInv, pc # "write" PROVE todo = <<>>
BY DEF IInv, TodoOK

\* A process that ends leaves the tree alone.
LEMMA EndKeeps ==
  ASSUME IInv, NEW how, EndProcess(how), UNCHANGED <<commands, files, dirs>>
  PROVE  IInv' /\ TreeKept
<1> USE DEF IInv, EndProcess
<1>1. TreeOK' /\ TreeKept BY SameFilesKeep
<1>2. InputOK' BY DEF InputOK
<1>3. TodoOK' BY EmptyPlan
<1>4. RunOK' BY DEF RunOK, LiveRun
<1>5. BatchOK' BY DEF BatchOK, InBatch, MoreStocks
<1>6. ReviewOK' BY DEF ReviewOK
<1> QED BY <1>1, <1>2, <1>3, <1>4, <1>5, <1>6 DEF Phases

\* An exception outside of a live run changes nothing of the tree.
LEMMA RaiseKeeps ==
  ASSUME IInv, pc \notin {"write", "command"}, TreeOK', TreeKept,
         files' = files, \A d \in dirs' \ dirs : d[1] # "review", UNCHANGED <<commands, turn, batch, todo>>,
         pc' = "raised", DOMAIN run' = DOMAIN NoRun
  PROVE  IInv' /\ TreeKept
<1>1. RunOK' BY DEF RunOK, LiveRun
<1>2. pc' \in Phases \ {"command", "review", "external", "next stock", "stock result"} BY DEF Phases
<1> QED BY <1>1, <1>2, CommandKeeps, IdlePlan

-----------------------------------------------------------------------------
(* The steps *)

LEMMA BeginKeeps == ASSUME IInv, Begin PROVE IInv' /\ TreeKept
<1>1. pc = "command" /\ UNCHANGED <<commands, turn, batch, files, dirs, todo>> BY DEF Begin, Inputs, Tree, History
<1>2. pc' \in {"run", "evaluate", "batch", "aggregate", "review"}
  <2>1. turn \in DOMAIN commands BY DEF Begin, IInv, InputOK, ReviewOK
  <2> QED BY <2>1 DEF Begin, Command, IInv, InputOK
<1>3. TreeOK' /\ TreeKept BY <1>1, SameFilesKeep DEF IInv
<1>4. RunOK'
  <2>1. DOMAIN run' = DOMAIN NoRun
    <3>1. run' = NewRun(Command.id, Command.stocks, Command.dry) \/ run' = [NoRun EXCEPT !.id = Command.id] \/ run' = NoRun
      BY DEF Begin
    <3> QED BY <3>1 DEF NewRun
  <2> QED BY <1>2, <2>1 DEF RunOK, LiveRun
<1>5. CASE pc' # "review" BY <1>1, <1>2, <1>3, <1>4, <1>5, CommandKeeps, IdlePlan DEF Phases
<1>6. CASE pc' = "review"
  <2> USE DEF IInv
  <2>1. InputOK' BY <1>1 DEF InputOK
  <2>2. TodoOK' BY <1>1, <1>6 DEF TodoOK
  <2>3. BatchOK' BY <1>1, <1>6 DEF BatchOK, InBatch, MoreStocks, Written
  <2>4. ReviewOK' BY <1>1, <1>6 DEF ReviewOK
  <2> QED BY <1>3, <1>4, <1>6, <2>1, <2>2, <2>3, <2>4 DEF Phases
<1> QED BY <1>5, <1>6

LEMMA EndStepKeeps == ASSUME IInv, End PROVE IInv' /\ TreeKept
BY EndKeeps DEF End, Inputs, Tree

LEMMA CrashKeeps == ASSUME IInv, Crash PROVE IInv' /\ TreeKept
BY EndKeeps DEF Crash, Inputs, Tree

\* The next file of a command: it is new and its directory not sealed, or it stands beside the
\* directories.
LEMMA WriteFileKeeps == ASSUME IInv, WriteFile PROVE IInv' /\ TreeKept
<1> DEFINE path == todo[1].path
<1>0. /\ pc = "write" /\ todo # <<>> /\ files' = WrittenOver(OneFile(path, todo[1].content), files)
      /\ todo' = Tail(todo) /\ pc' = (IF Len(todo) > 1 THEN "write" ELSE IF MoreStocks THEN "stock result" ELSE "ended")
      /\ UNCHANGED <<commands, dirs, run, batch, review, turn>>
  BY DEF WriteFile, Inputs, Locals, History
<1> HIDE DEF path
<1>1. /\ DOMAIN files' = DOMAIN files \cup {path}
      /\ \A p \in DOMAIN files \ {path} : files'[p] = files[p]
  <2> DEFINE new == OneFile(path, todo[1].content)
  <2>1. DOMAIN new = {path} BY FileShape
  <2>2. files' = WrittenOver(new, files) BY <1>0
  <2> HIDE DEF new
  <2> QED BY <2>1, <2>2 DEF WrittenOver
<1> USE DEF IInv
<1>2. /\ Len(todo) \in Nat /\ Len(todo) > 0 /\ DOMAIN todo = 1..Len(todo)
      /\ todo' \in Seq(ToSet(todo)) /\ Len(todo') = Len(todo) - 1
      /\ DOMAIN todo' = 1..(Len(todo) - 1) /\ \A i \in DOMAIN todo' : todo'[i] = todo[i + 1]
  <2> DEFINE S == ToSet(todo)
  <2>1. todo \in Seq(S) /\ todo # <<>> /\ todo' = Tail(todo) BY <1>0 DEF TodoOK
  <2> HIDE DEF S
  <2>2. todo' \in Seq(S) /\ Len(todo') = Len(todo) - 1 /\ Len(todo) \in Nat /\ Len(todo) > 0
        /\ \A i \in 1..(Len(todo) - 1) : todo'[i] = todo[i + 1]
    BY <2>1
  <2> QED BY <2>1, <2>2 DEF S
<1>3. \/ path[1] \notin dirs /\ path[2] = "latest.json" /\ path[1][1] \notin Kinds
      \/ path[1] \in dirs /\ path \notin DOMAIN files /\ ~Written(SealOf(path[1]))
  BY <1>2 DEF TodoOK, path
<1>4. TreeOK'
  BY <1>0, <1>1, <1>3 DEF TreeOK
<1>5. TreeKept
  BY <1>0, <1>1, <1>3 DEF TreeKept
<1>6. pc' \in {"write", "stock result", "ended"} BY <1>0
<1>7. InputOK' BY <1>0 DEF InputOK
<1>8. TodoOK'
  <2>1. todo' \in Seq(ToSet(todo')) BY <1>2, OwnElements
  <2>2. pc' # "write" => todo' = <<>>
    <3>0. Len(todo) > 1 => pc' = "write" BY <1>0
    <3>1. pc' # "write" => Len(todo') = 0 BY <1>2, <3>0
    <3> QED BY <2>1, <3>1
  <2>3. ASSUME NEW i \in DOMAIN todo', todo'[i].path[1] \in dirs
        PROVE  /\ todo'[i].path \notin DOMAIN files' /\ SealOf(todo'[i].path[1]) \notin DOMAIN files'
               /\ \A j \in DOMAIN todo' : j < i =>
                    todo'[j].path # todo'[i].path /\ todo'[j].path # SealOf(todo'[i].path[1])
    <3>1. i + 1 \in DOMAIN todo /\ 1 \in DOMAIN todo /\ 1 < i + 1 /\ todo'[i] = todo[i + 1] BY <1>2
    <3>2. /\ todo[i + 1].path \notin DOMAIN files /\ ~Written(SealOf(todo[i + 1].path[1]))
          /\ \A j \in DOMAIN todo : j < i + 1 =>
               todo[j].path # todo[i + 1].path /\ todo[j].path # SealOf(todo[i + 1].path[1])
      BY <2>3, <3>1 DEF TodoOK
    <3>3. path # todo[i + 1].path /\ path # SealOf(todo[i + 1].path[1]) BY <3>1, <3>2 DEF path
    <3>4. SealOf(todo[i + 1].path[1]) \notin DOMAIN files' BY <1>1, <3>2, <3>3 DEF Written
    <3>5. \A j \in DOMAIN todo' : j < i => j + 1 \in DOMAIN todo /\ j + 1 < i + 1 BY <1>2
    <3> QED BY <1>1, <1>2, <3>1, <3>2, <3>3, <3>4, <3>5
  <2>4. ASSUME NEW i \in DOMAIN todo', todo'[i].path[1] \notin dirs
        PROVE  todo'[i].path[2] = "latest.json" /\ todo'[i].path[1][1] \notin Kinds
    <3>1. i + 1 \in DOMAIN todo /\ todo'[i] = todo[i + 1] BY <1>2
    <3> QED BY <2>4, <3>1 DEF TodoOK
  <2>5. dirs' = dirs BY <1>0
  <2> QED BY <2>1, <2>2, <2>3, <2>4, <2>5 DEF TodoOK, Written
<1>9. RunOK' BY <1>0, <1>6 DEF RunOK, LiveRun
<1>10. BatchOK'
  <2>1. ASSUME InBatch, MoreStocks
        PROVE  /\ ~Written(Summary(batch.id))' /\ ~Written(Report(batch.id))'
               /\ \A i \in DOMAIN todo' : todo'[i].path[1] # BatchDir(batch.id)
    <3>1. path[1] # BatchDir(batch.id) BY <1>2, <2>1 DEF BatchOK, path
    <3>2. path # Summary(batch.id) /\ path # Report(batch.id) BY <3>1, Paths
    <3>3. \A i \in DOMAIN todo' : i + 1 \in DOMAIN todo /\ todo'[i] = todo[i + 1] BY <1>2
    <3> QED BY <1>0, <1>1, <2>1, <3>2, <3>3 DEF BatchOK, Written
  <2> QED BY <1>0, <1>6, <2>1 DEF BatchOK, InBatch, MoreStocks
<1>11. ReviewOK' BY <1>0, <1>6 DEF ReviewOK
<1> QED BY <1>4, <1>5, <1>6, <1>7, <1>8, <1>9, <1>10, <1>11 DEF Phases

\* A command that has computed all its files: they are new in their directory, in an order in
\* which the one that seals it is the last.
LEMMA PlanKeeps ==
  ASSUME IInv, NEW dir, dir \in dirs', dirs \subseteq dirs', \A d \in dirs' \ dirs : d[1] \in Kinds \ {"review"},
         UNCHANGED <<commands, turn, batch, files>>, pc' = "write", DOMAIN run' = DOMAIN NoRun,
         todo' \in Seq(ToSet(todo')), ~Written(SealOf(dir)), InBatch /\ MoreStocks => dir # BatchDir(batch.id),
         \A i \in DOMAIN todo' :
           \/ todo'[i].path[2] = "latest.json" /\ todo'[i].path[1][1] \notin Kinds
           \/ /\ todo'[i].path[1] = dir /\ todo'[i].path \notin DOMAIN files
              /\ \A j \in DOMAIN todo' : j < i => todo'[j].path # todo'[i].path /\ todo'[j].path # SealOf(dir)
  PROVE  IInv' /\ TreeKept
<1> USE DEF IInv
<1>1. TreeOK' /\ TreeKept BY SameFilesKeep
<1>2. InputOK' BY DEF InputOK
<1>3. RunOK' BY DEF RunOK, LiveRun
<1>4. ReviewOK' BY DEF ReviewOK
<1>5. TodoOK'
  <2>1. ASSUME NEW i \in DOMAIN todo'
        PROVE  \/ todo'[i].path[1] \notin dirs' /\ todo'[i].path[2] = "latest.json" /\ todo'[i].path[1][1] \notin Kinds
               \/ /\ todo'[i].path[1] \in dirs' /\ todo'[i].path \notin DOMAIN files'
                  /\ SealOf(todo'[i].path[1]) \notin DOMAIN files'
                  /\ \A j \in DOMAIN todo' : j < i =>
                       todo'[j].path # todo'[i].path /\ todo'[j].path # SealOf(todo'[i].path[1])
    <3>1. CASE todo'[i].path[2] = "latest.json" /\ todo'[i].path[1][1] \notin Kinds BY <1>1, <3>1 DEF TreeOK
    <3>2. CASE ~(todo'[i].path[2] = "latest.json" /\ todo'[i].path[1][1] \notin Kinds) BY <3>2 DEF Written
    <3> QED BY <3>1, <3>2
  <2> QED BY <2>1 DEF TodoOK, Written
<1>6. BatchOK'
  <2>1. \A i \in DOMAIN todo' : InBatch /\ MoreStocks => todo'[i].path[1] # BatchDir(batch.id)
    <3>1. BatchDir(batch.id)[1] \in Kinds BY DEF BatchDir, Kinds
    <3> QED BY <3>1
  <2> QED BY <2>1 DEF BatchOK, InBatch, MoreStocks, Written
<1> QED BY <1>1, <1>2, <1>3, <1>4, <1>5, <1>6 DEF Phases

LEMMA StartRunKeeps == ASSUME IInv, StartRun PROVE IInv' /\ TreeKept
<1>0. pc = "run" /\ UNCHANGED <<commands, turn, batch, todo>> /\ TreeOK /\ DOMAIN run = DOMAIN NoRun
  BY DEF StartRun, Inputs, History, IInv, RunOK
<1>1. CASE run.stocks = <<>> \/ RunDir(run.id) \in dirs
  <2>1. pc' = "raised" /\ UNCHANGED <<files, dirs, run>> BY <1>1 DEF StartRun, Raise, Tree
  <2>2. TreeOK' /\ TreeKept BY <1>0, <2>1, SameFilesKeep
  <2> QED BY <1>0, <2>1, <2>2, RaiseKeeps
<1>2. CASE ~(run.stocks = <<>> \/ RunDir(run.id) \in dirs)
  <2> DEFINE dir == RunDir(run.id)
             config == OneFile(RunConfig(run.id), [stocks |-> run.stocks, dry |-> run.dry])
             log == OneFile(CallLog(run.id), <<>>)
             new == {RunConfig(run.id), CallLog(run.id)}
  <2>1. /\ dirs' = dirs \cup {dir} /\ files' = WrittenOver(config, WrittenOver(log, files))
        /\ run' = run \/ run' = [run EXCEPT !.days = Weekdays, !.outputDays = Weekdays]
        /\ pc' \in {"trade_cal", "dry stock", "raised"}
    BY <1>2 DEF StartRun, Raise
  <2>2. DOMAIN config = {RunConfig(run.id)} /\ DOMAIN log = {CallLog(run.id)} BY FileShape
  <2> HIDE DEF config, log
  <2>3. DOMAIN files' = DOMAIN files \cup new /\ \A p \in DOMAIN files \ new : files'[p] = files[p]
    BY <2>1, <2>2 DEF WrittenOver
  <2>4. dir[1] = "run" /\ dir \notin dirs BY <1>2, Directories
  <2>5. \A p \in new : p[1] = dir BY Paths
  <2>6. \A p \in DOMAIN files : p[1] # dir BY <1>0, <2>4, NoFilesYet DEF Kinds
  <2>7. RunManifest(run.id) \notin new /\ RunManifest(run.id)[1] = dir /\ SealOf(dir) = RunManifest(run.id)
    BY Paths, Seals
  <2> HIDE DEF new, dir
  <2>8. TreeOK' /\ TreeKept
    BY <1>0, <2>1, <2>3, <2>4, <2>5, <2>6, <2>7, NewFilesKeep DEF Kinds, Written
  <2>9. DOMAIN run' = DOMAIN NoRun /\ run'.id = run.id BY <1>0, <2>1 DEF NoRun
  <2>10. RunOK'
    <3>1. dir = RunDir(run'.id) /\ RunManifest(run'.id) = RunManifest(run.id) BY <2>9 DEF dir
    <3>2. RunManifest(run.id) \notin DOMAIN files' BY <2>3, <2>6, <2>7
    <3> QED BY <2>1, <2>9, <3>1, <3>2 DEF RunOK, LiveRun, Written
  <2>11. \A p \in new : p[1][1] # "batch" BY <2>4, <2>5
  <2>12. pc' \in Phases \ {"command", "review", "external", "next stock", "stock result"} BY <2>1 DEF Phases, LiveRun
  <2>13. todo = <<>> BY <1>0, IdlePlan
  <2>14. \A d \in dirs' \ dirs : d[1] # "review" BY <2>1, <2>4
  <2> QED BY <1>0, <2>3, <2>8, <2>10, <2>11, <2>12, <2>13, <2>14, CommandKeeps
<1> QED BY <1>1, <1>2

\* A step of a live run or a dry one that leaves the directories alone.
LEMMA RunKeeps ==
  ASSUME IInv, pc \in LiveRun \cup {"dry stock", "flush", "manifest"}, UNCHANGED <<commands, turn, batch, todo, files, dirs>>,
         DOMAIN run' = DOMAIN NoRun, run'.id = run.id,
         pc' \in {"stock", "finally", "flush", "manifest", "raised"}
  PROVE  IInv' /\ TreeKept
<1>1. TreeOK' /\ TreeKept BY SameFilesKeep DEF IInv
<1>2. RunOK'
  <2>1. RunOK BY DEF IInv
  <2>2. RunManifest(run'.id) = RunManifest(run.id) /\ RunDir(run'.id) = RunDir(run.id) OBVIOUS
  <2> QED BY <2>1, <2>2 DEF RunOK, LiveRun, Written
<1>3. pc' \in Phases \ {"command", "review", "external", "next stock", "stock result"} BY DEF Phases, LiveRun
<1>4. todo = <<>> BY IdlePlan DEF LiveRun
<1> QED BY <1>1, <1>2, <1>3, <1>4, CommandKeeps

LEMMA CallKeeps == ASSUME IInv, CallWithApiLog PROVE IInv' /\ TreeKept
<1> DEFINE log == CallLog(run.id)
<1>0. /\ pc \in {"trade_cal", "cyq_chips", "daily"} /\ UNCHANGED <<commands, turn, batch, todo, dirs>>
      /\ TreeOK /\ DOMAIN run = DOMAIN NoRun /\ RunOK
  BY DEF CallWithApiLog, Inputs, IInv, RunOK
<1>1. PICK row : files' = [files EXCEPT ![log] = Append(@, row)] BY DEF CallWithApiLog
<1>2. /\ pc' \in {"finally", "stock", "daily", "factors"}
      /\ pc' \in {"daily", "factors"} => pc \in {"cyq_chips", "daily"}
      /\ \/ run' = run
         \/ \E days, output : run' = [run EXCEPT !.days = days, !.outputDays = output]
         \/ \E chips : run' = [run EXCEPT !.chips = chips]
         \/ \E snapshots : run' = [run EXCEPT !.snapshots = snapshots]
  <2>1. (pc' = "finally" /\ run' = run) \/ \E answer : Receive(pc, answer) BY DEF CallWithApiLog, RaiseInRun
  <2>2. ASSUME NEW answer, Receive("trade_cal", answer)
        PROVE  \/ pc' = "finally" /\ run' = run
               \/ /\ pc' = "stock"
                  /\ \E days, output : run' = [run EXCEPT !.days = days, !.outputDays = output]
    BY <2>2 DEF Receive, RaiseInRun
  <2>3. ASSUME NEW answer, Receive("cyq_chips", answer) PROVE pc' = "daily" /\ run' = [run EXCEPT !.chips = answer]
    BY <2>3 DEF Receive
  <2>4. ASSUME NEW answer, Receive("daily", answer)
        PROVE  pc' = "factors" /\ run' = [run EXCEPT !.snapshots = Snapshots(run.days, run.chips, answer)]
    BY <2>4 DEF Receive
  <2>5. CASE pc = "trade_cal" BY <2>1, <2>2, <2>5
  <2>6. CASE pc = "cyq_chips" BY <2>1, <2>3, <2>6
  <2>7. CASE pc = "daily" BY <2>1, <2>4, <2>7
  <2> QED BY <1>0, <2>5, <2>6, <2>7
<1>3. DOMAIN run' = DOMAIN NoRun /\ run'.id = run.id /\ run'.stocks = run.stocks /\ run'.item = run.item
  BY <1>0, <1>2 DEF NoRun
<1>4. DOMAIN files' = DOMAIN files /\ \A p \in DOMAIN files \ {log} : files'[p] = files[p]
  <2> HIDE DEF log
  <2> QED BY <1>1
<1>5. log[1] = RunDir(run.id) /\ log[2] = "api-calls.jsonl" /\ RunDir(run.id) \in dirs
  BY <1>0, Paths DEF RunOK, LiveRun
<1>6. TreeOK' /\ TreeKept
  <2> HIDE DEF log
  <2>1. TreeOK' BY <1>0, <1>4 DEF TreeOK
  <2>2. TreeKept BY <1>0, <1>4, <1>5 DEF TreeKept, Logs
  <2> QED BY <2>1, <2>2
<1>7. RunOK'
  <2>1. RunDir(run'.id) = RunDir(run.id) /\ RunManifest(run'.id) = RunManifest(run.id) BY <1>3
  <2>2. StockDir(run'.id, Stock') = StockDir(run.id, Stock) BY <1>3 DEF Stock
  <2> QED BY <1>0, <1>2, <1>3, <1>4, <2>1, <2>2 DEF RunOK, LiveRun, Written
<1>8. pc' \in Phases \ {"command", "review", "external", "next stock", "stock result"} BY <1>2 DEF Phases, LiveRun
<1>9. todo = <<>> BY <1>0, IdlePlan
<1> QED BY <1>0, <1>4, <1>6, <1>7, <1>8, <1>9, CommandKeeps

LEMMA StartStockKeeps == ASSUME IInv, StartStock PROVE IInv' /\ TreeKept
<1> DEFINE dir == StockDir(run.id, Stock)
<1>0. /\ pc = "stock" /\ UNCHANGED <<commands, turn, batch, run, todo, files>>
      /\ TreeOK /\ DOMAIN run = DOMAIN NoRun /\ RunOK
  BY DEF StartStock, Inputs, Locals, History, IInv, RunOK
<1>1. CASE dirs' = dirs /\ pc' = "finally" BY <1>0, <1>1, RunKeeps DEF LiveRun
<1>2. CASE dir \notin dirs /\ dirs' = dirs \cup {dir} /\ pc' = "cyq_chips"
  <2>1. dir[1] = "stock" BY StockDirectories
  <2>2. \A p \in DOMAIN files : p[1] # dir BY <1>0, <1>2, <2>1, NoFilesYet DEF Kinds
  <2>3. TreeOK' /\ TreeKept BY <1>0, <1>2, <2>1, SameFilesKeep DEF Kinds
  <2>4. RunOK'
    <3>1. dir' = dir BY <1>0 DEF Stock
    <3> HIDE DEF dir
    <3>2. \A p \in DOMAIN files' : p[1] # dir' BY <1>0, <2>2, <3>1
    <3>3. RunDir(run.id) \in dirs /\ ~Written(RunManifest(run.id)) BY <1>0 DEF RunOK, LiveRun
    <3> QED BY <1>0, <1>2, <3>1, <3>2, <3>3 DEF RunOK, LiveRun, Written, dir
  <2>5. pc' \in Phases \ {"command", "review", "external", "next stock", "stock result"} BY <1>2 DEF Phases, LiveRun
  <2>6. \A d \in dirs' \ dirs : d[1] # "review" BY <1>2, <2>1
  <2>7. todo = <<>> BY <1>0, IdlePlan
  <2> QED BY <1>0, <2>3, <2>4, <2>5, <2>6, <2>7, CommandKeeps
<1> QED BY <1>1, <1>2 DEF StartStock, RaiseInRun

\* The files of a stock, in its directory.
LEMMA InShape == ASSUME NEW dir, NEW contents, NEW p \in DOMAIN In(dir, contents) PROVE p[1] = dir
BY DEF In

\* The directory of a stock gets its files, and the run goes on.
LEMMA StockFilesKeep ==
  ASSUME IInv, NEW contents, files' = WrittenOver(In(StockDir(run.id, Stock), contents), files),
         pc \in LiveRun \cup {"dry stock"}, dirs' = dirs \cup {StockDir(run.id, Stock)},
         \A p \in DOMAIN files : p[1] # StockDir(run.id, Stock),
         UNCHANGED <<commands, turn, batch, todo>>, pc' \in {"stock", "dry stock", "finally", "raised"},
         DOMAIN run' = DOMAIN NoRun, run'.id = run.id
  PROVE  IInv' /\ TreeKept
<1> DEFINE dir == StockDir(run.id, Stock)
           new == DOMAIN In(dir, contents)
<1>1. dir[1] = "stock" /\ SealOf(dir) = RunManifest(run.id) BY StockDirectories, Seals
<1>2. TreeOK /\ RunDir(run.id) \in dirs /\ ~Written(RunManifest(run.id)) BY DEF IInv, RunOK
<1>3. \A p \in new : p[1] = dir BY InShape
<1>4. DOMAIN files' = DOMAIN files \cup new /\ \A p \in DOMAIN files \ new : files'[p] = files[p]
  <2> DEFINE added == In(dir, contents)
  <2>1. files' = WrittenOver(added, files) /\ new = DOMAIN added OBVIOUS
  <2> HIDE DEF added, new
  <2> QED BY <2>1 DEF WrittenOver
<1>5. RunManifest(run.id)[1] = RunDir(run.id) /\ RunDir(run.id)[1] = "run" BY Paths, Directories
<1> HIDE DEF new, dir
<1>6. TreeOK' /\ TreeKept
  <2>1. \A p \in new : p[1] \in dirs' /\ p \notin DOMAIN files /\ ~Written(SealOf(p[1])) BY <1>1, <1>2, <1>3 DEF dir
  <2>2. \A d \in dirs' \ dirs : d[1] \in Kinds BY <1>1 DEF Kinds, dir
  <2> QED BY <1>2, <1>4, <2>1, <2>2, NewFilesKeep
<1>7. RunOK'
  <2>1. RunDir(run'.id) = RunDir(run.id) /\ RunManifest(run'.id) = RunManifest(run.id) OBVIOUS
  <2>2. RunManifest(run.id) \notin new
    <3> SUFFICES ASSUME RunManifest(run.id) \in new PROVE FALSE OBVIOUS
    <3>1. RunDir(run.id) = dir BY <1>3, <1>5
    <3> QED BY <1>1, <1>5, <3>1
  <2> QED BY <1>2, <1>4, <2>1, <2>2 DEF RunOK, LiveRun, Written
<1>8. pc' \in Phases \ {"command", "review", "external", "next stock", "stock result"} BY DEF Phases, LiveRun
<1>9. todo = <<>> BY IdlePlan DEF LiveRun
<1>10. \A d \in dirs' \ dirs : d[1] # "review" BY <1>1 DEF dir
<1>11. \A p \in new : p[1][1] # "batch" BY <1>1, <1>3
<1> QED BY <1>4, <1>6, <1>7, <1>8, <1>9, <1>10, <1>11, CommandKeeps

LEMMA NextOutputShape ==
  ASSUME DOMAIN run = DOMAIN NoRun, NEW output
  PROVE  DOMAIN NextOutput(output) = DOMAIN NoRun /\ NextOutput(output).id = run.id
BY DEF NextOutput, NoRun

LEMMA LiveStockKeeps == ASSUME IInv, WriteLiveStock PROVE IInv' /\ TreeKept
<1> DEFINE dir == StockDir(run.id, Stock)
<1>0. /\ pc = "factors" /\ UNCHANGED <<commands, turn, batch, todo, dirs>> /\ DOMAIN run = DOMAIN NoRun
      /\ dir \in dirs /\ \A p \in DOMAIN files : p[1] # dir
  BY DEF WriteLiveStock, Inputs, History, IInv, RunOK
<1>1. PICK contents, output :
        /\ files' = WrittenOver(In(dir, contents), files)
        /\ \/ pc' = "finally" /\ run' = run
           \/ pc' = "stock" /\ run' = NextOutput(output)
  BY DEF WriteLiveStock, WriteStock
<1>2. DOMAIN run' = DOMAIN NoRun /\ run'.id = run.id BY <1>0, <1>1, NextOutputShape
<1>3. dirs' = dirs \cup {dir} BY <1>0
<1> QED BY <1>0, <1>1, <1>2, <1>3, StockFilesKeep DEF LiveRun

LEMMA DryRunStockKeeps == ASSUME IInv, WriteDryRunStock PROVE IInv' /\ TreeKept
<1> DEFINE dir == StockDir(run.id, Stock)
<1>0. /\ pc = "dry stock" /\ UNCHANGED <<commands, turn, batch, todo>> /\ DOMAIN run = DOMAIN NoRun /\ TreeOK
  BY DEF WriteDryRunStock, Inputs, History, IInv, RunOK
<1>1. CASE run.item > Len(run.stocks) \/ dir \in dirs
  <2>1. UNCHANGED <<files, dirs, run>> /\ pc' \in {"manifest", "raised"} BY <1>1 DEF WriteDryRunStock, Raise, Tree
  <2> QED BY <1>0, <2>1, RunKeeps
<1>2. CASE ~(run.item > Len(run.stocks) \/ dir \in dirs)
  <2>1. PICK contents, output :
          /\ files' = WrittenOver(In(dir, contents), files) /\ dirs' = dirs \cup {dir}
          /\ \/ pc' = "raised" /\ run' = run
             \/ pc' = "dry stock" /\ run' = NextOutput(output)
    BY <1>0, <1>2 DEF WriteDryRunStock, WriteStock
  <2>2. DOMAIN run' = DOMAIN NoRun /\ run'.id = run.id BY <1>0, <2>1, NextOutputShape
  <2>3. dir[1] = "stock" BY StockDirectories
  <2>4. \A p \in DOMAIN files : p[1] # dir
    <3>1. dir \notin dirs /\ dir[1] \in Kinds BY <1>2, <2>3 DEF Kinds
    <3> HIDE DEF dir
    <3> QED BY <1>0, <3>1, NoFilesYet
  <2> QED BY <1>0, <2>1, <2>2, <2>4, StockFilesKeep
<1> QED BY <1>1, <1>2

LEMMA RestoreKeeps == ASSUME IInv, RestoreHandlers PROVE IInv' /\ TreeKept
<1>1. /\ pc = "finally" /\ pc' = "flush" /\ UNCHANGED <<commands, turn, batch, todo, files, dirs, run>>
      /\ DOMAIN run = DOMAIN NoRun
  BY DEF RestoreHandlers, Inputs, Tree, Locals, History, IInv, RunOK
<1> QED BY <1>1, RunKeeps DEF LiveRun

LEMMA FlushKeeps == ASSUME IInv, FlushCacheWriter PROVE IInv' /\ TreeKept
<1>1. /\ pc = "flush" /\ pc' \in {"raised", "manifest"} /\ UNCHANGED <<commands, turn, batch, todo, files, dirs>>
      /\ DOMAIN run = DOMAIN NoRun /\ \E failed : run' = [run EXCEPT !.warned = failed]
  BY DEF FlushCacheWriter, Raise, Inputs, Tree, IInv, RunOK
<1>2. DOMAIN run' = DOMAIN NoRun /\ run'.id = run.id BY <1>1 DEF NoRun
<1> QED BY <1>1, <1>2, RunKeeps DEF LiveRun

\* The manifest seals the run: it is the last of its files.
LEMMA ManifestKeeps == ASSUME IInv, WriteManifest PROVE IInv' /\ TreeKept
<1> DEFINE path == RunManifest(run.id)
<1>0. /\ pc = "manifest" /\ pc' \in {"evaluate", "ended"} /\ UNCHANGED <<commands, turn, batch, todo, dirs, run>>
      /\ TreeOK /\ DOMAIN run = DOMAIN NoRun /\ RunDir(run.id) \in dirs /\ path \notin DOMAIN files
  BY DEF WriteManifest, Inputs, Locals, IInv, RunOK, Written
<1>1. PICK manifest : files' = WrittenOver(OneFile(path, manifest), files) BY DEF WriteManifest
<1>2. /\ path[1] = RunDir(run.id) /\ SealOf(RunDir(run.id)) = path /\ RunDir(run.id)[1] = "run"
  BY Paths, Seals, Directories
<1> HIDE DEF path
<1>3. DOMAIN files' = DOMAIN files \cup {path} /\ \A p \in DOMAIN files \ {path} : files'[p] = files[p]
  <2> DEFINE new == OneFile(path, manifest)
  <2>1. DOMAIN new = {path} BY FileShape
  <2>2. files' = WrittenOver(new, files) BY <1>1
  <2> HIDE DEF new
  <2> QED BY <2>1, <2>2 DEF WrittenOver
<1>4. TreeOK' /\ TreeKept
  <2>1. \A p \in {path} :
          p[1] \in dirs' /\ (p[2] \in Logs \/ (p \notin DOMAIN files /\ ~Written(SealOf(p[1]))))
    BY <1>0, <1>2 DEF Written
  <2>2. dirs \subseteq dirs' /\ (\A d \in dirs' \ dirs : d[1] \in Kinds) /\ TreeOK BY <1>0
  <2> QED BY <1>3, <2>1, <2>2, NewFilesKeep
<1>5. RunOK' BY <1>0 DEF RunOK, LiveRun
<1>6. pc' \in Phases \ {"command", "review", "external", "next stock", "stock result"} BY <1>0 DEF Phases
<1>7. todo = <<>> BY <1>0, IdlePlan
<1>8. path[1][1] # "batch" BY <1>2
<1> QED BY <1>0, <1>3, <1>4, <1>5, <1>6, <1>7, <1>8, CommandKeeps

\* The list of planned files is a sequence.
LEMMA EvaluateKeeps == ASSUME IInv, Evaluate PROVE IInv' /\ TreeKept
<1> DEFINE id == run.id
           evaluation == IF InBatch THEN batch.id ELSE Command.evaluation
           dir == EvaluationDir(id, evaluation)
<1>0. /\ pc = "evaluate" /\ UNCHANGED <<commands, turn, batch, files, run>> /\ DOMAIN run = DOMAIN NoRun /\ TreeOK
  BY DEF Evaluate, Inputs, Locals, History, IInv, RunOK
<1>1. CASE ~Written(RunManifest(id)) \/ dir \in dirs
  <2>1. pc' = "raised" /\ UNCHANGED <<dirs, todo>> BY <1>1 DEF Evaluate, Raise
  <2>2. TreeOK' /\ TreeKept BY <1>0, <2>1, SameFilesKeep
  <2> QED BY <1>0, <2>1, <2>2, RaiseKeeps
<1>2. CASE ~(~Written(RunManifest(id)) \/ dir \in dirs)
  <2>1. PICK a, b, c, d :
          LET all == <<File(<<dir, "factor-forward-observations.jsonl">>, a),
                       File(<<dir, "factor-evaluation-summary.json">>, b),
                       File(<<dir, "factor-evaluation-report.md">>, c),
                       File(<<<<"evaluations", id>>, "latest.json">>, d)>>
          IN dirs' = dirs \cup {dir} /\ (todo' = Tail(all) \/ todo' = all) /\ pc' = "write"
    BY <1>2 DEF Evaluate
  <2> DEFINE first == File(<<dir, "factor-forward-observations.jsonl">>, a)
             second == File(<<dir, "factor-evaluation-summary.json">>, b)
             third == File(<<dir, "factor-evaluation-report.md">>, c)
             last == File(<<<<"evaluations", id>>, "latest.json">>, d)
             S == {first, second, third, last}
  <2>2. todo' = <<second, third, last>> \/ todo' = <<first, second, third, last>> BY <2>1
  <2>3. dir[1] = "evaluation" /\ SealOf(dir) = <<dir, "factor-evaluation-report.md">> BY StockDirectories, Seals
  <2>4. /\ first.path[1] = dir /\ second.path[1] = dir /\ third.path[1] = dir /\ third.path = SealOf(dir)
        /\ last.path[2] = "latest.json" /\ last.path[1][1] = "evaluations"
        /\ first.path[2] = "factor-forward-observations.jsonl" /\ second.path[2] = "factor-evaluation-summary.json"
        /\ third.path[2] = "factor-evaluation-report.md"
    BY <2>3 DEF File
  <2>5. dir \notin dirs /\ dir[1] \in Kinds /\ "evaluations" \notin Kinds BY <1>2, <2>3 DEF Kinds
  <2> HIDE DEF first, second, third, last, dir
  <2>6. \A p \in DOMAIN files : p[1] # dir BY <1>0, <2>5, NoFilesYet
  <2>7. todo' \in Seq(S)
    <3>1. <<second, third, last>> \in Seq(S) OBVIOUS
    <3>2. <<first, second, third, last>> \in Seq(S) OBVIOUS
    <3> QED BY <2>2, <3>1, <3>2
  <2>8. todo' \in Seq(ToSet(todo')) BY <2>7, OwnElements
  <2>9. ASSUME NEW i \in DOMAIN todo'
        PROVE  \/ todo'[i].path[2] = "latest.json" /\ todo'[i].path[1][1] \notin Kinds
               \/ /\ todo'[i].path[1] = dir /\ todo'[i].path \notin DOMAIN files
                  /\ \A j \in DOMAIN todo' : j < i => todo'[j].path # todo'[i].path /\ todo'[j].path # SealOf(dir)
    <3>1. CASE todo' = <<second, third, last>>
      <4>1. DOMAIN todo' = 1..3 /\ todo'[1] = second /\ todo'[2] = third /\ todo'[3] = last BY <3>1
      <4> QED BY <2>4, <2>5, <2>6, <4>1
    <3>2. CASE todo' = <<first, second, third, last>>
      <4>1. DOMAIN todo' = 1..4 /\ todo'[1] = first /\ todo'[2] = second /\ todo'[3] = third /\ todo'[4] = last BY <3>2
      <4> QED BY <2>4, <2>5, <2>6, <4>1
    <3> QED BY <2>2, <3>1, <3>2
  <2>10. ~Written(SealOf(dir)) BY <2>3, <2>4, <2>6 DEF Written
  <2>11. InBatch /\ MoreStocks => dir # BatchDir(batch.id)
    <3>1. BatchDir(batch.id)[1] = "batch" BY Directories
    <3> QED BY <2>3, <3>1
  <2>12. dir \in dirs' /\ dirs \subseteq dirs' /\ \A e \in dirs' \ dirs : e[1] \in Kinds \ {"review"}
    BY <2>1, <2>3, <2>5
  <2> QED BY <1>0, <2>1, <2>8, <2>9, <2>10, <2>11, <2>12, PlanKeeps
<1> QED BY <1>1, <1>2

\* The summary of a batch and its report, which seals it.
LEMMA SummaryKeeps ==
  ASSUME IInv, NEW summary, todo' = SummaryFiles(summary), pc' = "write", UNCHANGED <<commands, turn, batch, files>>,
         dirs' = dirs \cup {BatchDir(summary.id)}, DOMAIN run' = DOMAIN NoRun,
         ~Written(Summary(summary.id)), ~Written(Report(summary.id)),
         InBatch /\ MoreStocks => BatchDir(summary.id) # BatchDir(batch.id)
  PROVE  IInv' /\ TreeKept
<1> DEFINE dir == BatchDir(summary.id)
           first == File(Summary(summary.id), summary)
           second == File(Report(summary.id), AggregateReport(summary))
           S == {first, second}
<1>1. todo' = <<first, second>> BY DEF SummaryFiles
<1>2. dir[1] = "batch" /\ SealOf(dir) = Report(summary.id) BY Directories, Seals
<1>3. /\ first.path[1] = dir /\ second.path[1] = dir /\ second.path = SealOf(dir)
      /\ first.path[2] = "factor-batch-summary.json" /\ second.path[2] = "aggregate-factor-report.md"
      /\ first.path = Summary(summary.id)
  BY <1>2, Paths DEF File
<1>4. first.path \notin DOMAIN files /\ second.path \notin DOMAIN files BY <1>2, <1>3 DEF Written
<1> HIDE DEF first, second
<1>5. todo' \in Seq(S) BY <1>1
<1>6. todo' \in Seq(ToSet(todo')) BY <1>5, OwnElements
<1>7. DOMAIN todo' = 1..2 /\ todo'[1] = first /\ todo'[2] = second BY <1>1
<1> HIDE DEF dir
<1>8. ASSUME NEW i \in DOMAIN todo'
      PROVE  /\ todo'[i].path[1] = dir /\ todo'[i].path \notin DOMAIN files
             /\ \A j \in DOMAIN todo' : j < i => todo'[j].path # todo'[i].path /\ todo'[j].path # SealOf(dir)
  BY <1>3, <1>4, <1>7
<1>9. ~Written(SealOf(dir)) BY <1>3, <1>4 DEF Written
<1>10. dir \in dirs' /\ dirs \subseteq dirs' /\ \A e \in dirs' \ dirs : e[1] \in Kinds \ {"review"}
  BY <1>2 DEF Kinds, dir
<1>11. InBatch /\ MoreStocks => dir # BatchDir(batch.id) BY DEF dir
<1> QED BY <1>6, <1>8, <1>9, <1>10, <1>11, PlanKeeps

LEMMA StartBatchKeeps == ASSUME IInv, StartBatch PROVE IInv' /\ TreeKept
<1> DEFINE id == Command.id
           dir == BatchDir(id)
           path == BatchConfig(id)
<1>0. pc = "batch" /\ UNCHANGED <<commands, turn, todo, run>> /\ TreeOK /\ DOMAIN run = DOMAIN NoRun
  BY DEF StartBatch, Inputs, History, IInv, RunOK
<1>1. CASE Command.stocks = <<>> \/ dir \in dirs
  <2>1. pc' = "raised" /\ UNCHANGED <<files, dirs, batch>> BY <1>1 DEF StartBatch, Raise, Tree
  <2>2. TreeOK' /\ TreeKept BY <1>0, <2>1, SameFilesKeep
  <2> QED BY <1>0, <2>1, <2>2, RaiseKeeps
<1>2. CASE ~(Command.stocks = <<>> \/ dir \in dirs)
  <2>1. /\ dirs' = dirs \cup {dir} /\ files' = WrittenOver(OneFile(path, Command.stocks), files)
        /\ batch' = [id |-> id, stocks |-> Command.stocks, item |-> 1, results |-> <<>>] /\ pc' = "next stock"
    BY <1>2 DEF StartBatch
  <2>2. DOMAIN files' = DOMAIN files \cup {path} /\ \A p \in DOMAIN files \ {path} : files'[p] = files[p]
    <3> DEFINE new == OneFile(path, Command.stocks)
    <3>1. DOMAIN new = {path} /\ files' = WrittenOver(new, files) BY <2>1, FileShape
    <3> HIDE DEF new, path
    <3> QED BY <3>1 DEF WrittenOver
  <2>3. dir[1] = "batch" /\ dir \notin dirs BY <1>2, Directories
  <2>4. /\ path[1] = dir /\ path[2] = "factor-batch-config.json" /\ SealOf(dir) = Report(id)
        /\ Summary(id)[1] = dir /\ Summary(id)[2] = "factor-batch-summary.json"
        /\ Report(id)[1] = dir /\ Report(id)[2] = "aggregate-factor-report.md"
    BY Paths, Seals
  <2>5. \A p \in DOMAIN files : p[1] # dir
    <3> HIDE DEF dir
    <3> QED BY <1>0, <2>3, NoFilesYet DEF Kinds
  <2>6. Summary(id) \notin DOMAIN files' /\ Report(id) \notin DOMAIN files' BY <2>2, <2>4, <2>5
  <2>7. batch'.id = id /\ DOMAIN batch' = {"id", "stocks", "item", "results"} BY <2>1
  <2> HIDE DEF path, dir
  <2>8. TreeOK' /\ TreeKept
    <3>1. \A p \in {path} : p[1] \in dirs' /\ p \notin DOMAIN files /\ ~Written(SealOf(p[1]))
      BY <2>1, <2>4, <2>5 DEF Written
    <3>2. dirs \subseteq dirs' /\ \A d \in dirs' \ dirs : d[1] \in Kinds BY <2>1, <2>3 DEF Kinds
    <3> QED BY <1>0, <2>2, <3>1, <3>2, NewFilesKeep
  <2>9. todo = <<>> BY <1>0, IdlePlan
  <2> USE DEF IInv
  <2>10. InputOK' /\ TodoOK' BY <1>0, <2>9, EmptyPlan DEF InputOK
  <2>11. RunOK' BY <1>0, <2>1 DEF RunOK, LiveRun
  <2>12. BatchOK'
    <3>1. \A i \in DOMAIN todo' : FALSE BY <1>0, <2>9
    <3>2. /\ Summary(batch'.id) \notin DOMAIN files' /\ Report(batch'.id) \notin DOMAIN files'
          /\ BatchDir(batch'.id) \in dirs'
      BY <2>1, <2>6, <2>7 DEF dir
    <3> QED BY <2>1, <2>7, <3>1, <3>2 DEF BatchOK, Written
  <2>13. ReviewOK' BY <1>0, <2>1, <2>3 DEF ReviewOK
  <2> QED BY <2>1, <2>8, <2>10, <2>11, <2>12, <2>13 DEF Phases
<1> QED BY <1>1, <1>2

LEMMA NextStockKeeps == ASSUME IInv, NextStock PROVE IInv' /\ TreeKept
<1>0. pc = "next stock" /\ UNCHANGED <<commands, turn, files, dirs, batch>> /\ TreeOK BY DEF NextStock, Inputs, Tree, IInv
<1>1. CASE MoreStocks
  <2>1. pc' = "run" /\ todo' = todo /\ DOMAIN run' = DOMAIN NoRun BY <1>1 DEF NextStock, NewRun
  <2>2. TreeOK' /\ TreeKept BY <1>0, SameFilesKeep
  <2>3. RunOK' BY <2>1 DEF RunOK, LiveRun
  <2>4. todo = <<>> BY <1>0, IdlePlan
  <2> QED BY <1>0, <2>1, <2>2, <2>3, <2>4, CommandKeeps DEF Phases
<1>2. CASE ~MoreStocks
  <2>1. PICK summary : summary.id = batch.id /\ todo' = SummaryFiles(summary) /\ pc' = "write" /\ run' = NoRun
    <3> DEFINE summary == BatchSummary(batch.id, batch.results, clock + 1)
    <3>1. summary.id = batch.id BY DEF BatchSummary
    <3> QED BY <1>2, <3>1 DEF NextStock
  <2>2. ~Written(Summary(batch.id)) /\ ~Written(Report(batch.id)) /\ BatchDir(batch.id) \in dirs
    BY <1>0 DEF IInv, BatchOK
  <2> QED BY <1>0, <1>2, <2>1, <2>2, SummaryKeeps
<1> QED BY <1>1, <1>2

\* A stock's result goes to a log, and the batch to its next stock.
LEMMA ResultKeeps ==
  ASSUME IInv, NEW result, AddResult(result), MoreStocks, pc \in {"stock result", "raised"},
         UNCHANGED <<commands, turn, dirs, todo, run>>
  PROVE  IInv' /\ TreeKept
<1> DEFINE path == StockLog(batch.id)
<1> USE DEF IInv
<1>1. PICK log : files' = WrittenOver(OneFile(path, log), files) BY DEF AddResult
<1>2. DOMAIN files' = DOMAIN files \cup {path} /\ \A p \in DOMAIN files \ {path} : files'[p] = files[p]
  <2> DEFINE new == OneFile(path, log)
  <2>1. DOMAIN new = {path} /\ files' = WrittenOver(new, files) BY <1>1, FileShape
  <2> HIDE DEF new, path
  <2> QED BY <2>1 DEF WrittenOver
<1>3. /\ BatchDir(batch.id) \in dirs /\ DOMAIN batch = {"id", "stocks", "item", "results"}
      /\ ~Written(Summary(batch.id)) /\ ~Written(Report(batch.id))
  BY DEF BatchOK, MoreStocks
<1>4. /\ path[1] = BatchDir(batch.id) /\ path[2] = "stock-results.jsonl"
      /\ Summary(batch.id)[2] = "factor-batch-summary.json" /\ Report(batch.id)[2] = "aggregate-factor-report.md"
  BY Paths
<1>5. batch'.id = batch.id /\ DOMAIN batch' = {"id", "stocks", "item", "results"} /\ pc' = "next stock"
  BY <1>3 DEF AddResult
<1> HIDE DEF path
<1>6. TreeOK' /\ TreeKept
  <2>1. \A p \in {path} :
          p[1] \in dirs' /\ (p[2] \in Logs \/ (p \notin DOMAIN files /\ ~Written(SealOf(p[1]))))
    BY <1>3, <1>4 DEF Logs
  <2>2. dirs \subseteq dirs' /\ (\A d \in dirs' \ dirs : d[1] \in Kinds) /\ TreeOK OBVIOUS
  <2> QED BY <1>2, <2>1, <2>2, NewFilesKeep
<1>7. todo = <<>> /\ todo' = <<>> BY IdlePlan
<1>8. InputOK' /\ TodoOK' BY <1>7, EmptyPlan DEF InputOK
<1>9. RunOK' BY <1>5 DEF RunOK, LiveRun
<1>10. BatchOK'
  <2>1. \A i \in DOMAIN todo' : FALSE BY <1>7, NothingPlanned
  <2>2. /\ Summary(batch'.id) \notin DOMAIN files' /\ Report(batch'.id) \notin DOMAIN files'
        /\ BatchDir(batch'.id) \in dirs'
    BY <1>2, <1>3, <1>4, <1>5 DEF Written
  <2> QED BY <1>5, <2>1, <2>2 DEF BatchOK, Written
<1>11. ReviewOK' BY <1>5 DEF ReviewOK
<1> QED BY <1>5, <1>6, <1>8, <1>9, <1>10, <1>11 DEF Phases

LEMMA StockCompletedKeeps == ASSUME IInv, StockCompleted PROVE IInv' /\ TreeKept
<1>1. /\ pc = "stock result" /\ MoreStocks /\ UNCHANGED <<commands, turn, dirs, todo, run>>
      /\ \E result : AddResult(result)
  BY DEF StockCompleted, Inputs, History, IInv, BatchOK
<1> QED BY <1>1, ResultKeeps

LEMMA HandleErrorKeeps == ASSUME IInv, HandleError PROVE IInv' /\ TreeKept
<1>1. pc = "raised" /\ UNCHANGED <<commands, dirs>> BY DEF HandleError, Inputs
<1>2. CASE MoreStocks /\ error \in {"SystemExit", "unavailable"}
  <2>1. UNCHANGED <<turn, todo, run>> /\ \E result : AddResult(result) BY <1>2 DEF HandleError
  <2> QED BY <1>1, <1>2, <2>1, ResultKeeps
<1>3. CASE ~(MoreStocks /\ error \in {"SystemExit", "unavailable"})
  <2>1. EndProcess(error) /\ UNCHANGED files BY <1>3 DEF HandleError
  <2> QED BY <1>1, <2>1, EndKeeps
<1> QED BY <1>2, <1>3

LEMMA AggregateKeeps == ASSUME IInv, Aggregate PROVE IInv' /\ TreeKept
<1> DEFINE dir == BatchDir(Command.id)
<1>0. /\ pc = "aggregate" /\ UNCHANGED <<commands, turn, batch, files, run>> /\ DOMAIN run = DOMAIN NoRun
      /\ TreeOK /\ BatchOK
  BY DEF Aggregate, Inputs, Locals, IInv, RunOK
<1>1. dir[1] = "batch" BY Directories
<1>2. CASE pc' = "raised" /\ dirs' \in {dirs, dirs \cup {dir}} /\ todo' = todo
  <2>1. TreeOK' /\ TreeKept BY <1>0, <1>1, <1>2, SameFilesKeep DEF Kinds
  <2>2. \A d \in dirs' \ dirs : d[1] # "review" BY <1>1, <1>2
  <2> QED BY <1>0, <1>2, <2>1, <2>2, RaiseKeeps
<1>3. CASE dir \notin dirs /\ dirs' = dirs \cup {dir} /\ pc' = "write"
           /\ \E results : todo' = SummaryFiles(BatchSummary(Command.id, results, clock + 1))
  <2>1. PICK summary : summary.id = Command.id /\ todo' = SummaryFiles(summary)
    <3>1. PICK results : todo' = SummaryFiles(BatchSummary(Command.id, results, clock + 1)) BY <1>3
    <3>2. BatchSummary(Command.id, results, clock + 1).id = Command.id BY DEF BatchSummary
    <3> QED BY <3>1, <3>2
  <2>2. \A p \in DOMAIN files : p[1] # dir
    <3>1. dir \notin dirs /\ dir[1] \in Kinds BY <1>1, <1>3 DEF Kinds
    <3> HIDE DEF dir
    <3> QED BY <1>0, <3>1, NoFilesYet
  <2>3. Summary(Command.id)[1] = dir /\ Report(Command.id)[1] = dir BY Paths
  <2>4. ~Written(Summary(Command.id)) /\ ~Written(Report(Command.id)) BY <2>2, <2>3 DEF Written
  <2>5. InBatch => dir # BatchDir(batch.id) BY <1>0, <1>3 DEF BatchOK
  <2> QED BY <1>0, <1>3, <2>1, <2>4, <2>5, SummaryKeeps
<1> QED BY <1>2, <1>3 DEF Aggregate, Raise

\* A review makes a directory of its own, also where it then finds files missing.
LEMMA StartReviewKeeps == ASSUME IInv, StartReview PROVE IInv' /\ TreeKept
<1>0. /\ pc = "review" /\ UNCHANGED <<commands, turn, batch, files, run, todo>> /\ DOMAIN run = DOMAIN NoRun
      /\ TreeOK /\ ReviewOK
  BY DEF StartReview, Inputs, History, IInv, RunOK
<1>1. CASE pc' = "raised" /\ dirs' = dirs
  <2>1. TreeOK' /\ TreeKept BY <1>0, <1>1, SameFilesKeep
  <2> QED BY <1>0, <1>1, <2>1, RaiseKeeps
<1>2. ASSUME NEW of, dirs' = dirs \cup {ReviewDir(of)},
             pc' = "raised" \/ (pc' = "external" /\ review'.dir = of)
      PROVE  IInv' /\ TreeKept
  <2> DEFINE dir == ReviewDir(of)
  <2>1. dir[1] = "review" /\ dir[3] = turn BY Directories
  <2>2. dir \notin dirs /\ turn \in Nat \ {0} BY <1>0, <2>1 DEF ReviewOK
  <2>3. \A p \in DOMAIN files : p[1] # dir
    <3> HIDE DEF dir
    <3> QED BY <1>0, <2>1, <2>2, NoFilesYet DEF Kinds
  <2>4. TreeOK' /\ TreeKept BY <1>0, <1>2, <2>1, SameFilesKeep DEF Kinds
  <2> USE DEF IInv
  <2>5. todo = <<>> BY <1>0, IdlePlan
  <2>6. InputOK' /\ TodoOK' BY <1>0, <2>5, EmptyPlan DEF InputOK
  <2>7. RunOK' BY <1>0, <1>2 DEF RunOK, LiveRun
  <2>8. BatchOK' BY <1>0, <1>2, <2>5 DEF BatchOK, InBatch, MoreStocks, Written
  <2>9. ReviewOK'
    <3>1. ASSUME NEW d \in dirs', d[1] = "review" PROVE d[3] \in Nat /\ d[3] <= turn
      BY <1>0, <1>2, <2>1, <2>2, <3>1 DEF ReviewOK
    <3>2. pc' = "external" => dir \in dirs' /\ (ReviewDir(review.dir))' = dir BY <1>0, <1>2 DEF ReviewDir
    <3> QED BY <1>0, <1>2, <2>2, <2>3, <3>1, <3>2 DEF ReviewOK
  <2> QED BY <1>2, <2>4, <2>6, <2>7, <2>8, <2>9 DEF Phases
<1>3. \/ pc' = "raised" /\ dirs' = dirs
      \/ \E of : dirs' = dirs \cup {ReviewDir(of)} /\ (pc' = "raised" \/ (pc' = "external" /\ review'.dir = of))
  <2> DEFINE of == IF Command.id = None THEN Latest ELSE <<Kind, Command.id>>
  <2>1. CASE of \notin dirs BY <2>1 DEF StartReview, Raise
  <2>2. CASE of \in dirs
    <3>1. /\ dirs' = dirs \cup {ReviewDir(of)}
          /\ IF Collectable(of)
             THEN review' = [dir |-> of, findings |-> DeterministicFindings(of)] /\ pc' = "external"
             ELSE pc' = "raised"
      BY <2>2 DEF StartReview, Raise
    <3> HIDE DEF of
    <3> QED BY <3>1
  <2> QED BY <2>1, <2>2
<1> QED BY <1>1, <1>2, <1>3

LEMMA AskReviewerKeeps == ASSUME IInv, AskExternalReviewer PROVE IInv' /\ TreeKept
<1> DEFINE dir == ReviewDir(review.dir)
<1>0. /\ pc = "external" /\ pc' = "write" /\ UNCHANGED <<commands, turn, batch, files, dirs, run>>
      /\ DOMAIN run = DOMAIN NoRun /\ dir \in dirs /\ \A p \in DOMAIN files : p[1] # dir
  BY DEF AskExternalReviewer, Inputs, Tree, Locals, History, IInv, RunOK, ReviewOK
<1>1. PICK a, b, state :
        todo' = <<File(<<dir, "findings.json">>, a), File(<<dir, "artifact-review-report.md">>, a),
                  File(<<dir, "fix-plan-draft.md">>, a), File(<<dir, "review-config.json">>, b),
                  File(<<dir, "review-state.json">>, state), File(<<<<"reviews", review.dir>>, "latest.json">>, dir)>>
  BY DEF AskExternalReviewer
<1> DEFINE f1 == File(<<dir, "findings.json">>, a)
           f2 == File(<<dir, "artifact-review-report.md">>, a)
           f3 == File(<<dir, "fix-plan-draft.md">>, a)
           f4 == File(<<dir, "review-config.json">>, b)
           f5 == File(<<dir, "review-state.json">>, state)
           f6 == File(<<<<"reviews", review.dir>>, "latest.json">>, dir)
           S == {f1, f2, f3, f4, f5, f6}
<1>2. todo' = <<f1, f2, f3, f4, f5, f6>> BY <1>1
<1>3. dir[1] = "review" /\ SealOf(dir) = <<dir, "review-state.json">> /\ "reviews" \notin Kinds
  BY Directories, Seals DEF Kinds
<1>4. /\ f1.path[1] = dir /\ f2.path[1] = dir /\ f3.path[1] = dir /\ f4.path[1] = dir /\ f5.path[1] = dir
      /\ f1.path[2] = "findings.json" /\ f2.path[2] = "artifact-review-report.md" /\ f3.path[2] = "fix-plan-draft.md"
      /\ f4.path[2] = "review-config.json" /\ f5.path[2] = "review-state.json" /\ f5.path = SealOf(dir)
      /\ f6.path[2] = "latest.json" /\ f6.path[1][1] = "reviews"
  BY <1>3 DEF File
<1> HIDE DEF f1, f2, f3, f4, f5, f6, dir
<1>5. todo' \in Seq(S) BY <1>2
<1>6. todo' \in Seq(ToSet(todo')) BY <1>5, OwnElements
<1>7. /\ DOMAIN todo' = 1..6 /\ todo'[1] = f1 /\ todo'[2] = f2 /\ todo'[3] = f3 /\ todo'[4] = f4 /\ todo'[5] = f5
      /\ todo'[6] = f6
  BY <1>2
<1>8. ASSUME NEW i \in DOMAIN todo'
      PROVE  \/ todo'[i].path[2] = "latest.json" /\ todo'[i].path[1][1] \notin Kinds
             \/ /\ todo'[i].path[1] = dir /\ todo'[i].path \notin DOMAIN files
                /\ \A j \in DOMAIN todo' : j < i => todo'[j].path # todo'[i].path /\ todo'[j].path # SealOf(dir)
  BY <1>0, <1>3, <1>4, <1>7
<1>9. ~Written(SealOf(dir)) BY <1>0, <1>4 DEF Written
<1>10. dir # BatchDir(batch.id)
  <2>1. BatchDir(batch.id)[1] = "batch" BY Directories
  <2> QED BY <1>3, <2>1
<1>11. dir \in dirs' /\ dirs \subseteq dirs' /\ \A e \in dirs' \ dirs : e[1] \in Kinds \ {"review"} BY <1>0
<1> QED BY <1>0, <1>6, <1>8, <1>9, <1>10, <1>11, PlanKeeps

-----------------------------------------------------------------------------
(* The tree of the factor scripts *)

LEMMA InitIInv == Init => IInv
<1> SUFFICES ASSUME Init PROVE IInv OBVIOUS
<1>1. PICK case \in Cases : commands = case.commands BY DEF Init
<1>2. InputOK
  <2>1. commands \in Seq(ToSet(commands)) BY <1>1, PipelineAssumption DEF PipelineAssumption
  <2> SUFFICES ASSUME NEW i \in DOMAIN commands
               PROVE /\ commands[i].do \in {"run", "evaluate", "batch", "aggregate", "review"}
                     /\ commands[i].do # "review" => commands[i].id \in Nat
                     /\ commands[i].do \in {"run", "batch"} => commands[i].stocks \in Seq(Nat) /\ IsSeq(commands[i].stocks)
                     /\ commands[i].do = "aggregate" => commands[i].from \in Seq(Nat) /\ IsSeq(commands[i].from)
    BY <2>1 DEF InputOK
  <2> DEFINE command == commands[i]
  <2>2. /\ command.do \in {"run", "evaluate", "batch", "aggregate", "review"}
        /\ command.do # "review" => command.id \in Nat
        /\ command.do \in {"run", "batch"} => command.stocks \in Seq(Nat)
        /\ command.do = "aggregate" => command.from \in Seq(Nat)
    BY <1>1, PipelineAssumption DEF PipelineAssumption
  <2> HIDE DEF command
  <2>3. command.do \in {"run", "batch"} => IsSeq(command.stocks) BY <2>2, OwnElements DEF IsSeq
  <2>4. command.do = "aggregate" => IsSeq(command.from) BY <2>2, OwnElements DEF IsSeq
  <2> QED BY <2>2, <2>3, <2>4 DEF command
<1>3. DOMAIN files = {} /\ dirs = {} /\ todo = <<>> /\ pc = "command" /\ turn = 1 /\ run = NoRun /\ batch = NoBatch
  BY DEF Init
<1>4. TodoOK
  <2>1. todo \in Seq(ToSet(todo)) BY <1>3, OwnElements
  <2> QED BY <1>3, <2>1 DEF TodoOK
<1>5. TreeOK /\ RunOK /\ BatchOK /\ ReviewOK
  BY <1>3 DEF TreeOK, RunOK, BatchOK, InBatch, MoreStocks, ReviewOK, LiveRun
<1> QED BY <1>2, <1>3, <1>4, <1>5 DEF IInv, Phases

LEMMA StepKeeps == ASSUME IInv, [Next]_vars PROVE IInv' /\ TreeKept
<1>1. CASE UNCHANGED vars
  <2> USE <1>1 DEF vars, IInv
  <2>1. UNCHANGED <<commands, turn, pc, files, dirs, todo, run, batch, review>> OBVIOUS
  <2>2. InputOK' /\ TodoOK' /\ TreeOK' BY <2>1 DEF InputOK, TodoOK, TreeOK, Written
  <2>3. RunOK' BY <2>1 DEF RunOK, Written, Stock
  <2>4. BatchOK' BY <2>1 DEF BatchOK, InBatch, MoreStocks, Written
  <2>5. ReviewOK' BY <2>1 DEF ReviewOK, ReviewDir
  <2>6. TreeKept BY <2>1 DEF TreeKept
  <2> QED BY <2>1, <2>2, <2>3, <2>4, <2>5, <2>6
<1>2. CASE Step
  BY <1>2, BeginKeeps, EndStepKeeps, WriteFileKeeps, StartRunKeeps, CallKeeps, StartStockKeeps, LiveStockKeeps,
     DryRunStockKeeps, RestoreKeeps, FlushKeeps, ManifestKeeps, EvaluateKeeps, StartBatchKeeps, NextStockKeeps,
     StockCompletedKeeps, HandleErrorKeeps, AggregateKeeps, StartReviewKeeps, AskReviewerKeeps DEF Step
<1> QED BY <1>1, <1>2, CrashKeeps DEF Next, Done

LEMMA Invariant == Spec => []IInv
BY InitIInv, StepKeeps, PTL DEF Spec

\* The file that seals a directory is the one Sealed asks for.
LEMMA SealedMeans == ASSUME NEW d, d[1] \in Kinds PROVE Sealed(d) <=> Written(SealOf(d))
<1>1. CASE d[1] \in {"run", "stock"} BY <1>1 DEF Sealed, SealOf, Finished
<1>2. CASE d[1] = "evaluation" BY <1>2 DEF Sealed, SealOf
<1>3. CASE d[1] = "batch" BY <1>3 DEF Sealed, SealOf
<1>4. CASE d[1] = "review" BY <1>4 DEF Sealed, SealOf
<1> QED BY <1>1, <1>2, <1>3, <1>4 DEF Kinds

\* A step of the scripts is a step of the abstract directories.
LEMMA StepArtifacts ==
  ASSUME IInv, IInv', TreeKept
  PROVE  A!Next
<1> DEFINE content == [path \in {p \in DOMAIN files : p[1] \in dirs /\ p[2] \notin Logs} |-> files[path]]
           sealed == {dir \in dirs : Sealed(dir)}
<1>1. /\ DOMAIN content = {p \in DOMAIN files : p[1] \in dirs /\ p[2] \notin Logs}
      /\ DOMAIN content' = {p \in DOMAIN files' : p[1] \in dirs' /\ p[2] \notin Logs}
      /\ \A p \in DOMAIN content : content[p] = files[p]
      /\ \A p \in DOMAIN content' : content'[p] = files'[p]
  OBVIOUS
<1>2. sealed = {d \in dirs : SealOf(d) \in DOMAIN files}
  BY SealedMeans DEF IInv, TreeOK, Written
<1>3. sealed' = {d \in dirs' : SealOf(d) \in DOMAIN files'}
  <2>1. \A d \in dirs' : Sealed(d)' <=> SealOf(d) \in DOMAIN files'
    <3> SUFFICES ASSUME NEW d \in dirs' PROVE Sealed(d)' <=> SealOf(d) \in DOMAIN files' OBVIOUS
    <3>0. d[1] \in Kinds BY DEF IInv, TreeOK
    <3>1. CASE d[1] \in {"run", "stock"} BY <3>1 DEF Sealed, SealOf, Finished, Written
    <3>2. CASE d[1] = "evaluation" BY <3>2 DEF Sealed, SealOf, Written
    <3>3. CASE d[1] = "batch" BY <3>3 DEF Sealed, SealOf, Written
    <3>4. CASE d[1] = "review" BY <3>4 DEF Sealed, SealOf, Written
    <3> QED BY <3>0, <3>1, <3>2, <3>3, <3>4 DEF Kinds
  <2> QED BY <2>1
<1> HIDE DEF content, sealed
<1>4. \A p \in DOMAIN content : p \in DOMAIN content' /\ content'[p] = content[p] BY <1>1 DEF TreeKept
<1>5. \A p \in DOMAIN content' \ DOMAIN content : p[1] \in dirs' \ sealed BY <1>1, <1>2 DEF TreeKept, Written
<1>6. sealed \subseteq sealed' /\ sealed' \subseteq dirs' BY <1>2, <1>3 DEF TreeKept
<1>7. dirs \subseteq dirs' BY DEF TreeKept
<1> QED BY <1>4, <1>5, <1>6, <1>7 DEF A!Next, A!Write, A!Seal, content, sealed

\* No file of a run, stock, evaluation, batch or review is changed or lost, and none is added to
\* a directory that has its manifest or report, whatever ids are given again and wherever calls
\* fail and processes end: the scripts implement the directories of Artifacts.
THEOREM PipelineImplementsArtifacts == Spec => ImplementsArtifacts
<1>1. Init => A!Init
  BY DEF Init, A!Init
<1>2. IInv /\ IInv' /\ [Next]_vars => A!Next
  BY StepKeeps, StepArtifacts
<1> QED BY <1>1, <1>2, Invariant, PTL DEF Spec, ImplementsArtifacts, A!Spec

-----------------------------------------------------------------------------
(* What a run accounts for *)

RunPhases == LiveRun \cup {"dry stock", "flush", "manifest"}

\* The five files of a stock.
StockNames == {"daily-chip-snapshots.jsonl", "factors.jsonl", "factor-quality.json", "factor-traceability.json",
               "factor-retention-policy.json"}

\* All files of a stock are there, and are what its output took the checksums of.
OutputIn(tree, made, id, o) ==
  /\ StockDir(id, o.stock) \in made
  /\ DOMAIN o.checksums = StockNames
  /\ \A n \in StockNames :
       <<StockDir(id, o.stock), n>> \in DOMAIN tree /\ tree[<<StockDir(id, o.stock), n>>] = o.checksums[n]

\* The manifest of a run has an output for each stock of its config.
ManifestIn(tree, made, id) ==
  LET outputs == tree[RunManifest(id)].outputs
      stocks == tree[RunConfig(id)].stocks
  IN /\ RunConfig(id) \in DOMAIN tree /\ IsSeq(stocks) /\ IsSeq(outputs) /\ Len(outputs) = Len(stocks)
     /\ \A i \in DOMAIN outputs : outputs[i].stock = stocks[i] /\ OutputIn(tree, made, id, outputs[i])

\* A run has an output for each stock before the one it is at, and goes on to its manifest only
\* after the last.
RunProgress ==
  /\ pc \in RunPhases \cup {"run"} => IsSeq(run.stocks) /\ run.item \in Nat \ {0} /\ IsSeq(run.outputs)
  /\ pc = "run" => run.item = 1 /\ run.outputs = <<>>
  /\ pc \in RunPhases =>
       /\ Written(RunConfig(run.id)) /\ files[RunConfig(run.id)].stocks = run.stocks
       /\ Len(run.outputs) = run.item - 1 /\ run.item <= Len(run.stocks) + 1
       /\ \A i \in DOMAIN run.outputs :
            run.outputs[i].stock = run.stocks[i] /\ OutputIn(files, dirs, run.id, run.outputs[i])
  /\ pc \in {"stock", "cyq_chips", "daily", "factors", "dry stock"} => ToSet(run.outputDays) # {}
  /\ pc \in {"cyq_chips", "daily", "factors"} => run.item <= Len(run.stocks)
  /\ pc = "manifest" \/ (pc \in {"finally", "flush"} /\ error = None) => run.item > Len(run.stocks)

ManifestsOK == \A id \in Runs : Finished(id) => ManifestIn(files, dirs, id)

\* Only a run writes its config and manifest, and only a batch its config and log.
PlanNames == {"factor-forward-observations.jsonl", "factor-evaluation-summary.json", "factor-evaluation-report.md",
              "latest.json", "factor-batch-summary.json", "aggregate-factor-report.md", "findings.json",
              "artifact-review-report.md", "fix-plan-draft.md", "review-config.json", "review-state.json"}
PlanOK == \A i \in DOMAIN todo : todo[i].path[2] \in PlanNames

RunInv == RunProgress /\ ManifestsOK /\ PlanOK

LEMMA AppendOwn ==
  ASSUME NEW s, IsSeq(s), NEW x
  PROVE  /\ IsSeq(Append(s, x)) /\ Len(Append(s, x)) = Len(s) + 1 /\ Len(s) \in Nat
         /\ DOMAIN s = 1..Len(s) /\ DOMAIN Append(s, x) = 1..(Len(s) + 1)
         /\ \A i \in DOMAIN s : Append(s, x)[i] = s[i]
         /\ Append(s, x)[Len(s) + 1] = x
<1> DEFINE S == ToSet(s) \cup {x}
<1>1. s \in Seq(S)
  <2> DEFINE T == ToSet(s)
  <2>1. s \in Seq(T) /\ T \subseteq S BY DEF IsSeq
  <2> HIDE DEF T, S
  <2> QED BY <2>1
<1>2. x \in S OBVIOUS
<1> HIDE DEF S
<1>3. Append(s, x) \in Seq(S) BY <1>1, <1>2
<1>4. IsSeq(Append(s, x)) BY <1>3, OwnElements DEF IsSeq
<1> QED BY <1>1, <1>2, <1>4

\* The item at which an element is added.
LEMMA AppendAt ==
  ASSUME NEW s, IsSeq(s), NEW item \in Nat \ {0}, Len(s) = item - 1, NEW total \in Nat, item <= total, NEW x,
         NEW after, after = item + 1
  PROVE  /\ IsSeq(Append(s, x)) /\ Len(Append(s, x)) = after - 1
         /\ after <= total + 1 /\ after \in Nat \ {0}
         /\ \A i \in DOMAIN Append(s, x) :
              (i \in DOMAIN s /\ Append(s, x)[i] = s[i]) \/ (i = item /\ Append(s, x)[i] = x)
<1>1. /\ IsSeq(Append(s, x)) /\ Len(Append(s, x)) = Len(s) + 1
      /\ DOMAIN s = 1..Len(s) /\ DOMAIN Append(s, x) = 1..(Len(s) + 1)
      /\ \A i \in DOMAIN s : Append(s, x)[i] = s[i]
      /\ Append(s, x)[Len(s) + 1] = x
  BY AppendOwn
<1>2. ASSUME NEW i \in 1..item PROVE i \in 1..(item - 1) \/ i = item OBVIOUS
<1>3. item - 1 + 1 = item OBVIOUS
<1> QED BY <1>1, <1>2, <1>3

LEMMA EmptyOwn == IsSeq(<<>>) /\ Len(<<>>) = 0 /\ DOMAIN <<>> = {}
BY OwnElements DEF IsSeq

LEMMA SeqShape == ASSUME NEW s, IsSeq(s) PROVE Len(s) \in Nat /\ DOMAIN s = 1..Len(s) /\ (Len(s) = 0 <=> s = <<>>)
<1> DEFINE S == ToSet(s)
<1>1. s \in Seq(S) BY DEF IsSeq
<1> HIDE DEF S
<1> QED BY <1>1

LEMMA AppendNotEmpty == ASSUME NEW s, IsSeq(s), NEW x PROVE Append(s, x) # <<>>
<1>1. IsSeq(Append(s, x)) /\ Len(Append(s, x)) = Len(s) + 1 /\ Len(s) \in Nat BY AppendOwn
<1>2. Len(Append(s, x)) # 0 BY <1>1
<1> QED BY <1>1, <1>2, EmptyOwn

LEMMA TailOwn ==
  ASSUME NEW s, IsSeq(s), s # <<>>
  PROVE  /\ IsSeq(Tail(s)) /\ DOMAIN Tail(s) = 1..(Len(s) - 1) /\ Len(Tail(s)) = Len(s) - 1 /\ DOMAIN s = 1..Len(s) /\ Len(s) \in Nat
         /\ \A i \in DOMAIN Tail(s) : i + 1 \in DOMAIN s /\ Tail(s)[i] = s[i + 1]
<1> DEFINE S == ToSet(s)
<1>1. s \in Seq(S) BY DEF IsSeq
<1> HIDE DEF S
<1>2. Tail(s) \in Seq(S) BY <1>1
<1>3. IsSeq(Tail(s)) BY <1>2, OwnElements DEF IsSeq
<1> QED BY <1>1, <1>2, <1>3

LEMMA OutputKept ==
  ASSUME TreeKept, NEW id, NEW o, OutputIn(files, dirs, id, o)
  PROVE  OutputIn(files', dirs', id, o)
<1>1. StockDir(id, o.stock) \in dirs' BY DEF OutputIn, TreeKept
<1>2. ASSUME NEW n \in StockNames, NEW p, p = <<StockDir(id, o.stock), n>>
      PROVE  p \in DOMAIN files' /\ files'[p] = o.checksums[n]
  <2>1. p[1] = StockDir(id, o.stock) /\ p[2] = n BY <1>2
  <2>2. n \notin Logs BY DEF StockNames, Logs
  <2>3. p \in DOMAIN files /\ files[p] = o.checksums[n] /\ p[1] \in dirs BY <1>2, <2>1 DEF OutputIn
  <2> QED BY <2>1, <2>2, <2>3 DEF TreeKept
<1> QED BY <1>1, <1>2 DEF OutputIn

LEMMA FinishedRun ==
  ASSUME TreeOK, NEW id, RunManifest(id) \in DOMAIN files
  PROVE  RunDir(id) \in dirs /\ id \in Runs
<1>1. RunManifest(id)[1] = RunDir(id) /\ RunManifest(id)[2] = "factor-run-manifest.json" BY Paths
<1>2. RunDir(id)[1] = "run" /\ RunDir(id)[2] = id BY Directories
<1>3. RunDir(id) \in dirs BY <1>1 DEF TreeOK
<1> QED BY <1>2, <1>3 DEF Runs

\* Files of a directory are kept.
LEMMA FileKept ==
  ASSUME TreeKept, NEW p, p \in DOMAIN files, p[1] \in dirs, p[2] \notin Logs
  PROVE  p \in DOMAIN files' /\ files'[p] = files[p]
BY DEF TreeKept

LEMMA ManifestKept ==
  ASSUME TreeOK, TreeKept, NEW id, RunManifest(id) \in DOMAIN files, ManifestIn(files, dirs, id)
  PROVE  /\ ManifestIn(files', dirs', id)
         /\ RunManifest(id) \in DOMAIN files' /\ files'[RunManifest(id)] = files[RunManifest(id)]
<1>1. RunDir(id) \in dirs BY FinishedRun
<1>2. /\ RunManifest(id)[1] = RunDir(id) /\ RunManifest(id)[2] \notin Logs
      /\ RunConfig(id)[1] = RunDir(id) /\ RunConfig(id)[2] \notin Logs
  BY Paths DEF Logs
<1>3. RunConfig(id) \in DOMAIN files BY DEF ManifestIn
<1>4. RunManifest(id) \in DOMAIN files' /\ files'[RunManifest(id)] = files[RunManifest(id)] BY <1>1, <1>2, FileKept
<1>5. RunConfig(id) \in DOMAIN files' /\ files'[RunConfig(id)] = files[RunConfig(id)] BY <1>1, <1>2, <1>3, FileKept
<1>6. \A i \in DOMAIN files[RunManifest(id)].outputs : OutputIn(files', dirs', id, files[RunManifest(id)].outputs[i])
  BY OutputKept DEF ManifestIn
<1> QED BY <1>4, <1>5, <1>6 DEF ManifestIn

\* No step but the last of a run writes a manifest.
LEMMA ManifestsKept ==
  ASSUME TreeOK, TreeKept, ManifestsOK, \A id \in Runs' : RunManifest(id) \in DOMAIN files' => RunManifest(id) \in DOMAIN files
  PROVE  ManifestsOK'
<1>1. ASSUME NEW id \in Runs', RunManifest(id) \in DOMAIN files' PROVE ManifestIn(files', dirs', id)
  <2>1. RunManifest(id) \in DOMAIN files BY <1>1
  <2>2. ManifestIn(files, dirs, id) BY <2>1, FinishedRun DEF ManifestsOK, Finished, Written
  <2> QED BY <2>1, <2>2, ManifestKept
<1> QED BY <1>1 DEF ManifestsOK, Finished, Written

\* Outside of a run there is no progress to speak of.
LEMMA NoRunProgress ==
  ASSUME pc' \notin RunPhases \cup {"run"}
  PROVE  RunProgress'
BY DEF RunProgress, RunPhases, LiveRun

\* What a run has so far is kept by its steps.
LEMMA RunFilesKept ==
  ASSUME IInv, RunInv, TreeKept, pc \in RunPhases
  PROVE  /\ RunConfig(run.id) \in DOMAIN files' /\ files'[RunConfig(run.id)].stocks = run.stocks
         /\ \A i \in DOMAIN run.outputs :
              run.outputs[i].stock = run.stocks[i] /\ OutputIn(files', dirs', run.id, run.outputs[i])
<1>1. RunDir(run.id) \in dirs BY DEF IInv, RunOK, RunPhases
<1>2. RunConfig(run.id)[1] = RunDir(run.id) /\ RunConfig(run.id)[2] \notin Logs BY Paths DEF Logs
<1>3. RunConfig(run.id) \in DOMAIN files /\ files[RunConfig(run.id)].stocks = run.stocks
  BY DEF RunInv, RunProgress, Written
<1>4. RunConfig(run.id) \in DOMAIN files' /\ files'[RunConfig(run.id)] = files[RunConfig(run.id)]
  BY <1>1, <1>2, <1>3, FileKept
<1> QED BY <1>3, <1>4, OutputKept DEF RunInv, RunProgress

\* A step of a run that stays at its stock.
LEMMA SameStock ==
  ASSUME IInv, RunInv, TreeKept, pc \in RunPhases, pc' \in RunPhases,
         run'.id = run.id, run'.stocks = run.stocks, run'.item = run.item, run'.outputs = run.outputs,
         pc' \in {"stock", "cyq_chips", "daily", "factors", "dry stock"} => ToSet(run'.outputDays) # {},
         pc' \in {"cyq_chips", "daily", "factors"} => run.item <= Len(run.stocks),
         pc' = "manifest" \/ (pc' \in {"finally", "flush"} /\ error' = None) => run.item > Len(run.stocks)
  PROVE  RunProgress'
<1>1. /\ RunConfig(run.id) \in DOMAIN files' /\ files'[RunConfig(run.id)].stocks = run.stocks
      /\ \A i \in DOMAIN run.outputs :
           run.outputs[i].stock = run.stocks[i] /\ OutputIn(files', dirs', run.id, run.outputs[i])
  BY RunFilesKept
<1>2. RunConfig(run'.id) = RunConfig(run.id) OBVIOUS
<1>3. pc' # "run" BY DEF RunPhases, LiveRun
<1>4. RunProgress BY DEF RunInv
<1> QED BY <1>1, <1>2, <1>3, <1>4 DEF RunProgress, Written
-----------------------------------------------------------------------------
(* Its steps *)

\* Nothing but a run's last step writes a manifest.
LEMMA NoNewManifest ==
  ASSUME IInv, TreeKept, ManifestsOK, \A p \in DOMAIN files' \ DOMAIN files : p[2] # "factor-run-manifest.json"
  PROVE  ManifestsOK'
<1>1. \A id : RunManifest(id)[2] = "factor-run-manifest.json" BY Paths
<1>2. \A id : RunManifest(id) \in DOMAIN files' => RunManifest(id) \in DOMAIN files BY <1>1
<1> QED BY <1>2, ManifestsKept DEF IInv

LEMMA OutsideRun ==
  ASSUME IInv, RunInv, TreeKept, pc' \notin RunPhases \cup {"run"}, PlanOK',
         \A p \in DOMAIN files' \ DOMAIN files : p[2] # "factor-run-manifest.json"
  PROVE  RunInv'
<1>1. ManifestsOK' BY NoNewManifest DEF RunInv
<1>2. RunProgress' BY NoRunProgress
<1> QED BY <1>1, <1>2 DEF RunInv

LEMMA NoPlan == ASSUME todo' = <<>> PROVE PlanOK'
<1>1. DOMAIN todo' = {} OBVIOUS
<1> QED BY <1>1 DEF PlanOK

LEMMA SamePlan == ASSUME RunInv, todo' = todo PROVE PlanOK'
BY DEF RunInv, PlanOK

LEMMA InsideRun ==
  ASSUME IInv, RunInv, TreeKept, todo' = todo, RunProgress',
         \A p \in DOMAIN files' \ DOMAIN files : p[2] # "factor-run-manifest.json"
  PROVE  RunInv'
BY NoNewManifest, SamePlan DEF RunInv

LEMMA RunBegin == ASSUME IInv, RunInv, TreeKept, Begin PROVE RunInv'
<1>1. UNCHANGED <<files, todo>> /\ turn \in DOMAIN commands /\ pc' = Command.do
  BY DEF Begin, Tree, IInv, InputOK, ReviewOK
<1>2. Command.do \in {"run", "evaluate", "batch", "aggregate", "review"} BY <1>1 DEF IInv, InputOK, Command
<1>3. CASE pc' = "run"
  <2>1. run' = NewRun(Command.id, Command.stocks, Command.dry) BY <1>1, <1>3 DEF Begin
  <2>2. run'.item = 1 /\ run'.outputs = <<>> /\ run'.stocks = Command.stocks BY <2>1 DEF NewRun, NoRun
  <2>3. IsSeq(Command.stocks) BY <1>1, <1>3 DEF IInv, InputOK, Command
  <2>4. pc' \notin RunPhases BY <1>3 DEF RunPhases, LiveRun
  <2>5. RunProgress' BY <1>3, <2>2, <2>3, <2>4, EmptyOwn DEF RunProgress, RunPhases, LiveRun
  <2> QED BY <1>1, <2>5, InsideRun
<1>4. CASE pc' # "run" BY <1>1, <1>2, <1>4, SamePlan, OutsideRun DEF RunPhases, LiveRun
<1> QED BY <1>3, <1>4

LEMMA RunEnds == ASSUME IInv, RunInv, TreeKept, NEW how, EndProcess(how), files' = files PROVE RunInv'
BY NoPlan, OutsideRun DEF EndProcess, RunPhases, LiveRun

LEMMA RunWriteFile == ASSUME IInv, RunInv, TreeKept, WriteFile PROVE RunInv'
<1> DEFINE path == todo[1].path
<1>1. /\ todo # <<>> /\ IsSeq(todo) /\ todo' = Tail(todo) /\ pc' \in {"write", "stock result", "ended"}
      /\ files' = WrittenOver(OneFile(path, todo[1].content), files)
  BY DEF WriteFile, IInv, TodoOK, IsSeq
<1>2. /\ Len(todo) \in Nat /\ DOMAIN todo = 1..Len(todo) /\ Len(todo) # 0
      /\ \A i \in DOMAIN todo' : i + 1 \in DOMAIN todo /\ todo'[i] = todo[i + 1]
  <2>1. /\ DOMAIN Tail(todo) = 1..(Len(todo) - 1) /\ DOMAIN todo = 1..Len(todo) /\ Len(todo) \in Nat
        /\ \A i \in DOMAIN Tail(todo) : i + 1 \in DOMAIN todo /\ Tail(todo)[i] = todo[i + 1]
    BY <1>1, TailOwn
  <2>2. Len(todo) # 0 BY <1>1, SeqShape
  <2> QED BY <1>1, <2>1, <2>2
<1>3. 1 \in DOMAIN todo BY <1>2
<1>4. PlanOK' BY <1>2 DEF RunInv, PlanOK
<1>5. path[2] \in PlanNames BY <1>3 DEF RunInv, PlanOK
<1> HIDE DEF path
<1>6. \A p \in DOMAIN files' \ DOMAIN files : p = path
  <2> DEFINE new == OneFile(path, todo[1].content)
  <2>1. DOMAIN new = {path} BY FileShape
  <2> HIDE DEF new
  <2> QED BY <1>1, <2>1, OverShape DEF new
<1>7. path[2] # "factor-run-manifest.json" BY <1>5 DEF PlanNames
<1> QED BY <1>1, <1>4, <1>6, <1>7, OutsideRun DEF RunPhases, LiveRun

LEMMA RunStarts == ASSUME IInv, RunInv, TreeKept, StartRun PROVE RunInv'
<1>0. /\ pc = "run" /\ todo' = todo /\ IsSeq(run.stocks) /\ run.item = 1 /\ run.outputs = <<>> /\ DOMAIN run = DOMAIN NoRun
      /\ RunProgress
  BY DEF StartRun, RunInv, RunProgress, IInv, RunOK
<1>1. CASE run.stocks = <<>> \/ RunDir(run.id) \in dirs
  <2>1. pc' = "raised" /\ files' = files BY <1>1 DEF StartRun, Raise, Tree
  <2> QED BY <1>0, <2>1, SamePlan, OutsideRun DEF RunPhases, LiveRun
<1>2. CASE ~(run.stocks = <<>> \/ RunDir(run.id) \in dirs)
  <2> DEFINE config == [stocks |-> run.stocks, dry |-> run.dry]
             log == OneFile(CallLog(run.id), <<>>)
             path == RunConfig(run.id)
  <2>1. files' = WrittenOver(OneFile(path, config), WrittenOver(log, files)) BY <1>2 DEF StartRun
  <2>2. path \in DOMAIN files' /\ files'[path] = config
    <3> HIDE DEF config, log, path
    <3> QED BY <2>1 DEF WrittenOver, OneFile
  <2>3. DOMAIN files' = DOMAIN files \cup {path, CallLog(run.id)}
    <3>1. DOMAIN log = {CallLog(run.id)} /\ DOMAIN OneFile(path, config) = {path} BY FileShape
    <3> HIDE DEF config, log, path
    <3>2. DOMAIN WrittenOver(log, files) = DOMAIN log \cup DOMAIN files BY OverShape
    <3>3. DOMAIN files' = {path} \cup DOMAIN WrittenOver(log, files) BY <2>1, <3>1, OverShape
    <3> QED BY <3>1, <3>2, <3>3 DEF log, path
  <2>4. path[2] = "factor-run-config.json" /\ CallLog(run.id)[2] = "api-calls.jsonl" BY Paths
  <2>5. \A p \in DOMAIN files' \ DOMAIN files : p[2] # "factor-run-manifest.json" BY <2>3, <2>4
  <2>6. Len(run.stocks) \in Nat BY <1>0, SeqShape
  <2>7. CASE pc' = "raised" BY <1>0, <2>5, <2>7, SamePlan, OutsideRun DEF RunPhases, LiveRun
  <2>8. CASE pc' = "trade_cal"
    <3>1. run' = run
      <4>1. CASE run.dry BY <1>2, <2>8, <4>1 DEF StartRun, Raise
      <4>2. CASE ~run.dry BY <1>2, <4>2 DEF StartRun
      <4> QED BY <4>1, <4>2
    <3> HIDE DEF path
    <3>2. Written(RunConfig(run.id))' /\ files'[RunConfig(run'.id)].stocks = run.stocks BY <2>2, <3>1 DEF Written, path
    <3>3. RunProgress' BY <1>0, <2>6, <2>8, <3>1, <3>2, EmptyOwn DEF RunProgress, RunPhases, LiveRun
    <3> QED BY <1>0, <2>5, <3>3, InsideRun
  <2>9. CASE pc' = "dry stock"
    <3>1. run' = [run EXCEPT !.days = Weekdays, !.outputDays = Weekdays] /\ ToSet(Weekdays) # {}
      <4>1. CASE run.dry
        <5> HIDE DEF config, log, path
        <5>1. IF ToSet(Weekdays) = {} THEN pc' = "raised" ELSE pc' = "dry stock"
          BY <1>2, <4>1 DEF StartRun, Raise
        <5> QED BY <1>2, <2>9, <4>1, <5>1 DEF StartRun
      <4>2. CASE ~run.dry BY <1>2, <2>9, <4>2 DEF StartRun
      <4> QED BY <4>1, <4>2
    <3>2. /\ run'.id = run.id /\ run'.stocks = run.stocks /\ run'.item = run.item /\ run'.outputs = run.outputs
          /\ run'.outputDays = Weekdays
      <4> HIDE DEF path
      <4>1. DOMAIN run = {"id", "stocks", "dry", "item", "days", "outputDays", "chips", "snapshots", "outputs", "warned"}
        BY <1>0 DEF NoRun
      <4> DEFINE W == Weekdays
      <4>2. run' = [run EXCEPT !.days = W, !.outputDays = W] BY <3>1
      <4> HIDE DEF W
      <4>3. run'.outputDays = W BY <4>1, <4>2
      <4> QED BY <4>1, <4>2, <4>3 DEF W
    <3> HIDE DEF path
    <3>3. Written(RunConfig(run.id))' /\ files'[RunConfig(run'.id)].stocks = run.stocks BY <2>2, <3>2 DEF Written, path
    <3>4. ToSet(run'.outputDays) # {} BY <3>1, <3>2
    <3> HIDE DEF config
    <3>5. RunProgress'
      <4>1. IsSeq(run'.stocks) /\ run'.item \in Nat \ {0} /\ IsSeq(run'.outputs) BY <1>0, <3>2, EmptyOwn
      <4>2. /\ files'[RunConfig(run'.id)].stocks = run'.stocks /\ Len(run'.outputs) = run'.item - 1
            /\ run'.item <= Len(run'.stocks) + 1 /\ DOMAIN run'.outputs = {}
        BY <1>0, <2>6, <3>2, <3>3, EmptyOwn
      <4> QED BY <2>9, <3>3, <3>4, <4>1, <4>2 DEF RunProgress, RunPhases, LiveRun
    <3> QED BY <1>0, <2>5, <3>5, InsideRun
  <2> HIDE DEF config, log, path
  <2>10. pc' \in {"trade_cal", "dry stock", "raised"} BY <1>2 DEF StartRun, Raise
  <2> QED BY <2>7, <2>8, <2>9, <2>10
<1> QED BY <1>1, <1>2

LEMMA RunCalls == ASSUME IInv, RunInv, TreeKept, CallWithApiLog PROVE RunInv'
<1>0. /\ pc \in {"trade_cal", "cyq_chips", "daily"} /\ todo' = todo /\ DOMAIN run = DOMAIN NoRun /\ RunProgress
  BY DEF CallWithApiLog, IInv, RunOK, RunInv
<1>1. \A p \in DOMAIN files' \ DOMAIN files : p[2] # "factor-run-manifest.json"
  <2>1. PICK row : files' = [files EXCEPT ![CallLog(run.id)] = Append(@, row)] BY DEF CallWithApiLog
  <2> QED BY <2>1
<1>2. \/ pc' = "finally" /\ error' # None /\ run' = run
      \/ \E answer : Receive(pc, answer)
  BY DEF CallWithApiLog, RaiseInRun
<1>3. None # "SystemExit" BY PipelineAssumption DEF PipelineAssumption, Errors
<1>4. \/ pc' = "finally" /\ error' # None /\ run' = run
      \/ /\ pc' \in {"stock", "daily", "factors"} /\ run'.id = run.id /\ run'.stocks = run.stocks /\ run'.item = run.item
         /\ run'.outputs = run.outputs /\ ToSet(run'.outputDays) # {}
         /\ pc' \in {"daily", "factors"} => pc \in {"cyq_chips", "daily"}
  <2>1. ASSUME NEW answer, Receive("trade_cal", answer), pc = "trade_cal"
        PROVE  <1>4!2 \/ (pc' = "finally" /\ error' # None /\ run' = run)
    <3> DEFINE days == FactorDays(answer)
               output == OutputDays(days)
    <3>1. IF ToSet(output) = {} THEN pc' = "finally" /\ error' = "SystemExit" /\ run' = run
          ELSE pc' = "stock" /\ run' = [run EXCEPT !.days = days, !.outputDays = output]
      BY <2>1 DEF Receive, RaiseInRun
    <3> HIDE DEF days, output
    <3>2. DOMAIN run = {"id", "stocks", "dry", "item", "days", "outputDays", "chips", "snapshots", "outputs", "warned"}
      BY <1>0 DEF NoRun
    <3>3. CASE ToSet(output) = {} BY <1>3, <3>1, <3>3
    <3>4. CASE ToSet(output) # {}
      <4>1. run' = [run EXCEPT !.days = days, !.outputDays = output] /\ pc' = "stock" BY <3>1, <3>4
      <4>2. run'.outputDays = output BY <3>2, <4>1
      <4>3. run'.id = run.id /\ run'.stocks = run.stocks /\ run'.item = run.item /\ run'.outputs = run.outputs
        BY <3>2, <4>1
      <4> QED BY <3>4, <4>1, <4>2, <4>3
    <3> QED BY <3>3, <3>4
  <2>2. ASSUME NEW answer, Receive("cyq_chips", answer), pc = "cyq_chips" PROVE <1>4!2
    <3>1. pc' = "daily" /\ run' = [run EXCEPT !.chips = answer] BY <2>2 DEF Receive
    <3> QED BY <1>0, <2>2, <3>1 DEF NoRun, RunProgress
  <2>3. ASSUME NEW answer, Receive("daily", answer), pc = "daily" PROVE <1>4!2
    <3> DEFINE made == Snapshots(run.days, run.chips, answer)
    <3>1. pc' = "factors" /\ run' = [run EXCEPT !.snapshots = made] BY <2>3 DEF Receive
    <3> HIDE DEF made
    <3> QED BY <1>0, <2>3, <3>1 DEF NoRun, RunProgress
  <2> QED BY <1>0, <1>2, <2>1, <2>2, <2>3
<1>5. pc' \in {"daily", "factors"} => run.item <= Len(run.stocks) BY <1>0, <1>4 DEF RunProgress
<1>6. pc \in RunPhases /\ pc' \in RunPhases BY <1>0, <1>4 DEF RunPhases, LiveRun
<1>7. RunProgress'
  <2>1. CASE run' = run /\ pc' = "finally" /\ error' # None BY <1>6, <2>1, SameStock
  <2>2. CASE <1>4!2 BY <1>5, <1>6, <2>2, SameStock
  <2> QED BY <1>4, <2>1, <2>2
<1> QED BY <1>0, <1>1, <1>7, InsideRun

LEMMA RunStartsStock == ASSUME IInv, RunInv, TreeKept, StartStock PROVE RunInv'
<1>0. /\ pc = "stock" /\ UNCHANGED <<files, run, todo>> /\ RunProgress
      /\ pc \in RunPhases /\ run.item \in Nat /\ Len(run.stocks) \in Nat
  <2>1. pc = "stock" /\ UNCHANGED <<files, run, todo>> /\ RunProgress BY DEF StartStock, Locals, RunInv
  <2>2. pc \in RunPhases BY <2>1 DEF RunPhases, LiveRun
  <2> QED BY <2>1, <2>2, SeqShape DEF RunProgress
<1>1. None # "error" BY PipelineAssumption DEF PipelineAssumption, Errors
<1>2. \/ pc' = "finally" /\ run.item > Len(run.stocks)
      \/ pc' = "finally" /\ error' # None
      \/ pc' = "cyq_chips" /\ run.item <= Len(run.stocks)
  BY <1>0, <1>1 DEF StartStock, RaiseInRun
<1>3. RunProgress'
  <2>1. pc' \in RunPhases BY <1>2 DEF RunPhases, LiveRun
  <2> QED BY <1>0, <1>2, <2>1, SameStock DEF RunProgress
<1> QED BY <1>0, <1>3, InsideRun

\* Where the formulas do not raise, a stock has all its files.
LEMMA StockFilesShape ==
  ASSUME NEW snapshots, NEW days, NEW outputs, RaisingDays(ByDay(snapshots), days, outputs) = {}, ToSet(outputs) # {}
  PROVE  DOMAIN StockFiles(StockRows(snapshots, days, outputs)) = StockNames
<1> DEFINE raising == RaisingDays(ByDay(snapshots), days, outputs)
           done == {d \in ToSet(outputs) : \A r \in raising : d < r}
           factors == [d \in done |-> BuildFactorValues(ByDay(snapshots), d, LookbackDays, days)]
           kept == SelectSeq(snapshots, LAMBDA s : \A r \in raising : s.day <= r)
           rows == StockRows(snapshots, days, outputs)
<1>1. rows = WrittenOver(OneFile("daily-chip-snapshots.jsonl", kept), IF done = {} THEN <<>> ELSE OneFile("factors.jsonl", factors))
  BY DEF StockRows
<1>2. done # {} BY SMT
<1> HIDE DEF factors, kept, done
<1>3. DOMAIN rows = {"daily-chip-snapshots.jsonl", "factors.jsonl"}
  <2>1. rows = WrittenOver(OneFile("daily-chip-snapshots.jsonl", kept), OneFile("factors.jsonl", factors)) BY <1>1, <1>2
  <2> QED BY <2>1 DEF WrittenOver, OneFile
<1> HIDE DEF rows
<1>4. DOMAIN StockFiles(rows) = StockNames BY <1>3 DEF StockFiles, WrittenOver, OneFile, StockNames
<1> QED BY <1>4 DEF rows

LEMMA RowNames ==
  ASSUME NEW snapshots, NEW days, NEW outputs
  PROVE  DOMAIN StockRows(snapshots, days, outputs) \subseteq {"daily-chip-snapshots.jsonl", "factors.jsonl"}
<1> DEFINE raising == RaisingDays(ByDay(snapshots), days, outputs)
           done == {d \in ToSet(outputs) : \A r \in raising : d < r}
           factors == [d \in done |-> BuildFactorValues(ByDay(snapshots), d, LookbackDays, days)]
           kept == SelectSeq(snapshots, LAMBDA s : \A r \in raising : s.day <= r)
           rows == StockRows(snapshots, days, outputs)
           first == OneFile("daily-chip-snapshots.jsonl", kept)
<1>1. rows = WrittenOver(first, IF done = {} THEN <<>> ELSE OneFile("factors.jsonl", factors)) BY DEF StockRows
<1>2. DOMAIN first = {"daily-chip-snapshots.jsonl"} BY FileShape
<1> HIDE DEF factors, kept, done, rows, first
<1>3. CASE done = {}
  <2>1. rows = WrittenOver(first, <<>>) BY <1>1, <1>3
  <2>2. DOMAIN rows = DOMAIN first \cup DOMAIN <<>> BY <2>1, OverShape
  <2> QED BY <1>2, <2>2, EmptyOwn DEF rows
<1>4. CASE done # {}
  <2>1. rows = WrittenOver(first, OneFile("factors.jsonl", factors)) BY <1>1, <1>4
  <2>2. DOMAIN OneFile("factors.jsonl", factors) = {"factors.jsonl"} BY FileShape
  <2>3. DOMAIN rows = DOMAIN first \cup DOMAIN OneFile("factors.jsonl", factors) BY <2>1, OverShape
  <2> QED BY <1>2, <2>2, <2>3 DEF rows
<1> QED BY <1>3, <1>4

\* What is written over a tree is there, in its directory.
LEMMA InFiles ==
  ASSUME NEW dir, NEW contents, NEW old, NEW n \in DOMAIN contents
  PROVE  <<dir, n>> \in DOMAIN WrittenOver(In(dir, contents), old) /\ WrittenOver(In(dir, contents), old)[<<dir, n>>] = contents[n]
<1> DEFINE p == <<dir, n>>
           new == In(dir, contents)
<1>1. p \in DOMAIN new /\ new[p] = contents[n] BY DEF In
<1> HIDE DEF p, new
<1>2. p \in DOMAIN WrittenOver(new, old) /\ WrittenOver(new, old)[p] = new[p] BY <1>1 DEF WrittenOver
<1> QED BY <1>1, <1>2 DEF p, new

LEMMA InNames == ASSUME NEW dir, NEW contents, NEW p \in DOMAIN In(dir, contents) PROVE p[2] \in DOMAIN contents
BY DEF In

\* A stock's files are its output's, and the run is at the next stock.
LEMMA RunWritesStock ==
  ASSUME IInv, RunInv, TreeKept, pc \in {"factors", "dry stock"}, NEW snapshots, NEW next, NEW failed,
         WriteStock(snapshots, next, failed), StockDir(run.id, Stock) \in dirs', run.item <= Len(run.stocks), todo' = todo,
         next \in {"stock", "dry stock"}, failed \in {"finally", "raised"}
  PROVE  RunInv'
<1> DEFINE outputs == run.outputDays
           rows == StockRows(snapshots, run.days, outputs)
           dir == StockDir(run.id, Stock)
           raising == RaisingDays(ByDay(snapshots), run.days, outputs)
<1>0. /\ pc \in RunPhases /\ RunProgress /\ DOMAIN run = DOMAIN NoRun
      /\ IsSeq(run.stocks) /\ IsSeq(run.outputs) /\ run.item \in Nat \ {0} /\ Len(run.stocks) \in Nat
      /\ ToSet(outputs) # {} /\ Len(run.outputs) = run.item - 1
  <2>1. pc \in RunPhases /\ RunProgress /\ DOMAIN run = DOMAIN NoRun BY DEF RunPhases, LiveRun, RunInv, IInv, RunOK
  <2> QED BY <2>1, SeqShape DEF RunProgress
<1>1. None # "error" BY PipelineAssumption DEF PipelineAssumption, Errors
<1>2. \/ /\ raising # {} /\ files' = WrittenOver(In(dir, rows), files) /\ run' = run
         /\ error' = "error" /\ pc' = failed
      \/ /\ raising = {} /\ files' = WrittenOver(In(dir, StockFiles(rows)), files)
         /\ run' = NextOutput(StockOutput(run.days, outputs, StockFiles(rows))) /\ pc' = next /\ error' = error
  BY DEF WriteStock
<1>3. \A contents : "factor-run-manifest.json" \notin DOMAIN contents /\ files' = WrittenOver(In(dir, contents), files) =>
        \A p \in DOMAIN files' \ DOMAIN files : p[2] # "factor-run-manifest.json"
  <2> SUFFICES ASSUME NEW contents, "factor-run-manifest.json" \notin DOMAIN contents,
                      files' = WrittenOver(In(dir, contents), files),
                      NEW p \in DOMAIN files' \ DOMAIN files
               PROVE  p[2] # "factor-run-manifest.json"
    OBVIOUS
  <2> HIDE DEF dir
  <2>1. p \in DOMAIN In(dir, contents) BY OverShape
  <2> QED BY <2>1, InNames
<1>4. CASE raising # {}
  <2>1. run' = run /\ error' = "error" /\ pc' = failed /\ files' = WrittenOver(In(dir, rows), files) BY <1>2, <1>4
  <2>2. DOMAIN rows \subseteq {"daily-chip-snapshots.jsonl", "factors.jsonl"} BY RowNames
  <2> HIDE DEF rows, raising, dir, outputs
  <2>3. "factor-run-manifest.json" \notin DOMAIN rows BY <2>2
  <2>4. \A p \in DOMAIN files' \ DOMAIN files : p[2] # "factor-run-manifest.json" BY <1>3, <2>1, <2>3
  <2>5. CASE pc' = "finally"
    <3>1. pc' \in RunPhases BY <2>5 DEF RunPhases, LiveRun
    <3>2. RunProgress' BY <1>0, <1>1, <2>1, <2>5, <3>1, SameStock
    <3> QED BY <2>4, <3>2, InsideRun
  <2>6. CASE pc' = "raised" BY <2>4, <2>6, SamePlan, OutsideRun DEF RunPhases, LiveRun
  <2> QED BY <2>1, <2>5, <2>6
<1>5. CASE raising = {}
  <2> DEFINE contents == StockFiles(rows)
             output == StockOutput(run.days, outputs, contents)
  <2>1. /\ files' = WrittenOver(In(dir, contents), files)
        /\ run' = NextOutput(output) /\ pc' = next /\ error' = error
    BY <1>2, <1>5
  <2>2. DOMAIN contents = StockNames BY <1>0, <1>5, StockFilesShape
  <2>3. output.stock = Stock /\ output.checksums = contents BY DEF StockOutput
  <2> HIDE DEF contents, output, rows, raising, outputs
  <2>4. /\ run'.id = run.id /\ run'.stocks = run.stocks /\ run'.item = run.item + 1
        /\ run'.outputs = Append(run.outputs, output) /\ run'.outputDays = run.outputDays
    BY <1>0, <2>1 DEF NextOutput, NoRun
  <2>5. OutputIn(files', dirs', run.id, output)
    <3>1. \A n \in DOMAIN contents : <<dir, n>> \in DOMAIN files' /\ files'[<<dir, n>>] = contents[n]
      <4> HIDE DEF dir
      <4> QED BY <2>1, InFiles
    <3> QED BY <2>2, <2>3, <3>1 DEF OutputIn
  <2>6. "factor-run-manifest.json" \notin DOMAIN contents BY <2>2 DEF StockNames
  <2>7. \A p \in DOMAIN files' \ DOMAIN files : p[2] # "factor-run-manifest.json" BY <1>3, <2>1, <2>6
  <2>8. /\ RunConfig(run.id) \in DOMAIN files' /\ files'[RunConfig(run.id)].stocks = run.stocks
        /\ \A i \in DOMAIN run.outputs : run.outputs[i].stock = run.stocks[i] /\ OutputIn(files', dirs', run.id, run.outputs[i])
    BY <1>0, RunFilesKept
  <2>9. RunProgress'
    <3>0. PICK outs, item, total, after :
            outs = run.outputs /\ item = run.item /\ total = Len(run.stocks) /\ after = item + 1
      OBVIOUS
    <3>1. /\ IsSeq(Append(outs, output)) /\ Len(Append(outs, output)) = after - 1
          /\ after <= total + 1 /\ after \in Nat \ {0}
          /\ \A i \in DOMAIN Append(outs, output) :
               \/ i \in DOMAIN outs /\ Append(outs, output)[i] = outs[i]
               \/ i = item /\ Append(outs, output)[i] = output
      <4>1. IsSeq(outs) /\ item \in Nat \ {0} /\ Len(outs) = item - 1 /\ total \in Nat /\ item <= total
        BY <1>0, <3>0
      <4>2. after = item + 1 BY <3>0
      <4> HIDE DEF outputs
      <4> QED BY ZenonT(30), <4>1, <4>2, AppendAt
    <3>5. IsSeq(run'.outputs) /\ Len(run'.outputs) = run'.item - 1 /\ run'.item <= Len(run'.stocks) + 1
          /\ run'.item \in Nat \ {0} /\ IsSeq(run'.stocks)
      <4>1. run'.outputs = Append(outs, output) /\ run'.item = after BY <2>4, <3>0
      <4>2. IsSeq(run'.stocks) /\ Len(run'.stocks) = total BY <1>0, <2>4, <3>0
      <4>3. PICK new : new = Append(outs, output) OBVIOUS
      <4>4. IsSeq(new) /\ Len(new) = after - 1 /\ after <= total + 1 /\ after \in Nat \ {0} BY <3>1, <4>3
      <4> QED BY <4>1, <4>2, <4>3, <4>4
    <3>2. ASSUME NEW i \in DOMAIN run'.outputs
          PROVE  run'.outputs[i].stock = run.stocks[i] /\ OutputIn(files', dirs', run.id, run'.outputs[i])
      <4>1. \/ i \in DOMAIN run.outputs /\ run'.outputs[i] = run.outputs[i]
            \/ i = run.item /\ run'.outputs[i] = output
        BY <2>4, <3>0, <3>1
      <4>2. CASE i \in DOMAIN run.outputs /\ run'.outputs[i] = run.outputs[i] BY <2>8, <4>2
      <4>3. CASE i = run.item /\ run'.outputs[i] = output BY <2>3, <2>5, <4>3 DEF Stock
      <4> QED BY <4>1, <4>2, <4>3
    <3>3. RunConfig(run'.id) = RunConfig(run.id) /\ ToSet(run'.outputDays) # {} BY <1>0, <2>4 DEF outputs
    <3>4. pc' \in {"stock", "dry stock"} BY <2>1
    <3> QED BY <2>4, <2>8, <3>2, <3>3, <3>4, <3>5 DEF RunProgress, RunPhases, LiveRun, Written
  <2> QED BY <2>7, <2>9, InsideRun
<1> QED BY <1>4, <1>5

LEMMA RunLiveStock == ASSUME IInv, RunInv, TreeKept, WriteLiveStock PROVE RunInv'
<1>1. /\ pc = "factors" /\ WriteStock(run.snapshots, "stock", "finally") /\ UNCHANGED <<todo, dirs>>
      /\ StockDir(run.id, Stock) \in dirs /\ run.item <= Len(run.stocks)
  BY DEF WriteLiveStock, IInv, RunOK, RunInv, RunProgress
<1> QED BY <1>1, RunWritesStock

LEMMA RunDryStock == ASSUME IInv, RunInv, TreeKept, WriteDryRunStock PROVE RunInv'
<1>0. /\ pc = "dry stock" /\ todo' = todo /\ RunProgress /\ pc \in RunPhases /\ run.item \in Nat /\ Len(run.stocks) \in Nat
  <2>1. pc = "dry stock" /\ todo' = todo /\ RunProgress BY DEF WriteDryRunStock, RunInv
  <2>2. pc \in RunPhases BY <2>1 DEF RunPhases
  <2> QED BY <2>1, <2>2, SeqShape DEF RunProgress
<1>1. CASE run.item > Len(run.stocks)
  <2>1. pc' = "manifest" /\ UNCHANGED <<files, run, error>> BY <1>1 DEF WriteDryRunStock, Tree
  <2>2. RunProgress' BY <1>0, <1>1, <2>1, SameStock DEF RunPhases
  <2> QED BY <1>0, <2>1, <2>2, InsideRun
<1>2. CASE ~(run.item > Len(run.stocks)) /\ StockDir(run.id, Stock) \in dirs
  <2>1. pc' = "raised" /\ files' = files BY <1>2 DEF WriteDryRunStock, Raise, Tree
  <2> QED BY <1>0, <2>1, SamePlan, OutsideRun DEF RunPhases, LiveRun
<1>3. CASE ~(run.item > Len(run.stocks)) /\ StockDir(run.id, Stock) \notin dirs
  <2>1. StockDir(run.id, Stock) \in dirs' /\ \E snapshots : WriteStock(snapshots, "dry stock", "raised")
    BY <1>3 DEF WriteDryRunStock
  <2>2. run.item <= Len(run.stocks)
    <3>1. PICK a \in Nat, b \in Nat : a = run.item /\ b = Len(run.stocks) BY <1>0
    <3>2. ~(a > b) BY <1>3, <3>1
    <3> QED BY <3>1, <3>2
  <2> QED BY <1>0, <2>1, <2>2, RunWritesStock
<1> QED BY <1>1, <1>2, <1>3

LEMMA RunRestores == ASSUME IInv, RunInv, TreeKept, RestoreHandlers PROVE RunInv'
<1>1. pc = "finally" /\ pc' = "flush" /\ UNCHANGED <<files, run, todo, error>> BY DEF RestoreHandlers, Tree, Locals
<1>2. pc \in RunPhases /\ pc' \in RunPhases BY <1>1 DEF RunPhases, LiveRun
<1>3. RunProgress' BY <1>1, <1>2, SameStock DEF RunInv, RunProgress
<1> QED BY <1>1, <1>3, InsideRun

LEMMA RunFlushes == ASSUME IInv, RunInv, TreeKept, FlushCacheWriter PROVE RunInv'
<1>1. /\ pc = "flush" /\ UNCHANGED <<files, todo>> /\ DOMAIN run = DOMAIN NoRun
      /\ \E failed : run' = [run EXCEPT !.warned = failed]
      /\ pc' = "raised" \/ (pc' = "manifest" /\ error = None)
  BY DEF FlushCacheWriter, Raise, Tree, IInv, RunOK
<1>2. CASE pc' = "raised" BY <1>1, <1>2, SamePlan, OutsideRun DEF RunPhases, LiveRun
<1>3. CASE pc' = "manifest"
  <2>1. run'.id = run.id /\ run'.stocks = run.stocks /\ run'.item = run.item /\ run'.outputs = run.outputs
    BY <1>1 DEF NoRun
  <2>2. pc \in RunPhases /\ pc' \in RunPhases BY <1>1, <1>3 DEF RunPhases, LiveRun
  <2>3. run.item > Len(run.stocks) BY <1>1, <1>3 DEF RunInv, RunProgress
  <2>4. RunProgress' BY <1>3, <2>1, <2>2, <2>3, SameStock
  <2> QED BY <1>1, <2>4, InsideRun
<1> QED BY <1>1, <1>2, <1>3

\* The manifest has an output for every stock: the run is past its last.
LEMMA RunManifests == ASSUME IInv, IInv', RunInv, TreeKept, WriteManifest PROVE RunInv'
<1> DEFINE path == RunManifest(run.id)
<1>0. /\ pc = "manifest" /\ pc' \in {"evaluate", "ended"} /\ todo' = todo /\ RunProgress /\ pc \in RunPhases
      /\ \E manifest : manifest.outputs = run.outputs /\ files' = WrittenOver(OneFile(path, manifest), files)
  BY DEF WriteManifest, RunInv, RunPhases
<1>1. PICK manifest : manifest.outputs = run.outputs /\ files' = WrittenOver(OneFile(path, manifest), files) BY <1>0
<1>2. /\ path \in DOMAIN files' /\ files'[path] = manifest /\ \A p \in DOMAIN files' \ DOMAIN files : p = path
  <2> HIDE DEF path
  <2> QED BY <1>1 DEF WrittenOver, OneFile
<1>3. /\ RunConfig(run.id) \in DOMAIN files' /\ files'[RunConfig(run.id)].stocks = run.stocks
      /\ \A i \in DOMAIN run.outputs :
           run.outputs[i].stock = run.stocks[i] /\ OutputIn(files', dirs', run.id, run.outputs[i])
  BY <1>0, RunFilesKept
<1>4. ManifestIn(files', dirs', run.id)
  <2>1. /\ IsSeq(run.stocks) /\ IsSeq(run.outputs) /\ Len(run.outputs) = run.item - 1 /\ run.item <= Len(run.stocks) + 1
        /\ run.item > Len(run.stocks) /\ run.item \in Nat
    BY <1>0 DEF RunProgress
  <2>2. Len(run.outputs) = Len(run.stocks) BY <2>1, SeqShape
  <2> QED BY <1>1, <1>2, <1>3, <2>1, <2>2 DEF ManifestIn
<1>5. ASSUME NEW id \in Runs', RunManifest(id) \in DOMAIN files' PROVE ManifestIn(files', dirs', id)
  <2>1. CASE RunManifest(id) \in DOMAIN files
    <3>1. ManifestIn(files, dirs, id) BY <2>1, FinishedRun DEF RunInv, ManifestsOK, Finished, Written, IInv
    <3> QED BY <2>1, <3>1, ManifestKept DEF IInv
  <2>2. CASE RunManifest(id) = path
    <3>1. RunDir(id) = RunDir(run.id) BY <2>2, Paths
    <3>2. id = run.id BY <3>1 DEF RunDir
    <3> QED BY <1>4, <3>2
  <2> QED BY <1>2, <1>5, <2>1, <2>2
<1>6. ManifestsOK' BY <1>5 DEF ManifestsOK, Finished, Written
<1>7. RunProgress' BY <1>0, NoRunProgress DEF RunPhases, LiveRun
<1> QED BY <1>0, <1>6, <1>7, SamePlan DEF RunInv

LEMMA PlanOfTwo == ASSUME NEW summary, todo' = SummaryFiles(summary) PROVE PlanOK'
<1>1. /\ DOMAIN todo' = 1..2 /\ todo'[1] = File(Summary(summary.id), summary)
      /\ todo'[2] = File(Report(summary.id), AggregateReport(summary))
  BY DEF SummaryFiles
<1>2. todo'[1].path[2] = "factor-batch-summary.json" /\ todo'[2].path[2] = "aggregate-factor-report.md"
  BY <1>1, Paths DEF File
<1> QED BY <1>1, <1>2 DEF PlanOK, PlanNames

LEMMA RunEvaluates == ASSUME IInv, RunInv, TreeKept, Evaluate PROVE RunInv'
<1>1. files' = files BY DEF Evaluate
<1>2. CASE pc' = "raised" /\ todo' = todo BY <1>1, <1>2, SamePlan, OutsideRun DEF RunPhases, LiveRun
<1>3. CASE /\ pc' = "write"
           /\ \E dir, other, a, b, c, d :
                LET all == <<File(<<dir, "factor-forward-observations.jsonl">>, a),
                             File(<<dir, "factor-evaluation-summary.json">>, b),
                             File(<<dir, "factor-evaluation-report.md">>, c), File(<<other, "latest.json">>, d)>>
                IN todo' = Tail(all) \/ todo' = all
  <2>1. PICK dir, other, a, b, c, d :
          LET all == <<File(<<dir, "factor-forward-observations.jsonl">>, a),
                       File(<<dir, "factor-evaluation-summary.json">>, b),
                       File(<<dir, "factor-evaluation-report.md">>, c), File(<<other, "latest.json">>, d)>>
          IN todo' = Tail(all) \/ todo' = all
    BY <1>3
  <2> DEFINE f1 == File(<<dir, "factor-forward-observations.jsonl">>, a)
             f2 == File(<<dir, "factor-evaluation-summary.json">>, b)
             f3 == File(<<dir, "factor-evaluation-report.md">>, c)
             f4 == File(<<other, "latest.json">>, d)
  <2>2. todo' = <<f2, f3, f4>> \/ todo' = <<f1, f2, f3, f4>> BY <2>1
  <2>3. f1.path[2] \in PlanNames /\ f2.path[2] \in PlanNames /\ f3.path[2] \in PlanNames /\ f4.path[2] \in PlanNames
    BY DEF File, PlanNames
  <2> HIDE DEF f1, f2, f3, f4
  <2>4. \A i \in DOMAIN todo' : todo'[i] \in {f1, f2, f3, f4}
    <3>1. CASE todo' = <<f2, f3, f4>>
      <4>1. DOMAIN todo' = 1..3 /\ todo'[1] = f2 /\ todo'[2] = f3 /\ todo'[3] = f4 BY <3>1
      <4> QED BY <4>1
    <3>2. CASE todo' = <<f1, f2, f3, f4>>
      <4>1. DOMAIN todo' = 1..4 /\ todo'[1] = f1 /\ todo'[2] = f2 /\ todo'[3] = f3 /\ todo'[4] = f4 BY <3>2
      <4> QED BY <4>1
    <3> QED BY <2>2, <3>1, <3>2
  <2>5. PlanOK' BY <2>3, <2>4 DEF PlanOK
  <2> QED BY <1>1, <1>3, <2>5, OutsideRun DEF RunPhases, LiveRun
<1> QED BY <1>2, <1>3 DEF Evaluate, Raise

LEMMA RunStartsBatch == ASSUME IInv, RunInv, TreeKept, StartBatch PROVE RunInv'
<1>1. /\ todo' = todo /\ pc' \in {"raised", "next stock"}
      /\ files' = files \/ files' = WrittenOver(OneFile(BatchConfig(Command.id), Command.stocks), files)
  BY DEF StartBatch, Raise, Tree
<1>2. BatchConfig(Command.id)[2] = "factor-batch-config.json" BY Paths
<1>3. \A p \in DOMAIN files' \ DOMAIN files : p = BatchConfig(Command.id)
  <2> DEFINE new == OneFile(BatchConfig(Command.id), Command.stocks)
  <2>1. DOMAIN new = {BatchConfig(Command.id)} BY FileShape
  <2>2. files' = files \/ files' = WrittenOver(new, files) BY <1>1
  <2> HIDE DEF new
  <2>3. DOMAIN files' \subseteq DOMAIN new \cup DOMAIN files
    <3>1. CASE files' = files BY <3>1
    <3>2. CASE files' = WrittenOver(new, files) BY <3>2, OverShape
    <3> QED BY <2>2, <3>1, <3>2
  <2> QED BY <2>1, <2>3
<1> QED BY <1>1, <1>2, <1>3, SamePlan, OutsideRun DEF RunPhases, LiveRun

\* A result changes the log of the batch only.
LEMMA RunAddsResult ==
  ASSUME IInv, RunInv, TreeKept, NEW result, AddResult(result), todo' = todo
  PROVE  RunInv'
<1>1. PICK log : files' = WrittenOver(OneFile(StockLog(batch.id), log), files) BY DEF AddResult
<1>2. pc' = "next stock" /\ StockLog(batch.id)[2] = "stock-results.jsonl" BY Paths DEF AddResult
<1>3. \A p \in DOMAIN files' \ DOMAIN files : p = StockLog(batch.id)
  <2> DEFINE new == OneFile(StockLog(batch.id), log)
  <2>1. DOMAIN new = {StockLog(batch.id)} BY FileShape
  <2>2. files' = WrittenOver(new, files) BY <1>1
  <2> HIDE DEF new
  <2>3. DOMAIN files' = DOMAIN new \cup DOMAIN files BY <2>2, OverShape
  <2> QED BY <2>1, <2>3
<1> QED BY <1>2, <1>3, SamePlan, OutsideRun DEF RunPhases, LiveRun

LEMMA RunNextStock == ASSUME IInv, RunInv, TreeKept, NextStock PROVE RunInv'
<1>1. files' = files BY DEF NextStock, Tree
<1>2. CASE MoreStocks
  <2>1. PICK stock : run' = NewRun(StockRunId(batch.id, stock), <<stock>>, Command.dry) BY <1>2 DEF NextStock
  <2>2. pc' = "run" /\ todo' = todo BY <1>2 DEF NextStock
  <2>3. run'.item = 1 /\ run'.outputs = <<>> /\ run'.stocks = <<stock>> BY <2>1 DEF NewRun, NoRun
  <2>4. IsSeq(<<stock>>)
    <3>1. <<stock>> \in Seq({stock}) OBVIOUS
    <3> QED BY <3>1, OwnElements DEF IsSeq
  <2>5. RunProgress' BY <2>2, <2>3, <2>4, EmptyOwn DEF RunProgress, RunPhases, LiveRun
  <2> QED BY <1>1, <2>2, <2>5, InsideRun
<1>3. CASE ~MoreStocks
  <2>1. pc' = "write" /\ \E summary : todo' = SummaryFiles(summary) BY <1>3 DEF NextStock
  <2> QED BY <1>1, <2>1, PlanOfTwo, OutsideRun DEF RunPhases, LiveRun
<1> QED BY <1>2, <1>3

LEMMA RunHandlesError == ASSUME IInv, RunInv, TreeKept, HandleError PROVE RunInv'
<1>1. CASE MoreStocks /\ error \in {"SystemExit", "unavailable"}
  <2>1. todo' = todo /\ \E result : AddResult(result) BY <1>1 DEF HandleError
  <2> QED BY <2>1, RunAddsResult
<1>2. CASE ~(MoreStocks /\ error \in {"SystemExit", "unavailable"})
  <2>1. EndProcess(error) /\ files' = files BY <1>2 DEF HandleError
  <2> QED BY <2>1, RunEnds
<1> QED BY <1>1, <1>2

LEMMA RunAggregates == ASSUME IInv, RunInv, TreeKept, Aggregate PROVE RunInv'
<1>1. files' = files BY DEF Aggregate
<1>2. \/ pc' = "raised" /\ todo' = todo
      \/ pc' = "write" /\ \E summary : todo' = SummaryFiles(summary)
  BY DEF Aggregate, Raise
<1>3. CASE pc' = "raised" /\ todo' = todo BY <1>1, <1>3, SamePlan, OutsideRun DEF RunPhases, LiveRun
<1>4. CASE pc' = "write" /\ \E summary : todo' = SummaryFiles(summary)
  BY <1>1, <1>4, PlanOfTwo, OutsideRun DEF RunPhases, LiveRun
<1> QED BY <1>2, <1>3, <1>4

LEMMA RunAsksReviewer == ASSUME IInv, RunInv, TreeKept, AskExternalReviewer PROVE RunInv'
<1>1. pc' = "write" /\ files' = files BY DEF AskExternalReviewer, Tree
<1>2. PICK dir, other, a, b, c :
        todo' = <<File(<<dir, "findings.json">>, a), File(<<dir, "artifact-review-report.md">>, a),
                  File(<<dir, "fix-plan-draft.md">>, a), File(<<dir, "review-config.json">>, b),
                  File(<<dir, "review-state.json">>, c), File(<<other, "latest.json">>, dir)>>
  BY DEF AskExternalReviewer
<1>3. /\ DOMAIN todo' = 1..6 /\ todo'[1].path[2] \in PlanNames /\ todo'[2].path[2] \in PlanNames
      /\ todo'[3].path[2] \in PlanNames /\ todo'[4].path[2] \in PlanNames /\ todo'[5].path[2] \in PlanNames
      /\ todo'[6].path[2] \in PlanNames
  BY <1>2 DEF File, PlanNames
<1>4. PlanOK' BY <1>3 DEF PlanOK
<1> QED BY <1>1, <1>4, OutsideRun DEF RunPhases, LiveRun

LEMMA RunStep == ASSUME IInv, RunInv, [Next]_vars PROVE RunInv'
<1>0. IInv' /\ TreeKept BY StepKeeps
<1>1. CASE UNCHANGED vars
  <2>1. UNCHANGED <<pc, files, dirs, todo, run, error>> BY <1>1 DEF vars
  <2> QED BY <2>1 DEF RunInv, RunProgress, ManifestsOK, PlanOK, Runs, Finished, Written
<1>2. CASE Step
  <2>1. CASE End BY <1>0, <2>1, RunEnds DEF End, Tree
  <2>2. CASE StockCompleted
    <3>1. todo' = todo /\ \E result : AddResult(result) BY <2>2 DEF StockCompleted
    <3> QED BY <1>0, <3>1, RunAddsResult
  <2>3. CASE StartReview
    <3>1. files' = files /\ todo' = todo /\ pc' \in {"raised", "external"} BY <2>3 DEF StartReview, Raise
    <3> QED BY <1>0, <3>1, SamePlan, OutsideRun DEF RunPhases, LiveRun
  <2> QED BY <1>0, <1>2, <2>1, <2>2, <2>3, RunBegin, RunWriteFile, RunStarts, RunCalls, RunStartsStock, RunLiveStock, RunDryStock,
       RunRestores, RunFlushes, RunManifests, RunEvaluates, RunStartsBatch, RunNextStock, RunHandlesError, RunAggregates,
       RunAsksReviewer DEF Step
<1>3. CASE Crash BY <1>0, <1>3, RunEnds DEF Crash, Tree
<1> QED BY <1>1, <1>2, <1>3 DEF Next, Done

LEMMA RunInvariant == Spec => []RunInv
<1>1. Init => RunInv
  <2> SUFFICES ASSUME Init PROVE RunInv OBVIOUS
  <2>1. pc = "command" /\ dirs = {} /\ DOMAIN todo = {} BY DEF Init
  <2>2. RunProgress BY <2>1 DEF RunProgress, RunPhases, LiveRun
  <2> QED BY <2>1, <2>2 DEF RunInv, ManifestsOK, Runs, PlanOK
<1>2. IInv /\ RunInv /\ [Next]_vars => RunInv' BY RunStep
<1> QED BY <1>1, <1>2, Invariant, PTL DEF Spec

LEMMA FiveNames == Cardinality(StockNames) = 5
<1> DEFINE A1 == {"daily-chip-snapshots.jsonl"}
           A2 == A1 \cup {"factors.jsonl"}
           A3 == A2 \cup {"factor-quality.json"}
           A4 == A3 \cup {"factor-traceability.json"}
           A5 == A4 \cup {"factor-retention-policy.json"}
<1>1. IsFiniteSet(A1) /\ Cardinality(A1) = 1 BY FS_Singleton
<1>2. "factors.jsonl" \notin A1 OBVIOUS
<1>3. IsFiniteSet(A2) /\ Cardinality(A2) = 2
  <2> HIDE DEF A1
  <2> QED BY <1>1, <1>2, FS_AddElement
<1>4. "factor-quality.json" \notin A2 OBVIOUS
<1>5. IsFiniteSet(A3) /\ Cardinality(A3) = 3
  <2> HIDE DEF A2
  <2> QED BY <1>3, <1>4, FS_AddElement
<1>6. "factor-traceability.json" \notin A3 OBVIOUS
<1>7. IsFiniteSet(A4) /\ Cardinality(A4) = 4
  <2> HIDE DEF A3
  <2> QED BY <1>5, <1>6, FS_AddElement
<1>8. "factor-retention-policy.json" \notin A4 OBVIOUS
<1>9. IsFiniteSet(A5) /\ Cardinality(A5) = 5
  <2> HIDE DEF A4
  <2> QED BY <1>7, <1>8, FS_AddElement
<1>10. StockNames = A5 BY DEF StockNames
<1> QED BY <1>9, <1>10

\* A finished run has all five files of each of its stocks, as its manifest says.
LEMMA ManifestsSeal == ASSUME IInv, RunInv PROVE ManifestSeals
<1> SUFFICES ASSUME NEW id \in Runs, Finished(id)
             PROVE  LET outputs == files[RunManifest(id)].outputs
                    IN /\ [i \in DOMAIN outputs |-> outputs[i].stock] = files[RunConfig(id)].stocks
                       /\ \A o \in ToSet(outputs) :
                            /\ Cardinality(DOMAIN o.checksums) = 5
                            /\ In(StockDir(id, o.stock), o.checksums)
                                 = Restrict(files, {<<StockDir(id, o.stock), n>> : n \in DOMAIN o.checksums})
  BY DEF ManifestSeals
<1> DEFINE outputs == files[RunManifest(id)].outputs
           stocks == files[RunConfig(id)].stocks
<1>1. /\ IsSeq(stocks) /\ IsSeq(outputs) /\ Len(outputs) = Len(stocks)
      /\ \A i \in DOMAIN outputs : outputs[i].stock = stocks[i] /\ OutputIn(files, dirs, id, outputs[i])
  BY DEF RunInv, ManifestsOK, ManifestIn
<1> HIDE DEF outputs, stocks
<1>2. [i \in DOMAIN outputs |-> outputs[i].stock] = stocks
  <2> DEFINE S == ToSet(stocks)
  <2>1. stocks \in Seq(S) BY <1>1 DEF IsSeq
  <2> HIDE DEF S
  <2>2. stocks = [i \in 1..Len(stocks) |-> stocks[i]] BY <2>1
  <2>3. DOMAIN outputs = 1..Len(stocks) BY <1>1, SeqShape
  <2> QED BY <1>1, <2>2, <2>3
<1>3. ASSUME NEW o \in ToSet(outputs)
      PROVE  /\ Cardinality(DOMAIN o.checksums) = 5
             /\ In(StockDir(id, o.stock), o.checksums)
                  = Restrict(files, {<<StockDir(id, o.stock), n>> : n \in DOMAIN o.checksums})
  <2> DEFINE dir == StockDir(id, o.stock)
             c == o.checksums
             paths == {<<dir, n>> : n \in StockNames}
  <2>1. OutputIn(files, dirs, id, o) BY <1>1 DEF ToSet
  <2>2. DOMAIN c = StockNames /\ \A n \in StockNames : files[<<dir, n>>] = c[n] BY <2>1 DEF OutputIn
  <2> HIDE DEF dir, c
  <2>3. In(dir, c) = [p \in paths |-> c[p[2]]] BY <2>2 DEF In
  <2>4. Restrict(files, paths) = [p \in paths |-> files[p]] BY DEF Restrict
  <2>5. \A p \in paths : c[p[2]] = files[p] BY <2>2
  <2>6. In(dir, c) = Restrict(files, paths)
    <3> HIDE DEF paths
    <3> QED BY <2>3, <2>4, <2>5
  <2> QED BY <2>2, <2>6, FiveNames DEF dir, c
<1> QED BY <1>2, <1>3 DEF outputs, stocks
-----------------------------------------------------------------------------
(* The types *)

\* The exception on its way is one of Errors, outside of a command there is none, and the
\* commands that have ended are those before the turn.
TypeInv ==
  /\ turn <= Len(commands) + 1 /\ (pc # "command" => turn <= Len(commands))
  /\ IsSeq(endings) /\ Len(endings) = turn - 1
  /\ \A i \in DOMAIN endings : endings[i] \in Errors \cup {"ok", "crash"}
  /\ error \in Errors \cup {None} /\ (pc = "raised" => error # None)
  /\ error # None => pc \in {"finally", "flush", "raised"}
  /\ faults \in 0..MaxFaults /\ crashes \in 0..MaxCrashes

Ending(how) == EndProcess(how) /\ UNCHANGED <<commands, faults>> /\ crashes' \in 0..MaxCrashes

LEMMA TypeEnds ==
  ASSUME IInv, TypeInv, pc # "command", NEW how \in Errors \cup {"ok", "crash"}, Ending(how)
  PROVE  TypeInv'
<1>1. /\ endings' = Append(endings, how) /\ turn' = turn + 1 /\ pc' = "command" /\ error' = None
      /\ UNCHANGED <<commands, faults>> /\ crashes' \in 0..MaxCrashes
  BY DEF Ending, EndProcess
<1>2. Len(commands) \in Nat /\ turn \in Nat \ {0} BY DEF IInv, InputOK, ReviewOK
<1>3. /\ IsSeq(endings') /\ Len(endings') = turn' - 1
      /\ \A i \in DOMAIN endings' : endings'[i] \in Errors \cup {"ok", "crash"}
  <2>1. /\ IsSeq(Append(endings, how)) /\ Len(Append(endings, how)) = (turn + 1) - 1
        /\ \A i \in DOMAIN Append(endings, how) :
             (i \in DOMAIN endings /\ Append(endings, how)[i] = endings[i]) \/ Append(endings, how)[i] = how
    <3>1. IsSeq(endings) /\ Len(endings) = turn - 1 /\ turn <= turn BY <1>2 DEF TypeInv
    <3> QED BY ZenonT(30), <1>2, <3>1, AppendAt
  <2>2. \A i \in DOMAIN endings : endings[i] \in Errors \cup {"ok", "crash"} BY DEF TypeInv
  <2> QED BY <1>1, <2>1, <2>2
<1>4. turn + 1 <= Len(commands) + 1 BY <1>2 DEF TypeInv
<1>5. faults \in 0..MaxFaults BY DEF TypeInv
<1> QED BY <1>1, <1>3, <1>4, <1>5 DEF TypeInv

\* A step within a command.
LEMMA TypeKept ==
  ASSUME TypeInv, UNCHANGED <<commands, turn, endings, crashes>>, pc' # "command", pc = "command" => turn <= Len(commands),
         faults' \in 0..MaxFaults,
         \/ error' = error /\ pc' # "raised" /\ (error # None => pc' \in {"finally", "flush"})
         \/ error' = error /\ error # None /\ pc' = "raised"
         \/ error' = None /\ pc' # "raised"
         \/ error' \in Errors /\ pc' \in {"finally", "raised"}
  PROVE  TypeInv'
<1>1. None \notin Errors BY PipelineAssumption DEF PipelineAssumption
<1> QED BY <1>1 DEF TypeInv

\* One that starts without an exception and counts no fault.
LEMMA TypeCalm ==
  ASSUME TypeInv, UNCHANGED <<commands, turn, endings, crashes, faults>>, pc' # "command", pc \notin {"finally", "flush", "raised"},
         pc = "command" => turn <= Len(commands),
         \/ error' = error /\ pc' # "raised"
         \/ error' \in Errors /\ pc' \in {"finally", "raised"}
  PROVE  TypeInv'
<1>1. error = None /\ faults' \in 0..MaxFaults BY DEF TypeInv
<1> QED BY <1>1, TypeKept

LEMMA TypeStep == ASSUME IInv, TypeInv, [Next]_vars PROVE TypeInv'
<1> USE DEF Inputs, History, Errors
<1>1. CASE UNCHANGED vars BY <1>1 DEF vars, TypeInv
<1>2. CASE Begin
  <2>1. turn \in DOMAIN commands BY <1>2 DEF Begin, IInv, InputOK, ReviewOK
  <2>2. pc' \in {"run", "evaluate", "batch", "aggregate", "review"} BY <1>2, <2>1 DEF Begin, Command, IInv, InputOK
  <2> QED BY <1>2, <2>2, TypeCalm DEF Begin
<1>3. CASE End
  <2>1. pc # "command" /\ Ending("ok") BY <1>3 DEF End, Ending, TypeInv
  <2> QED BY <2>1, TypeEnds
<1>4. CASE WriteFile
  <2>1. pc' \in {"write", "stock result", "ended"} BY <1>4 DEF WriteFile
  <2> QED BY <1>4, <2>1, TypeCalm DEF WriteFile
<1>5. CASE StartRun BY <1>5, TypeCalm DEF StartRun, Raise
<1>6. CASE CallWithApiLog
  <2>1. /\ pc \in {"trade_cal", "cyq_chips", "daily"} /\ UNCHANGED <<commands, turn, endings, crashes>>
        /\ \E raised \in {None, "unavailable", "error"} :
             (raised # None => faults < MaxFaults) /\ faults' = faults + (IF raised = None THEN 0 ELSE 1)
    BY <1>6 DEF CallWithApiLog
  <2>2. faults' \in 0..MaxFaults
    <3>1. faults \in 0..MaxFaults /\ MaxFaults \in Nat BY PipelineAssumption DEF TypeInv, PipelineAssumption
    <3> QED BY <2>1, <3>1
  <2>3. \/ \E fault \in {"unavailable", "error"} : RaiseInRun(fault)
        \/ \E answer : Receive(pc, answer)
    BY <1>6 DEF CallWithApiLog
  <2>4. ASSUME NEW answer, Receive(pc, answer)
        PROVE  \/ error' = error /\ pc' \in {"stock", "daily", "factors"}
               \/ error' \in Errors /\ pc' = "finally"
    <3>1. CASE pc = "trade_cal" BY <2>4, <3>1 DEF Receive, RaiseInRun
    <3>2. CASE pc = "cyq_chips" BY <2>4, <3>2 DEF Receive
    <3>3. CASE pc = "daily" BY <2>4, <3>3 DEF Receive
    <3> QED BY <2>1, <3>1, <3>2, <3>3
  <2>5. \/ error' = error /\ pc' \in {"stock", "daily", "factors"}
        \/ error' \in Errors /\ pc' = "finally"
    BY <2>3, <2>4 DEF RaiseInRun
  <2>6. error = None BY <2>1 DEF TypeInv
  <2> QED BY <2>1, <2>2, <2>5, <2>6, TypeKept
<1>7. CASE StartStock BY <1>7, TypeCalm DEF StartStock, RaiseInRun
<1>8. CASE WriteLiveStock BY <1>8, TypeCalm DEF WriteLiveStock, WriteStock
<1>9. CASE WriteDryRunStock BY <1>9, TypeCalm DEF WriteDryRunStock, WriteStock, Raise
<1>10. CASE RestoreHandlers
  <2>1. faults' \in 0..MaxFaults BY <1>10 DEF RestoreHandlers, TypeInv
  <2> QED BY <1>10, <2>1, TypeKept DEF RestoreHandlers
<1>11. CASE FlushCacheWriter
  <2>1. /\ pc = "flush" /\ UNCHANGED <<commands, turn, endings, crashes>>
        /\ \E raised \in BOOLEAN :
             /\ (raised => faults < MaxFaults) /\ faults' = faults + (IF raised THEN 1 ELSE 0)
             /\ IF raised THEN error' = "error" /\ pc' = "raised"
                ELSE pc' = (IF error = None THEN "manifest" ELSE "raised") /\ error' = error
    BY <1>11 DEF FlushCacheWriter, Raise
  <2>2. faults' \in 0..MaxFaults
    <3>1. faults \in 0..MaxFaults /\ MaxFaults \in Nat BY PipelineAssumption DEF TypeInv, PipelineAssumption
    <3> QED BY <2>1, <3>1
  <2> QED BY <2>1, <2>2, TypeKept
<1>12. CASE WriteManifest BY <1>12, TypeCalm DEF WriteManifest
<1>13. CASE Evaluate BY <1>13, TypeCalm DEF Evaluate, Raise
<1>14. CASE StartBatch BY <1>14, TypeCalm DEF StartBatch, Raise
<1>15. CASE NextStock BY <1>15, TypeCalm DEF NextStock
<1>16. CASE StockCompleted BY <1>16, TypeCalm DEF StockCompleted, AddResult
<1>17. CASE HandleError
  <2>1. CASE MoreStocks /\ error \in {"SystemExit", "unavailable"}
    <3>1. pc' = "next stock" /\ error' = None /\ UNCHANGED <<commands, turn, endings, crashes, faults>>
      BY <1>17, <2>1 DEF HandleError, AddResult
    <3>2. faults' \in 0..MaxFaults BY <3>1 DEF TypeInv
    <3>3. pc = "raised" BY <1>17 DEF HandleError
    <3> QED BY <3>1, <3>2, <3>3, TypeKept
  <2>2. CASE ~(MoreStocks /\ error \in {"SystemExit", "unavailable"})
    <3>1. pc = "raised" /\ EndProcess(error) /\ UNCHANGED <<commands, faults, crashes>> BY <1>17, <2>2 DEF HandleError
    <3>2. Ending(error) /\ error \in Errors BY <3>1 DEF Ending, TypeInv
    <3> QED BY <3>1, <3>2, TypeEnds
  <2> QED BY <2>1, <2>2
<1>18. CASE Aggregate BY <1>18, TypeCalm DEF Aggregate, Raise
<1>19. CASE StartReview BY <1>19, TypeCalm DEF StartReview, Raise
<1>20. CASE AskExternalReviewer BY <1>20, TypeCalm DEF AskExternalReviewer
<1>21. CASE Crash
  <2>1. /\ pc # "command" /\ EndProcess("crash") /\ UNCHANGED <<commands, faults>>
        /\ crashes < MaxCrashes /\ crashes' = crashes + 1
    BY <1>21 DEF Crash
  <2>2. crashes' \in 0..MaxCrashes
    <3>1. crashes \in 0..MaxCrashes /\ MaxCrashes \in Nat BY PipelineAssumption DEF TypeInv, PipelineAssumption
    <3> QED BY <2>1, <3>1
  <2> QED BY <2>1, <2>2, TypeEnds DEF Ending
<1>22. Next => Begin \/ End \/ WriteFile \/ StartRun \/ CallWithApiLog \/ StartStock \/ WriteLiveStock
              \/ WriteDryRunStock \/ RestoreHandlers \/ FlushCacheWriter \/ WriteManifest \/ Evaluate
              \/ StartBatch \/ NextStock \/ StockCompleted \/ HandleError \/ Aggregate \/ StartReview
              \/ AskExternalReviewer \/ Crash \/ UNCHANGED vars
  BY DEF Next, Step, Done
<1> QED
  BY <1>1, <1>2, <1>3, <1>4, <1>5, <1>6, <1>7, <1>8, <1>9, <1>10, <1>11, <1>12, <1>13, <1>14, <1>15, <1>16,
     <1>17, <1>18, <1>19, <1>20, <1>21, <1>22

LEMMA TypeInvariant == Spec => []TypeInv
<1>1. Init => TypeInv
  <2> SUFFICES ASSUME Init PROVE TypeInv OBVIOUS
  <2>1. PICK case \in Cases : commands = case.commands BY DEF Init
  <2>2. Len(commands) \in Nat BY <2>1, PipelineAssumption DEF PipelineAssumption
  <2>3. MaxFaults \in Nat /\ MaxCrashes \in Nat BY PipelineAssumption DEF PipelineAssumption
  <2>4. turn = 1 /\ pc = "command" /\ error = None /\ faults = 0 /\ crashes = 0 /\ endings = <<>> BY DEF Init
  <2> QED BY <2>2, <2>3, <2>4, EmptyOwn DEF TypeInv
<1>2. IInv /\ TypeInv /\ [Next]_vars => TypeInv' BY TypeStep
<1> QED BY <1>1, <1>2, Invariant, PTL DEF Spec

LEMMA TypesOK == ASSUME IInv, TypeInv PROVE TypeOK
<1>1. turn \in 1..(Len(commands) + 1)
  <2>1. turn \in Nat \ {0} /\ Len(commands) \in Nat /\ turn <= Len(commands) + 1 BY DEF TypeInv, IInv, InputOK, ReviewOK
  <2> QED BY <2>1
<1>2. \A i \in DOMAIN todo : todo[i].path[1] \in dirs \/ todo[i].path[2] = "latest.json" BY DEF IInv, TodoOK
<1>3. ToSet(endings) \subseteq Errors \cup {"ok", "crash"} BY DEF TypeInv, ToSet
<1>4. pc \in Phases BY DEF IInv
<1> QED BY <1>1, <1>2, <1>3, <1>4 DEF TypeOK, TypeInv, Phases
-----------------------------------------------------------------------------
(* What a batch accounts for *)

EvaluationSummary(dir) == <<dir, "factor-evaluation-summary.json">>
EvaluationReport(dir) == <<dir, "factor-evaluation-report.md">>
EvaluationFiles(dir) == {EvaluationSummary(dir), EvaluationReport(dir)}

\* A completed result is about a finished run and a whole evaluation.
CompletedIn(tree, made, r) ==
  r.status = "completed" =>
    /\ RunManifest(r.runDir[2]) \in DOMAIN tree
    /\ r.evaluationDir[1] = "evaluation" /\ r.evaluationDir \in made
    /\ EvaluationSummary(r.evaluationDir) \in DOMAIN tree /\ EvaluationReport(r.evaluationDir) \in DOMAIN tree
    /\ r.observations = tree[EvaluationSummary(r.evaluationDir)].observations

\* Results are in the order of their stocks.
ResultsOf(tree, made, stocks, results) ==
  IsSeq(results) /\ \A i \in DOMAIN results : results[i].stock = stocks[i] /\ CompletedIn(tree, made, results[i])

\* The results of a summary are those of the stocks of its batch, as in the log.
SummaryIn(tree, made, id, results) ==
  LET stocks == tree[BatchConfig(id)]
  IN /\ StockLog(id) \in DOMAIN tree /\ tree[StockLog(id)] = results
     /\ IsSeq(stocks) /\ Len(results) = Len(stocks) /\ ResultsOf(tree, made, stocks, results)

\* The batch under way has a result for each stock before the one it is at, as in its log.
BatchIn(tree, made, b) ==
  /\ IsSeq(b.stocks) /\ b.stocks # <<>> /\ ResultsOf(tree, made, b.stocks, b.results)
  /\ b.item \in Nat \ {0} /\ Len(b.results) = b.item - 1 /\ b.item <= Len(b.stocks) + 1
  /\ BatchConfig(b.id) \in DOMAIN tree /\ tree[BatchConfig(b.id)] = b.stocks
  /\ StockLog(b.id) \in DOMAIN tree <=> b.results # <<>>
  /\ b.results # <<>> => tree[StockLog(b.id)] = b.results

BatchState == InBatch => Command.do = "batch" /\ batch.id = Command.id /\ BatchIn(files, dirs, batch)

SummariesOK ==
  \A id \in Batches : Written(BatchConfig(id)) =>
    /\ Written(Summary(id)) => SummaryIn(files, dirs, id, files[Summary(id)].results)
    /\ \A i \in DOMAIN todo : todo[i].path = Summary(id) => SummaryIn(files, dirs, id, todo[i].content.results)

Planned(path) == \E i \in DOMAIN todo : todo[i].path = path

\* Whatever is raised while a batch has stocks is about one of them, and it comes to its end only
\* with its summary.
BatchSteps ==
  InBatch =>
    /\ pc \notin {"command", "batch", "aggregate", "review", "external"}
    /\ pc \in RunPhases \cup {"run", "evaluate", "stock result", "raised"} => MoreStocks
    /\ pc = "evaluate" => Finished(run.id)
    /\ (pc = "write" /\ MoreStocks) \/ pc = "stock result" =>
         /\ Finished(run.id) /\ EvaluationDir(run.id, batch.id) \in dirs
         /\ \A p \in EvaluationFiles(EvaluationDir(run.id, batch.id)) : Written(p) \/ Planned(p)
    /\ pc = "write" /\ ~MoreStocks => Written(Summary(batch.id)) \/ Planned(Summary(batch.id))
    /\ pc = "ended" => Written(Summary(batch.id))

\* A batch is refused without stocks or when its id was given before.
Refused(i) == commands[i].stocks = <<>> \/ \E j \in 1..(i - 1) : commands[j].id = commands[i].id

NoBatchSteps ==
  ~InBatch =>
    /\ pc # "next stock"
    /\ pc = "batch" => Command.do = "batch"
    /\ pc \notin {"command", "batch"} /\ Command.do = "batch" => pc = "raised" /\ error = "SystemExit" /\ Refused(turn)

\* The directory of a batch is the work of a command, and no step but its first makes it.
BatchDirsOK ==
  \A d \in dirs : d[1] = "batch" =>
    \E j \in 1..turn : commands[j].id = d[2] /\ (pc \in {"command", "batch", "aggregate"} => j < turn)

BatchInv == BatchState /\ SummariesOK /\ BatchSteps /\ NoBatchSteps /\ BatchDirsOK /\ OneStockStopsNothing

LEMMA CompletedKept ==
  ASSUME TreeOK, TreeKept, NEW r, CompletedIn(files, dirs, r)
  PROVE  CompletedIn(files', dirs', r)
<1> SUFFICES ASSUME r.status = "completed" PROVE CompletedIn(files', dirs', r) BY DEF CompletedIn
<1> DEFINE dir == r.evaluationDir
           summary == EvaluationSummary(dir)
           report == EvaluationReport(dir)
<1>1. /\ RunManifest(r.runDir[2]) \in DOMAIN files /\ dir[1] = "evaluation" /\ dir \in dirs
      /\ summary \in DOMAIN files /\ report \in DOMAIN files /\ r.observations = files[summary].observations
  BY DEF CompletedIn
<1>2. summary[1] = dir /\ summary[2] \notin Logs BY DEF EvaluationSummary, Logs
<1> HIDE DEF summary, report, dir
<1>3. summary \in DOMAIN files' /\ files'[summary] = files[summary] BY <1>1, <1>2, FileKept
<1>4. RunManifest(r.runDir[2]) \in DOMAIN files' /\ report \in DOMAIN files' /\ dir \in dirs' BY <1>1 DEF TreeKept
<1> QED BY <1>1, <1>3, <1>4 DEF CompletedIn, summary, report, dir

LEMMA ResultsKept ==
  ASSUME TreeOK, TreeKept, NEW stocks, NEW results, ResultsOf(files, dirs, stocks, results)
  PROVE  ResultsOf(files', dirs', stocks, results)
BY CompletedKept DEF ResultsOf

LEMMA ConfigKept ==
  ASSUME TreeOK, TreeKept, NEW id, BatchConfig(id) \in DOMAIN files
  PROVE  BatchConfig(id) \in DOMAIN files' /\ files'[BatchConfig(id)] = files[BatchConfig(id)] /\ BatchDir(id) \in dirs /\ id \in Batches
<1> DEFINE p == BatchConfig(id)
<1>1. p[1] = BatchDir(id) /\ p[2] = "factor-batch-config.json" BY Paths
<1>2. BatchDir(id)[1] = "batch" /\ BatchDir(id)[2] = id BY Directories
<1> HIDE DEF p
<1>3. p \in DOMAIN files BY DEF p
<1>4. p[1] \in dirs BY <1>1, <1>3 DEF TreeOK
<1>5. p \in DOMAIN files' /\ files'[p] = files[p] BY <1>1, <1>3, <1>4, FileKept DEF Logs
<1>6. id \in Batches BY <1>1, <1>2, <1>4 DEF Batches
<1> QED BY <1>1, <1>4, <1>5, <1>6 DEF p

LEMMA SummaryKept ==
  ASSUME TreeOK, TreeKept, NEW id, NEW results, SummaryIn(files, dirs, id, results), BatchConfig(id) \in DOMAIN files,
         files'[StockLog(id)] = files[StockLog(id)]
  PROVE  SummaryIn(files', dirs', id, results)
<1>1. StockLog(id) \in DOMAIN files' BY DEF SummaryIn, TreeKept
<1>2. files'[BatchConfig(id)] = files[BatchConfig(id)] BY ConfigKept
<1> QED BY <1>1, <1>2, ResultsKept DEF SummaryIn

LEMMA BatchSame ==
  ASSUME TreeOK, TreeKept, NEW b, BatchIn(files, dirs, b), StockLog(b.id) \in DOMAIN files' => StockLog(b.id) \in DOMAIN files,
         files'[StockLog(b.id)] = files[StockLog(b.id)]
  PROVE  BatchIn(files', dirs', b)
<1>1. StockLog(b.id) \in DOMAIN files => StockLog(b.id) \in DOMAIN files' BY DEF TreeKept
<1>2. /\ BatchConfig(b.id) \in DOMAIN files /\ BatchConfig(b.id) \in DOMAIN files'
      /\ files'[BatchConfig(b.id)] = files[BatchConfig(b.id)]
  BY ConfigKept DEF BatchIn
<1>3. ResultsOf(files', dirs', b.stocks, b.results) BY ResultsKept DEF BatchIn
<1> QED BY <1>1, <1>2, <1>3 DEF BatchIn

\* Steps that write no file of a batch.
BatchNames == {"factor-batch-config.json", "factor-batch-summary.json", "stock-results.jsonl"}
QuietTree == \A p \in DOMAIN files' : p[2] \in BatchNames => p \in DOMAIN files /\ files'[p] = files[p]

LEMMA QuietPaths ==
  ASSUME QuietTree, TreeKept, NEW id
  PROVE  /\ BatchConfig(id) \in DOMAIN files' => BatchConfig(id) \in DOMAIN files
         /\ Summary(id) \in DOMAIN files' => Summary(id) \in DOMAIN files /\ files'[Summary(id)] = files[Summary(id)]
         /\ StockLog(id) \in DOMAIN files' => StockLog(id) \in DOMAIN files /\ files'[StockLog(id)] = files[StockLog(id)]
<1>1. BatchConfig(id)[2] \in BatchNames /\ Summary(id)[2] \in BatchNames /\ StockLog(id)[2] \in BatchNames
  BY Paths DEF BatchNames
<1> QED BY <1>1 DEF QuietTree

LEMMA QuietSummaries ==
  ASSUME IInv, TreeKept, SummariesOK, QuietTree,
         \A i \in DOMAIN todo' : todo'[i].path[2] # "factor-batch-summary.json" \/ \E j \in DOMAIN todo : todo[j] = todo'[i]
  PROVE  SummariesOK'
<1> SUFFICES ASSUME NEW id \in Batches', BatchConfig(id) \in DOMAIN files'
             PROVE  /\ Summary(id) \in DOMAIN files' => SummaryIn(files', dirs', id, files'[Summary(id)].results)
                    /\ \A i \in DOMAIN todo' : todo'[i].path = Summary(id) => SummaryIn(files', dirs', id, todo'[i].content.results)
  BY DEF SummariesOK, Written
<1>1. TreeOK BY DEF IInv
<1>2. BatchConfig(id) \in DOMAIN files BY QuietPaths
<1>3. id \in Batches BY <1>1, <1>2, ConfigKept
<1>4. ASSUME NEW results, SummaryIn(files, dirs, id, results) PROVE SummaryIn(files', dirs', id, results)
  <2>1. StockLog(id) \in DOMAIN files' BY <1>4 DEF SummaryIn, TreeKept
  <2>2. files'[StockLog(id)] = files[StockLog(id)] BY <2>1, QuietPaths
  <2> QED BY <1>1, <1>2, <1>4, <2>2, SummaryKept
<1>5. ASSUME Summary(id) \in DOMAIN files' PROVE SummaryIn(files', dirs', id, files'[Summary(id)].results)
  <2>1. Summary(id) \in DOMAIN files /\ files'[Summary(id)] = files[Summary(id)] BY <1>5, QuietPaths
  <2>2. SummaryIn(files, dirs, id, files[Summary(id)].results) BY <1>2, <1>3, <2>1 DEF SummariesOK, Written
  <2> QED BY <1>4, <2>1, <2>2
<1>6. ASSUME NEW i \in DOMAIN todo', todo'[i].path = Summary(id) PROVE SummaryIn(files', dirs', id, todo'[i].content.results)
  <2>1. Summary(id)[2] = "factor-batch-summary.json" BY Paths
  <2>2. PICK j \in DOMAIN todo : todo[j] = todo'[i] BY <1>6, <2>1
  <2>3. SummaryIn(files, dirs, id, todo[j].content.results) BY <1>2, <1>3, <1>6, <2>2 DEF SummariesOK, Written
  <2> QED BY <1>4, <2>2, <2>3
<1> QED BY <1>5, <1>6

LEMMA QuietState ==
  ASSUME IInv, TreeKept, BatchState, QuietTree, UNCHANGED <<commands, turn, batch>>
  PROVE  BatchState'
<1> SUFFICES ASSUME InBatch PROVE Command'.do = "batch" /\ batch.id = Command'.id /\ BatchIn(files', dirs', batch)
  BY DEF BatchState, InBatch
<1>1. Command' = Command BY DEF Command
<1>2. BatchIn(files, dirs, batch) /\ TreeOK BY DEF BatchState, IInv
<1>3. StockLog(batch.id) \in DOMAIN files => StockLog(batch.id) \in DOMAIN files' BY DEF TreeKept
<1>4. CASE StockLog(batch.id) \in DOMAIN files'
  <2>1. StockLog(batch.id) \in DOMAIN files /\ files'[StockLog(batch.id)] = files[StockLog(batch.id)] BY <1>4, QuietPaths
  <2>2. BatchIn(files', dirs', batch) BY <1>2, <2>1, BatchSame
  <2> QED BY <1>1, <2>2 DEF BatchState
<1>5. CASE StockLog(batch.id) \notin DOMAIN files'
  <2>1. batch.results = <<>> BY <1>2, <1>3, <1>5 DEF BatchIn
  <2>2. /\ BatchConfig(batch.id) \in DOMAIN files' /\ files'[BatchConfig(batch.id)] = files[BatchConfig(batch.id)]
    BY <1>2, ConfigKept DEF BatchIn
  <2>3. ResultsOf(files', dirs', batch.stocks, batch.results) BY <1>2, ResultsKept DEF BatchIn
  <2>4. BatchIn(files', dirs', batch) BY <1>2, <1>5, <2>1, <2>2, <2>3 DEF BatchIn
  <2> QED BY <1>1, <2>4 DEF BatchState
<1> QED BY <1>4, <1>5

LEMMA EndingsKept ==
  ASSUME TreeKept, OneStockStopsNothing, UNCHANGED <<commands, endings>>
  PROVE  OneStockStopsNothing'
BY DEF OneStockStopsNothing, TreeKept, Written

LEMMA BatchDirsKept ==
  ASSUME BatchDirsOK, UNCHANGED <<commands, turn>>, \A d \in dirs' \ dirs : d[1] # "batch", pc' \notin {"command", "batch", "aggregate"}
  PROVE  BatchDirsOK'
BY DEF BatchDirsOK

\* Steps of a command that leave the files of batches alone.
LEMMA QuietStep ==
  ASSUME IInv, TreeKept, BatchInv, QuietTree, UNCHANGED <<commands, turn, batch, endings>>,
         \A d \in dirs' \ dirs : d[1] # "batch", pc' \notin {"command", "batch", "aggregate"},
         \A i \in DOMAIN todo' : todo'[i].path[2] # "factor-batch-summary.json" \/ \E j \in DOMAIN todo : todo[j] = todo'[i],
         BatchSteps', NoBatchSteps'
  PROVE  BatchInv'
BY QuietSummaries, QuietState, EndingsKept, BatchDirsKept DEF BatchInv

\* A batch is not left by the steps of a run.
LEMMA QuietRun ==
  ASSUME IInv, TreeKept, BatchInv, QuietTree, UNCHANGED <<commands, turn, batch, endings, todo>>,
         \A d \in dirs' \ dirs : d[1] # "batch", pc \in RunPhases \cup {"run"}, pc' \in RunPhases \cup {"raised"}
  PROVE  BatchInv'
<1>1. pc' \notin {"command", "batch", "aggregate"} BY DEF RunPhases, LiveRun
<1>2. BatchSteps'
  <2>1. InBatch => MoreStocks BY DEF BatchInv, BatchSteps
  <2>2. InBatch' = InBatch /\ MoreStocks' = MoreStocks BY DEF InBatch, MoreStocks
  <2>3. pc' \notin {"command", "batch", "aggregate", "review", "external", "evaluate", "write", "ended", "stock result"}
    BY DEF RunPhases, LiveRun
  <2> QED BY <2>1, <2>2, <2>3 DEF BatchSteps
<1>3. NoBatchSteps'
  <2>1. pc \notin {"command", "batch", "raised"} BY DEF RunPhases, LiveRun
  <2>2. ~InBatch => Command.do # "batch" BY <2>1 DEF BatchInv, NoBatchSteps
  <2>3. InBatch' = InBatch /\ Command' = Command BY DEF InBatch, Command
  <2>4. pc' \notin {"next stock", "batch"} BY DEF RunPhases, LiveRun
  <2> QED BY <2>2, <2>3, <2>4 DEF NoBatchSteps
<1> QED BY <1>1, <1>2, <1>3, QuietStep

LEMMA BatchBegins == ASSUME IInv, TypeInv, TreeKept, BatchInv, Begin PROVE BatchInv'
<1>0. /\ pc = "command" /\ UNCHANGED <<commands, turn, batch, endings, files, dirs, todo>> /\ pc' = Command.do
      /\ turn \in DOMAIN commands
  BY DEF Begin, Inputs, Tree, History, IInv, InputOK, ReviewOK
<1>1. Command.do \in {"run", "evaluate", "batch", "aggregate", "review"} BY <1>0 DEF IInv, InputOK, Command
<1>2. QuietTree BY <1>0 DEF QuietTree
<1>3. ~InBatch /\ ~InBatch' BY <1>0 DEF BatchInv, BatchSteps, InBatch
<1>4. SummariesOK' BY <1>0, <1>2, QuietSummaries DEF BatchInv
<1>5. BatchState' BY <1>3 DEF BatchState
<1>6. BatchSteps' BY <1>3 DEF BatchSteps
<1>7. Command' = Command BY <1>0 DEF Command
<1>8. NoBatchSteps' BY <1>0, <1>1, <1>7 DEF NoBatchSteps
<1>9. BatchDirsOK' BY <1>0 DEF BatchInv, BatchDirsOK
<1>10. OneStockStopsNothing' BY <1>0, EndingsKept DEF BatchInv
<1> QED BY <1>4, <1>5, <1>6, <1>8, <1>9, <1>10 DEF BatchInv

\* A command that ends, and how.
LEMMA BatchEnds ==
  ASSUME IInv, TypeInv, TreeKept, BatchInv, pc # "command", NEW how, EndProcess(how), UNCHANGED <<commands, files, dirs>>,
         commands[turn].do = "batch" =>
           /\ how # "unavailable"
           /\ how = "ok" => Written(Summary(commands[turn].id))
           /\ how = "SystemExit" => Refused(turn)
  PROVE  BatchInv'
<1>0. /\ endings' = Append(endings, how) /\ turn' = turn + 1 /\ pc' = "command" /\ batch' = NoBatch /\ DOMAIN todo' = {}
  BY DEF EndProcess
<1>1. turn \in Nat \ {0} BY DEF IInv, ReviewOK
<1>2. QuietTree BY DEF QuietTree
<1>3. ~InBatch' BY <1>0 DEF InBatch
<1>4. SummariesOK'
  <2>1. \A i \in DOMAIN todo' : todo'[i].path[2] # "factor-batch-summary.json" \/ \E j \in DOMAIN todo : todo[j] = todo'[i]
    BY <1>0
  <2> QED BY <1>2, <2>1, QuietSummaries DEF BatchInv
<1>5. BatchState' /\ BatchSteps' BY <1>3 DEF BatchState, BatchSteps
<1>6. NoBatchSteps' BY <1>0 DEF NoBatchSteps
<1>7. BatchDirsOK'
  <2> SUFFICES ASSUME NEW d \in dirs, d[1] = "batch" PROVE \E j \in 1..(turn + 1) : commands[j].id = d[2] /\ j < turn + 1
    BY <1>0 DEF BatchDirsOK
  <2>1. PICK j \in 1..turn : commands[j].id = d[2] BY DEF BatchInv, BatchDirsOK
  <2>2. j \in 1..(turn + 1) /\ j < turn + 1 BY <1>1, <2>1
  <2> QED BY <2>1, <2>2
<1>8. OneStockStopsNothing'
  <2> SUFFICES ASSUME NEW i \in DOMAIN endings', commands[i].do = "batch"
               PROVE  /\ endings'[i] # "unavailable"
                      /\ endings'[i] = "ok" => Written(Summary(commands[i].id))
                      /\ endings'[i] = "SystemExit" => Refused(i)
    BY DEF OneStockStopsNothing, Written, Refused
  <2>1. (i \in DOMAIN endings /\ endings'[i] = endings[i]) \/ (i = turn /\ endings'[i] = how)
    <3>1. PICK all, now : all = endings /\ now = turn OBVIOUS
    <3>2. IsSeq(all) /\ Len(all) = now - 1 /\ now \in Nat \ {0} BY <1>1, <3>1 DEF TypeInv
    <3>3. now <= now /\ now + 1 = now + 1 BY <3>2
    <3>4. \A k \in DOMAIN Append(all, how) :
             (k \in DOMAIN all /\ Append(all, how)[k] = all[k]) \/ (k = now /\ Append(all, how)[k] = how)
      BY ZenonT(30), <3>2, <3>3, AppendAt
    <3> QED BY <1>0, <3>1, <3>4
  <2>2. CASE i \in DOMAIN endings /\ endings'[i] = endings[i] BY <2>2 DEF BatchInv, OneStockStopsNothing, Refused
  <2>3. CASE i = turn /\ endings'[i] = how BY <2>3
  <2> QED BY <2>1, <2>2, <2>3
<1> QED BY <1>4, <1>5, <1>6, <1>7, <1>8 DEF BatchInv

LEMMA BatchFinishes == ASSUME IInv, TypeInv, TreeKept, BatchInv, End PROVE BatchInv'
<1>1. pc = "ended" /\ EndProcess("ok") /\ UNCHANGED <<commands, files, dirs>> BY DEF End, Inputs, Tree
<1>2. Command.do = "batch" => Written(Summary(Command.id))
  <2>1. CASE InBatch BY <1>1, <2>1 DEF BatchInv, BatchSteps, BatchState
  <2>2. CASE ~InBatch BY <1>1, <2>2 DEF BatchInv, NoBatchSteps
  <2> QED BY <2>1, <2>2
<1> QED BY <1>1, <1>2, BatchEnds DEF Command

LEMMA BatchCrashes == ASSUME IInv, TypeInv, TreeKept, BatchInv, Crash PROVE BatchInv'
BY BatchEnds DEF Crash, Inputs, Tree

\* The files of an evaluation or of a summary, one after the other.
LEMMA BatchWritesFile == ASSUME IInv, TypeInv, RunInv, TreeKept, BatchInv, WriteFile PROVE BatchInv'
<1> DEFINE path == todo[1].path
           content == todo[1].content
<1>0. /\ pc = "write" /\ todo # <<>> /\ IsSeq(todo) /\ todo' = Tail(todo)
      /\ files' = WrittenOver(OneFile(path, content), files)
      /\ pc' = (IF Len(todo) > 1 THEN "write" ELSE IF MoreStocks THEN "stock result" ELSE "ended")
      /\ UNCHANGED <<commands, turn, batch, endings, dirs, run>>
  BY DEF WriteFile, Inputs, Locals, History, IInv, TodoOK, IsSeq
<1>1. /\ Len(todo) \in Nat /\ Len(todo) # 0 /\ DOMAIN todo = 1..Len(todo) /\ DOMAIN todo' = 1..(Len(todo) - 1)
      /\ \A i \in DOMAIN todo' : i + 1 \in DOMAIN todo /\ todo'[i] = todo[i + 1]
  <2>1. /\ DOMAIN Tail(todo) = 1..(Len(todo) - 1) /\ DOMAIN todo = 1..Len(todo) /\ Len(todo) \in Nat
        /\ \A i \in DOMAIN Tail(todo) : i + 1 \in DOMAIN todo /\ Tail(todo)[i] = todo[i + 1]
    BY <1>0, TailOwn
  <2>2. Len(todo) # 0 BY <1>0, SeqShape
  <2> QED BY <1>0, <2>1, <2>2
<1>2. 1 \in DOMAIN todo /\ path[2] \in PlanNames BY <1>1 DEF RunInv, PlanOK
<1>3. \A i \in DOMAIN todo : todo[i] = todo[1] \/ \E j \in DOMAIN todo' : todo'[j] = todo[i]
  <2> SUFFICES ASSUME NEW i \in DOMAIN todo, i # 1 PROVE \E j \in DOMAIN todo' : todo'[j] = todo[i] OBVIOUS
  <2>1. i - 1 \in DOMAIN todo' /\ (i - 1) + 1 = i BY <1>1
  <2> QED BY <1>1, <2>1
<1>4. \A j \in DOMAIN todo' : \E i \in DOMAIN todo : todo[i] = todo'[j] BY <1>1
<1>5. /\ DOMAIN files' = DOMAIN files \cup {path} /\ files'[path] = content
      /\ \A p \in DOMAIN files : p # path => files'[p] = files[p]
  <2> HIDE DEF path, content
  <2> QED BY <1>0 DEF WrittenOver, OneFile
<1>6. path[2] \notin {"factor-batch-config.json", "stock-results.jsonl"} BY <1>2 DEF PlanNames
<1> HIDE DEF content
<1>7. SummariesOK'
  <2> SUFFICES ASSUME NEW id \in Batches', BatchConfig(id) \in DOMAIN files'
               PROVE  /\ Summary(id) \in DOMAIN files' => SummaryIn(files', dirs', id, files'[Summary(id)].results)
                      /\ \A i \in DOMAIN todo' : todo'[i].path = Summary(id) => SummaryIn(files', dirs', id, todo'[i].content.results)
    BY DEF SummariesOK, Written
  <2>1. BatchConfig(id)[2] = "factor-batch-config.json" /\ StockLog(id)[2] = "stock-results.jsonl" BY Paths
  <2>2. BatchConfig(id) \in DOMAIN files
    <3> HIDE DEF path
    <3> QED BY <1>5, <1>6, <2>1
  <2>3. TreeOK BY DEF IInv
  <2>4. id \in Batches BY <2>2, <2>3, ConfigKept
  <2>5. ASSUME NEW results, SummaryIn(files, dirs, id, results) PROVE SummaryIn(files', dirs', id, results)
    <3>1. StockLog(id) \in DOMAIN files BY <2>5 DEF SummaryIn
    <3>2. files'[StockLog(id)] = files[StockLog(id)]
      <4> HIDE DEF path
      <4> QED BY <1>5, <1>6, <2>1, <3>1
    <3> QED BY <2>2, <2>3, <2>5, <3>2, SummaryKept
  <2>6. \A i \in DOMAIN todo : todo[i].path = Summary(id) => SummaryIn(files', dirs', id, todo[i].content.results)
    BY <2>2, <2>4, <2>5 DEF BatchInv, SummariesOK, Written
  <2>7. \A i \in DOMAIN todo' : todo'[i].path = Summary(id) => SummaryIn(files', dirs', id, todo'[i].content.results)
    BY <1>4, <2>6
  <2>8. ASSUME Summary(id) \in DOMAIN files' PROVE SummaryIn(files', dirs', id, files'[Summary(id)].results)
    <3>1. CASE path = Summary(id)
      <4>1. SummaryIn(files', dirs', id, content.results) BY <1>2, <2>6, <3>1 DEF content
      <4>2. files'[Summary(id)] = content BY <1>5, <3>1
      <4> QED BY <4>1, <4>2
    <3>2. CASE path # Summary(id)
      <4>1. Summary(id) \in DOMAIN files /\ files'[Summary(id)] = files[Summary(id)]
        <5> HIDE DEF path
        <5> QED BY <1>5, <2>8, <3>2
      <4>2. SummaryIn(files, dirs, id, files[Summary(id)].results) BY <2>2, <2>4, <4>1 DEF BatchInv, SummariesOK, Written
      <4> QED BY <2>5, <4>1, <4>2
    <3> QED BY <3>1, <3>2
  <2> QED BY <2>7, <2>8
<1>8. BatchState'
  <2> SUFFICES ASSUME InBatch PROVE Command.do = "batch" /\ batch.id = Command.id /\ BatchIn(files', dirs', batch)
    BY <1>0 DEF BatchState, InBatch, Command
  <2>1. Command.do = "batch" /\ batch.id = Command.id /\ BatchIn(files, dirs, batch) BY DEF BatchInv, BatchState
  <2>2. StockLog(batch.id)[2] = "stock-results.jsonl" BY Paths
  <2>3. StockLog(batch.id) \in DOMAIN files' => StockLog(batch.id) \in DOMAIN files
    <3> HIDE DEF path
    <3> QED BY <1>5, <1>6, <2>2
  <2>4. CASE StockLog(batch.id) \in DOMAIN files
    <3>1. files'[StockLog(batch.id)] = files[StockLog(batch.id)]
      <4> HIDE DEF path
      <4> QED BY <1>5, <1>6, <2>2, <2>4
    <3> QED BY <2>1, <2>3, <3>1, BatchSame DEF IInv
  <2>5. CASE StockLog(batch.id) \notin DOMAIN files
    <3>1. batch.results = <<>> BY <2>1, <2>5 DEF BatchIn
    <3>2. /\ BatchConfig(batch.id) \in DOMAIN files' /\ files'[BatchConfig(batch.id)] = files[BatchConfig(batch.id)]
      BY <2>1, ConfigKept DEF BatchIn, IInv
    <3>3. ResultsOf(files', dirs', batch.stocks, batch.results) BY <2>1, ResultsKept DEF BatchIn, IInv
    <3> QED BY <2>1, <2>3, <2>5, <3>1, <3>2, <3>3 DEF BatchIn
  <2> QED BY <2>4, <2>5
<1>9. \A p : (p \in DOMAIN files \/ Planned(p)) => (p \in DOMAIN files' \/ \E j \in DOMAIN todo' : todo'[j].path = p)
  <2> SUFFICES ASSUME NEW p, Planned(p), p # path PROVE \E j \in DOMAIN todo' : todo'[j].path = p
    BY <1>5
  <2>1. PICK i \in DOMAIN todo : todo[i].path = p BY DEF Planned
  <2>2. todo[i] # todo[1] BY <2>1
  <2> QED BY <1>3, <2>1, <2>2
<1>10. ASSUME pc' # "write", NEW j \in DOMAIN todo' PROVE FALSE
  <2>1. PICK n \in Nat : n = Len(todo) BY <1>1
  <2>2. ~(n > 1) /\ n # 0 BY <1>0, <1>1, <1>10, <2>1
  <2>3. n = 1 BY <2>1, <2>2
  <2>4. DOMAIN todo' = 1..(n - 1) BY <1>1, <2>1
  <2>5. DOMAIN todo' = {} BY <2>3, <2>4
  <2> QED BY <1>10, <2>5
<1>11. BatchSteps'
  <2> SUFFICES ASSUME InBatch
               PROVE  /\ pc' \in {"write", "stock result", "ended"} /\ (pc' = "stock result" => MoreStocks)
                      /\ (pc' = "write" /\ MoreStocks) \/ pc' = "stock result" =>
                           /\ RunManifest(run.id) \in DOMAIN files' /\ EvaluationDir(run.id, batch.id) \in dirs'
                           /\ \A p \in EvaluationFiles(EvaluationDir(run.id, batch.id)) :
                                p \in DOMAIN files' \/ \E j \in DOMAIN todo' : todo'[j].path = p
                      /\ pc' = "write" /\ ~MoreStocks =>
                           Summary(batch.id) \in DOMAIN files' \/ \E j \in DOMAIN todo' : todo'[j].path = Summary(batch.id)
                      /\ pc' = "ended" => Summary(batch.id) \in DOMAIN files'
    BY <1>0 DEF BatchSteps, InBatch, MoreStocks, Finished, Written, Planned, RunPhases, LiveRun
  <2>1. pc' \in {"write", "stock result", "ended"} /\ (pc' = "stock result" => MoreStocks) /\ (pc' = "ended" => ~MoreStocks)
    BY <1>0
  <2>2. CASE MoreStocks
    <3>1. /\ RunManifest(run.id) \in DOMAIN files /\ EvaluationDir(run.id, batch.id) \in dirs
          /\ \A p \in EvaluationFiles(EvaluationDir(run.id, batch.id)) : p \in DOMAIN files \/ Planned(p)
      BY <1>0, <2>2 DEF BatchInv, BatchSteps, Finished, Written
    <3>2. RunManifest(run.id) \in DOMAIN files' BY <1>5, <3>1
    <3> QED BY <1>0, <1>9, <2>1, <2>2, <3>1, <3>2
  <2>3. CASE ~MoreStocks
    <3>1. Summary(batch.id) \in DOMAIN files \/ Planned(Summary(batch.id)) BY <1>0, <2>3 DEF BatchInv, BatchSteps, Written
    <3>2. Summary(batch.id) \in DOMAIN files' \/ \E j \in DOMAIN todo' : todo'[j].path = Summary(batch.id) BY <1>9, <3>1
    <3>3. pc' = "ended" => Summary(batch.id) \in DOMAIN files' BY <1>10, <3>2
    <3> QED BY <2>1, <2>3, <3>2, <3>3
  <2> QED BY <2>2, <2>3
<1>12. NoBatchSteps'
  <2>1. ~InBatch => Command.do # "batch" BY <1>0 DEF BatchInv, NoBatchSteps
  <2>2. InBatch' = InBatch /\ Command' = Command BY <1>0 DEF InBatch, Command
  <2>3. pc' \in {"write", "stock result", "ended"} BY <1>0
  <2> QED BY <2>1, <2>2, <2>3 DEF NoBatchSteps
<1>13. BatchDirsOK'
  <2>1. pc' \in {"write", "stock result", "ended"} BY <1>0
  <2> QED BY <1>0, <2>1, BatchDirsKept DEF BatchInv
<1>14. OneStockStopsNothing' BY <1>0, EndingsKept DEF BatchInv
<1> QED BY <1>7, <1>8, <1>11, <1>12, <1>13, <1>14 DEF BatchInv

\* A file that is not one of a batch.
LEMMA QuietWrite ==
  ASSUME NEW new, files' = WrittenOver(new, files), \A p \in DOMAIN new : p[2] \notin BatchNames
  PROVE  QuietTree
<1> DEFINE after == WrittenOver(new, files)
<1>1. DOMAIN after = DOMAIN new \cup DOMAIN files /\ \A p \in DOMAIN files \ DOMAIN new : after[p] = files[p]
  BY OverShape
<1>2. files' = after OBVIOUS
<1> HIDE DEF after
<1> QED BY <1>1, <1>2 DEF QuietTree

LEMMA BatchStartsRun == ASSUME IInv, TypeInv, TreeKept, BatchInv, StartRun PROVE BatchInv'
<1>0. pc = "run" /\ UNCHANGED <<commands, turn, batch, endings, todo>> BY DEF StartRun, Inputs, History
<1>1. CASE run.stocks = <<>> \/ RunDir(run.id) \in dirs
  <2>1. pc' = "raised" /\ UNCHANGED <<files, dirs>> BY <1>1 DEF StartRun, Raise, Tree
  <2>2. QuietTree BY <2>1 DEF QuietTree
  <2> QED BY <1>0, <2>1, <2>2, QuietRun
<1>2. CASE ~(run.stocks = <<>> \/ RunDir(run.id) \in dirs)
  <2> DEFINE config == OneFile(RunConfig(run.id), [stocks |-> run.stocks, dry |-> run.dry])
             log == OneFile(CallLog(run.id), <<>>)
  <2>1. /\ dirs' = dirs \cup {RunDir(run.id)} /\ files' = WrittenOver(config, WrittenOver(log, files))
        /\ pc' \in {"trade_cal", "dry stock", "raised"}
    BY <1>2 DEF StartRun, Raise
  <2>2. /\ \A p \in DOMAIN config : p[2] \notin BatchNames
        /\ \A p \in DOMAIN log : p[2] \notin BatchNames
    <3>1. DOMAIN config = {RunConfig(run.id)} /\ DOMAIN log = {CallLog(run.id)} BY FileShape
    <3>2. RunConfig(run.id)[2] \notin BatchNames /\ CallLog(run.id)[2] \notin BatchNames BY Paths DEF BatchNames
    <3> QED BY <3>1, <3>2
  <2> HIDE DEF config, log
  <2>3. QuietTree
    <3> DEFINE with == WrittenOver(log, files)
    <3>1. DOMAIN with = DOMAIN log \cup DOMAIN files /\ \A p \in DOMAIN files \ DOMAIN log : with[p] = files[p] BY OverShape
    <3> HIDE DEF with
    <3> DEFINE after == WrittenOver(config, with)
    <3>2. DOMAIN after = DOMAIN config \cup DOMAIN with /\ \A p \in DOMAIN with \ DOMAIN config : after[p] = with[p]
      BY OverShape
    <3>3. files' = after BY <2>1 DEF with
    <3> HIDE DEF after
    <3> QED BY <2>2, <3>1, <3>2, <3>3 DEF QuietTree
  <2>4. \A d \in dirs' \ dirs : d[1] # "batch" BY <2>1, Directories
  <2> QED BY <1>0, <2>1, <2>3, <2>4, QuietRun DEF RunPhases, LiveRun
<1> QED BY <1>1, <1>2

LEMMA BatchCalls == ASSUME IInv, TypeInv, TreeKept, BatchInv, CallWithApiLog PROVE BatchInv'
<1> DEFINE log == CallLog(run.id)
<1>0. /\ pc \in {"trade_cal", "cyq_chips", "daily"} /\ UNCHANGED <<commands, turn, batch, todo, dirs, endings>>
      /\ \E row : files' = [files EXCEPT ![log] = Append(@, row)]
  BY DEF CallWithApiLog, Inputs
<1>1. pc' \in {"finally", "stock", "daily", "factors"}
  <2>1. \/ \E fault \in {"unavailable", "error"} : RaiseInRun(fault)
        \/ \E answer : Receive(pc, answer)
    BY DEF CallWithApiLog
  <2>2. ASSUME NEW answer, Receive(pc, answer) PROVE pc' \in {"finally", "stock", "daily", "factors"}
    <3>1. CASE pc = "trade_cal" BY <2>2, <3>1 DEF Receive, RaiseInRun
    <3>2. CASE pc = "cyq_chips" BY <2>2, <3>2 DEF Receive
    <3>3. CASE pc = "daily" BY <2>2, <3>3 DEF Receive
    <3> QED BY <1>0, <3>1, <3>2, <3>3
  <2> QED BY <2>1, <2>2 DEF RaiseInRun
<1>2. log[2] \notin BatchNames BY Paths DEF BatchNames
<1>3. QuietTree
  <2> HIDE DEF log
  <2> QED BY <1>0, <1>2 DEF QuietTree
<1> QED BY <1>0, <1>1, <1>3, QuietRun DEF RunPhases, LiveRun

LEMMA BatchStartsStock == ASSUME IInv, TypeInv, TreeKept, BatchInv, StartStock PROVE BatchInv'
<1>1. /\ pc = "stock" /\ UNCHANGED <<commands, turn, batch, todo, files, endings>>
      /\ pc' \in {"finally", "cyq_chips"} /\ dirs' \in {dirs, dirs \cup {StockDir(run.id, Stock)}}
  BY DEF StartStock, RaiseInRun, Inputs, History, Locals
<1>2. \A d \in dirs' \ dirs : d[1] # "batch" BY <1>1, StockDirectories
<1>3. QuietTree BY <1>1 DEF QuietTree
<1> QED BY <1>1, <1>2, <1>3, QuietRun DEF RunPhases, LiveRun

LEMMA BatchWritesStock ==
  ASSUME IInv, TypeInv, TreeKept, BatchInv, NEW snapshots, NEW next, NEW failed, WriteStock(snapshots, next, failed),
         UNCHANGED <<commands, turn, batch, todo, endings>>, pc \in {"factors", "dry stock"},
         next \in {"stock", "dry stock"}, failed \in {"finally", "raised"}, \A d \in dirs' \ dirs : d[1] # "batch"
  PROVE  BatchInv'
<1> DEFINE rows == StockRows(snapshots, run.days, run.outputDays)
           dir == StockDir(run.id, Stock)
<1>1. /\ pc' \in {next, failed}
      /\ files' = WrittenOver(In(dir, rows), files) \/ files' = WrittenOver(In(dir, StockFiles(rows)), files)
  BY DEF WriteStock
<1>2. DOMAIN rows \subseteq StockNames BY RowNames DEF StockNames
<1>3. DOMAIN StockFiles(rows) \subseteq StockNames
  <2> HIDE DEF rows
  <2> QED BY <1>2 DEF StockFiles, WrittenOver, OneFile, StockNames
<1>4. StockNames \cap BatchNames = {} BY DEF StockNames, BatchNames
<1>5. QuietTree
  <2>1. ASSUME NEW contents, DOMAIN contents \subseteq StockNames, files' = WrittenOver(In(dir, contents), files) PROVE QuietTree
    <3> DEFINE new == In(dir, contents)
    <3>1. \A p \in DOMAIN new : p[2] \notin BatchNames BY <1>4, <2>1, InNames
    <3> HIDE DEF new
    <3>2. files' = WrittenOver(new, files) BY <2>1 DEF new
    <3> QED BY <3>1, <3>2, QuietWrite
  <2> QED BY <1>1, <1>2, <1>3, <2>1
<1> QED BY <1>1, <1>5, QuietRun DEF RunPhases, LiveRun

LEMMA BatchLiveStock == ASSUME IInv, TypeInv, TreeKept, BatchInv, WriteLiveStock PROVE BatchInv'
<1>1. /\ pc = "factors" /\ WriteStock(run.snapshots, "stock", "finally")
      /\ UNCHANGED <<commands, turn, batch, todo, endings, dirs>>
  BY DEF WriteLiveStock, Inputs, History
<1> QED BY <1>1, BatchWritesStock

LEMMA BatchDryStock == ASSUME IInv, TypeInv, TreeKept, BatchInv, WriteDryRunStock PROVE BatchInv'
<1>0. pc = "dry stock" /\ UNCHANGED <<commands, turn, batch, todo, endings>> BY DEF WriteDryRunStock, Inputs, History
<1>1. CASE pc' \in {"manifest", "raised"} /\ UNCHANGED <<files, dirs>>
  <2>1. QuietTree BY <1>1 DEF QuietTree
  <2> QED BY <1>0, <1>1, <2>1, QuietRun DEF RunPhases, LiveRun
<1>2. CASE /\ dirs' = dirs \cup {StockDir(run.id, Stock)}
           /\ \E snapshots : WriteStock(snapshots, "dry stock", "raised")
  <2>1. dirs' = dirs \cup {StockDir(run.id, Stock)} BY <1>2
  <2>2. \A d \in dirs' \ dirs : d[1] # "batch" BY <2>1, StockDirectories
  <2> QED BY <1>0, <1>2, <2>2, BatchWritesStock
<1> QED BY <1>1, <1>2 DEF WriteDryRunStock, Raise, Tree

LEMMA BatchRestores == ASSUME IInv, TypeInv, TreeKept, BatchInv, RestoreHandlers PROVE BatchInv'
<1>1. pc = "finally" /\ pc' = "flush" /\ UNCHANGED <<commands, turn, batch, todo, endings, files, dirs>>
  BY DEF RestoreHandlers, Inputs, History, Tree, Locals
<1>2. QuietTree BY <1>1 DEF QuietTree
<1> QED BY <1>1, <1>2, QuietRun DEF RunPhases, LiveRun

LEMMA BatchFlushes == ASSUME IInv, TypeInv, TreeKept, BatchInv, FlushCacheWriter PROVE BatchInv'
<1>1. pc = "flush" /\ pc' \in {"raised", "manifest"} /\ UNCHANGED <<commands, turn, batch, todo, endings, files, dirs>>
  BY DEF FlushCacheWriter, Raise, Inputs, Tree
<1>2. QuietTree BY <1>1 DEF QuietTree
<1> QED BY <1>1, <1>2, QuietRun DEF RunPhases, LiveRun

\* After its manifest the run of a batch is evaluated.
LEMMA BatchManifests == ASSUME IInv, TypeInv, TreeKept, BatchInv, WriteManifest PROVE BatchInv'
<1> DEFINE path == RunManifest(run.id)
<1>0. /\ pc = "manifest" /\ pc' = (IF InBatch THEN "evaluate" ELSE "ended")
      /\ UNCHANGED <<commands, turn, batch, todo, endings, dirs, run>>
      /\ \E manifest : files' = WrittenOver(OneFile(path, manifest), files)
  BY DEF WriteManifest, Inputs, Locals
<1>1. PICK manifest : files' = WrittenOver(OneFile(path, manifest), files) BY <1>0
<1> DEFINE new == OneFile(path, manifest)
           after == WrittenOver(new, files)
<1>2. DOMAIN new = {path} /\ path[2] \notin BatchNames BY FileShape, Paths DEF BatchNames
<1>3. files' = after BY <1>1
<1> HIDE DEF path
<1>4. path \in DOMAIN files'
  <2> HIDE DEF new
  <2>1. DOMAIN after = DOMAIN new \cup DOMAIN files BY OverShape
  <2> HIDE DEF after
  <2> QED BY <1>2, <1>3, <2>1
<1> HIDE DEF new
<1>5. QuietTree BY <1>2, <1>3, QuietWrite
<1>6. BatchSteps'
  <2>1. InBatch => MoreStocks BY <1>0 DEF BatchInv, BatchSteps, RunPhases
  <2>2. InBatch' = InBatch /\ MoreStocks' = MoreStocks BY <1>0 DEF InBatch, MoreStocks
  <2>3. Finished(run.id)' BY <1>0, <1>4 DEF Finished, Written, path
  <2> QED BY <1>0, <2>1, <2>2, <2>3 DEF BatchSteps, RunPhases, LiveRun
<1>7. NoBatchSteps'
  <2>1. ~InBatch => Command.do # "batch" BY <1>0 DEF BatchInv, NoBatchSteps
  <2>2. InBatch' = InBatch /\ Command' = Command BY <1>0 DEF InBatch, Command
  <2> QED BY <1>0, <2>1, <2>2 DEF NoBatchSteps
<1>8. /\ \A d \in dirs' \ dirs : d[1] # "batch" /\ pc' \notin {"command", "batch", "aggregate"}
      /\ \A i \in DOMAIN todo' : \E j \in DOMAIN todo : todo[j] = todo'[i]
  BY <1>0
<1>9. pc' \notin {"command", "batch", "aggregate"} BY <1>0
<1> QED BY <1>0, <1>5, <1>6, <1>7, <1>8, <1>9, QuietStep

\* The evaluation of a stock has its directory, its summary and its report.
LEMMA BatchEvaluates == ASSUME IInv, TypeInv, TreeKept, BatchInv, Evaluate PROVE BatchInv'
<1> DEFINE id == run.id
           evaluation == IF InBatch THEN batch.id ELSE Command.evaluation
           dir == EvaluationDir(id, evaluation)
<1>0. /\ pc = "evaluate" /\ UNCHANGED <<commands, turn, batch, endings, files, run>>
  BY DEF Evaluate, Inputs, Locals, History
<1>1. QuietTree BY <1>0 DEF QuietTree
<1>2. InBatch' = InBatch /\ MoreStocks' = MoreStocks /\ Command' = Command BY <1>0 DEF InBatch, MoreStocks, Command
<1>3. (InBatch => MoreStocks /\ Finished(run.id)) /\ (~InBatch => Command.do # "batch")
  BY <1>0 DEF BatchInv, BatchSteps, NoBatchSteps
<1>4. CASE pc' = "raised" /\ UNCHANGED <<dirs, todo>>
  <2>1. BatchSteps' BY <1>2, <1>3, <1>4 DEF BatchSteps, RunPhases, LiveRun
  <2>2. NoBatchSteps' BY <1>2, <1>3, <1>4 DEF NoBatchSteps
  <2>3. \A i \in DOMAIN todo' : \E j \in DOMAIN todo : todo[j] = todo'[i] BY <1>4
  <2> QED BY <1>0, <1>1, <1>4, <2>1, <2>2, <2>3, QuietStep
<1>5. CASE /\ dirs' = dirs \cup {dir} /\ pc' = "write"
           /\ \E a, b, c, d :
                LET all == <<File(<<dir, "factor-forward-observations.jsonl">>, a),
                             File(<<dir, "factor-evaluation-summary.json">>, b),
                             File(<<dir, "factor-evaluation-report.md">>, c),
                             File(<<<<"evaluations", id>>, "latest.json">>, d)>>
                IN todo' = Tail(all) \/ todo' = all
  <2>1. PICK a, b, c, d :
          LET all == <<File(<<dir, "factor-forward-observations.jsonl">>, a),
                       File(<<dir, "factor-evaluation-summary.json">>, b),
                       File(<<dir, "factor-evaluation-report.md">>, c),
                       File(<<<<"evaluations", id>>, "latest.json">>, d)>>
          IN todo' = Tail(all) \/ todo' = all
    BY <1>5
  <2> DEFINE first == File(<<dir, "factor-forward-observations.jsonl">>, a)
             second == File(<<dir, "factor-evaluation-summary.json">>, b)
             third == File(<<dir, "factor-evaluation-report.md">>, c)
             last == File(<<<<"evaluations", id>>, "latest.json">>, d)
  <2>2. todo' = <<second, third, last>> \/ todo' = <<first, second, third, last>> BY <2>1
  <2>3. /\ first.path[2] = "factor-forward-observations.jsonl" /\ second.path[2] = "factor-evaluation-summary.json"
        /\ third.path[2] = "factor-evaluation-report.md" /\ last.path[2] = "latest.json"
        /\ second.path = EvaluationSummary(dir) /\ third.path = EvaluationReport(dir)
    BY DEF File, EvaluationSummary, EvaluationReport
  <2>4. dir[1] = "evaluation" BY StockDirectories
  <2> HIDE DEF first, second, third, last, dir
  <2>5. /\ \A i \in DOMAIN todo' : todo'[i].path[2] # "factor-batch-summary.json"
        /\ \E i \in DOMAIN todo' : todo'[i].path = EvaluationSummary(dir)
        /\ \E i \in DOMAIN todo' : todo'[i].path = EvaluationReport(dir)
    <3>1. CASE todo' = <<second, third, last>>
      <4>1. DOMAIN todo' = 1..3 /\ todo'[1] = second /\ todo'[2] = third /\ todo'[3] = last BY <3>1
      <4>2. 1 \in DOMAIN todo' /\ 2 \in DOMAIN todo' BY <4>1
      <4> QED BY <2>3, <4>1, <4>2
    <3>2. CASE todo' = <<first, second, third, last>>
      <4>1. DOMAIN todo' = 1..4 /\ todo'[1] = first /\ todo'[2] = second /\ todo'[3] = third /\ todo'[4] = last BY <3>2
      <4>2. 2 \in DOMAIN todo' /\ 3 \in DOMAIN todo' BY <4>1
      <4> QED BY <2>3, <4>1, <4>2
    <3> QED BY <2>2, <3>1, <3>2
  <2>6. \A p \in EvaluationFiles(dir) : Planned(p)' BY <2>5 DEF EvaluationFiles, Planned
  <2>7. BatchSteps'
    <3>1. InBatch => dir = EvaluationDir(run.id, batch.id) BY DEF dir
    <3>2. InBatch => (EvaluationDir(run.id, batch.id))' = EvaluationDir(run.id, batch.id) BY <1>0 DEF EvaluationDir
    <3>3. Finished(run.id)' = Finished(run.id) BY <1>0 DEF Finished, Written, RunManifest, RunDir
    <3>4. dir \in dirs' BY <1>5
    <3>5. InBatch => \A p \in (EvaluationFiles(EvaluationDir(run.id, batch.id)))' : Planned(p)'
      BY <2>6, <3>1, <3>2 DEF EvaluationFiles, EvaluationSummary, EvaluationReport
    <3>6. pc' = "write" BY <1>5
    <3> QED BY <1>2, <1>3, <3>1, <3>2, <3>3, <3>4, <3>5, <3>6 DEF BatchSteps, RunPhases, LiveRun
  <2>8. NoBatchSteps' BY <1>2, <1>3, <1>5 DEF NoBatchSteps
  <2>9. \A e \in dirs' \ dirs : e[1] # "batch" BY <1>5, <2>4
  <2> QED BY <1>0, <1>1, <1>5, <2>5, <2>7, <2>8, <2>9, QuietStep
<1> QED BY <1>4, <1>5 DEF Evaluate, Raise

\* Steps that write a file of a batch or plan its summary.
LEMMA SummariesStep ==
  ASSUME IInv, TreeKept, SummariesOK,
         \A id : Summary(id) \in DOMAIN files' => Summary(id) \in DOMAIN files /\ files'[Summary(id)] = files[Summary(id)],
         \A id : Summary(id) \in DOMAIN files' \/ Planned(Summary(id))' =>
           /\ BatchConfig(id) \in DOMAIN files' => BatchConfig(id) \in DOMAIN files
           /\ StockLog(id) \in DOMAIN files' => files'[StockLog(id)] = files[StockLog(id)],
         \A id : \A i \in DOMAIN todo' :
           todo'[i].path = Summary(id) /\ BatchConfig(id) \in DOMAIN files =>
             \/ \E j \in DOMAIN todo : todo[j] = todo'[i]
             \/ SummaryIn(files', dirs', id, todo'[i].content.results)
  PROVE  SummariesOK'
<1> SUFFICES ASSUME NEW id \in Batches', BatchConfig(id) \in DOMAIN files'
             PROVE  /\ Summary(id) \in DOMAIN files' => SummaryIn(files', dirs', id, files'[Summary(id)].results)
                    /\ \A i \in DOMAIN todo' : todo'[i].path = Summary(id) => SummaryIn(files', dirs', id, todo'[i].content.results)
  BY DEF SummariesOK, Written
<1>1. TreeOK BY DEF IInv
<1>2. ASSUME Summary(id) \in DOMAIN files' \/ Planned(Summary(id))', NEW results, SummaryIn(files, dirs, id, results)
      PROVE  SummaryIn(files', dirs', id, results)
  <2>1. StockLog(id) \in DOMAIN files' BY <1>2 DEF SummaryIn, TreeKept
  <2>2. BatchConfig(id) \in DOMAIN files /\ files'[StockLog(id)] = files[StockLog(id)] BY <1>2, <2>1
  <2> QED BY <1>1, <1>2, <2>2, SummaryKept
<1>3. ASSUME Summary(id) \in DOMAIN files' PROVE SummaryIn(files', dirs', id, files'[Summary(id)].results)
  <2>1. BatchConfig(id) \in DOMAIN files /\ Summary(id) \in DOMAIN files /\ files'[Summary(id)] = files[Summary(id)] BY <1>3
  <2>2. id \in Batches BY <1>1, <2>1, ConfigKept
  <2>3. SummaryIn(files, dirs, id, files[Summary(id)].results) BY <2>1, <2>2 DEF SummariesOK, Written
  <2> QED BY <1>2, <1>3, <2>1, <2>3
<1>4. ASSUME NEW i \in DOMAIN todo', todo'[i].path = Summary(id) PROVE SummaryIn(files', dirs', id, todo'[i].content.results)
  <2>1. Planned(Summary(id))' BY <1>4 DEF Planned
  <2>2. BatchConfig(id) \in DOMAIN files BY <2>1
  <2>3. id \in Batches BY <1>1, <2>2, ConfigKept
  <2>4. CASE \E j \in DOMAIN todo : todo[j] = todo'[i]
    <3>1. PICK j \in DOMAIN todo : todo[j] = todo'[i] BY <2>4
    <3>2. SummaryIn(files, dirs, id, todo[j].content.results) BY <1>4, <2>2, <2>3, <3>1 DEF SummariesOK, Written
    <3> QED BY <1>2, <2>1, <3>1, <3>2
  <2> QED BY <1>4, <2>2, <2>4
<1> QED BY <1>3, <1>4

LEMMA SameBatch ==
  ASSUME NEW id, NEW other, BatchConfig(id) = BatchConfig(other) \/ Summary(id) = Summary(other) \/ StockLog(id) = StockLog(other)
  PROVE  id = other
<1>1. BatchDir(id) = BatchDir(other) BY Paths
<1> QED BY <1>1, Directories

LEMMA BatchStarts == ASSUME IInv, TypeInv, TreeKept, BatchInv, StartBatch PROVE BatchInv'
<1> DEFINE id == Command.id
           dir == BatchDir(id)
           path == BatchConfig(id)
<1>0. /\ pc = "batch" /\ UNCHANGED <<commands, turn, todo, endings>> /\ TreeOK
      /\ turn \in Nat \ {0} /\ turn \in DOMAIN commands
  <2>1. /\ pc = "batch" /\ UNCHANGED <<commands, turn, todo, endings>> /\ TreeOK /\ turn \in Nat \ {0}
        /\ turn <= Len(commands) /\ IsSeq(commands)
    BY DEF StartBatch, Inputs, History, IInv, TypeInv, ReviewOK, InputOK, IsSeq
  <2>2. Len(commands) \in Nat /\ DOMAIN commands = 1..Len(commands) BY <2>1, SeqShape
  <2>3. PICK now \in Nat \ {0} : now = turn BY <2>1
  <2> QED BY <2>1, <2>2, <2>3
<1>1. ~InBatch /\ Command.do = "batch" BY <1>0 DEF BatchInv, BatchSteps, NoBatchSteps
<1>2. Command' = Command BY <1>0 DEF Command
<1>3. dir[1] = "batch" /\ dir[2] = id BY Directories
<1>4. CASE Command.stocks = <<>> \/ dir \in dirs
  <2>1. pc' = "raised" /\ error' = "SystemExit" /\ UNCHANGED <<files, dirs, batch>> BY <1>4 DEF StartBatch, Raise, Tree
  <2>2. Refused(turn)
    <3>1. ASSUME dir \in dirs PROVE \E j \in 1..(turn - 1) : commands[j].id = commands[turn].id
      <4>1. PICK j \in 1..turn : commands[j].id = id /\ j < turn BY <1>0, <1>3, <3>1 DEF BatchInv, BatchDirsOK
      <4>2. j \in 1..(turn - 1) BY <1>0, <4>1
      <4> QED BY <4>1, <4>2 DEF Command
    <3> QED BY <1>4, <3>1 DEF Refused, Command
  <2>3. Refused(turn)' BY <1>0, <2>2 DEF Refused
  <2>4. QuietTree BY <2>1 DEF QuietTree
  <2>5. ~InBatch' BY <1>1, <2>1 DEF InBatch
  <2>6. BatchSteps' /\ NoBatchSteps' BY <2>1, <2>3, <2>5 DEF BatchSteps, NoBatchSteps
  <2>7. \A i \in DOMAIN todo' : \E j \in DOMAIN todo : todo[j] = todo'[i] BY <1>0
  <2> QED BY <1>0, <2>1, <2>4, <2>6, <2>7, QuietStep
<1>5. CASE ~(Command.stocks = <<>> \/ dir \in dirs)
  <2> DEFINE new == OneFile(path, Command.stocks)
             after == WrittenOver(new, files)
  <2>1. /\ dirs' = dirs \cup {dir} /\ files' = after /\ pc' = "next stock"
        /\ batch' = [id |-> id, stocks |-> Command.stocks, item |-> 1, results |-> <<>>]
    BY <1>5 DEF StartBatch
  <2>2. DOMAIN new = {path} /\ new[path] = Command.stocks BY DEF OneFile
  <2>3. /\ path[1] = dir /\ path[2] = "factor-batch-config.json"
        /\ StockLog(id)[1] = dir /\ StockLog(id)[2] = "stock-results.jsonl"
    BY Paths
  <2>4. \A p \in DOMAIN files : p[1] # dir
    <3> HIDE DEF dir
    <3> QED BY <1>0, <1>3, <1>5, NoFilesYet DEF Kinds
  <2> HIDE DEF path, dir
  <2>5. /\ DOMAIN files' = DOMAIN files \cup {path} /\ files'[path] = Command.stocks
        /\ \A p \in DOMAIN files : files'[p] = files[p]
    <3> HIDE DEF new
    <3>1. /\ DOMAIN after = DOMAIN new \cup DOMAIN files /\ \A p \in DOMAIN files \ DOMAIN new : after[p] = files[p]
      BY OverShape
    <3>2. after[path] = new[path] BY <2>2 DEF WrittenOver
    <3> HIDE DEF after
    <3> QED BY <2>1, <2>2, <2>3, <2>4, <3>1, <3>2
  <2>6. todo = <<>> /\ DOMAIN todo' = {}
    <3>1. todo = <<>> BY <1>0, IdlePlan
    <3> QED BY <1>0, <3>1, EmptyOwn
  <2>7. batch' # NoBatch
    <3>1. batch'.stocks # NoBatch.stocks BY <1>5, <2>1 DEF NoBatch
    <3> QED BY <3>1
  <2>8. SummariesOK'
    <3>1. ASSUME NEW other, Summary(other) \in DOMAIN files' PROVE Summary(other) \in DOMAIN files /\ files'[Summary(other)] = files[Summary(other)]
      <4>1. Summary(other)[2] = "factor-batch-summary.json" BY Paths
      <4>2. Summary(other) # path BY <2>3, <4>1
      <4> QED BY <2>5, <3>1, <4>2
    <3>2. ASSUME NEW other PROVE StockLog(other) \in DOMAIN files' => files'[StockLog(other)] = files[StockLog(other)]
      <4>1. StockLog(other)[2] = "stock-results.jsonl" BY Paths
      <4>2. StockLog(other) # path BY <2>3, <4>1
      <4> QED BY <2>5, <4>2
    <3>3. ASSUME NEW other, Summary(other) \in DOMAIN files', BatchConfig(other) \in DOMAIN files' PROVE BatchConfig(other) \in DOMAIN files
      <4>1. Summary(other) \in DOMAIN files /\ Summary(other)[1] = BatchDir(other) /\ BatchConfig(other)[1] = BatchDir(other)
        BY <3>1, <3>3, Paths
      <4>2. BatchDir(other) # dir BY <2>4, <4>1
      <4> QED BY <2>3, <2>5, <3>3, <4>1, <4>2
    <3>4. \A other : ~Planned(Summary(other))' BY <2>6 DEF Planned
    <3> QED BY <2>6, <3>1, <3>2, <3>3, <3>4, SummariesStep DEF BatchInv
  <2>9. BatchIn(files', dirs', batch')
    <3>1. /\ batch'.id = id /\ batch'.stocks = Command.stocks /\ batch'.item = 1 /\ batch'.results = <<>> BY <2>1
    <3>2. IsSeq(Command.stocks) BY <1>0, <1>1 DEF IInv, InputOK, Command
    <3>3. Len(Command.stocks) \in Nat BY <3>2, SeqShape
    <3>4. PICK n \in Nat : n = Len(Command.stocks) BY <3>3
    <3>5. 1 <= n + 1 BY <3>4
    <3>6. StockLog(id) \notin DOMAIN files' BY <2>3, <2>4, <2>5
    <3>7. ResultsOf(files', dirs', Command.stocks, <<>>) BY EmptyOwn DEF ResultsOf
    <3>8. Len(<<>>) = 1 - 1 /\ 1 \in Nat \ {0} BY EmptyOwn
    <3> QED BY <1>5, <2>5, <3>1, <3>2, <3>4, <3>5, <3>6, <3>7, <3>8 DEF BatchIn, path
  <2>10. BatchState' BY <1>1, <1>2, <2>1, <2>9 DEF BatchState
  <2>11. BatchSteps' BY <2>1 DEF BatchSteps, RunPhases, LiveRun
  <2>12. NoBatchSteps' BY <2>7 DEF NoBatchSteps, InBatch
  <2>13. BatchDirsOK'
    <3> SUFFICES ASSUME NEW d \in dirs', d[1] = "batch" PROVE \E j \in 1..turn : commands[j].id = d[2]
      BY <1>0, <2>1 DEF BatchDirsOK
    <3>1. CASE d \in dirs BY <3>1 DEF BatchInv, BatchDirsOK
    <3>2. CASE d = dir
      <4>1. turn \in 1..turn BY <1>0
      <4> QED BY <1>3, <3>2, <4>1 DEF Command, dir
    <3> QED BY <2>1, <3>1, <3>2
  <2>14. OneStockStopsNothing' BY <1>0, EndingsKept DEF BatchInv
  <2> QED BY <2>8, <2>10, <2>11, <2>12, <2>13, <2>14 DEF BatchInv
<1> QED BY <1>4, <1>5

\* The summary of all results is planned at its batch.
LEMMA SummaryPlan ==
  ASSUME NEW summary, todo' = SummaryFiles(summary)
  PROVE  /\ Planned(Summary(summary.id))'
         /\ \A id : \A i \in DOMAIN todo' :
              todo'[i].path = Summary(id) => id = summary.id /\ todo'[i].content = summary
<1> DEFINE first == File(Summary(summary.id), summary)
           second == File(Report(summary.id), AggregateReport(summary))
<1>1. /\ DOMAIN todo' = 1..2 /\ todo'[1] = first /\ todo'[2] = second BY DEF SummaryFiles
<1>2. /\ first.path = Summary(summary.id) /\ first.content = summary /\ second.path = Report(summary.id) BY DEF File
<1>3. Report(summary.id)[2] = "aggregate-factor-report.md" BY Paths
<1> HIDE DEF first, second
<1>4. Planned(Summary(summary.id))'
  <2>1. 1 \in DOMAIN todo' BY <1>1
  <2> QED BY <1>1, <1>2, <2>1 DEF Planned
<1>5. ASSUME NEW id, NEW i \in DOMAIN todo', todo'[i].path = Summary(id) PROVE id = summary.id /\ todo'[i].content = summary
  <2>1. Summary(id)[2] = "factor-batch-summary.json" BY Paths
  <2>2. todo'[i] = first \/ todo'[i] = second BY <1>1, <1>5
  <2>3. todo'[i] = first BY <1>2, <1>3, <1>5, <2>1, <2>2
  <2>4. Summary(id) = Summary(summary.id) BY <1>2, <1>5, <2>3
  <2> QED BY <1>2, <2>3, <2>4, SameBatch
<1> QED BY <1>4, <1>5

LEMMA BatchNextStock == ASSUME IInv, TypeInv, TreeKept, BatchInv, NextStock PROVE BatchInv'
<1>0. pc = "next stock" /\ UNCHANGED <<commands, turn, batch, endings, files, dirs>> BY DEF NextStock, Inputs, Tree
<1>1. InBatch BY <1>0 DEF BatchInv, NoBatchSteps
<1>2. QuietTree BY <1>0 DEF QuietTree
<1>3. InBatch' /\ MoreStocks' = MoreStocks BY <1>0, <1>1 DEF InBatch, MoreStocks
<1>4. NoBatchSteps' BY <1>3 DEF NoBatchSteps
<1>5. CASE MoreStocks
  <2>1. pc' = "run" /\ todo' = todo BY <1>5 DEF NextStock
  <2>2. BatchSteps' BY <1>3, <1>5, <2>1 DEF BatchSteps, RunPhases, LiveRun
  <2>3. \A i \in DOMAIN todo' : \E j \in DOMAIN todo : todo[j] = todo'[i] BY <2>1
  <2> QED BY <1>0, <1>2, <1>4, <2>1, <2>2, <2>3, QuietStep
<1>6. CASE ~MoreStocks
  <2>1. PICK summary : summary.id = batch.id /\ summary.results = batch.results /\ todo' = SummaryFiles(summary) /\ pc' = "write"
    <3> DEFINE summary == BatchSummary(batch.id, batch.results, clock + 1)
    <3>1. summary.id = batch.id /\ summary.results = batch.results BY DEF BatchSummary
    <3> QED BY <1>6, <3>1 DEF NextStock
  <2>2. /\ \E i \in DOMAIN todo' : todo'[i].path = Summary(summary.id)
        /\ \A id : \A i \in DOMAIN todo' : todo'[i].path = Summary(id) => id = summary.id /\ todo'[i].content = summary
    BY <2>1, SummaryPlan DEF Planned
  <2>3. BatchIn(files, dirs, batch) BY <1>1 DEF BatchInv, BatchState
  <2>4. SummaryIn(files', dirs', batch.id, batch.results)
    <3>1. PICK total \in Nat : total = Len(batch.stocks) BY <2>3, SeqShape DEF BatchIn
    <3>2. PICK item \in Nat \ {0} : item = batch.item BY <2>3 DEF BatchIn
    <3>3. ~(item <= total) /\ item <= total + 1 /\ Len(batch.results) = item - 1
      BY <1>1, <1>6, <2>3, <3>1, <3>2 DEF MoreStocks, BatchIn
    <3>4. item - 1 = total BY <3>1, <3>2, <3>3
    <3>5. IsSeq(batch.stocks) /\ batch.stocks # <<>> BY <2>3 DEF BatchIn
    <3>6. total # 0 BY <3>1, <3>5, SeqShape
    <3>7. batch.results # <<>> BY <3>3, <3>4, <3>6, EmptyOwn
    <3> QED BY <1>0, <2>3, <3>1, <3>3, <3>4, <3>7 DEF BatchIn, SummaryIn
  <2>5. SummariesOK' BY <1>0, <2>1, <2>2, <2>4, SummariesStep DEF BatchInv
  <2>6. BatchState' BY <1>0, <1>2, QuietState DEF BatchInv
  <2>7. BatchSteps'
    <3>1. \E i \in DOMAIN todo' : todo'[i].path = Summary(batch.id) BY <2>1, <2>2
    <3> QED BY <1>0, <1>3, <1>6, <2>1, <3>1 DEF BatchSteps, RunPhases, LiveRun, Planned
  <2>8. BatchDirsOK' BY <1>0, <2>1, BatchDirsKept DEF BatchInv
  <2>9. OneStockStopsNothing' BY <1>0, EndingsKept DEF BatchInv
  <2> QED BY <1>4, <2>5, <2>6, <2>7, <2>8, <2>9 DEF BatchInv
<1> QED BY <1>5, <1>6

\* A stock's result is added to the batch and its log alike.
LEMMA BatchAddsResult ==
  ASSUME IInv, TypeInv, TreeKept, BatchInv, MoreStocks, pc \in {"stock result", "raised"}, NEW result, AddResult(result),
         result.stock = batch.stocks[batch.item], CompletedIn(files, dirs, result),
         UNCHANGED <<commands, turn, dirs, todo, endings>>
  PROVE  BatchInv'
<1> DEFINE path == StockLog(batch.id)
           all == Append(batch.results, result)
<1>0. /\ InBatch /\ BatchIn(files, dirs, batch) /\ TreeOK /\ DOMAIN batch = {"id", "stocks", "item", "results"}
      /\ ~Written(Summary(batch.id))
  BY DEF MoreStocks, BatchInv, BatchState, IInv, BatchOK
<1>1. /\ batch' = [batch EXCEPT !.results = Append(@, result), !.item = @ + 1] /\ pc' = "next stock"
      /\ files' = WrittenOver(OneFile(path, Append(IF Written(path) THEN files[path] ELSE <<>>, result)), files)
  BY DEF AddResult
<1>2. (IF Written(path) THEN files[path] ELSE <<>>) = batch.results BY <1>0 DEF BatchIn, Written
<1>3. /\ batch'.id = batch.id /\ batch'.stocks = batch.stocks /\ batch'.results = all /\ batch'.item = batch.item + 1
  BY <1>0, <1>1
<1>4. path[2] = "stock-results.jsonl" BY Paths
<1>5. /\ DOMAIN files' = DOMAIN files \cup {path} /\ files'[path] = all
      /\ \A p \in DOMAIN files : p # path => files'[p] = files[p]
  <2> DEFINE new == OneFile(path, all)
             after == WrittenOver(new, files)
  <2>1. files' = after BY <1>1, <1>2
  <2>2. DOMAIN new = {path} /\ new[path] = all BY DEF OneFile
  <2> HIDE DEF new, path, all
  <2>3. /\ DOMAIN after = DOMAIN new \cup DOMAIN files /\ \A p \in DOMAIN files \ DOMAIN new : after[p] = files[p]
    BY OverShape
  <2>4. after[path] = new[path] BY <2>2 DEF WrittenOver
  <2> HIDE DEF after
  <2> QED BY <2>1, <2>2, <2>3, <2>4
<1>6. todo = <<>> /\ DOMAIN todo' = {}
  <2>1. todo = <<>> BY IdlePlan
  <2> QED BY <2>1, EmptyOwn
<1> HIDE DEF path
<1>7. BatchIn(files', dirs', batch')
  <2>1. PICK total \in Nat : total = Len(batch.stocks) BY <1>0, SeqShape DEF BatchIn
  <2>2. PICK item \in Nat \ {0} : item = batch.item BY <1>0 DEF BatchIn
  <2>3. PICK results : results = batch.results OBVIOUS
  <2>4. IsSeq(results) /\ Len(results) = item - 1 /\ item <= total BY <1>0, <2>1, <2>2, <2>3 DEF BatchIn, ResultsOf, MoreStocks
  <2>5. item + 1 = item + 1 BY <2>2
  <2>6. /\ IsSeq(Append(results, result)) /\ Len(Append(results, result)) = (item + 1) - 1
        /\ item + 1 <= total + 1 /\ item + 1 \in Nat \ {0}
        /\ \A i \in DOMAIN Append(results, result) :
             \/ i \in DOMAIN results /\ Append(results, result)[i] = results[i]
             \/ i = item /\ Append(results, result)[i] = result
    BY ZenonT(30), <2>4, <2>5, AppendAt
  <2>7. ResultsOf(files', dirs', batch.stocks, results) BY <1>0, <2>3, ResultsKept DEF BatchIn
  <2>8. CompletedIn(files', dirs', result) BY <1>0, CompletedKept
  <2>9. ResultsOf(files', dirs', batch.stocks, all) BY <2>2, <2>3, <2>6, <2>7, <2>8 DEF ResultsOf
  <2>10. all # <<>>
    <3>1. Append(results, result) # <<>> BY <2>4, AppendNotEmpty
    <3> QED BY <2>3, <3>1
  <2>11. BatchConfig(batch.id) \in DOMAIN files' /\ files'[BatchConfig(batch.id)] = batch.stocks
    BY <1>0, ConfigKept DEF BatchIn
  <2>12. path \in DOMAIN files' /\ files'[path] = all BY <1>5
  <2>13. /\ IsSeq(batch.stocks) /\ batch.stocks # <<>> /\ batch'.item \in Nat \ {0} /\ Len(all) = batch'.item - 1
         /\ batch'.item <= Len(batch.stocks) + 1
    BY <1>0, <1>3, <2>1, <2>2, <2>3, <2>6 DEF BatchIn
  <2> HIDE DEF all
  <2> QED BY <1>3, <2>9, <2>10, <2>11, <2>12, <2>13 DEF BatchIn, path
<1>8. batch' # NoBatch
  <2>1. batch'.stocks # NoBatch.stocks BY <1>0, <1>3 DEF BatchIn, NoBatch
  <2> QED BY <2>1
<1>9. BatchState'
  <2>1. Command.do = "batch" /\ batch.id = Command.id BY <1>0 DEF BatchInv, BatchState
  <2>2. Command' = Command BY DEF Command
  <2> QED BY <1>3, <1>7, <2>1, <2>2 DEF BatchState
<1>10. SummariesOK'
  <2>1. ASSUME NEW id, Summary(id) \in DOMAIN files' PROVE Summary(id) \in DOMAIN files /\ files'[Summary(id)] = files[Summary(id)]
    <3>1. Summary(id)[2] = "factor-batch-summary.json" BY Paths
    <3>2. Summary(id) # path BY <1>4, <3>1 DEF path
    <3> QED BY <1>5, <2>1, <3>2
  <2>2. ASSUME NEW id, BatchConfig(id) \in DOMAIN files' PROVE BatchConfig(id) \in DOMAIN files
    <3>1. BatchConfig(id)[2] = "factor-batch-config.json" BY Paths
    <3>2. BatchConfig(id) # path BY <1>4, <3>1 DEF path
    <3> QED BY <1>5, <2>2, <3>2
  <2>3. ASSUME NEW id, Summary(id) \in DOMAIN files', StockLog(id) \in DOMAIN files' PROVE files'[StockLog(id)] = files[StockLog(id)]
    <3>1. id # batch.id BY <1>0, <2>1, <2>3 DEF Written
    <3>2. StockLog(id) # path BY <3>1, SameBatch DEF path
    <3> QED BY <1>5, <2>3, <3>2
  <2>4. \A id : ~Planned(Summary(id))' BY <1>6 DEF Planned
  <2> QED BY <1>6, <2>1, <2>2, <2>3, <2>4, SummariesStep DEF BatchInv
<1>11. BatchSteps' BY <1>1 DEF BatchSteps, RunPhases, LiveRun
<1>12. NoBatchSteps' BY <1>8 DEF NoBatchSteps, InBatch
<1>13. BatchDirsOK' BY <1>1, BatchDirsKept DEF BatchInv
<1>14. OneStockStopsNothing' BY EndingsKept DEF BatchInv
<1> QED BY <1>9, <1>10, <1>11, <1>12, <1>13, <1>14 DEF BatchInv

LEMMA BatchStockCompleted == ASSUME IInv, TypeInv, TreeKept, BatchInv, StockCompleted PROVE BatchInv'
<1> DEFINE dir == EvaluationDir(run.id, batch.id)
           summary == files[EvaluationSummary(dir)]
           result == [stock |-> batch.stocks[batch.item], status |-> "completed", runDir |-> RunDir(run.id),
                      evaluationDir |-> dir, observations |-> summary.observations, summary |-> summary.factors]
<1>1. /\ pc = "stock result" /\ MoreStocks /\ UNCHANGED <<commands, turn, dirs, todo, endings>> /\ AddResult(result)
  BY DEF StockCompleted, Inputs, History, IInv, BatchOK, EvaluationSummary
<1>2. Finished(run.id) /\ dir \in dirs /\ \A p \in EvaluationFiles(dir) : Written(p)
  <2>1. InBatch BY <1>1 DEF MoreStocks
  <2>2. todo = <<>> BY <1>1, IdlePlan
  <2>3. \A p : ~Planned(p) BY <2>2, EmptyOwn DEF Planned
  <2> QED BY <1>1, <2>1, <2>3 DEF BatchInv, BatchSteps
<1>3. dir[1] = "evaluation" BY StockDirectories
<1>4. RunDir(run.id)[2] = run.id BY Directories
<1>5. /\ result.stock = batch.stocks[batch.item] /\ result.runDir = RunDir(run.id) /\ result.evaluationDir = dir
      /\ result.observations = summary.observations
  OBVIOUS
<1> HIDE DEF result, dir
<1>6. CompletedIn(files, dirs, result)
  BY <1>2, <1>3, <1>4, <1>5 DEF CompletedIn, Finished, Written, EvaluationFiles
<1> QED BY <1>1, <1>5, <1>6, BatchAddsResult

LEMMA BatchHandlesError == ASSUME IInv, TypeInv, TreeKept, BatchInv, HandleError PROVE BatchInv'
<1>0. pc = "raised" /\ UNCHANGED <<commands, dirs>> BY DEF HandleError, Inputs
<1>1. CASE MoreStocks /\ error \in {"SystemExit", "unavailable"}
  <2> DEFINE result == [stock |-> batch.stocks[batch.item], status |-> "failed", error |-> error]
  <2>1. UNCHANGED <<turn, todo, endings>> /\ AddResult(result) BY <1>1 DEF HandleError
  <2>2. result.stock = batch.stocks[batch.item] /\ result.status # "completed" OBVIOUS
  <2> HIDE DEF result
  <2>3. CompletedIn(files, dirs, result) BY <2>2 DEF CompletedIn
  <2> QED BY <1>0, <1>1, <2>1, <2>2, <2>3, BatchAddsResult
<1>2. CASE ~(MoreStocks /\ error \in {"SystemExit", "unavailable"})
  <2>1. EndProcess(error) /\ files' = files BY <1>2 DEF HandleError
  <2>2. error \in Errors BY <1>0 DEF TypeInv
  <2>3. CASE InBatch
    <3>1. MoreStocks BY <1>0, <2>3 DEF BatchInv, BatchSteps
    <3>2. error = "error" BY <1>2, <2>2, <3>1 DEF Errors
    <3> QED BY <1>0, <2>1, <3>2, BatchEnds
  <2>4. CASE ~InBatch
    <3>1. Command.do = "batch" => error = "SystemExit" /\ Refused(turn) BY <1>0, <2>4 DEF BatchInv, NoBatchSteps
    <3> QED BY <1>0, <2>1, <3>1, BatchEnds DEF Command
  <2> QED BY <2>3, <2>4
<1> QED BY <1>1, <1>2

\* An aggregate has the directory of a batch, but no config.
LEMMA BatchAggregates == ASSUME IInv, TypeInv, TreeKept, BatchInv, Aggregate PROVE BatchInv'
<1> DEFINE dir == BatchDir(Command.id)
<1>0. pc = "aggregate" /\ UNCHANGED <<commands, turn, batch, files, endings>> /\ TreeOK /\ turn \in Nat \ {0}
  BY DEF Aggregate, Inputs, Locals, IInv, ReviewOK
<1>1. ~InBatch /\ Command.do # "batch" BY <1>0 DEF BatchInv, BatchSteps, NoBatchSteps
<1>2. ~InBatch' /\ Command' = Command BY <1>0, <1>1 DEF InBatch, Command
<1>3. dir[1] = "batch" /\ dir[2] = Command.id BY Directories
<1>4. \/ pc' = "raised" /\ dirs' \in {dirs, dirs \cup {dir}} /\ todo' = todo
      \/ /\ pc' = "write" /\ dir \notin dirs /\ dirs' = dirs \cup {dir}
         /\ \E results : todo' = SummaryFiles(BatchSummary(Command.id, results, clock + 1))
  BY DEF Aggregate, Raise
<1>5. BatchState' /\ BatchSteps' BY <1>2 DEF BatchState, BatchSteps
<1>6. NoBatchSteps' BY <1>1, <1>2, <1>4 DEF NoBatchSteps
<1>7. BatchDirsOK'
  <2> SUFFICES ASSUME NEW d \in dirs', d[1] = "batch" PROVE \E j \in 1..turn : commands[j].id = d[2]
    BY <1>0, <1>4 DEF BatchDirsOK
  <2>1. CASE d \in dirs BY <2>1 DEF BatchInv, BatchDirsOK
  <2>2. CASE d = dir
    <3>1. turn \in 1..turn BY <1>0
    <3> QED BY <1>3, <2>2, <3>1 DEF Command
  <2> QED BY <1>4, <2>1, <2>2
<1>8. OneStockStopsNothing' BY <1>0, EndingsKept DEF BatchInv
<1>9. SummariesOK'
  <2>1. CASE todo' = todo
    <3>1. \A i \in DOMAIN todo' : \E j \in DOMAIN todo : todo[j] = todo'[i] BY <2>1
    <3> QED BY <1>0, <3>1, SummariesStep DEF BatchInv
  <2>2. CASE dir \notin dirs /\ \E results : todo' = SummaryFiles(BatchSummary(Command.id, results, clock + 1))
    <3>1. PICK summary : summary.id = Command.id /\ todo' = SummaryFiles(summary)
      <4>1. PICK results : todo' = SummaryFiles(BatchSummary(Command.id, results, clock + 1)) BY <2>2
      <4>2. BatchSummary(Command.id, results, clock + 1).id = Command.id BY DEF BatchSummary
      <4> QED BY <4>1, <4>2
    <3>2. \A id : \A i \in DOMAIN todo' : todo'[i].path = Summary(id) => id = Command.id BY <3>1, SummaryPlan
    <3>3. BatchConfig(Command.id) \notin DOMAIN files
      <4>1. BatchConfig(Command.id)[1] = dir BY Paths
      <4> HIDE DEF dir
      <4> QED BY <1>0, <1>3, <2>2, <4>1, NoFilesYet DEF Kinds
    <3> QED BY <1>0, <3>2, <3>3, SummariesStep DEF BatchInv
  <2> QED BY <1>4, <2>1, <2>2
<1> QED BY <1>5, <1>6, <1>7, <1>8, <1>9 DEF BatchInv

LEMMA BatchReviews == ASSUME IInv, TypeInv, TreeKept, BatchInv, StartReview PROVE BatchInv'
<1>0. /\ pc = "review" /\ UNCHANGED <<commands, turn, batch, files, endings, todo>> /\ pc' \in {"raised", "external"}
      /\ dirs' = dirs \/ \E of : dirs' = dirs \cup {ReviewDir(of)}
  BY DEF StartReview, Raise, Inputs, History
<1>1. ~InBatch /\ Command.do # "batch" BY <1>0 DEF BatchInv, BatchSteps, NoBatchSteps
<1>2. ~InBatch' /\ Command' = Command BY <1>0, <1>1 DEF InBatch, Command
<1>3. BatchSteps' /\ NoBatchSteps' BY <1>0, <1>1, <1>2 DEF BatchSteps, NoBatchSteps
<1>4. QuietTree BY <1>0 DEF QuietTree
<1>5. \A d \in dirs' \ dirs : d[1] # "batch" BY <1>0, Directories
<1>6. \A i \in DOMAIN todo' : \E j \in DOMAIN todo : todo[j] = todo'[i] BY <1>0
<1>7. pc' \notin {"command", "batch", "aggregate"} BY <1>0
<1> QED BY <1>0, <1>3, <1>4, <1>5, <1>6, <1>7, QuietStep

LEMMA BatchAsksReviewer == ASSUME IInv, TypeInv, TreeKept, BatchInv, AskExternalReviewer PROVE BatchInv'
<1>0. pc = "external" /\ UNCHANGED <<commands, turn, batch, files, dirs, endings>> /\ pc' = "write"
  BY DEF AskExternalReviewer, Inputs, Tree, Locals, History
<1>1. ~InBatch /\ Command.do # "batch" BY <1>0 DEF BatchInv, BatchSteps, NoBatchSteps
<1>2. ~InBatch' /\ Command' = Command BY <1>0, <1>1 DEF InBatch, Command
<1>3. BatchSteps' /\ NoBatchSteps' BY <1>0, <1>1, <1>2 DEF BatchSteps, NoBatchSteps
<1>4. QuietTree BY <1>0 DEF QuietTree
<1>5. \A i \in DOMAIN todo' : todo'[i].path[2] # "factor-batch-summary.json"
  <2>1. PICK dir, other, a, b, c :
          todo' = <<File(<<dir, "findings.json">>, a), File(<<dir, "artifact-review-report.md">>, a),
                    File(<<dir, "fix-plan-draft.md">>, a), File(<<dir, "review-config.json">>, b),
                    File(<<dir, "review-state.json">>, c), File(<<other, "latest.json">>, dir)>>
    BY DEF AskExternalReviewer
  <2> QED BY <2>1 DEF File
<1> QED BY <1>0, <1>3, <1>4, <1>5, QuietStep

LEMMA BatchStep == ASSUME IInv, TypeInv, RunInv, BatchInv, [Next]_vars PROVE BatchInv'
<1>0. TreeKept BY StepKeeps
<1>1. CASE UNCHANGED vars
  <2>1. UNCHANGED <<commands, turn, batch, pc, endings, files, dirs, todo, run, error>> BY <1>1 DEF vars
  <2>2. QuietTree BY <2>1 DEF QuietTree
  <2>3. BatchSteps'
    <3>1. InBatch' = InBatch /\ MoreStocks' = MoreStocks BY <2>1 DEF InBatch, MoreStocks
    <3>2. BatchSteps BY DEF BatchInv
    <3>3. \A p : Planned(p)' <=> Planned(p) BY <2>1 DEF Planned
    <3> QED BY <2>1, <3>1, <3>2, <3>3 DEF BatchSteps, Finished, Written
  <2>4. NoBatchSteps' BY <2>1 DEF BatchInv, NoBatchSteps, InBatch, Command, Refused
  <2>5. BatchDirsOK' BY <2>1 DEF BatchInv, BatchDirsOK
  <2>6. OneStockStopsNothing' BY <1>0, <2>1, EndingsKept DEF BatchInv
  <2>7. BatchState' BY <1>0, <2>1, <2>2, QuietState DEF BatchInv
  <2>8. SummariesOK'
    <3>1. \A i \in DOMAIN todo' : \E j \in DOMAIN todo : todo[j] = todo'[i] BY <2>1
    <3> QED BY <1>0, <2>2, <3>1, QuietSummaries DEF BatchInv
  <2> QED BY <2>3, <2>4, <2>5, <2>6, <2>7, <2>8 DEF BatchInv
<1>2. CASE Step
  BY <1>0, <1>2, BatchBegins, BatchFinishes, BatchWritesFile, BatchStartsRun, BatchCalls, BatchStartsStock, BatchLiveStock,
     BatchDryStock, BatchRestores, BatchFlushes, BatchManifests, BatchEvaluates, BatchStarts, BatchNextStock,
     BatchStockCompleted, BatchHandlesError, BatchAggregates, BatchReviews, BatchAsksReviewer DEF Step
<1>3. CASE Crash BY <1>0, <1>3, BatchCrashes
<1> QED BY <1>1, <1>2, <1>3 DEF Next, Done

LEMMA BatchInvariant == Spec => []BatchInv
<1>1. Init => BatchInv
  <2> SUFFICES ASSUME Init PROVE BatchInv OBVIOUS
  <2>1. /\ pc = "command" /\ dirs = {} /\ DOMAIN todo = {} /\ batch = NoBatch /\ DOMAIN files = {} /\ DOMAIN endings = {}
    BY EmptyOwn DEF Init
  <2>2. ~InBatch BY <2>1 DEF InBatch
  <2>3. BatchState /\ BatchSteps /\ NoBatchSteps BY <2>1, <2>2 DEF BatchState, BatchSteps, NoBatchSteps
  <2>4. SummariesOK /\ BatchDirsOK /\ OneStockStopsNothing
    BY <2>1 DEF SummariesOK, Written, BatchDirsOK, OneStockStopsNothing
  <2> QED BY <2>3, <2>4 DEF BatchInv
<1>2. IInv /\ TypeInv /\ RunInv /\ BatchInv /\ [Next]_vars => BatchInv' BY BatchStep
<1> QED BY <1>1, <1>2, Invariant, TypeInvariant, RunInvariant, PTL DEF Spec

LEMMA SummariesAccount == ASSUME IInv, BatchInv PROVE SummaryAccountsForStocks
<1> SUFFICES ASSUME NEW id \in Batches, Written(BatchConfig(id)), Written(Summary(id)),
                    NEW results, results = files[Summary(id)].results
             PROVE  /\ [i \in DOMAIN results |-> results[i].stock] = files[BatchConfig(id)]
                    /\ results = files[StockLog(id)]
                    /\ \A r \in ToSet(results) : r.status = "completed" =>
                         /\ Finished(r.runDir[2]) /\ Sealed(r.evaluationDir)
                         /\ r.observations = files[<<r.evaluationDir, "factor-evaluation-summary.json">>].observations
  BY DEF SummaryAccountsForStocks
<1>1. PICK stocks : stocks = files[BatchConfig(id)] OBVIOUS
<1>2. /\ files[StockLog(id)] = results /\ IsSeq(stocks) /\ Len(results) = Len(stocks)
      /\ ResultsOf(files, dirs, stocks, results)
  BY <1>1 DEF BatchInv, SummariesOK, SummaryIn
<1>3. [i \in DOMAIN results |-> results[i].stock] = stocks
  <2>1. IsSeq(results) BY <1>2 DEF ResultsOf
  <2>2. DOMAIN results = 1..Len(results) /\ DOMAIN stocks = 1..Len(stocks) BY <1>2, <2>1, SeqShape
  <2>3. DOMAIN results = DOMAIN stocks BY <1>2, <2>2
  <2>4. \A i \in DOMAIN results : results[i].stock = stocks[i] BY <1>2 DEF ResultsOf
  <2>5. stocks = [i \in DOMAIN stocks |-> stocks[i]]
    <3> DEFINE S == ToSet(stocks)
    <3>1. stocks \in Seq(S) BY <1>2 DEF IsSeq
    <3> HIDE DEF S
    <3> QED BY <3>1
  <2> QED BY <2>3, <2>4, <2>5
<1>4. ASSUME NEW r \in ToSet(results), r.status = "completed"
      PROVE  /\ Finished(r.runDir[2]) /\ Sealed(r.evaluationDir)
             /\ r.observations = files[<<r.evaluationDir, "factor-evaluation-summary.json">>].observations
  <2>1. CompletedIn(files, dirs, r) BY <1>2 DEF ResultsOf, ToSet
  <2> DEFINE dir == r.evaluationDir
  <2>2. /\ RunManifest(r.runDir[2]) \in DOMAIN files /\ dir[1] = "evaluation" /\ EvaluationReport(dir) \in DOMAIN files
        /\ r.observations = files[EvaluationSummary(dir)].observations
    BY <1>4, <2>1 DEF CompletedIn
  <2>3. Sealed(dir) BY <2>2 DEF Sealed, EvaluationReport, Written
  <2> QED BY <2>2, <2>3 DEF Finished, Written, EvaluationSummary
<1> QED BY <1>1, <1>2, <1>3, <1>4

\* What seals a run or a batch accounts for every stock it was asked for, in order, with all its
\* files and the checksums the manifest gives; and only what is refused, broken or killed stays
\* without a seal (chip_factor_runner.py, factor_batch_runner.py).
THEOREM SealsAccount == Spec => []SealsAccountForStocks
<1>1. IInv /\ TypeInv /\ RunInv /\ BatchInv => SealsAccountForStocks
  <2> SUFFICES ASSUME IInv, TypeInv, RunInv, BatchInv PROVE SealsAccountForStocks OBVIOUS
  <2>1. OneStockStopsNothing BY DEF BatchInv
  <2> QED BY <2>1, TypesOK, ManifestsSeal, SummariesAccount DEF SealsAccountForStocks
<1> QED BY <1>1, Invariant, TypeInvariant, RunInvariant, BatchInvariant, PTL

-----------------------------------------------------------------------------
(* What the merge of batches does *)

LEMMA LeastNat == ASSUME NEW S \in SUBSET Nat, S # {} PROVE \E m \in S : \A k \in S : m <= k
<1> DEFINE R == OpToRel(<, Nat)
<1>1. IsWellFoundedOn(R, Nat) BY NatLessThanWellFounded
<1>2. \A x, y \in Nat : x < y => <<x, y>> \in R BY DEF OpToRel
<1> HIDE DEF R
<1>3. PICK x \in S : \A y \in S : ~ (<<y, x>> \in R) BY <1>1, WFMin
<1>4. \A y \in S : ~ (y < x) BY <1>2, <1>3
<1>5. x \in Nat /\ \A y \in S : y \in Nat OBVIOUS
<1>6. \A y \in S : x <= y BY <1>4, <1>5
<1> QED BY <1>6

\* Every number is in a set that holds 0 and with a number its successor.
LEMMA AllNaturals == ASSUME NEW S, S \subseteq Nat, 0 \in S, \A n \in S : n + 1 \in S PROVE S = Nat
<1> SUFFICES ASSUME Nat \ S # {} PROVE FALSE OBVIOUS
<1>1. PICK m \in Nat \ S : \A k \in Nat \ S : m <= k BY LeastNat
<1>2. m # 0 /\ m - 1 \in Nat OBVIOUS
<1>3. m - 1 \in S BY <1>1, <1>2
<1> QED BY <1>1, <1>3

\* f goes on from its value at 0, each value from the one before.
Follows(f, V, base, step, N) ==
  f \in [0..N -> V] /\ f[0] = base /\ \A i \in 1..N : f[i] = step[<<i, f[i - 1]>>]

LEMMA Recursion ==
  ASSUME NEW V, NEW base \in V, NEW step \in [Nat \X V -> V], NEW N \in Nat
  PROVE \E f : Follows(f, V, base, step, N)
<1> DEFINE T == {n \in Nat : \E f : Follows(f, V, base, step, n)}
<1>1. 0 \in T
  <2>1. Follows([i \in 0..0 |-> base], V, base, step, 0) BY DEF Follows
  <2> QED BY <2>1
<1>2. ASSUME NEW n \in T PROVE n + 1 \in T
  <2>1. n \in Nat OBVIOUS
  <2>2. PICK f : Follows(f, V, base, step, n) OBVIOUS
  <2> DEFINE h == [i \in 0..(n + 1) |-> IF i = n + 1 THEN step[<<n + 1, f[n]>>] ELSE f[i]]
  <2>3. f \in [0..n -> V] /\ step[<<n + 1, f[n]>>] \in V BY <2>1, <2>2 DEF Follows
  <2>4. h \in [0..(n + 1) -> V] BY <2>1, <2>2, <2>3
  <2>5. \A i \in 0..n : h[i] = f[i] BY <2>1
  <2>6. h[n + 1] = step[<<n + 1, f[n]>>] BY <2>1
  <2> HIDE DEF h
  <2>7. h[0] = base BY <2>1, <2>2, <2>5 DEF Follows
  <2>8. ASSUME NEW i \in 1..(n + 1) PROVE h[i] = step[<<i, h[i - 1]>>]
    <3>1. CASE i = n + 1 BY <2>1, <2>5, <2>6, <3>1
    <3>2. CASE i # n + 1
      <4>1. i \in 1..n /\ i - 1 \in 0..n /\ i \in 0..n BY <2>1, <3>2
      <4> QED BY <2>2, <2>5, <4>1 DEF Follows
    <3> QED BY <3>1, <3>2
  <2>9. Follows(h, V, base, step, n + 1) BY <2>4, <2>7, <2>8 DEF Follows
  <2> QED BY <2>1, <2>9
<1> HIDE DEF T
<1>3. T \subseteq Nat BY DEF T
<1>4. N \in T BY <1>1, <1>2, <1>3, AllNaturals
<1> QED BY <1>4 DEF T

LEMMA Concatenated ==
  ASSUME NEW X, NEW a \in Seq(X), NEW b \in Seq(X)
  PROVE a \o b \in Seq(X) /\ ToSet(a \o b) = ToSet(a) \cup ToSet(b)
<1>1. ToSet(a \o b) \subseteq ToSet(a) \cup ToSet(b) BY DEF ToSet
<1>2. ToSet(a) \subseteq ToSet(a \o b) BY DEF ToSet
<1>3. ASSUME NEW i \in DOMAIN b PROVE b[i] \in ToSet(a \o b)
  <2>1. i + Len(a) \in DOMAIN (a \o b) /\ (a \o b)[i + Len(a)] = b[i] OBVIOUS
  <2> QED BY <2>1 DEF ToSet
<1> QED BY <1>1, <1>2, <1>3 DEF ToSet

LEMMA UnionWith == ASSUME NEW Sets, NEW c PROVE UNION (Sets \cup {c}) = (UNION Sets) \cup c
<1>1. ASSUME NEW x \in UNION (Sets \cup {c}) PROVE x \in (UNION Sets) \cup c OBVIOUS
<1>2. ASSUME NEW x \in (UNION Sets) \cup c PROVE x \in UNION (Sets \cup {c})
  <2>1. CASE x \in c BY <2>1
  <2>2. CASE x \in UNION Sets BY <2>2
  <2> QED BY <1>2, <2>1, <2>2
<1> QED BY <1>1, <1>2

\* The sequence of sequences, one after the other, has the elements of all of them.
LEMMA FlattenShape ==
  ASSUME NEW X, NEW seqs, IsSeq(seqs), \A i \in DOMAIN seqs : seqs[i] \in Seq(X)
  PROVE FlattenSeq(seqs) \in Seq(X) /\ ToSet(FlattenSeq(seqs)) = UNION {ToSet(seqs[i]) : i \in DOMAIN seqs}
<1>1. Len(seqs) \in Nat /\ DOMAIN seqs = 1..Len(seqs) BY DEF IsSeq
<1>2. CASE Len(seqs) = 0
  <2>1. FlattenSeq(seqs) = seqs /\ seqs = <<>> BY <1>1, <1>2 DEF FlattenSeq, IsSeq
  <2> QED BY <2>1 DEF ToSet
<1>3. CASE Len(seqs) # 0
  <2> DEFINE N == Len(seqs)
             Eq(f) == f = [i \in 1..N |-> IF i = 1 THEN seqs[i] ELSE f[i - 1] \o seqs[i]]
             g == CHOOSE f : Eq(f)
             step == [x \in Nat \X Seq(X) |-> IF x[1] \in 1..N THEN x[2] \o seqs[x[1]] ELSE x[2]]
  <2>1. N \in Nat /\ N # 0 /\ \A i \in 1..N : seqs[i] \in Seq(X) BY <1>1, <1>3
  <2>2. step \in [Nat \X Seq(X) -> Seq(X)]
    <3>1. ASSUME NEW n \in Nat, NEW v \in Seq(X), n \in 1..N PROVE v \o seqs[n] \in Seq(X)
      BY <1>1, <3>1
    <3> QED BY <3>1
  <2>3. ASSUME NEW n \in 1..N, NEW v \in Seq(X) PROVE step[<<n, v>>] = v \o seqs[n]
    <3>1. <<n, v>> \in Nat \X Seq(X) /\ <<n, v>>[1] = n /\ <<n, v>>[2] = v BY <2>1
    <3> DEFINE x == <<n, v>>
    <3> HIDE DEF x
    <3>2. x \in Nat \X Seq(X) => step[x] = IF x[1] \in 1..N THEN x[2] \o seqs[x[1]] ELSE x[2] OBVIOUS
    <3> QED BY <3>1, <3>2 DEF x
  <2> HIDE DEF step, N
  <2>4. PICK f : Follows(f, Seq(X), <<>>, step, N)
    <3>1. <<>> \in Seq(X) OBVIOUS
    <3> QED BY <2>1, <2>2, <3>1, Recursion
  <2> DEFINE h == [i \in 1..N |-> f[i]]
  <2>5. ASSUME NEW i \in 1..N PROVE f[i] = IF i = 1 THEN seqs[i] ELSE h[i - 1] \o seqs[i]
    <3>1. i - 1 \in 0..N /\ f[i - 1] \in Seq(X) BY <2>1, <2>4 DEF Follows
    <3>2. f[i] = f[i - 1] \o seqs[i] BY <2>3, <2>4, <3>1 DEF Follows
    <3>3. CASE i = 1
      <4>1. seqs[1] \in Seq(X) BY <2>1
      <4>2. f[1] = f[0] \o seqs[1] /\ f[0] = <<>>
        <5>1. i - 1 = 0 BY <3>3
        <5> QED BY <3>2, <3>3, <5>1, <2>4 DEF Follows
      <4>3. \A s \in Seq(X) : <<>> \o s = s OBVIOUS
      <4> QED BY <3>3, <4>1, <4>2, <4>3
    <3>4. CASE i # 1
      <4>1. i - 1 \in 1..N BY <2>1, <3>4
      <4>2. h[i - 1] = f[i - 1] BY <4>1
      <4> QED BY <3>2, <3>4, <4>2
    <3> QED BY <3>3, <3>4
  <2>6. Eq(h)
    <3>1. h = [i \in 1..N |-> IF i = 1 THEN seqs[i] ELSE h[i - 1] \o seqs[i]]
      <4> DEFINE e(i) == IF i = 1 THEN seqs[i] ELSE h[i - 1] \o seqs[i]
      <4>1. \A i \in 1..N : f[i] = e(i) BY <2>5
      <4> HIDE DEF e
      <4>2. h = [i \in 1..N |-> e(i)] BY <4>1
      <4> QED BY <4>2 DEF e
    <3> QED BY <3>1
  <2> HIDE DEF Eq, h
  <2>7. Eq(g) BY <2>6
  <2> HIDE DEF g
  <2>8. FlattenSeq(seqs) = g[N]
    <3>1. g = CHOOSE ff : ff = [i \in 1..N |-> IF i = 1 THEN seqs[i] ELSE ff[i - 1] \o seqs[i]] BY DEF g, Eq
    <3> QED BY <1>3, <1>1, <3>1 DEF FlattenSeq, N
  <2>9. \A i \in 1..N : g[i] = IF i = 1 THEN seqs[i] ELSE g[i - 1] \o seqs[i]
    <3> DEFINE e(i) == IF i = 1 THEN seqs[i] ELSE g[i - 1] \o seqs[i]
    <3>1. g = [i \in 1..N |-> e(i)] BY <2>7 DEF Eq
    <3> HIDE DEF e
    <3>2. \A i \in 1..N : g[i] = e(i) BY <3>1
    <3> QED BY <3>2 DEF e
  <2> DEFINE Good(n) == g[n] \in Seq(X) /\ ToSet(g[n]) = UNION {ToSet(seqs[i]) : i \in 1..n}
             U == {n \in Nat : n \in 1..N => Good(n)}
  <2>10. 0 \in U BY <2>1
  <2>11. ASSUME NEW n \in U PROVE n + 1 \in U
    <3>1. n \in Nat /\ (n \in 1..N => Good(n)) OBVIOUS
    <3> SUFFICES ASSUME n + 1 \in 1..N PROVE Good(n + 1) BY <3>1
    <3>2. seqs[n + 1] \in Seq(X) BY <2>1
    <3>3. CASE n = 0
      <4>1. g[1] = seqs[1] BY <2>9, <2>1
      <4> QED BY <3>3, <4>1, <3>2
    <3>4. CASE n # 0
      <4>1. n \in 1..N /\ Good(n) BY <3>1, <3>4, <2>1
      <4>2. g[n + 1] = g[n] \o seqs[n + 1]
        <5>1. n + 1 # 1 /\ (n + 1) - 1 = n BY <3>1, <3>4
        <5>2. g[n + 1] = IF n + 1 = 1 THEN seqs[n + 1] ELSE g[(n + 1) - 1] \o seqs[n + 1] BY <2>9, ZenonT(30)
        <5> QED BY <5>1, <5>2
      <4>3. g[n + 1] \in Seq(X) /\ ToSet(g[n + 1]) = ToSet(g[n]) \cup ToSet(seqs[n + 1]) BY <4>1, <4>2, <3>2, Concatenated
      <4>4. 1..(n + 1) = 1..n \cup {n + 1} BY <3>1
      <4>5. UNION {ToSet(seqs[i]) : i \in 1..(n + 1)} = (UNION {ToSet(seqs[i]) : i \in 1..n}) \cup ToSet(seqs[n + 1])
        <5> DEFINE Sets == {ToSet(seqs[i]) : i \in 1..n} More == {ToSet(seqs[i]) : i \in 1..(n + 1)} c == ToSet(seqs[n + 1])
        <5>1. More = Sets \cup {c} BY <4>4
        <5> HIDE DEF Sets, More, c
        <5>2. UNION More = (UNION Sets) \cup c BY <5>1, UnionWith
        <5> QED BY <5>2 DEF Sets, More, c
      <4> QED BY <4>1, <4>3, <4>5
    <3> QED BY <3>3, <3>4
  <2> HIDE DEF U
  <2>12. U \subseteq Nat BY DEF U
  <2>13. N \in U BY <2>1, <2>10, <2>11, <2>12, AllNaturals
  <2>14. Good(N) BY <2>1, <2>13 DEF U
  <2>15. DOMAIN seqs = 1..N BY <1>1 DEF N
  <2> QED BY <2>8, <2>14, <2>15
<1> QED BY <1>2, <1>3


\* What the dict holds of the results: one of each stock, a completed one if there is any.
Holds(merged, results) ==
  /\ DOMAIN merged = {r.stock : r \in results}
  /\ \A s \in DOMAIN merged :
       /\ merged[s] \in results /\ merged[s].stock = s
       /\ merged[s].status = "completed" <=> \E r \in results : r.stock = s /\ r.status = "completed"

LEMMA HoldsNone == Holds(<<>>, {})
BY DEF Holds

LEMMA HoldsMore ==
  ASSUME NEW merged, NEW results, NEW r, Holds(merged, results)
  PROVE Holds(WithStockResult(merged, r), results \cup {r})
<1> DEFINE after == WithStockResult(merged, r)
           replaced == [s \in {r.stock} \cup DOMAIN merged |-> IF s = r.stock THEN r ELSE merged[s]]
<1>1. DOMAIN merged = {q.stock : q \in results} BY DEF Holds
<1>2. \A s \in DOMAIN merged :
        /\ merged[s] \in results /\ merged[s].stock = s
        /\ merged[s].status = "completed" <=> \E q \in results : q.stock = s /\ q.status = "completed"
  BY DEF Holds
<1>3. {q.stock : q \in results \cup {r}} = {r.stock} \cup DOMAIN merged BY <1>1
<1>4. CASE r.stock \in DOMAIN merged /\ ~ShouldReplaceStockResult(merged[r.stock], r)
  <2>1. after = merged BY <1>4 DEF WithStockResult
  <2>2. DOMAIN merged = {q.stock : q \in results \cup {r}} BY <1>3, <1>4
  <2>3. r.status = "completed" => merged[r.stock].status = "completed" BY <1>4 DEF ShouldReplaceStockResult
  <2>4. ASSUME NEW s \in DOMAIN merged
        PROVE merged[s].status = "completed" <=> \E q \in results \cup {r} : q.stock = s /\ q.status = "completed"
    BY <1>2, <2>3
  <2>5. \A s \in DOMAIN merged : merged[s] \in results \cup {r} /\ merged[s].stock = s BY <1>2
  <2> QED BY <2>1, <2>2, <2>4, <2>5 DEF Holds
<1>5. CASE ~(r.stock \in DOMAIN merged /\ ~ShouldReplaceStockResult(merged[r.stock], r))
  <2>1. after = replaced BY <1>5 DEF WithStockResult
  <2>2. DOMAIN replaced = {q.stock : q \in results \cup {r}} BY <1>3
  <2>3. replaced[r.stock] = r OBVIOUS
  <2>4. \A s \in DOMAIN merged : s # r.stock => replaced[s] = merged[s] OBVIOUS
  <2>5. \A s \in DOMAIN replaced : s = r.stock \/ s \in DOMAIN merged OBVIOUS
  <2>6. r.stock \in DOMAIN merged => r.status = "completed" BY <1>5 DEF ShouldReplaceStockResult
  <2> HIDE DEF replaced
  <2>7. ASSUME NEW s \in DOMAIN replaced
        PROVE /\ replaced[s] \in results \cup {r} /\ replaced[s].stock = s
              /\ replaced[s].status = "completed" <=> \E q \in results \cup {r} : q.stock = s /\ q.status = "completed"
    <3>1. CASE s = r.stock
      <4>1. CASE r.status = "completed" BY <2>3, <3>1, <4>1
      <4>2. CASE r.status # "completed"
        <5>1. r.stock \notin DOMAIN merged BY <2>6, <4>2
        <5>2. \A q \in results : q.stock # r.stock BY <1>1, <5>1
        <5> QED BY <2>3, <3>1, <4>2, <5>2
      <4> QED BY <4>1, <4>2
    <3>2. CASE s # r.stock
      <4>1. s \in DOMAIN merged /\ replaced[s] = merged[s] BY <2>4, <2>5, <3>2
      <4> QED BY <1>2, <3>2, <4>1
    <3> QED BY <3>1, <3>2
  <2> QED BY <2>1, <2>2, <2>7 DEF Holds
<1> QED BY <1>4, <1>5


LEMMA MergedHolds == ASSUME NEW all, IsSeq(all) PROVE Holds(MergedResults(all), ToSet(all))
<1> DEFINE N == Len(all)
           X == ToSet(all)
           Y == {r.stock : r \in X}
           V == UNION {[D -> X] : D \in SUBSET Y}
           Eq(f) == f = [n \in 0..N |-> IF n = 0 THEN <<>> ELSE WithStockResult(f[n - 1], all[n])]
           g == CHOOSE f : Eq(f)
           step == [x \in Nat \X V |-> IF x[1] \in 1..N THEN WithStockResult(x[2], all[x[1]]) ELSE x[2]]
<1>1. N \in Nat /\ DOMAIN all = 1..N BY DEF IsSeq
<1>2. X = {all[i] : i \in 1..N} BY <1>1 DEF ToSet
<1>3. ASSUME NEW v \in V, NEW i \in 1..N PROVE WithStockResult(v, all[i]) \in V
  <2>1. all[i] \in X /\ all[i].stock \in Y BY <1>2
  <2>2. PICK D \in SUBSET Y : v \in [D -> X] OBVIOUS
  <2> HIDE DEF X, Y
  <2>3. CASE WithStockResult(v, all[i]) = v BY <2>3
  <2>4. CASE WithStockResult(v, all[i]) # v
    <3> DEFINE w == [s \in {all[i].stock} \cup DOMAIN v |-> IF s = all[i].stock THEN all[i] ELSE v[s]]
    <3>1. WithStockResult(v, all[i]) = w BY <2>4 DEF WithStockResult
    <3>2. {all[i].stock} \cup D \in SUBSET Y BY <2>1
    <3>3. w \in [{all[i].stock} \cup D -> X] BY <2>1, <2>2
    <3> HIDE DEF w
    <3>4. w \in V BY <3>2, <3>3
    <3> QED BY <3>1, <3>4
  <2> QED BY <2>3, <2>4
<1>4. <<>> \in V
  <2>1. <<>> \in [{} -> X] OBVIOUS
  <2> QED BY <2>1
<1> HIDE DEF V, N
<1>5. step \in [Nat \X V -> V] BY <1>3
<1>6. ASSUME NEW i \in 1..N, NEW v \in V PROVE step[<<i, v>>] = WithStockResult(v, all[i])
  <2>1. <<i, v>> \in Nat \X V /\ <<i, v>>[1] = i /\ <<i, v>>[2] = v BY <1>1
  <2> DEFINE x == <<i, v>>
  <2> HIDE DEF x
  <2>2. x \in Nat \X V => step[x] = IF x[1] \in 1..N THEN WithStockResult(x[2], all[x[1]]) ELSE x[2] OBVIOUS
  <2> QED BY <2>1, <2>2 DEF x
<1> HIDE DEF step
<1>7. PICK f : Follows(f, V, <<>>, step, N) BY <1>1, <1>4, <1>5, Recursion
<1>8. f \in [0..N -> V] /\ f[0] = <<>> BY <1>7 DEF Follows
<1>9. ASSUME NEW n \in 1..N PROVE f[n] = WithStockResult(f[n - 1], all[n])
  <2>1. n - 1 \in 0..N BY <1>1
  <2>2. f[n - 1] \in V BY <1>8, <2>1
  <2>3. f[n] = step[<<n, f[n - 1]>>] BY <1>7 DEF Follows
  <2> QED BY <1>6, <2>2, <2>3
<1>10. Eq(f)
  <2> DEFINE e(n) == IF n = 0 THEN <<>> ELSE WithStockResult(f[n - 1], all[n])
  <2>1. ASSUME NEW n \in 0..N PROVE f[n] = e(n)
    <3>1. CASE n = 0 BY <1>8, <3>1
    <3>2. CASE n # 0
      <4>1. n \in 1..N BY <1>1, <3>2
      <4> QED BY <1>9, <3>2, <4>1
    <3> QED BY <3>1, <3>2
  <2> HIDE DEF e
  <2>2. f = [n \in 0..N |-> e(n)] BY <1>8, <2>1
  <2> QED BY <2>2 DEF e
<1> HIDE DEF Eq
<1>11. Eq(g) BY <1>10
<1> HIDE DEF g
<1>12. MergedResults(all) = g[N] BY DEF MergedResults, g, Eq, N
<1>13. g[0] = <<>> /\ \A n \in 1..N : g[n] = WithStockResult(g[n - 1], all[n])
  <2> DEFINE e(n) == IF n = 0 THEN <<>> ELSE WithStockResult(g[n - 1], all[n])
  <2>1. g = [n \in 0..N |-> e(n)] BY <1>11 DEF Eq
  <2> HIDE DEF e
  <2>2. \A n \in 0..N : g[n] = e(n) BY <2>1
  <2>3. 0 \in 0..N /\ \A n \in 1..N : n \in 0..N /\ n # 0 BY <1>1
  <2> QED BY <2>2, <2>3 DEF e
<1> DEFINE U == {n \in Nat : n <= N => Holds(g[n], {all[i] : i \in 1..n})}
<1>14. 0 \in U
  <2>1. {all[i] : i \in 1..0} = {} OBVIOUS
  <2> QED BY <1>13, <2>1, HoldsNone
<1>15. ASSUME NEW n \in U PROVE n + 1 \in U
  <2>1. n \in Nat /\ (n <= N => Holds(g[n], {all[i] : i \in 1..n})) OBVIOUS
  <2> SUFFICES ASSUME n + 1 <= N PROVE Holds(g[n + 1], {all[i] : i \in 1..(n + 1)}) BY <2>1
  <2>2. n + 1 \in 1..N /\ (n + 1) - 1 = n /\ n <= N BY <1>1, <2>1
  <2>3. g[n + 1] = WithStockResult(g[(n + 1) - 1], all[n + 1]) BY <1>13, <2>2, ZenonT(30)
  <2>4. g[n + 1] = WithStockResult(g[n], all[n + 1]) BY <2>2, <2>3
  <2>5. 1..(n + 1) = 1..n \cup {n + 1} BY <2>1
  <2>6. {all[i] : i \in 1..(n + 1)} = {all[i] : i \in 1..n} \cup {all[n + 1]} BY <2>5
  <2> QED BY <2>1, <2>2, <2>4, <2>6, HoldsMore
<1> HIDE DEF U
<1>16. U \subseteq Nat BY DEF U
<1>17. N \in U BY <1>1, <1>14, <1>15, <1>16, AllNaturals
<1>18. Holds(g[N], {all[i] : i \in 1..N}) BY <1>1, <1>17 DEF U
<1> QED BY <1>2, <1>12, <1>18


\* A finite set of numbers has its elements in a row.
LEMMA InOrder ==
  ASSUME NEW S \in SUBSET Nat, IsFiniteSet(S)
  PROVE \E s \in [1..Cardinality(S) -> S] : \A i, j \in DOMAIN s : i < j => s[i] < s[j]
<1> DEFINE Ordered(T) == \E s \in [1..Cardinality(T) -> T] : \A i, j \in DOMAIN s : i < j => s[i] < s[j]
           U == {n \in Nat : \A T \in SUBSET Nat : IsFiniteSet(T) /\ Cardinality(T) = n => Ordered(T)}
<1>1. 0 \in U
  <2> SUFFICES ASSUME NEW T \in SUBSET Nat, IsFiniteSet(T), Cardinality(T) = 0 PROVE Ordered(T) OBVIOUS
  <2>1. T = {} BY FS_EmptySet
  <2>2. <<>> \in [1..0 -> {}] /\ \A i, j \in DOMAIN <<>> : i < j => <<>>[i] < <<>>[j] OBVIOUS
  <2> QED BY <2>1, <2>2
<1>2. ASSUME NEW n \in U PROVE n + 1 \in U
  <2>1. n \in Nat /\ \A T \in SUBSET Nat : IsFiniteSet(T) /\ Cardinality(T) = n => Ordered(T) OBVIOUS
  <2> SUFFICES ASSUME NEW T \in SUBSET Nat, IsFiniteSet(T), Cardinality(T) = n + 1 PROVE Ordered(T) BY <2>1
  <2>2. T # {} BY <2>1, FS_EmptySet
  <2>3. PICK m \in T : \A k \in T : m <= k BY <2>2, LeastNat
  <2> DEFINE R == T \ {m}
  <2>4. IsFiniteSet(R) /\ Cardinality(R) = n BY <2>1, FS_RemoveElement
  <2>5. PICK s \in [1..n -> R] : \A i, j \in DOMAIN s : i < j => s[i] < s[j] BY <2>1, <2>4
  <2> DEFINE h == [i \in 1..(n + 1) |-> IF i = 1 THEN m ELSE s[i - 1]]
  <2>6. \A k \in R : k \in T /\ m < k BY <2>3
  <2> HIDE DEF R
  <2>7. \A i \in 1..(n + 1) : i # 1 => i - 1 \in 1..n /\ s[i - 1] \in R BY <2>1
  <2>8. h \in [1..(n + 1) -> T] BY <2>6, <2>7
  <2>9. ASSUME NEW i \in 1..(n + 1), NEW j \in 1..(n + 1), i < j PROVE h[i] < h[j]
    <3>1. j # 1 /\ h[j] = s[j - 1] BY <2>9
    <3>2. CASE i = 1
      <4>1. s[j - 1] \in R BY <2>7, <3>1
      <4>2. h[i] = m BY <3>2
      <4> QED BY <2>6, <3>1, <4>1, <4>2
    <3>3. CASE i # 1
      <4>1. h[i] = s[i - 1] BY <3>3
      <4>2. i - 1 \in DOMAIN s /\ j - 1 \in DOMAIN s /\ i - 1 < j - 1 BY <2>7, <2>9, <3>1, <3>3
      <4> QED BY <2>5, <3>1, <4>1, <4>2
    <3> QED BY <3>2, <3>3
  <2> HIDE DEF h
  <2>10. DOMAIN h = 1..(n + 1) BY <2>8
  <2> QED BY <2>8, <2>9, <2>10
<1> HIDE DEF U
<1>3. U \subseteq Nat BY DEF U
<1>4. Cardinality(S) \in U BY <1>1, <1>2, <1>3, AllNaturals, FS_CardinalityType
<1> QED BY <1>4 DEF U

LEMMA SortedShape ==
  ASSUME NEW S \in SUBSET Nat, IsFiniteSet(S)
  PROVE /\ Sorted(S) \in [1..Cardinality(S) -> S]
        /\ \A i, j \in DOMAIN Sorted(S) : i < j => Sorted(S)[i] < Sorted(S)[j]
        /\ \A x \in S : \E i \in 1..Cardinality(S) : Sorted(S)[i] = x
<1> DEFINE s == Sorted(S) N == Cardinality(S)
<1>1. s \in [1..N -> S] /\ \A i, j \in DOMAIN s : i < j => s[i] < s[j] BY InOrder DEF Sorted
<1>2. N \in Nat BY FS_CardinalityType
<1> HIDE DEF s, N
<1>3. \A i, j \in 1..N : s[i] = s[j] => i = j
  <2> SUFFICES ASSUME NEW i \in 1..N, NEW j \in 1..N, s[i] = s[j], i # j PROVE FALSE OBVIOUS
  <2>1. s[i] \in Nat /\ s[j] \in Nat BY <1>1
  <2>2. i < j \/ j < i BY <1>2
  <2>3. s[i] < s[j] \/ s[j] < s[i] BY <1>1, <2>2
  <2> QED BY <2>1, <2>3
<1>4. s \in Injection(1..N, S) BY <1>1, <1>3 DEF Injection, IsInjective
<1>5. IsFiniteSet(1..N) /\ Cardinality(1..N) = N BY <1>2, FS_Interval
<1>6. s \in Surjection(1..N, S)
  <2>1. Cardinality(1..N) = Cardinality(S) BY <1>5 DEF N
  <2> QED BY <1>4, <2>1, FS_Injection
<1>7. \A x \in S : \E i \in 1..N : s[i] = x BY <1>6 DEF Surjection
<1> QED BY <1>1, <1>7 DEF s, N


\* Results are a sequence, each of a stock.
StockResults(results) == IsSeq(results) /\ \A i \in DOMAIN results : results[i].stock \in Nat

\* One result for each stock of the sources, a completed one if there is any.
Merges(merged, sources) ==
  LET stocks == {r.stock : r \in sources}
  IN /\ {r.stock : r \in ToSet(merged)} = stocks /\ Len(merged) = Cardinality(stocks)
     /\ \A r \in ToSet(merged) :
          /\ r \in sources
          /\ r.status = "completed" <=> \E q \in sources : q.stock = r.stock /\ q.status = "completed"

LEMMA MergeShape ==
  ASSUME NEW summaries, IsSeq(summaries), \A i \in DOMAIN summaries : StockResults(summaries[i].results)
  PROVE /\ StockResults(MergeStockResults(summaries))
        /\ Merges(MergeStockResults(summaries), UNION {ToSet(summaries[i].results) : i \in DOMAIN summaries})
<1> DEFINE seqs == [i \in DOMAIN summaries |-> summaries[i].results]
           sources == UNION {ToSet(summaries[i].results) : i \in DOMAIN summaries}
           all == FlattenSeq(seqs)
           merged == MergedResults(all)
           D == DOMAIN merged
           s == Sorted(D)
           N == Cardinality(D)
           m == MergeStockResults(summaries)
<1>1. Len(summaries) \in Nat /\ DOMAIN summaries = 1..Len(summaries) BY DEF IsSeq
<1>2. ASSUME NEW i \in DOMAIN summaries PROVE seqs[i] \in Seq(sources)
  <2>1. seqs[i] \in Seq(ToSet(summaries[i].results)) BY DEF StockResults, IsSeq
  <2>2. ToSet(summaries[i].results) \subseteq sources OBVIOUS
  <2> HIDE DEF seqs, sources
  <2> QED BY <2>1, <2>2
<1>3. IsSeq(seqs)
  <2>1. seqs \in Seq({summaries[i].results : i \in DOMAIN summaries}) BY <1>1
  <2> HIDE DEF seqs
  <2> QED BY <2>1, OwnElements DEF IsSeq
<1>4. DOMAIN seqs = DOMAIN summaries /\ \A i \in DOMAIN seqs : seqs[i] = summaries[i].results OBVIOUS
<1>5. UNION {ToSet(seqs[i]) : i \in DOMAIN seqs} = sources BY <1>4
<1>6. \A r \in sources : r.stock \in Nat
  <2> SUFFICES ASSUME NEW i \in DOMAIN summaries, NEW r \in ToSet(summaries[i].results) PROVE r.stock \in Nat OBVIOUS
  <2> QED BY DEF StockResults, ToSet
<1> HIDE DEF seqs, sources
<1>7. all \in Seq(sources) /\ ToSet(all) = sources BY <1>2, <1>3, <1>4, <1>5, FlattenShape
<1> HIDE DEF all
<1>8. IsSeq(all) BY <1>7 DEF IsSeq
<1>9. Holds(merged, sources) BY <1>7, <1>8, MergedHolds
<1> HIDE DEF merged
<1>10. D = {r.stock : r \in sources} BY <1>9 DEF Holds
<1>11. D \in SUBSET Nat BY <1>6, <1>10
<1>12. IsFiniteSet(D)
  <2>1. D = {all[i].stock : i \in DOMAIN all} BY <1>7, <1>10 DEF ToSet
  <2>2. Len(all) \in Nat /\ DOMAIN all = 1..Len(all) BY <1>7
  <2>3. IsFiniteSet(1..Len(all)) BY <2>2, FS_Interval
  <2> DEFINE f == [i \in DOMAIN all |-> all[i].stock]
  <2>4. f \in Surjection(DOMAIN all, D) BY <2>1 DEF Surjection
  <2> QED BY <2>2, <2>3, <2>4, FS_Surjection
<1>13. /\ s \in [1..N -> D]
       /\ \A x \in D : \E i \in 1..N : s[i] = x
  BY <1>11, <1>12, SortedShape
<1>14. N \in Nat BY <1>12, FS_CardinalityType
<1>15. m = [i \in DOMAIN s |-> merged[s[i]]] BY DEF MergeStockResults, s, D, merged, all, seqs
<1> HIDE DEF s, N, D, m
<1>16. DOMAIN m = 1..N /\ \A i \in 1..N : m[i] = merged[s[i]] BY <1>13, <1>15
<1>17. \A i \in 1..N : s[i] \in DOMAIN merged BY <1>13 DEF D
<1>18. \A i \in 1..N : m[i] \in sources /\ m[i].stock = s[i] BY <1>9, <1>16, <1>17 DEF Holds
<1>19. m \in Seq(sources) /\ Len(m) = N
  <2>1. m = [i \in 1..N |-> m[i]] BY <1>15, <1>16
  <2>2. [i \in 1..N |-> m[i]] \in Seq(sources) /\ Len([i \in 1..N |-> m[i]]) = N BY <1>14, <1>18
  <2> QED BY <2>1, <2>2
<1>20. ToSet(m) = {m[i] : i \in 1..N} BY <1>16 DEF ToSet
<1>21. StockResults(m)
  <2>1. IsSeq(m) BY <1>19, OwnElements DEF IsSeq
  <2> QED BY <1>6, <1>16, <1>18, <2>1 DEF StockResults
<1>22. Merges(m, sources)
  <2>1. {r.stock : r \in ToSet(m)} = D
    <3>1. \A r \in ToSet(m) : r.stock \in D BY <1>13, <1>18, <1>20
    <3>2. ASSUME NEW x \in D PROVE \E r \in ToSet(m) : r.stock = x
      <4>1. PICK i \in 1..N : s[i] = x BY <1>13
      <4> QED BY <4>1, <1>18, <1>20
    <3> QED BY <3>1, <3>2
  <2>2. ASSUME NEW r \in ToSet(m)
        PROVE r \in sources /\ (r.status = "completed" <=> \E q \in sources : q.stock = r.stock /\ q.status = "completed")
    <3>1. PICK i \in 1..N : r = m[i] BY <1>20
    <3> QED BY <3>1, <1>9, <1>16, <1>17, <1>18 DEF Holds
  <2> QED BY <1>10, <1>19, <2>1, <2>2 DEF Merges, N
<1> QED BY <1>21, <1>22 DEF m, sources


-----------------------------------------------------------------------------
(* What an aggregate makes of its batches *)

SummaryName == "factor-batch-summary.json"

\* The results of a summary, each of a stock, and the completed ones about what is there.
SoundResults(tree, made, results) ==
  StockResults(results) /\ \A i \in DOMAIN results : CompletedIn(tree, made, results[i])

ResultsOK ==
  /\ \A p \in DOMAIN files : p[2] = SummaryName => SoundResults(files, dirs, files[p].results)
  /\ \A i \in DOMAIN todo : todo[i].path[2] = SummaryName => SoundResults(files, dirs, todo[i].content.results)
  /\ InBatch => \A i \in DOMAIN batch.stocks : batch.stocks[i] \in Nat

\* The results of the batches an aggregate is made from.
Sources(tree, from) == UNION {ToSet(tree[Summary(b)].results) : b \in ToSet(from)}

AggregateOf(tree, command) ==
  /\ Summary(command.id) \in DOMAIN tree /\ \A b \in ToSet(command.from) : Summary(b) \in DOMAIN tree
  /\ Merges(tree[Summary(command.id)].results, Sources(tree, command.from))

\* An aggregate is written from the summaries of its batches, which do not change any more.
AggregateSteps ==
  pc # "command" /\ Command.do = "aggregate" =>
    /\ pc \in {"aggregate", "write", "ended", "raised"}
    /\ pc \in {"write", "ended"} =>
         /\ \A b \in ToSet(Command.from) : Written(Summary(b))
         /\ Written(Summary(Command.id)) => AggregateOf(files, Command)
         /\ \A i \in DOMAIN todo :
              todo[i].path = Summary(Command.id) => Merges(todo[i].content.results, Sources(files, Command.from))
         /\ Written(Summary(Command.id)) \/ (pc = "write" /\ Planned(Summary(Command.id)))

AggregateEndings ==
  \A i \in DOMAIN endings : commands[i].do = "aggregate" /\ endings[i] = "ok" => AggregateOf(files, commands[i])

MergeInv == ResultsOK /\ AggregateSteps /\ AggregateEndings

LEMMA SoundKept ==
  ASSUME TreeOK, TreeKept, NEW results, SoundResults(files, dirs, results)
  PROVE  SoundResults(files', dirs', results)
BY CompletedKept DEF SoundResults

LEMMA WrittenSummary ==
  ASSUME TreeOK, TreeKept, NEW id, Summary(id) \in DOMAIN files
  PROVE  Summary(id) \in DOMAIN files' /\ files'[Summary(id)] = files[Summary(id)]
<1> DEFINE p == Summary(id)
<1>1. p[1] = BatchDir(id) /\ p[2] = "factor-batch-summary.json" BY Paths
<1>2. BatchDir(id)[1] = "batch" BY Directories
<1>3. p \in DOMAIN files OBVIOUS
<1> HIDE DEF p
<1>4. p[1] \in dirs BY <1>1, <1>3 DEF TreeOK
<1>5. p \in DOMAIN files' /\ files'[p] = files[p] BY <1>1, <1>3, <1>4, FileKept DEF Logs
<1> QED BY <1>5 DEF p

LEMMA SourcesKept ==
  ASSUME TreeOK, TreeKept, NEW from, \A b \in ToSet(from) : Summary(b) \in DOMAIN files
  PROVE  Sources(files', from) = Sources(files, from)
<1>1. \A b \in ToSet(from) : files'[Summary(b)] = files[Summary(b)] BY WrittenSummary
<1> QED BY <1>1 DEF Sources

LEMMA AggregateKept ==
  ASSUME TreeOK, TreeKept, NEW command, AggregateOf(files, command)
  PROVE  AggregateOf(files', command)
<1>1. \A b \in ToSet(command.from) : Summary(b) \in DOMAIN files BY DEF AggregateOf
<1>2. Sources(files', command.from) = Sources(files, command.from) BY <1>1, SourcesKept
<1>3. Summary(command.id) \in DOMAIN files' /\ files'[Summary(command.id)] = files[Summary(command.id)]
  BY WrittenSummary DEF AggregateOf
<1>4. \A b \in ToSet(command.from) : Summary(b) \in DOMAIN files' BY <1>1, WrittenSummary
<1> QED BY <1>2, <1>3, <1>4 DEF AggregateOf

\* No summary is written or planned.
QuietSummary ==
  /\ \A p \in DOMAIN files' : p[2] = SummaryName => p \in DOMAIN files /\ files'[p] = files[p]
  /\ \A i \in DOMAIN todo' : todo'[i].path[2] = SummaryName => \E j \in DOMAIN todo : todo[j] = todo'[i]

LEMMA QuietResults ==
  ASSUME IInv, TreeKept, ResultsOK, QuietSummary, InBatch' => \A i \in DOMAIN batch'.stocks : batch'.stocks[i] \in Nat
  PROVE  ResultsOK'
<1>1. TreeOK BY DEF IInv
<1>2. ASSUME NEW p \in DOMAIN files', p[2] = SummaryName PROVE SoundResults(files', dirs', files'[p].results)
  BY <1>1, <1>2, SoundKept DEF ResultsOK, QuietSummary
<1>3. ASSUME NEW i \in DOMAIN todo', todo'[i].path[2] = SummaryName
      PROVE  SoundResults(files', dirs', todo'[i].content.results)
  <2>1. PICK j \in DOMAIN todo : todo[j] = todo'[i] BY <1>3 DEF QuietSummary
  <2>2. SoundResults(files, dirs, todo[j].content.results) BY <1>3, <2>1 DEF ResultsOK
  <2> QED BY <1>1, <2>1, <2>2, SoundKept
<1> QED BY <1>2, <1>3 DEF ResultsOK

LEMMA AggregateEndingsKept ==
  ASSUME TreeOK, TreeKept, AggregateEndings, UNCHANGED <<commands, endings>>
  PROVE  AggregateEndings'
<1> SUFFICES ASSUME NEW i \in DOMAIN endings, commands[i].do = "aggregate", endings[i] = "ok"
             PROVE AggregateOf(files', commands[i])
  BY DEF AggregateEndings
<1> QED BY AggregateKept DEF AggregateEndings

\* Steps of other commands.
LEMMA QuietMerge ==
  ASSUME IInv, TreeKept, MergeInv, QuietSummary, UNCHANGED <<commands, turn, endings>>,
         InBatch' => \A i \in DOMAIN batch'.stocks : batch'.stocks[i] \in Nat,
         Command.do # "aggregate"
  PROVE  MergeInv'
<1>1. Command' = Command BY DEF Command
<1>2. ResultsOK' BY QuietResults DEF MergeInv
<1>3. AggregateSteps' BY <1>1 DEF AggregateSteps
<1>4. AggregateEndings' BY AggregateEndingsKept DEF MergeInv, IInv
<1> QED BY <1>2, <1>3, <1>4 DEF MergeInv

\* What no step of a run or an evaluation writes.
OwnNames == {SummaryName, "factor-batch-config.json", "stock-results.jsonl", "review-state.json"}
Untouched == \A p \in DOMAIN files' : p[2] \in OwnNames => p \in DOMAIN files /\ files'[p] = files[p]
NotPlanned == \A i \in DOMAIN todo' : todo'[i].path[2] \notin OwnNames \/ \E j \in DOMAIN todo : todo[j] = todo'[i]

RunAction ==
  \/ StartRun \/ CallWithApiLog \/ StartStock \/ WriteLiveStock \/ WriteDryRunStock
  \/ RestoreHandlers \/ FlushCacheWriter \/ WriteManifest \/ Evaluate

LEMMA OwnWrite ==
  ASSUME NEW new, files' = WrittenOver(new, files), \A p \in DOMAIN new : p[2] \notin OwnNames
  PROVE  Untouched
<1> DEFINE after == WrittenOver(new, files)
<1>1. DOMAIN after = DOMAIN new \cup DOMAIN files /\ \A p \in DOMAIN files \ DOMAIN new : after[p] = files[p]
  BY OverShape
<1>2. files' = after OBVIOUS
<1> HIDE DEF after
<1> QED BY <1>1, <1>2 DEF Untouched

LEMMA SamePlans == ASSUME todo' = todo PROVE NotPlanned
BY DEF NotPlanned

LEMMA StockUntouched ==
  ASSUME NEW snapshots, NEW next, NEW failed, WriteStock(snapshots, next, failed)
  PROVE  Untouched
<1> DEFINE rows == StockRows(snapshots, run.days, run.outputDays)
           dir == StockDir(run.id, Stock)
<1>1. files' = WrittenOver(In(dir, rows), files) \/ files' = WrittenOver(In(dir, StockFiles(rows)), files)
  BY DEF WriteStock
<1>2. DOMAIN rows \subseteq StockNames BY RowNames DEF StockNames
<1>3. DOMAIN StockFiles(rows) \subseteq StockNames
  <2> HIDE DEF rows
  <2> QED BY <1>2 DEF StockFiles, WrittenOver, OneFile, StockNames
<1>4. StockNames \cap OwnNames = {} BY DEF StockNames, OwnNames, SummaryName
<1>5. ASSUME NEW contents, DOMAIN contents \subseteq StockNames, files' = WrittenOver(In(dir, contents), files) PROVE Untouched
  <2> DEFINE new == In(dir, contents)
  <2>1. \A p \in DOMAIN new : p[2] \notin OwnNames BY <1>4, <1>5, InNames
  <2> HIDE DEF new
  <2>2. files' = WrittenOver(new, files) BY <1>5 DEF new
  <2> QED BY <2>1, <2>2, OwnWrite
<1> QED BY <1>1, <1>2, <1>3, <1>5

LEMMA EvaluatePlan ==
  ASSUME NEW dir, NEW other, NEW a, NEW b, NEW c, NEW d,
         LET all == <<File(<<dir, "factor-forward-observations.jsonl">>, a), File(<<dir, "factor-evaluation-summary.json">>, b),
                      File(<<dir, "factor-evaluation-report.md">>, c), File(<<other, "latest.json">>, d)>>
         IN todo' = Tail(all) \/ todo' = all
  PROVE  \A i \in DOMAIN todo' : todo'[i].path[2] \notin OwnNames \cup {"factor-run-manifest.json"}
<1> DEFINE first == File(<<dir, "factor-forward-observations.jsonl">>, a)
           second == File(<<dir, "factor-evaluation-summary.json">>, b)
           third == File(<<dir, "factor-evaluation-report.md">>, c)
           last == File(<<other, "latest.json">>, d)
<1>1. todo' = <<second, third, last>> \/ todo' = <<first, second, third, last>> OBVIOUS
<1>2. /\ first.path[2] = "factor-forward-observations.jsonl" /\ second.path[2] = "factor-evaluation-summary.json"
      /\ third.path[2] = "factor-evaluation-report.md" /\ last.path[2] = "latest.json"
  BY DEF File
<1> HIDE DEF first, second, third, last
<1>3. CASE todo' = <<second, third, last>>
  <2>1. DOMAIN todo' = 1..3 /\ todo'[1] = second /\ todo'[2] = third /\ todo'[3] = last BY <1>3
  <2> QED BY <1>2, <2>1 DEF OwnNames, SummaryName
<1>4. CASE todo' = <<first, second, third, last>>
  <2>1. DOMAIN todo' = 1..4 /\ todo'[1] = first /\ todo'[2] = second /\ todo'[3] = third /\ todo'[4] = last BY <1>4
  <2> QED BY <1>2, <2>1 DEF OwnNames, SummaryName
<1> QED BY <1>1, <1>3, <1>4

LEMMA EvaluateShape ==
  ASSUME Evaluate
  PROVE  /\ UNCHANGED <<files, commands, turn, batch, endings, review, run, clock>> /\ pc = "evaluate" /\ pc' \in {"raised", "write"}
         /\ \A i \in DOMAIN todo' :
              todo'[i].path[2] \notin OwnNames \cup {"factor-run-manifest.json"} \/ \E j \in DOMAIN todo : todo[j] = todo'[i]
<1>1. UNCHANGED <<files, commands, turn, batch, endings, review, run, clock>> /\ pc = "evaluate"
  BY DEF Evaluate, Inputs, Locals, History
<1>2. \/ pc' = "raised" /\ todo' = todo
      \/ /\ pc' = "write"
         /\ \E dir, other, a, b, c, d :
              LET all == <<File(<<dir, "factor-forward-observations.jsonl">>, a), File(<<dir, "factor-evaluation-summary.json">>, b),
                           File(<<dir, "factor-evaluation-report.md">>, c), File(<<other, "latest.json">>, d)>>
              IN todo' = Tail(all) \/ todo' = all
  BY DEF Evaluate, Raise
<1> QED BY <1>1, <1>2, EvaluatePlan

LEMMA StartRunShape ==
  ASSUME StartRun
  PROVE  /\ UNCHANGED <<commands, turn, batch, endings, todo, review, clock>> /\ pc = "run"
         /\ \/ pc' = "raised" /\ UNCHANGED <<files, dirs, run>>
            \/ /\ RunDir(run.id) \notin dirs /\ dirs' = dirs \cup {RunDir(run.id)}
               /\ DOMAIN files' = DOMAIN files \cup {RunConfig(run.id), CallLog(run.id)}
               /\ files'[CallLog(run.id)] = <<>>
               /\ \A p \in DOMAIN files : p # RunConfig(run.id) /\ p # CallLog(run.id) => files'[p] = files[p]
               /\ pc' = (IF run.dry THEN pc' ELSE "trade_cal") /\ pc' \in {"trade_cal", "dry stock", "raised"}
               /\ pc' = "dry stock" => run.dry
               /\ pc' = "trade_cal" => ~run.dry
<1>1. UNCHANGED <<commands, turn, batch, endings, todo, review, clock>> /\ pc = "run" BY DEF StartRun, Inputs, History
<1>2. CASE run.stocks = <<>> \/ RunDir(run.id) \in dirs
  <2>1. pc' = "raised" /\ UNCHANGED <<files, dirs, run>> BY <1>2 DEF StartRun, Raise, Tree
  <2> QED BY <1>1, <2>1
<1>3. CASE ~(run.stocks = <<>> \/ RunDir(run.id) \in dirs)
  <2> DEFINE config == OneFile(RunConfig(run.id), [stocks |-> run.stocks, dry |-> run.dry])
             log == OneFile(CallLog(run.id), <<>>)
             with == WrittenOver(log, files)
             after == WrittenOver(config, with)
  <2>1. dirs' = dirs \cup {RunDir(run.id)} /\ files' = after BY <1>3 DEF StartRun
  <2>2. (pc' = (IF run.dry THEN pc' ELSE "trade_cal")) /\ (pc' \in {"trade_cal", "dry stock", "raised"})
        /\ (pc' = "dry stock" => run.dry) /\ (pc' = "trade_cal" => ~run.dry)
    BY <1>3 DEF StartRun, Raise
  <2>3. DOMAIN config = {RunConfig(run.id)} /\ DOMAIN log = {CallLog(run.id)} /\ log[CallLog(run.id)] = <<>> BY DEF OneFile
  <2>4. RunConfig(run.id) # CallLog(run.id) BY Paths
  <2> HIDE DEF config, log
  <2>5. DOMAIN with = DOMAIN log \cup DOMAIN files /\ (\A p \in DOMAIN files \ DOMAIN log : with[p] = files[p])
        /\ (\A p \in DOMAIN log : with[p] = log[p])
    BY DEF WrittenOver
  <2> HIDE DEF with
  <2>6. DOMAIN after = DOMAIN config \cup DOMAIN with /\ \A p \in DOMAIN with \ DOMAIN config : after[p] = with[p] BY OverShape
  <2> HIDE DEF after
  <2>7. DOMAIN files' = DOMAIN files \cup {RunConfig(run.id), CallLog(run.id)} BY <2>1, <2>3, <2>5, <2>6
  <2>8. files'[CallLog(run.id)] = <<>> BY <2>1, <2>3, <2>4, <2>5, <2>6
  <2>9. \A p \in DOMAIN files : p # RunConfig(run.id) /\ p # CallLog(run.id) => files'[p] = files[p] BY <2>1, <2>3, <2>5, <2>6
  <2> QED BY <1>1, <1>3, <2>1, <2>2, <2>7, <2>8, <2>9
<1> QED BY <1>2, <1>3


\* The steps of a run and of its evaluation leave everything but the run's own files alone.
LEMMA RunActionFiles ==
  ASSUME RunAction
  PROVE  /\ UNCHANGED <<commands, turn, batch, endings, review>> /\ pc \in RunPhases \cup {"run", "evaluate"}
         /\ Untouched /\ NotPlanned
<1>1. ASSUME StartRun
      PROVE  /\ UNCHANGED <<commands, turn, batch, endings, review>> /\ pc \in RunPhases \cup {"run", "evaluate"}
             /\ Untouched /\ NotPlanned
  <2>1. /\ UNCHANGED <<commands, turn, batch, endings, todo, review>> /\ pc = "run" BY <1>1, StartRunShape
  <2>2. \/ UNCHANGED files
        \/ /\ DOMAIN files' = DOMAIN files \cup {RunConfig(run.id), CallLog(run.id)}
           /\ \A p \in DOMAIN files : p # RunConfig(run.id) /\ p # CallLog(run.id) => files'[p] = files[p]
    BY <1>1, StartRunShape
  <2>3. RunConfig(run.id)[2] \notin OwnNames /\ CallLog(run.id)[2] \notin OwnNames BY Paths DEF OwnNames, SummaryName
  <2>4. Untouched BY <2>2, <2>3 DEF Untouched
  <2> QED BY <2>1, <2>4, SamePlans
<1>2. ASSUME CallWithApiLog
      PROVE  /\ UNCHANGED <<commands, turn, batch, endings, review>> /\ pc \in RunPhases \cup {"run", "evaluate"}
             /\ Untouched /\ NotPlanned
  <2> DEFINE log == CallLog(run.id)
  <2>1. /\ pc \in {"trade_cal", "cyq_chips", "daily"} /\ UNCHANGED <<commands, turn, batch, todo, endings, review>>
        /\ \E row : files' = [files EXCEPT ![log] = Append(@, row)]
    BY <1>2 DEF CallWithApiLog, Inputs
  <2>2. log[2] \notin OwnNames BY Paths DEF OwnNames, SummaryName
  <2> HIDE DEF log
  <2>3. Untouched BY <2>1, <2>2 DEF Untouched
  <2> QED BY <2>1, <2>3, SamePlans DEF RunPhases, LiveRun
<1>3. ASSUME StartStock
      PROVE  /\ UNCHANGED <<commands, turn, batch, endings, review>> /\ pc \in RunPhases \cup {"run", "evaluate"}
             /\ Untouched /\ NotPlanned
  <2>1. pc = "stock" /\ UNCHANGED <<commands, turn, batch, endings, review, todo, files>>
    BY <1>3 DEF StartStock, Inputs, History, Locals
  <2> QED BY <2>1, SamePlans DEF RunPhases, LiveRun, Untouched
<1>4. ASSUME WriteLiveStock
      PROVE  /\ UNCHANGED <<commands, turn, batch, endings, review>> /\ pc \in RunPhases \cup {"run", "evaluate"}
             /\ Untouched /\ NotPlanned
  <2>1. pc = "factors" /\ UNCHANGED <<commands, turn, batch, endings, review, todo>> /\ WriteStock(run.snapshots, "stock", "finally")
    BY <1>4 DEF WriteLiveStock, Inputs, History
  <2> QED BY <2>1, SamePlans, StockUntouched DEF RunPhases, LiveRun
<1>5. ASSUME WriteDryRunStock
      PROVE  /\ UNCHANGED <<commands, turn, batch, endings, review>> /\ pc \in RunPhases \cup {"run", "evaluate"}
             /\ Untouched /\ NotPlanned
  <2>1. pc = "dry stock" /\ UNCHANGED <<commands, turn, batch, endings, review, todo>>
    BY <1>5 DEF WriteDryRunStock, Inputs, History
  <2>2. UNCHANGED files \/ \E snapshots : WriteStock(snapshots, "dry stock", "raised") BY <1>5 DEF WriteDryRunStock, Tree
  <2>3. Untouched BY <2>2, StockUntouched DEF Untouched
  <2> QED BY <2>1, <2>3, SamePlans DEF RunPhases, LiveRun
<1>6. ASSUME RestoreHandlers
      PROVE  /\ UNCHANGED <<commands, turn, batch, endings, review>> /\ pc \in RunPhases \cup {"run", "evaluate"}
             /\ Untouched /\ NotPlanned
  <2>1. pc = "finally" /\ UNCHANGED <<commands, turn, batch, endings, review, todo, files>>
    BY <1>6 DEF RestoreHandlers, Inputs, History, Locals, Tree
  <2> QED BY <2>1, SamePlans DEF RunPhases, LiveRun, Untouched
<1>7. ASSUME FlushCacheWriter
      PROVE  /\ UNCHANGED <<commands, turn, batch, endings, review>> /\ pc \in RunPhases \cup {"run", "evaluate"}
             /\ Untouched /\ NotPlanned
  <2>1. pc = "flush" /\ UNCHANGED <<commands, turn, batch, endings, review, todo, files>>
    BY <1>7 DEF FlushCacheWriter, Inputs, Tree
  <2> QED BY <2>1, SamePlans DEF RunPhases, LiveRun, Untouched
<1>8. ASSUME WriteManifest
      PROVE  /\ UNCHANGED <<commands, turn, batch, endings, review>> /\ pc \in RunPhases \cup {"run", "evaluate"}
             /\ Untouched /\ NotPlanned
  <2>1. pc = "manifest" /\ UNCHANGED <<commands, turn, batch, endings, review, todo>>
    BY <1>8 DEF WriteManifest, Inputs, Locals
  <2>2. PICK new : files' = WrittenOver(new, files) /\ \E manifest : new = OneFile(RunManifest(run.id), manifest)
    BY <1>8 DEF WriteManifest
  <2>3. DOMAIN new = {RunManifest(run.id)} BY <2>2, FileShape
  <2>4. \A p \in DOMAIN new : p[2] \notin OwnNames BY <2>3, Paths DEF OwnNames, SummaryName
  <2>5. Untouched BY <2>2, <2>4, OwnWrite
  <2> QED BY <2>1, <2>5, SamePlans DEF RunPhases, LiveRun
<1>9. ASSUME Evaluate
      PROVE  /\ UNCHANGED <<commands, turn, batch, endings, review>> /\ pc \in RunPhases \cup {"run", "evaluate"}
             /\ Untouched /\ NotPlanned
  <2>1. UNCHANGED <<files, commands, turn, batch, endings, review>> /\ pc = "evaluate" BY <1>9, EvaluateShape
  <2>2. NotPlanned BY <1>9, EvaluateShape DEF NotPlanned
  <2> QED BY <2>1, <2>2 DEF Untouched
<1> QED BY <1>1, <1>2, <1>3, <1>4, <1>5, <1>6, <1>7, <1>8, <1>9 DEF RunAction

LEMMA QuietRunAction == ASSUME RunAction PROVE QuietSummary
<1>1. Untouched /\ NotPlanned BY RunActionFiles
<1> QED BY <1>1 DEF Untouched, NotPlanned, QuietSummary, OwnNames

\* Stocks of the batch stay what they are.
LEMMA SameBatchStocks ==
  ASSUME ResultsOK, batch' = batch
  PROVE  InBatch' => \A i \in DOMAIN batch'.stocks : batch'.stocks[i] \in Nat
BY DEF ResultsOK, InBatch

LEMMA MergeRuns == ASSUME IInv, TreeKept, MergeInv, RunAction PROVE MergeInv'
<1>1. UNCHANGED <<commands, turn, batch, endings>> /\ pc \in RunPhases \cup {"run", "evaluate"} BY RunActionFiles
<1>2. pc # "command" /\ pc \notin {"aggregate", "write", "ended", "raised"} BY <1>1 DEF RunPhases, LiveRun
<1>3. Command.do # "aggregate" BY <1>2 DEF MergeInv, AggregateSteps
<1>4. QuietSummary BY QuietRunAction
<1>5. InBatch' => \A i \in DOMAIN batch'.stocks : batch'.stocks[i] \in Nat BY <1>1, SameBatchStocks DEF MergeInv
<1> QED BY <1>1, <1>3, <1>4, <1>5, QuietMerge

LEMMA MergeReviews == ASSUME IInv, TreeKept, MergeInv, StartReview PROVE MergeInv'
<1>1. UNCHANGED <<commands, turn, batch, endings, files, todo>> /\ pc = "review" BY DEF StartReview, Inputs, History
<1>2. Command.do # "aggregate" BY <1>1 DEF MergeInv, AggregateSteps
<1>3. QuietSummary BY <1>1 DEF QuietSummary
<1>4. InBatch' => \A i \in DOMAIN batch'.stocks : batch'.stocks[i] \in Nat BY <1>1, SameBatchStocks DEF MergeInv
<1> QED BY <1>1, <1>2, <1>3, <1>4, QuietMerge

LEMMA ReviewPlan ==
  ASSUME AskExternalReviewer
  PROVE  \A i \in DOMAIN todo' : todo'[i].path[2] \notin {SummaryName, "factor-run-manifest.json"}
<1>1. PICK dir, other, a, b, c :
        todo' = <<File(<<dir, "findings.json">>, a), File(<<dir, "artifact-review-report.md">>, a),
                  File(<<dir, "fix-plan-draft.md">>, a), File(<<dir, "review-config.json">>, b),
                  File(<<dir, "review-state.json">>, c), File(<<other, "latest.json">>, dir)>>
  BY DEF AskExternalReviewer
<1> QED BY <1>1 DEF File, SummaryName

LEMMA MergeAsksReviewer == ASSUME IInv, TreeKept, MergeInv, AskExternalReviewer PROVE MergeInv'
<1>1. UNCHANGED <<commands, turn, batch, endings, files>> /\ pc = "external"
  BY DEF AskExternalReviewer, Inputs, History, Tree, Locals
<1>2. Command.do # "aggregate" BY <1>1 DEF MergeInv, AggregateSteps
<1>3. QuietSummary BY <1>1, ReviewPlan DEF QuietSummary
<1>4. InBatch' => \A i \in DOMAIN batch'.stocks : batch'.stocks[i] \in Nat BY <1>1, SameBatchStocks DEF MergeInv
<1> QED BY <1>1, <1>2, <1>3, <1>4, QuietMerge

LEMMA MergeStarts == ASSUME IInv, TypeInv, TreeKept, BatchInv, MergeInv, StartBatch PROVE MergeInv'
<1>1. UNCHANGED <<commands, turn, endings, todo>> /\ pc = "batch" BY DEF StartBatch, Inputs, History
<1>2. Command.do # "aggregate" BY <1>1 DEF MergeInv, AggregateSteps
<1>3. UNCHANGED files \/ files' = WrittenOver(OneFile(BatchConfig(Command.id), Command.stocks), files) BY DEF StartBatch, Tree
<1>4. QuietSummary
  <2>1. CASE UNCHANGED files BY <1>1, <2>1 DEF QuietSummary
  <2>2. CASE files' = WrittenOver(OneFile(BatchConfig(Command.id), Command.stocks), files)
    <3> DEFINE new == OneFile(BatchConfig(Command.id), Command.stocks)
               after == WrittenOver(new, files)
    <3>1. DOMAIN new = {BatchConfig(Command.id)} BY FileShape
    <3>2. \A p \in DOMAIN new : p[2] # SummaryName BY <3>1, Paths DEF SummaryName
    <3> HIDE DEF new
    <3>3. DOMAIN after = DOMAIN new \cup DOMAIN files /\ \A p \in DOMAIN files \ DOMAIN new : after[p] = files[p]
      BY OverShape
    <3>4. files' = after BY <2>2 DEF new
    <3> HIDE DEF after
    <3> QED BY <1>1, <3>2, <3>3, <3>4 DEF QuietSummary
  <2> QED BY <1>3, <2>1, <2>2
<1>5. InBatch' => \A i \in DOMAIN batch'.stocks : batch'.stocks[i] \in Nat
  <2>1. CASE batch' = batch BY <2>1, SameBatchStocks DEF MergeInv
  <2>2. CASE batch' = [id |-> Command.id, stocks |-> Command.stocks, item |-> 1, results |-> <<>>]
    <3>1. ~InBatch BY <1>1 DEF BatchInv, BatchSteps
    <3>2. turn \in DOMAIN commands
      <4>1. turn <= Len(commands) /\ turn \in Nat \ {0} BY <1>1 DEF TypeInv, IInv, ReviewOK
      <4>2. IsSeq(commands) BY DEF IInv, InputOK, IsSeq
      <4>3. Len(commands) \in Nat /\ DOMAIN commands = 1..Len(commands) BY <4>2, SeqShape
      <4> QED BY <4>1, <4>3
    <3>3. Command.do = "batch" BY <1>1, <3>1 DEF BatchInv, NoBatchSteps
    <3>4. Command.stocks \in Seq(Nat) BY <3>2, <3>3 DEF IInv, InputOK, Command
    <3>5. \A i \in DOMAIN Command.stocks : Command.stocks[i] \in Nat BY <3>4
    <3> QED BY <2>2, <3>5
  <2> QED BY <2>1, <2>2 DEF StartBatch
<1> QED BY <1>1, <1>2, <1>4, <1>5, QuietMerge

LEMMA MergeAddsResult ==
  ASSUME IInv, TreeKept, BatchInv, MergeInv, MoreStocks, NEW result, AddResult(result), UNCHANGED <<commands, turn, todo, endings>>
  PROVE  MergeInv'
<1>1. InBatch /\ Command.do = "batch" /\ DOMAIN batch = {"id", "stocks", "item", "results"}
  BY DEF MoreStocks, BatchInv, BatchState, IInv, BatchOK
<1>2. batch'.stocks = batch.stocks BY <1>1 DEF AddResult
<1>3. InBatch' => \A i \in DOMAIN batch'.stocks : batch'.stocks[i] \in Nat BY <1>1, <1>2 DEF MergeInv, ResultsOK
<1>4. \E log : files' = WrittenOver(OneFile(StockLog(batch.id), log), files) BY DEF AddResult
<1>5. PICK new : files' = WrittenOver(new, files) /\ \E log : new = OneFile(StockLog(batch.id), log) BY <1>4
<1>6. DOMAIN new = {StockLog(batch.id)} BY <1>5, FileShape
<1>7. \A p \in DOMAIN new : p[2] # SummaryName BY <1>6, Paths DEF SummaryName
<1>8. QuietSummary
  <2> DEFINE after == WrittenOver(new, files)
  <2>1. DOMAIN after = DOMAIN new \cup DOMAIN files /\ \A p \in DOMAIN files \ DOMAIN new : after[p] = files[p] BY OverShape
  <2>2. files' = after BY <1>5
  <2> HIDE DEF after
  <2> QED BY <1>7, <2>1, <2>2 DEF QuietSummary
<1> QED BY <1>1, <1>3, <1>8, QuietMerge

LEMMA MergeCompletes == ASSUME IInv, TreeKept, BatchInv, MergeInv, StockCompleted PROVE MergeInv'
<1>1. MoreStocks /\ UNCHANGED <<commands, turn, todo, endings>> /\ \E result : AddResult(result)
  BY DEF StockCompleted, Inputs, History, IInv, BatchOK
<1> QED BY <1>1, MergeAddsResult

LEMMA MergeBegins == ASSUME IInv, TreeKept, BatchInv, MergeInv, Begin PROVE MergeInv'
<1>1. /\ pc = "command" /\ UNCHANGED <<commands, turn, batch, endings, files, todo>> /\ pc' = Command.do
  BY DEF Begin, Inputs, Tree, History
<1>2. QuietSummary BY <1>1 DEF QuietSummary
<1>3. ResultsOK'
  <2>1. InBatch' => \A i \in DOMAIN batch'.stocks : batch'.stocks[i] \in Nat BY <1>1, SameBatchStocks DEF MergeInv
  <2> QED BY <1>2, <2>1, QuietResults DEF MergeInv
<1>4. AggregateSteps' BY <1>1 DEF AggregateSteps, Command
<1>5. AggregateEndings' BY <1>1, AggregateEndingsKept DEF MergeInv, IInv
<1> QED BY <1>3, <1>4, <1>5 DEF MergeInv

\* A command that ends, and how.
LEMMA MergeEnds ==
  ASSUME IInv, TypeInv, TreeKept, MergeInv, NEW how, EndProcess(how), UNCHANGED <<commands, files>>,
         commands[turn].do = "aggregate" /\ how = "ok" => AggregateOf(files, commands[turn])
  PROVE  MergeInv'
<1>0. /\ endings' = Append(endings, how) /\ pc' = "command" /\ batch' = NoBatch /\ DOMAIN todo' = {}
  BY DEF EndProcess
<1>1. ResultsOK'
  <2>1. QuietSummary BY <1>0 DEF QuietSummary
  <2>2. ~InBatch' BY <1>0 DEF InBatch
  <2> QED BY <2>1, <2>2, QuietResults DEF MergeInv
<1>2. AggregateSteps' BY <1>0 DEF AggregateSteps
<1>3. AggregateEndings'
  <2> SUFFICES ASSUME NEW i \in DOMAIN endings', commands[i].do = "aggregate", endings'[i] = "ok"
               PROVE AggregateOf(files, commands[i])
    BY DEF AggregateEndings
  <2>1. (i \in DOMAIN endings /\ endings'[i] = endings[i]) \/ (i = turn /\ endings'[i] = how)
    <3>1. PICK all, now : all = endings /\ now = turn OBVIOUS
    <3>2. IsSeq(all) /\ Len(all) = now - 1 /\ now \in Nat \ {0} BY <3>1 DEF TypeInv, IInv, ReviewOK
    <3>3. now <= now /\ now + 1 = now + 1 BY <3>2
    <3>4. \A k \in DOMAIN Append(all, how) :
             (k \in DOMAIN all /\ Append(all, how)[k] = all[k]) \/ (k = now /\ Append(all, how)[k] = how)
      BY ZenonT(30), <3>2, <3>3, AppendAt
    <3> QED BY <1>0, <3>1, <3>4
  <2>2. CASE i \in DOMAIN endings /\ endings'[i] = endings[i] BY <2>2 DEF MergeInv, AggregateEndings
  <2>3. CASE i = turn /\ endings'[i] = how BY <2>3
  <2> QED BY <2>1, <2>2, <2>3
<1> QED BY <1>1, <1>2, <1>3 DEF MergeInv

LEMMA MergeFinishes == ASSUME IInv, TypeInv, TreeKept, MergeInv, End PROVE MergeInv'
<1>1. pc = "ended" /\ EndProcess("ok") /\ UNCHANGED <<commands, files>> BY DEF End, Inputs, Tree
<1>2. Command.do = "aggregate" => AggregateOf(files, Command) BY <1>1 DEF MergeInv, AggregateSteps
<1> QED BY <1>1, <1>2, MergeEnds DEF Command

LEMMA MergeCrashes == ASSUME IInv, TypeInv, TreeKept, MergeInv, Crash PROVE MergeInv'
BY MergeEnds DEF Crash, Inputs, Tree

LEMMA MergeHandlesError == ASSUME IInv, TypeInv, TreeKept, BatchInv, MergeInv, HandleError PROVE MergeInv'
<1>0. pc = "raised" /\ UNCHANGED commands BY DEF HandleError, Inputs
<1>1. CASE MoreStocks /\ error \in {"SystemExit", "unavailable"}
  <2>1. UNCHANGED <<turn, todo, endings>> /\ \E result : AddResult(result) BY <1>1 DEF HandleError
  <2> QED BY <1>0, <1>1, <2>1, MergeAddsResult
<1>2. CASE ~(MoreStocks /\ error \in {"SystemExit", "unavailable"})
  <2>1. EndProcess(error) /\ files' = files BY <1>2 DEF HandleError
  <2>2. error # "ok" BY <1>0 DEF TypeInv, Errors
  <2> QED BY <1>0, <2>1, <2>2, MergeEnds
<1> QED BY <1>1, <1>2

\* The only summary that is planned, and its results.
LEMMA MergeWritesFile == ASSUME IInv, TypeInv, TreeKept, BatchInv, MergeInv, WriteFile PROVE MergeInv'
<1> DEFINE path == todo[1].path
           content == todo[1].content
<1>0. /\ pc = "write" /\ todo # <<>> /\ IsSeq(todo) /\ todo' = Tail(todo)
      /\ files' = WrittenOver(OneFile(path, content), files)
      /\ pc' = (IF Len(todo) > 1 THEN "write" ELSE IF MoreStocks THEN "stock result" ELSE "ended")
      /\ UNCHANGED <<commands, turn, batch, endings, dirs>>
  BY DEF WriteFile, Inputs, Locals, History, IInv, TodoOK, IsSeq
<1>1. /\ Len(todo) \in Nat /\ Len(todo) # 0 /\ DOMAIN todo = 1..Len(todo) /\ DOMAIN todo' = 1..(Len(todo) - 1)
      /\ \A i \in DOMAIN todo' : i + 1 \in DOMAIN todo /\ todo'[i] = todo[i + 1]
  <2>1. /\ DOMAIN Tail(todo) = 1..(Len(todo) - 1) /\ DOMAIN todo = 1..Len(todo) /\ Len(todo) \in Nat
        /\ \A i \in DOMAIN Tail(todo) : i + 1 \in DOMAIN todo /\ Tail(todo)[i] = todo[i + 1]
    BY <1>0, TailOwn
  <2>2. Len(todo) # 0 BY <1>0, SeqShape
  <2> QED BY <1>0, <2>1, <2>2
<1>2. 1 \in DOMAIN todo BY <1>1
<1>3. \A i \in DOMAIN todo : todo[i] = todo[1] \/ \E j \in DOMAIN todo' : todo'[j] = todo[i]
  <2> SUFFICES ASSUME NEW i \in DOMAIN todo, i # 1 PROVE \E j \in DOMAIN todo' : todo'[j] = todo[i] OBVIOUS
  <2>1. i - 1 \in DOMAIN todo' /\ (i - 1) + 1 = i BY <1>1
  <2> QED BY <1>1, <2>1
<1>4. \A j \in DOMAIN todo' : \E i \in DOMAIN todo : todo[i] = todo'[j] BY <1>1
<1>5. /\ DOMAIN files' = DOMAIN files \cup {path} /\ files'[path] = content
      /\ \A p \in DOMAIN files : p # path => files'[p] = files[p]
  <2> HIDE DEF path, content
  <2> QED BY <1>0 DEF WrittenOver, OneFile
<1>6. TreeOK BY DEF IInv
<1>7. ResultsOK'
  <2>1. ASSUME NEW p \in DOMAIN files', p[2] = SummaryName PROVE SoundResults(files', dirs', files'[p].results)
    <3>1. CASE p = path
      <4>1. SoundResults(files, dirs, content.results) BY <1>2, <2>1, <3>1 DEF MergeInv, ResultsOK
      <4>2. files'[p] = content BY <1>5, <3>1
      <4> HIDE DEF content, path
      <4> QED BY <1>6, <4>1, <4>2, SoundKept
    <3>2. CASE p # path
      <4>1. p \in DOMAIN files /\ files'[p] = files[p]
        <5> HIDE DEF path
        <5> QED BY <1>5, <3>2
      <4>2. SoundResults(files, dirs, files[p].results) BY <2>1, <4>1 DEF MergeInv, ResultsOK
      <4> QED BY <1>6, <4>1, <4>2, SoundKept
    <3> QED BY <3>1, <3>2
  <2>2. ASSUME NEW i \in DOMAIN todo', todo'[i].path[2] = SummaryName
        PROVE  SoundResults(files', dirs', todo'[i].content.results)
    <3>1. PICK j \in DOMAIN todo : todo[j] = todo'[i] BY <1>4
    <3>2. SoundResults(files, dirs, todo[j].content.results) BY <2>2, <3>1 DEF MergeInv, ResultsOK
    <3> QED BY <1>6, <3>1, <3>2, SoundKept
  <2>3. InBatch' => \A i \in DOMAIN batch'.stocks : batch'.stocks[i] \in Nat BY <1>0, SameBatchStocks DEF MergeInv
  <2> QED BY <2>1, <2>2, <2>3 DEF ResultsOK
<1>8. AggregateSteps'
  <2> DEFINE id == Command.id
             from == Command.from
  <2>0. Command' = Command BY <1>0 DEF Command
  <2> SUFFICES ASSUME Command.do = "aggregate"
               PROVE  /\ pc' \in {"write", "ended"} /\ \A b \in ToSet(from) : Summary(b) \in DOMAIN files'
                      /\ Summary(id) \in DOMAIN files' => AggregateOf(files', Command)
                      /\ \A i \in DOMAIN todo' :
                           todo'[i].path = Summary(id) => Merges(todo'[i].content.results, Sources(files', from))
                      /\ Summary(id) \in DOMAIN files' \/ (pc' = "write" /\ \E j \in DOMAIN todo' : todo'[j].path = Summary(id))
    BY <2>0 DEF AggregateSteps, Written, Planned
  <2>1. /\ \A b \in ToSet(from) : Summary(b) \in DOMAIN files
        /\ Summary(id) \in DOMAIN files => AggregateOf(files, Command)
        /\ \A i \in DOMAIN todo : todo[i].path = Summary(id) => Merges(todo[i].content.results, Sources(files, from))
        /\ Summary(id) \in DOMAIN files \/ Planned(Summary(id))
    BY <1>0 DEF MergeInv, AggregateSteps, Written
  <2>2. ~MoreStocks BY DEF MoreStocks, BatchInv, BatchState
  <2>3. pc' \in {"write", "ended"} BY <1>0, <2>2
  <2>4. \A b \in ToSet(from) : Summary(b) \in DOMAIN files'
    <3> HIDE DEF path, from
    <3> QED BY <1>5, <2>1
  <2>5. Sources(files', from) = Sources(files, from) BY <1>6, <2>1, SourcesKept
  <2> HIDE DEF from
  <2>6. \A i \in DOMAIN todo' : todo'[i].path = Summary(id) => Merges(todo'[i].content.results, Sources(files', from))
    <3> SUFFICES ASSUME NEW i \in DOMAIN todo', todo'[i].path = Summary(id)
                 PROVE Merges(todo'[i].content.results, Sources(files', from))
      OBVIOUS
    <3>1. PICK j \in DOMAIN todo : todo[j] = todo'[i] BY <1>4
    <3> QED BY <2>1, <2>5, <3>1
  <2>7. ASSUME Summary(id) \in DOMAIN files' PROVE AggregateOf(files', Command)
    <3>1. CASE Summary(id) \in DOMAIN files
      <4>1. AggregateOf(files, Command) BY <2>1, <3>1
      <4> QED BY <1>6, <4>1, AggregateKept
    <3>2. CASE Summary(id) \notin DOMAIN files
      <4>1. Summary(id) = path
        <5> HIDE DEF path
        <5> QED BY <1>5, <2>7, <3>2
      <4>2. Merges(content.results, Sources(files, from)) BY <1>2, <2>1, <4>1
      <4>3. files'[Summary(id)] = content BY <1>5, <4>1
      <4> HIDE DEF content, path
      <4> QED BY <2>4, <2>5, <2>7, <4>2, <4>3 DEF AggregateOf, from
    <3> QED BY <3>1, <3>2
  <2>8. Summary(id) \in DOMAIN files' \/ \E j \in DOMAIN todo' : todo'[j].path = Summary(id)
    <3> SUFFICES ASSUME Planned(Summary(id)), Summary(id) # path PROVE \E j \in DOMAIN todo' : todo'[j].path = Summary(id)
      BY <1>5, <2>1
    <3>1. PICK i \in DOMAIN todo : todo[i].path = Summary(id) BY DEF Planned
    <3>2. todo[i] # todo[1] BY <3>1
    <3> QED BY <1>3, <3>1, <3>2
  <2>9. ASSUME pc' # "write", NEW j \in DOMAIN todo' PROVE FALSE
    <3>1. PICK n \in Nat : n = Len(todo) BY <1>1
    <3>2. ~(n > 1) /\ n # 0 BY <1>0, <1>1, <2>9, <3>1
    <3>3. n = 1 BY <3>1, <3>2
    <3>4. DOMAIN todo' = 1..(n - 1) BY <1>1, <3>1
    <3>5. DOMAIN todo' = {} BY <3>3, <3>4
    <3> QED BY <2>9, <3>5
  <2> QED BY <2>3, <2>4, <2>6, <2>7, <2>8, <2>9
<1>9. AggregateEndings' BY <1>0, <1>6, AggregateEndingsKept DEF MergeInv
<1> QED BY <1>7, <1>8, <1>9 DEF MergeInv

LEMMA PlannedSummary ==
  ASSUME NEW summary, todo' = SummaryFiles(summary)
  PROVE  \A i \in DOMAIN todo' : todo'[i].path[2] = SummaryName => todo'[i].path = Summary(summary.id) /\ todo'[i].content = summary
<1> DEFINE first == File(Summary(summary.id), summary)
           second == File(Report(summary.id), AggregateReport(summary))
<1>1. DOMAIN todo' = 1..2 /\ todo'[1] = first /\ todo'[2] = second BY DEF SummaryFiles
<1>2. first.path = Summary(summary.id) /\ first.content = summary /\ second.path = Report(summary.id) BY DEF File
<1>3. second.path[2] # SummaryName BY <1>2, Paths DEF SummaryName
<1> HIDE DEF first, second
<1> QED BY <1>1, <1>2, <1>3

\* A summary that is planned from sound results.
LEMMA MergePlans ==
  ASSUME IInv, TreeKept, MergeInv, UNCHANGED <<commands, turn, batch, endings, files>>, NEW summary,
         todo' = SummaryFiles(summary), SoundResults(files', dirs', summary.results)
  PROVE  ResultsOK' /\ AggregateEndings'
<1>1. TreeOK BY DEF IInv
<1>2. ASSUME NEW p \in DOMAIN files', p[2] = SummaryName PROVE SoundResults(files', dirs', files'[p].results)
  <2>1. SoundResults(files, dirs, files[p].results) BY <1>2 DEF MergeInv, ResultsOK
  <2> QED BY <1>1, <2>1, SoundKept
<1>3. ASSUME NEW i \in DOMAIN todo', todo'[i].path[2] = SummaryName PROVE SoundResults(files', dirs', todo'[i].content.results)
  <2>1. todo'[i].content = summary BY <1>3, PlannedSummary
  <2> QED BY <2>1
<1>4. InBatch' => \A i \in DOMAIN batch'.stocks : batch'.stocks[i] \in Nat BY SameBatchStocks DEF MergeInv
<1>5. AggregateEndings' BY <1>1, AggregateEndingsKept DEF MergeInv
<1> QED BY <1>2, <1>3, <1>4, <1>5 DEF ResultsOK

LEMMA MergeNextStock == ASSUME IInv, TypeInv, TreeKept, BatchInv, MergeInv, NextStock PROVE MergeInv'
<1>0. pc = "next stock" /\ UNCHANGED <<commands, turn, batch, endings, files, dirs>> BY DEF NextStock, Inputs, Tree
<1>1. InBatch BY <1>0 DEF BatchInv, NoBatchSteps
<1>2. Command.do # "aggregate" /\ BatchIn(files, dirs, batch) BY <1>1 DEF BatchInv, BatchState
<1>3. CASE MoreStocks
  <2>1. todo' = todo BY <1>3 DEF NextStock
  <2>2. QuietSummary BY <1>0, <2>1 DEF QuietSummary
  <2>3. InBatch' => \A i \in DOMAIN batch'.stocks : batch'.stocks[i] \in Nat BY <1>0, SameBatchStocks DEF MergeInv
  <2> QED BY <1>0, <1>2, <2>2, <2>3, QuietMerge
<1>4. CASE ~MoreStocks
  <2>1. PICK summary : summary.results = batch.results /\ todo' = SummaryFiles(summary)
    <3> DEFINE summary == BatchSummary(batch.id, batch.results, clock + 1)
    <3>1. summary.results = batch.results BY DEF BatchSummary
    <3> QED BY <1>4, <3>1 DEF NextStock
  <2>2. SoundResults(files, dirs, batch.results)
    <3>1. PICK stocks, results : stocks = batch.stocks /\ results = batch.results OBVIOUS
    <3>2. /\ IsSeq(stocks) /\ IsSeq(results) /\ \A i \in DOMAIN results : results[i].stock = stocks[i]
          /\ \A i \in DOMAIN results : CompletedIn(files, dirs, results[i])
      BY <1>2, <3>1 DEF BatchIn, ResultsOf
    <3>3. \A i \in DOMAIN stocks : stocks[i] \in Nat BY <1>1, <3>1 DEF MergeInv, ResultsOK
    <3>4. DOMAIN results \subseteq DOMAIN stocks
      <4>1. PICK item \in Nat \ {0} : item = batch.item BY <1>2 DEF BatchIn
      <4>2. Len(results) = item - 1 /\ item <= Len(stocks) + 1 BY <1>2, <3>1, <4>1 DEF BatchIn
      <4>3. Len(results) \in Nat /\ DOMAIN results = 1..Len(results) /\ Len(stocks) \in Nat /\ DOMAIN stocks = 1..Len(stocks)
        BY <3>2, SeqShape
      <4> QED BY <4>2, <4>3
    <3> QED BY <3>1, <3>2, <3>3, <3>4 DEF SoundResults, StockResults
  <2>3. ResultsOK' /\ AggregateEndings' BY <1>0, <2>1, <2>2, MergePlans
  <2>4. AggregateSteps' BY <1>0, <1>2 DEF AggregateSteps, Command
  <2> QED BY <2>3, <2>4 DEF MergeInv
<1> QED BY <1>3, <1>4

\* Only its command begins an aggregate.
AggregateStarts == pc = "aggregate" => Command.do = "aggregate"

LEMMA AggregateBegins == ASSUME AggregateStarts, [Next]_vars PROVE AggregateStarts'
<1> SUFFICES ASSUME pc' = "aggregate" PROVE Command'.do = "aggregate" BY DEF AggregateStarts
<1>1. CASE Begin BY <1>1 DEF Begin, Inputs, History, Command
<1>2. CASE UNCHANGED vars BY <1>2 DEF vars, AggregateStarts, Command
<1>3. ~(\E how : EndProcess(how)) BY DEF EndProcess
<1>4. ~End /\ ~Crash /\ ~WriteFile BY <1>3 DEF End, Crash, WriteFile
<1>5. ~StartRun BY DEF StartRun, Raise
<1>6. ~CallWithApiLog
  <2> SUFFICES ASSUME CallWithApiLog PROVE FALSE OBVIOUS
  <2>1. pc \in {"trade_cal", "cyq_chips", "daily"} BY DEF CallWithApiLog
  <2>2. \/ \E fault : RaiseInRun(fault)
        \/ \E answer : Receive(pc, answer)
    BY DEF CallWithApiLog
  <2>3. ASSUME NEW answer, Receive(pc, answer) PROVE FALSE
    <3>1. CASE pc = "trade_cal" BY <2>3, <3>1 DEF Receive, RaiseInRun
    <3>2. CASE pc = "cyq_chips" BY <2>3, <3>2 DEF Receive
    <3>3. CASE pc = "daily" BY <2>3, <3>3 DEF Receive
    <3> QED BY <2>1, <3>1, <3>2, <3>3
  <2> QED BY <2>2, <2>3 DEF RaiseInRun
<1>7. ~StartStock BY DEF StartStock, RaiseInRun
<1>8. ~WriteLiveStock /\ ~WriteDryRunStock
  <2>1. \A snapshots : ~WriteStock(snapshots, "stock", "finally") /\ ~WriteStock(snapshots, "dry stock", "raised") BY DEF WriteStock
  <2> QED BY <2>1 DEF WriteLiveStock, WriteDryRunStock, Raise
<1>9. ~RestoreHandlers /\ ~FlushCacheWriter /\ ~WriteManifest BY DEF RestoreHandlers, FlushCacheWriter, WriteManifest, Raise
<1>10. ~Evaluate BY DEF Evaluate, Raise
<1>11. ~StartBatch /\ ~NextStock BY DEF StartBatch, NextStock, Raise
<1>12. \A result : ~AddResult(result) BY DEF AddResult
<1>13. ~StockCompleted /\ ~HandleError BY <1>3, <1>12 DEF StockCompleted, HandleError
<1>14. ~Aggregate /\ ~StartReview /\ ~AskExternalReviewer BY DEF Aggregate, StartReview, AskExternalReviewer, Raise
<1> QED BY <1>1, <1>2, <1>4, <1>5, <1>6, <1>7, <1>8, <1>9, <1>10, <1>11, <1>13, <1>14 DEF Next, Step, Done

LEMMA MergeAggregates == ASSUME IInv, TypeInv, TreeKept, MergeInv, AggregateStarts, Aggregate PROVE MergeInv'
<1> DEFINE id == Command.id
           from == Command.from
           dir == BatchDir(id)
           summaries == [i \in DOMAIN from |-> files[Summary(from[i])]]
           results == MergeStockResults(summaries)
<1>0. pc = "aggregate" /\ UNCHANGED <<commands, turn, batch, endings, files>> /\ TreeOK /\ Command' = Command
  BY DEF Aggregate, Inputs, Locals, IInv, Command
<1>1. CASE pc' = "raised" /\ todo' = todo
  <2>1. QuietSummary BY <1>0, <1>1 DEF QuietSummary
  <2>2. InBatch' => \A i \in DOMAIN batch'.stocks : batch'.stocks[i] \in Nat BY <1>0, SameBatchStocks DEF MergeInv
  <2>3. ResultsOK' BY <2>1, <2>2, QuietResults DEF MergeInv
  <2>4. AggregateSteps' BY <1>1 DEF AggregateSteps
  <2>5. AggregateEndings' BY <1>0, AggregateEndingsKept DEF MergeInv
  <2> QED BY <2>3, <2>4, <2>5 DEF MergeInv
<1>2. CASE /\ pc' = "write" /\ dir \notin dirs /\ \A i \in DOMAIN from : Written(Summary(from[i]))
           /\ todo' = SummaryFiles(BatchSummary(id, results, clock + 1))
  <2>1. IsSeq(from) /\ IsSeq(summaries)
    <3>0. Command.do = "aggregate" BY <1>0 DEF AggregateStarts
    <3>1. turn \in DOMAIN commands
      <4>1. turn <= Len(commands) /\ turn \in Nat \ {0} BY <1>0 DEF TypeInv, IInv, ReviewOK
      <4>2. IsSeq(commands) BY DEF IInv, InputOK, IsSeq
      <4>3. Len(commands) \in Nat /\ DOMAIN commands = 1..Len(commands) BY <4>2, SeqShape
      <4> QED BY <4>1, <4>3
    <3>2. IsSeq(from) BY <3>0, <3>1 DEF IInv, InputOK, Command
    <3>3. Len(from) \in Nat /\ DOMAIN from = 1..Len(from) BY <3>2, SeqShape
    <3>4. summaries \in Seq({files[Summary(from[i])] : i \in DOMAIN from}) BY <3>3
    <3> HIDE DEF summaries
    <3>5. IsSeq(summaries) BY <3>4, OwnElements DEF IsSeq
    <3> QED BY <3>2, <3>5
  <2>2. \A i \in DOMAIN summaries : Summary(from[i]) \in DOMAIN files /\ summaries[i] = files[Summary(from[i])]
    BY <1>2 DEF Written
  <2>3. \A i \in DOMAIN summaries : SoundResults(files, dirs, summaries[i].results)
    <3>1. \A b : Summary(b)[2] = SummaryName BY Paths DEF SummaryName
    <3> HIDE DEF summaries, from
    <3> QED BY <2>2, <3>1 DEF MergeInv, ResultsOK
  <2>4. DOMAIN summaries = DOMAIN from OBVIOUS
  <2>5. \A i \in DOMAIN summaries : StockResults(summaries[i].results)
    <3> HIDE DEF summaries
    <3> QED BY <2>3 DEF SoundResults
  <2>6. Sources(files, from) = UNION {ToSet(summaries[i].results) : i \in DOMAIN summaries}
    <3> HIDE DEF from
    <3> QED BY DEF Sources, ToSet
  <2>7. PICK summary : summary.id = id /\ summary.results = results /\ todo' = SummaryFiles(summary)
    <3> DEFINE summary == BatchSummary(id, results, clock + 1)
    <3> HIDE DEF results, id
    <3>1. summary.id = id /\ summary.results = results BY DEF BatchSummary
    <3> QED BY <1>2, <3>1
  <2>8. StockResults(results) /\ Merges(results, Sources(files, from))
    <3> HIDE DEF summaries, from
    <3> QED BY <2>1, <2>5, <2>6, MergeShape
  <2>9. SoundResults(files, dirs, results)
    <3>1. ASSUME NEW i \in DOMAIN results PROVE CompletedIn(files, dirs, results[i])
      <4>1. results[i] \in Sources(files, from)
        <5> HIDE DEF from, results
        <5>1. results[i] \in ToSet(results) BY <3>1 DEF ToSet
        <5> QED BY <2>8, <5>1 DEF Merges
      <4> DEFINE r == results[i]
      <4> HIDE DEF r
      <4>2. PICK j \in DOMAIN summaries : r \in ToSet(summaries[j].results)
        <5> HIDE DEF summaries, from, results
        <5> QED BY <2>6, <4>1 DEF r
      <4>3. SoundResults(files, dirs, summaries[j].results) BY <2>3
      <4> HIDE DEF summaries
      <4>4. PICK k \in DOMAIN summaries[j].results : summaries[j].results[k] = r BY <4>2 DEF ToSet
      <4> QED BY <4>3, <4>4 DEF SoundResults, r
    <3> HIDE DEF results
    <3> QED BY <2>8, <3>1 DEF SoundResults
  <2>10. ResultsOK' /\ AggregateEndings'
    <3>1. SoundResults(files', dirs', summary.results) BY <1>0, <2>7, <2>9, SoundKept
    <3> QED BY <1>0, <2>7, <3>1, MergePlans
  <2>11. AggregateSteps'
    <3>1. /\ \E i \in DOMAIN todo' : todo'[i].path = Summary(id)
          /\ \A i \in DOMAIN todo' : todo'[i].path = Summary(id) => todo'[i].content = summary
      BY <2>7, SummaryPlan DEF Planned
    <3>2. Summary(id) \notin DOMAIN files
      <4>1. dir[1] = "batch" /\ Summary(id)[1] = dir BY Directories, Paths
      <4> HIDE DEF dir
      <4> QED BY <1>0, <1>2, <4>1, NoFilesYet DEF Kinds
    <3>3. \A b \in ToSet(from) : Summary(b) \in DOMAIN files BY <1>2 DEF Written, ToSet
    <3>4. \A i \in DOMAIN todo' : todo'[i].path = Summary(id) => Merges(todo'[i].content.results, Sources(files, from))
      BY <2>7, <2>8, <3>1
    <3> HIDE DEF results, summaries, dir
    <3> QED BY <1>0, <1>2, <3>1, <3>2, <3>3, <3>4 DEF AggregateSteps, Written, Planned
  <2> QED BY <2>10, <2>11 DEF MergeInv
<1> QED BY <1>1, <1>2 DEF Aggregate, Raise, Written

LEMMA MergeStep == ASSUME IInv, TypeInv, BatchInv, AggregateStarts, MergeInv, [Next]_vars PROVE MergeInv'
<1>0. TreeKept BY StepKeeps
<1>1. CASE UNCHANGED vars
  <2>1. UNCHANGED <<commands, turn, batch, pc, endings, files, dirs, todo>> BY <1>1 DEF vars
  <2>2. QuietSummary BY <2>1 DEF QuietSummary
  <2>3. InBatch' => \A i \in DOMAIN batch'.stocks : batch'.stocks[i] \in Nat BY <2>1, SameBatchStocks DEF MergeInv
  <2>4. ResultsOK' BY <1>0, <2>2, <2>3, QuietResults DEF MergeInv
  <2>5. AggregateEndings' BY <1>0, <2>1, AggregateEndingsKept DEF MergeInv, IInv
  <2>6. AggregateSteps'
    <3>1. \A p : Planned(p)' <=> Planned(p) BY <2>1 DEF Planned
    <3>2. AggregateSteps BY DEF MergeInv
    <3>3. Command' = Command BY <2>1 DEF Command
    <3> QED BY <2>1, <3>1, <3>2, <3>3 DEF AggregateSteps, Written
  <2> QED BY <2>4, <2>5, <2>6 DEF MergeInv
<1>2. CASE Step
  <2>1. RunAction => MergeInv' BY <1>0, MergeRuns
  <2> QED BY <1>0, <1>2, <2>1, MergeBegins, MergeFinishes, MergeWritesFile, MergeStarts, MergeNextStock, MergeCompletes,
             MergeHandlesError, MergeAggregates, MergeReviews, MergeAsksReviewer DEF Step, RunAction
<1>3. CASE Crash BY <1>0, <1>3, MergeCrashes
<1> QED BY <1>1, <1>2, <1>3 DEF Next, Done

LEMMA MergeInvariant == Spec => []MergeInv
<1>1. Init => MergeInv /\ AggregateStarts
  <2> SUFFICES ASSUME Init PROVE MergeInv /\ AggregateStarts OBVIOUS
  <2>1. pc = "command" /\ DOMAIN todo = {} /\ batch = NoBatch /\ DOMAIN files = {} /\ DOMAIN endings = {}
    BY EmptyOwn DEF Init
  <2>2. ~InBatch BY <2>1 DEF InBatch
  <2> QED BY <2>1, <2>2 DEF MergeInv, ResultsOK, AggregateSteps, AggregateEndings, AggregateStarts
<1>2. IInv /\ TypeInv /\ BatchInv /\ AggregateStarts /\ MergeInv /\ [Next]_vars => MergeInv' /\ AggregateStarts'
  BY MergeStep, AggregateBegins
<1> QED BY <1>1, <1>2, Invariant, TypeInvariant, BatchInvariant, PTL DEF Spec

\* An aggregate that ends well has one result for each stock that any of the batches it was made
\* from has a result of, a completed one if any of them is, and it stays so: neither its summary
\* nor theirs changes any more (_merge_stock_results).
THEOREM AggregatesPreferCompleted == Spec => []AggregatePrefersCompleted
<1>1. ASSUME MergeInv PROVE AggregatePrefersCompleted
  BY <1>1 DEF MergeInv, AggregateEndings, AggregateOf, Merges, Sources, AggregatePrefersCompleted
<1> QED BY <1>1, MergeInvariant, PTL


-----------------------------------------------------------------------------
(* What a review passes *)

WholeManifest(manifest) ==
  /\ ~manifest.dry /\ manifest.status = "completed" /\ ~(manifest.warmup <= 0)
  /\ \A o \in ToSet(manifest.outputs) : \A day \in DOMAIN Rows(o, "factors.jsonl") :
       \A f \in DOMAIN Rows(o, "factors.jsonl")[day] : Rows(o, "factors.jsonl")[day][f].quality = "OK"

WholeSummary(tree, summary) ==
  /\ \A r \in ToSet(summary.results) : r.status = "completed" /\ RunManifest(r.runDir[2]) \in DOMAIN tree
  /\ \A r, q \in ToSet(summary.results) : r.stock = q.stock => r = q
  /\ \A key \in DOMAIN summary.aggregate : summary.aggregate[key].available # 0

\* What may be said of a run or a batch that passes.
Truth(tree, of) ==
  IF of[1] = "run"
  THEN /\ RunManifest(of[2]) \in DOMAIN tree /\ CallLog(of[2]) \in DOMAIN tree
       /\ WholeManifest(tree[RunManifest(of[2])]) /\ \A c \in ToSet(tree[CallLog(of[2])]) : c.ok
  ELSE Summary(of[2]) \in DOMAIN tree /\ WholeSummary(tree, tree[Summary(of[2])])

\* The quality file of a stock is the statuses of its factors.
QualityOf(o) == o.checksums["factor-quality.json"] = QualityStatuses(o.checksums["factors.jsonl"])

\* The log of a dry run is empty.
LogIn(tree, id, dry) == CallLog(id) \in DOMAIN tree /\ (dry => tree[CallLog(id)] = <<>>)

RunLog ==
  /\ pc \in RunPhases => LogIn(files, run.id, run.dry) /\ \A i \in DOMAIN run.outputs : QualityOf(run.outputs[i])
  /\ pc \in LiveRun => ~run.dry

ManifestLogs ==
  \A id : RunManifest(id) \in DOMAIN files =>
    /\ LogIn(files, id, files[RunManifest(id)].dry)
    /\ \A i \in DOMAIN files[RunManifest(id)].outputs : QualityOf(files[RunManifest(id)].outputs[i])

LogInv == RunLog /\ ManifestLogs

\* Only what is whole passes.
StateName == "review-state.json"
ReviewInv ==
  /\ pc = "external" /\ review.findings = {} => Truth(files, review.dir)
  /\ \A i \in DOMAIN todo : todo[i].path[2] = StateName /\ todo[i].content.status = "passed" => Truth(files, todo[i].content.of)
  /\ \A p \in DOMAIN files : p[2] = StateName /\ files[p].status = "passed" => Truth(files, files[p].of)

\* The names of the files these are about, and which of them a step writes or plans.
LogName == "api-calls.jsonl"
ManifestName == "factor-run-manifest.json"
SameNamed(names) == \A p \in DOMAIN files' : p[2] \in names => p \in DOMAIN files /\ files'[p] = files[p]
Unplanned(names) == \A i \in DOMAIN todo' : todo'[i].path[2] \in names => \E j \in DOMAIN todo : todo[j] = todo'[i]
Traced == {LogName, ManifestName, StateName, SummaryName}

LEMMA SameWrite ==
  ASSUME NEW new, NEW names, files' = WrittenOver(new, files), \A p \in DOMAIN new : p[2] \notin names
  PROVE  SameNamed(names)
<1> DEFINE after == WrittenOver(new, files)
<1>1. DOMAIN after = DOMAIN new \cup DOMAIN files /\ \A p \in DOMAIN files \ DOMAIN new : after[p] = files[p]
  BY OverShape
<1>2. files' = after OBVIOUS
<1> HIDE DEF after
<1> QED BY <1>1, <1>2 DEF SameNamed

LEMMA SameOne ==
  ASSUME NEW path, NEW content, NEW names, files' = WrittenOver(OneFile(path, content), files), path[2] \notin names
  PROVE  SameNamed(names)
<1> DEFINE new == OneFile(path, content)
<1>1. DOMAIN new = {path} BY FileShape
<1>2. \A p \in DOMAIN new : p[2] \notin names BY <1>1
<1> HIDE DEF new
<1>3. files' = WrittenOver(new, files) BY DEF new
<1> QED BY <1>2, <1>3, SameWrite

LEMMA SameTree == ASSUME UNCHANGED files, NEW names PROVE SameNamed(names)
BY DEF SameNamed

LEMMA NothingNew == ASSUME todo' = todo \/ DOMAIN todo' = {}, NEW names PROVE Unplanned(names)
BY DEF Unplanned

LEMMA SameStockFiles ==
  ASSUME NEW snapshots, NEW next, NEW failed, WriteStock(snapshots, next, failed)
  PROVE  SameNamed(Traced)
<1> DEFINE rows == StockRows(snapshots, run.days, run.outputDays)
           dir == StockDir(run.id, Stock)
<1>1. files' = WrittenOver(In(dir, rows), files) \/ files' = WrittenOver(In(dir, StockFiles(rows)), files)
  BY DEF WriteStock
<1>2. DOMAIN rows \subseteq StockNames BY RowNames DEF StockNames
<1>3. DOMAIN StockFiles(rows) \subseteq StockNames
  <2> HIDE DEF rows
  <2> QED BY <1>2 DEF StockFiles, WrittenOver, OneFile, StockNames
<1>4. StockNames \cap Traced = {} BY DEF StockNames, Traced, LogName, ManifestName, StateName, SummaryName
<1>5. ASSUME NEW contents, DOMAIN contents \subseteq StockNames, files' = WrittenOver(In(dir, contents), files) PROVE SameNamed(Traced)
  <2> DEFINE new == In(dir, contents)
  <2>1. \A p \in DOMAIN new : p[2] \notin Traced BY <1>4, <1>5, InNames
  <2> HIDE DEF new
  <2>2. files' = WrittenOver(new, files) BY <1>5 DEF new
  <2> QED BY <2>1, <2>2, SameWrite
<1> QED BY <1>1, <1>2, <1>3, <1>5

\* The steps that write none of these files, nor plan any but a summary.
OtherStep ==
  \/ Begin \/ End \/ StartStock \/ WriteLiveStock \/ WriteDryRunStock \/ RestoreHandlers \/ FlushCacheWriter \/ Evaluate
  \/ StartBatch \/ NextStock \/ StockCompleted \/ HandleError \/ Aggregate \/ StartReview \/ Crash \/ UNCHANGED vars

LEMMA OtherFiles == ASSUME OtherStep PROVE SameNamed(Traced)
<1>1. CASE Begin \/ End \/ StartStock \/ RestoreHandlers \/ FlushCacheWriter \/ NextStock \/ Aggregate \/ StartReview \/ Crash
           \/ UNCHANGED vars
  <2>1. UNCHANGED files
    BY <1>1 DEF Begin, End, StartStock, RestoreHandlers, FlushCacheWriter, NextStock, Aggregate, StartReview, Crash, vars, Tree
  <2> QED BY <2>1, SameTree
<1>2. CASE Evaluate
  <2>1. UNCHANGED files BY <1>2, EvaluateShape
  <2> QED BY <2>1, SameTree
<1>3. CASE WriteLiveStock BY <1>3, SameStockFiles DEF WriteLiveStock
<1>4. CASE WriteDryRunStock
  <2>1. UNCHANGED files \/ \E snapshots : WriteStock(snapshots, "dry stock", "raised") BY <1>4 DEF WriteDryRunStock, Tree
  <2> QED BY <2>1, SameTree, SameStockFiles
<1>5. CASE StartBatch
  <2>1. UNCHANGED files \/ files' = WrittenOver(OneFile(BatchConfig(Command.id), Command.stocks), files)
    BY <1>5 DEF StartBatch, Tree
  <2>2. BatchConfig(Command.id)[2] \notin Traced BY Paths DEF Traced, LogName, ManifestName, StateName, SummaryName
  <2> QED BY <2>1, <2>2, SameTree, SameOne
<1>6. ASSUME NEW result, AddResult(result) PROVE SameNamed(Traced)
  <2>1. \E log : files' = WrittenOver(OneFile(StockLog(batch.id), log), files) BY <1>6 DEF AddResult
  <2>2. StockLog(batch.id)[2] \notin Traced BY Paths DEF Traced, LogName, ManifestName, StateName, SummaryName
  <2> QED BY <2>1, <2>2, SameOne
<1>7. CASE StockCompleted BY <1>6, <1>7 DEF StockCompleted
<1>8. CASE HandleError
  <2>1. UNCHANGED files \/ \E result : AddResult(result) BY <1>8 DEF HandleError
  <2> QED BY <1>6, <2>1, SameTree
<1> QED BY <1>1, <1>2, <1>3, <1>4, <1>5, <1>7, <1>8 DEF OtherStep

LEMMA SummaryPlans ==
  ASSUME NEW summary, todo' = SummaryFiles(summary)
  PROVE  Unplanned({StateName, ManifestName})
<1> DEFINE first == File(Summary(summary.id), summary)
           second == File(Report(summary.id), AggregateReport(summary))
<1>1. DOMAIN todo' = 1..2 /\ todo'[1] = first /\ todo'[2] = second BY DEF SummaryFiles
<1>2. first.path = Summary(summary.id) /\ second.path = Report(summary.id) BY DEF File
<1>3. first.path[2] \notin {StateName, ManifestName} /\ second.path[2] \notin {StateName, ManifestName}
  BY <1>2, Paths DEF StateName, ManifestName
<1> HIDE DEF first, second
<1> QED BY <1>1, <1>3 DEF Unplanned

LEMMA OtherPlans == ASSUME OtherStep PROVE Unplanned({StateName, ManifestName})
<1>1. CASE Begin \/ StartStock \/ WriteLiveStock \/ WriteDryRunStock \/ RestoreHandlers \/ FlushCacheWriter
           \/ StartBatch \/ StockCompleted \/ StartReview \/ UNCHANGED vars
  <2>1. todo' = todo
    BY <1>1 DEF Begin, StartStock, WriteLiveStock, WriteDryRunStock, RestoreHandlers, FlushCacheWriter, StartBatch,
                StockCompleted, StartReview, vars
  <2> QED BY <2>1, NothingNew
<1>2. CASE End \/ Crash \/ HandleError
  <2>1. todo' = todo \/ todo' = <<>> BY <1>2 DEF End, Crash, HandleError, EndProcess
  <2> QED BY <2>1, NothingNew, EmptyOwn
<1>3. CASE Evaluate
  <2>1. \A i \in DOMAIN todo' :
          todo'[i].path[2] \notin OwnNames \cup {"factor-run-manifest.json"} \/ \E j \in DOMAIN todo : todo[j] = todo'[i]
    BY <1>3, EvaluateShape
  <2> QED BY <2>1 DEF Unplanned, OwnNames, StateName, ManifestName
<1>4. CASE NextStock \/ Aggregate
  <2>1. todo' = todo \/ \E summary : todo' = SummaryFiles(summary) BY <1>4 DEF NextStock, Aggregate
  <2> QED BY <2>1, NothingNew, SummaryPlans
<1> QED BY <1>1, <1>2, <1>3, <1>4 DEF OtherStep

\* The log of a finished run does not change any more.
CallsKept ==
  \A id : RunManifest(id) \in DOMAIN files /\ CallLog(id) \in DOMAIN files =>
    CallLog(id) \in DOMAIN files' /\ files'[CallLog(id)] = files[CallLog(id)]

LEMMA SameRun ==
  ASSUME NEW a, NEW b
  PROVE  /\ CallLog(a) = CallLog(b) => a = b
         /\ RunManifest(a) = RunManifest(b) => a = b
         /\ CallLog(a) # RunConfig(b)
BY DEF CallLog, RunManifest, RunConfig, RunDir

LEMMA CallsSame == ASSUME TreeKept, SameNamed({LogName}) PROVE CallsKept
<1> SUFFICES ASSUME NEW id, CallLog(id) \in DOMAIN files
             PROVE  CallLog(id) \in DOMAIN files' /\ files'[CallLog(id)] = files[CallLog(id)]
  BY DEF CallsKept
<1>1. CallLog(id)[2] = LogName BY Paths DEF LogName
<1>2. CallLog(id) \in DOMAIN files' BY DEF TreeKept
<1> QED BY <1>1, <1>2 DEF SameNamed

LEMMA NoManifestYet == ASSUME TreeOK, NEW id, RunDir(id) \notin dirs PROVE RunManifest(id) \notin DOMAIN files
<1> DEFINE p == RunManifest(id)
<1>1. p[1] = RunDir(id) BY Paths
<1>2. RunDir(id)[1] = "run" BY Directories
<1>3. \A q \in DOMAIN files : q[1] # RunDir(id) BY <1>2, NoFilesYet DEF Kinds
<1> QED BY <1>1, <1>3

LEMMA CallsOfRun ==
  ASSUME IInv, TreeKept, StartRun \/ CallWithApiLog
  PROVE  CallsKept /\ SameNamed(Traced \ {LogName})
<1>1. CASE StartRun
  <2>1. \/ UNCHANGED files
        \/ /\ RunDir(run.id) \notin dirs
           /\ DOMAIN files' = DOMAIN files \cup {RunConfig(run.id), CallLog(run.id)}
           /\ \A p \in DOMAIN files : p # RunConfig(run.id) /\ p # CallLog(run.id) => files'[p] = files[p]
    BY <1>1, StartRunShape
  <2>2. CASE UNCHANGED files BY <2>2, SameTree, CallsSame
  <2>3. CASE /\ RunDir(run.id) \notin dirs
             /\ DOMAIN files' = DOMAIN files \cup {RunConfig(run.id), CallLog(run.id)}
             /\ \A p \in DOMAIN files : p # RunConfig(run.id) /\ p # CallLog(run.id) => files'[p] = files[p]
    <3>1. RunManifest(run.id) \notin DOMAIN files BY <2>3, NoManifestYet DEF IInv
    <3>2. CallsKept
      <4> SUFFICES ASSUME NEW id, RunManifest(id) \in DOMAIN files, CallLog(id) \in DOMAIN files
                   PROVE  CallLog(id) \in DOMAIN files' /\ files'[CallLog(id)] = files[CallLog(id)]
        BY DEF CallsKept
      <4>1. CallLog(id) # CallLog(run.id) /\ CallLog(id) # RunConfig(run.id) BY <3>1, SameRun
      <4> QED BY <2>3, <4>1
    <3>3. RunConfig(run.id)[2] \notin Traced \ {LogName} /\ CallLog(run.id)[2] \notin Traced \ {LogName}
      BY Paths DEF Traced, LogName, ManifestName, StateName, SummaryName
    <3>4. SameNamed(Traced \ {LogName}) BY <2>3, <3>3 DEF SameNamed
    <3> QED BY <3>2, <3>4
  <2> QED BY <2>1, <2>2, <2>3
<1>2. CASE CallWithApiLog
  <2>1. pc \in {"trade_cal", "cyq_chips", "daily"} /\ \E row : files' = [files EXCEPT ![CallLog(run.id)] = Append(@, row)]
    BY <1>2 DEF CallWithApiLog
  <2>2. RunManifest(run.id) \notin DOMAIN files BY <2>1 DEF IInv, RunOK, LiveRun, Written
  <2>3. DOMAIN files' = DOMAIN files /\ \A p \in DOMAIN files : p # CallLog(run.id) => files'[p] = files[p] BY <2>1
  <2>4. CallsKept
    <3> SUFFICES ASSUME NEW id, RunManifest(id) \in DOMAIN files, CallLog(id) \in DOMAIN files
                 PROVE  CallLog(id) \in DOMAIN files' /\ files'[CallLog(id)] = files[CallLog(id)]
      BY DEF CallsKept
    <3>1. CallLog(id) # CallLog(run.id) BY <2>2, SameRun
    <3> QED BY <2>3, <3>1
  <2>5. CallLog(run.id)[2] \notin Traced \ {LogName} BY Paths DEF Traced, LogName
  <2>6. SameNamed(Traced \ {LogName}) BY <2>3, <2>5 DEF SameNamed
  <2> QED BY <2>4, <2>6
<1> QED BY <1>1, <1>2

LEMMA WriteFileShape ==
  ASSUME IInv, RunInv, WriteFile
  PROVE  /\ UNCHANGED <<commands, turn, batch, endings, dirs, run, review, clock>> /\ pc' \in {"write", "stock result", "ended"}
         /\ 1 \in DOMAIN todo /\ todo[1].path[2] \in PlanNames
         /\ DOMAIN files' = DOMAIN files \cup {todo[1].path} /\ files'[todo[1].path] = todo[1].content
         /\ \A p \in DOMAIN files : p # todo[1].path => files'[p] = files[p]
         /\ \A j \in DOMAIN todo' : \E i \in DOMAIN todo : todo[i] = todo'[j]
<1> DEFINE path == todo[1].path
           content == todo[1].content
<1>0. /\ todo # <<>> /\ IsSeq(todo) /\ todo' = Tail(todo)
      /\ files' = WrittenOver(OneFile(path, content), files)
      /\ pc' \in {"write", "stock result", "ended"}
      /\ UNCHANGED <<commands, turn, batch, endings, dirs, run, review, clock>>
  BY DEF WriteFile, Inputs, Locals, History, IInv, TodoOK, IsSeq
<1>1. /\ DOMAIN todo = 1..Len(todo) /\ Len(todo) \in Nat /\ Len(todo) # 0
      /\ \A i \in DOMAIN todo' : i + 1 \in DOMAIN todo /\ todo'[i] = todo[i + 1]
  <2>1. /\ DOMAIN todo = 1..Len(todo) /\ Len(todo) \in Nat
        /\ \A i \in DOMAIN Tail(todo) : i + 1 \in DOMAIN todo /\ Tail(todo)[i] = todo[i + 1]
    BY <1>0, TailOwn
  <2>2. Len(todo) # 0 BY <1>0, SeqShape
  <2> QED BY <1>0, <2>1, <2>2
<1>2. 1 \in DOMAIN todo /\ path[2] \in PlanNames BY <1>1 DEF RunInv, PlanOK
<1>3. \A j \in DOMAIN todo' : \E i \in DOMAIN todo : todo[i] = todo'[j] BY <1>1
<1>4. /\ DOMAIN files' = DOMAIN files \cup {path} /\ files'[path] = content
      /\ \A p \in DOMAIN files : p # path => files'[p] = files[p]
  <2> HIDE DEF path, content
  <2> QED BY <1>0 DEF WrittenOver, OneFile
<1> QED BY <1>0, <1>2, <1>3, <1>4

LEMMA WriteFileNames == ASSUME IInv, RunInv, WriteFile PROVE SameNamed({LogName, ManifestName})
<1>1. /\ DOMAIN files' = DOMAIN files \cup {todo[1].path} /\ todo[1].path[2] \in PlanNames
      /\ \A p \in DOMAIN files : p # todo[1].path => files'[p] = files[p]
  BY WriteFileShape
<1>2. PlanNames \cap {LogName, ManifestName} = {} BY DEF PlanNames, LogName, ManifestName
<1> QED BY <1>1, <1>2 DEF SameNamed

LEMMA ManifestShape ==
  ASSUME WriteManifest
  PROVE  /\ pc = "manifest" /\ pc' \in {"evaluate", "ended"} /\ UNCHANGED <<commands, turn, batch, todo, endings, dirs, run, review>>
         /\ clock' = clock + 1
         /\ DOMAIN files' = DOMAIN files \cup {RunManifest(run.id)}
         /\ \A p \in DOMAIN files : p # RunManifest(run.id) => files'[p] = files[p]
         /\ files'[RunManifest(run.id)].outputs = run.outputs /\ files'[RunManifest(run.id)].dry = run.dry
         /\ files'[RunManifest(run.id)].timestamp = clock + 1
<1> DEFINE path == RunManifest(run.id)
<1>1. /\ pc = "manifest" /\ pc' \in {"evaluate", "ended"} /\ UNCHANGED <<commands, turn, batch, todo, endings, dirs, run, review>>
      /\ clock' = clock + 1
  BY DEF WriteManifest, Inputs, Locals
<1>2. PICK manifest : /\ files' = WrittenOver(OneFile(path, manifest), files)
                      /\ manifest.outputs = run.outputs /\ manifest.dry = run.dry /\ manifest.timestamp = clock + 1
  <2> DEFINE manifest == [status |-> IF run.warned THEN "completed_with_cache_warnings" ELSE "completed",
                          timestamp |-> clock + 1, dry |-> run.dry, dates |-> Len(run.outputDays),
                          warmup |-> Len(run.days) - Len(run.outputDays), outputs |-> run.outputs]
  <2>1. files' = WrittenOver(OneFile(path, manifest), files) BY DEF WriteManifest
  <2>2. manifest.outputs = run.outputs /\ manifest.dry = run.dry /\ manifest.timestamp = clock + 1 OBVIOUS
  <2> HIDE DEF manifest
  <2> QED BY <2>1, <2>2
<1> DEFINE new == OneFile(path, manifest)
           after == WrittenOver(new, files)
<1>3. DOMAIN new = {path} /\ new[path] = manifest BY DEF OneFile
<1> HIDE DEF path, new
<1>4. /\ DOMAIN after = DOMAIN new \cup DOMAIN files /\ (\A p \in DOMAIN files \ DOMAIN new : after[p] = files[p])
      /\ (\A p \in DOMAIN new : after[p] = new[p])
  BY DEF WrittenOver
<1>5. files' = after BY <1>2 DEF new
<1> HIDE DEF after
<1> QED BY <1>1, <1>2, <1>3, <1>4, <1>5 DEF path

LEMMA ManifestLogsKept == ASSUME ManifestLogs, CallsKept, SameNamed({ManifestName}) PROVE ManifestLogs'
<1> SUFFICES ASSUME NEW id, RunManifest(id) \in DOMAIN files'
             PROVE  /\ LogIn(files', id, files'[RunManifest(id)].dry)
                    /\ \A i \in DOMAIN files'[RunManifest(id)].outputs : QualityOf(files'[RunManifest(id)].outputs[i])
  BY DEF ManifestLogs
<1>1. RunManifest(id)[2] = ManifestName BY Paths DEF ManifestName
<1>2. RunManifest(id) \in DOMAIN files /\ files'[RunManifest(id)] = files[RunManifest(id)] BY <1>1 DEF SameNamed
<1>3. LogIn(files, id, files[RunManifest(id)].dry)
      /\ \A i \in DOMAIN files[RunManifest(id)].outputs : QualityOf(files[RunManifest(id)].outputs[i])
  BY <1>2 DEF ManifestLogs
<1>4. CallLog(id) \in DOMAIN files' /\ files'[CallLog(id)] = files[CallLog(id)] BY <1>2, <1>3 DEF LogIn, CallsKept
<1> QED BY <1>2, <1>3, <1>4 DEF LogIn

LEMMA NoRunLog == ASSUME pc' \notin RunPhases PROVE RunLog'
BY DEF RunLog, RunPhases, LiveRun

\* The log of the run that is under way.
LEMMA SameLog ==
  ASSUME TreeKept, RunLog, pc \in RunPhases, SameNamed({LogName})
  PROVE  LogIn(files', run.id, run.dry)
<1>1. LogIn(files, run.id, run.dry) BY DEF RunLog
<1>2. CallLog(run.id)[2] = LogName BY Paths DEF LogName
<1>3. CallLog(run.id) \in DOMAIN files' BY <1>1 DEF LogIn, TreeKept
<1>4. files'[CallLog(run.id)] = files[CallLog(run.id)] BY <1>2, <1>3 DEF SameNamed
<1> QED BY <1>1, <1>3, <1>4 DEF LogIn

LEMMA SameRunLog ==
  ASSUME RunLog, pc \in RunPhases, LogIn(files', run.id, run.dry),
         run'.id = run.id, run'.dry = run.dry, run'.outputs = run.outputs, pc' \in LiveRun => ~run.dry
  PROVE  RunLog'
<1>1. LogIn(files', run'.id, run'.dry) OBVIOUS
<1>2. \A i \in DOMAIN run.outputs : QualityOf(run.outputs[i]) BY DEF RunLog
<1> QED BY <1>1, <1>2 DEF RunLog, QualityOf

LEMMA LogStarts == ASSUME IInv, RunInv, TreeKept, RunLog, StartRun PROVE RunLog'
<1>1. pc = "run" BY StartRunShape
<1>2. CASE pc' = "raised" BY <1>2, NoRunLog DEF RunPhases, LiveRun
<1>3. CASE pc' # "raised"
  <2>1. /\ DOMAIN files' = DOMAIN files \cup {RunConfig(run.id), CallLog(run.id)} /\ files'[CallLog(run.id)] = <<>>
        /\ pc' \in {"trade_cal", "dry stock"} /\ (pc' = "trade_cal" => ~run.dry)
    BY <1>3, StartRunShape
  <2>2. DOMAIN run = DOMAIN NoRun /\ run.outputs = <<>> BY <1>1 DEF IInv, RunOK, RunInv, RunProgress
  <2>3. run' = run \/ run' = [run EXCEPT !.days = Weekdays, !.outputDays = Weekdays] BY DEF StartRun
  <2>4. run'.id = run.id /\ run'.dry = run.dry /\ run'.outputs = <<>> BY <2>2, <2>3 DEF NoRun
  <2>5. LogIn(files', run'.id, run'.dry) BY <2>1, <2>4 DEF LogIn
  <2>6. pc' \in LiveRun => pc' = "trade_cal"
    <3>1. pc' = "trade_cal" \/ pc' = "dry stock" BY <2>1
    <3>2. "dry stock" \notin LiveRun BY DEF LiveRun
    <3> QED BY <3>1, <3>2
  <2> QED BY <2>1, <2>4, <2>5, <2>6, EmptyOwn DEF RunLog
<1> QED BY <1>2, <1>3

LEMMA LogCalls == ASSUME IInv, RunInv, TreeKept, RunLog, CallWithApiLog PROVE RunLog'
<1>0. pc \in {"trade_cal", "cyq_chips", "daily"} /\ DOMAIN run = DOMAIN NoRun BY DEF CallWithApiLog, IInv, RunOK
<1>1. pc \in RunPhases /\ pc \in LiveRun BY <1>0 DEF RunPhases, LiveRun
<1>2. ~run.dry /\ LogIn(files, run.id, run.dry) BY <1>1 DEF RunLog
<1>3. LogIn(files', run.id, run.dry) BY <1>2 DEF LogIn, TreeKept
<1>4. run'.id = run.id /\ run'.dry = run.dry /\ run'.outputs = run.outputs
  <2>1. run' = run \/ \E answer : Receive(pc, answer) BY DEF CallWithApiLog
  <2>2. ASSUME NEW answer, Receive(pc, answer)
        PROVE  \/ run' = run \/ \E u, v : run' = [run EXCEPT !.days = u, !.outputDays = v]
               \/ \E x : run' = [run EXCEPT !.chips = x] \/ \E y : run' = [run EXCEPT !.snapshots = y]
    <3>1. CASE pc = "trade_cal" BY <2>2, <3>1 DEF Receive
    <3>2. CASE pc = "cyq_chips" BY <2>2, <3>2 DEF Receive
    <3>3. CASE pc = "daily" BY <2>2, <3>3 DEF Receive
    <3> QED BY <1>0, <3>1, <3>2, <3>3
  <2>3. \/ run' = run \/ \E u, v : run' = [run EXCEPT !.days = u, !.outputDays = v]
        \/ \E x : run' = [run EXCEPT !.chips = x] \/ \E y : run' = [run EXCEPT !.snapshots = y]
    BY <2>1, <2>2
  <2> QED BY <1>0, <2>3 DEF NoRun
<1> QED BY <1>1, <1>2, <1>3, <1>4, SameRunLog

LEMMA AppendEach ==
  ASSUME NEW s, IsSeq(s), NEW x
  PROVE  \A i \in DOMAIN Append(s, x) : (i \in DOMAIN s /\ Append(s, x)[i] = s[i]) \/ Append(s, x)[i] = x
<1>1. /\ DOMAIN s = 1..Len(s) /\ DOMAIN Append(s, x) = 1..(Len(s) + 1) /\ Len(s) \in Nat
      /\ \A i \in DOMAIN s : Append(s, x)[i] = s[i]
      /\ Append(s, x)[Len(s) + 1] = x
  BY AppendOwn
<1>2. PICK n \in Nat : n = Len(s) BY <1>1
<1>3. \A i \in 1..(n + 1) : i \in 1..n \/ i = n + 1 OBVIOUS
<1> QED BY <1>1, <1>2, <1>3, ZenonT(30)

LEMMA LogWritesStock ==
  ASSUME IInv, RunInv, TreeKept, RunLog, pc \in {"factors", "dry stock"}, NEW snapshots, NEW next, NEW failed,
         WriteStock(snapshots, next, failed), <<pc, next, failed>> \in {<<"factors", "stock", "finally">>, <<"dry stock", "dry stock", "raised">>}
  PROVE  RunLog'
<1> DEFINE outputs == run.outputDays
           rows == StockRows(snapshots, run.days, outputs)
           raising == RaisingDays(ByDay(snapshots), run.days, outputs)
           contents == StockFiles(rows)
           output == StockOutput(run.days, outputs, contents)
<1>0. /\ pc \in RunPhases /\ DOMAIN run = DOMAIN NoRun /\ ToSet(outputs) # {} /\ IsSeq(run.outputs)
      /\ (pc = "factors" => ~run.dry) /\ (pc' \in LiveRun => pc = "factors")
  <2>1. pc \in RunPhases BY DEF RunPhases, LiveRun
  <2>2. DOMAIN run = DOMAIN NoRun /\ ToSet(outputs) # {} /\ IsSeq(run.outputs) BY <2>1 DEF IInv, RunOK, RunInv, RunProgress
  <2>3. pc = "factors" => ~run.dry BY DEF RunLog, LiveRun
  <2>4. pc' \in LiveRun => pc = "factors"
    <3>1. pc' \in {next, failed} BY DEF WriteStock
    <3>2. pc = "factors" \/ (pc = "dry stock" /\ next = "dry stock" /\ failed = "raised") OBVIOUS
    <3> QED BY <3>1, <3>2 DEF LiveRun
  <2> QED BY <2>1, <2>2, <2>3, <2>4
<1>1. LogIn(files', run.id, run.dry)
  <2>1. SameNamed(Traced) BY SameStockFiles
  <2>2. SameNamed({LogName}) BY <2>1 DEF SameNamed, Traced
  <2> QED BY <1>0, <2>2, SameLog
<1>2. CASE raising # {}
  <2>1. run' = run BY <1>2 DEF WriteStock
  <2> QED BY <1>0, <1>1, <2>1, SameRunLog
<1>3. CASE raising = {}
  <2>1. run' = NextOutput(output) BY <1>3 DEF WriteStock
  <2>2. output.checksums = contents BY DEF StockOutput
  <2>3. contents["factor-quality.json"] = QualityStatuses(rows["factors.jsonl"]) /\ contents["factors.jsonl"] = rows["factors.jsonl"]
    <3> HIDE DEF rows
    <3>1. "factors.jsonl" \in DOMAIN rows
      <4>1. DOMAIN StockFiles(rows) = StockNames BY <1>0, <1>3, StockFilesShape DEF rows
      <4>2. "factors.jsonl" \in DOMAIN StockFiles(rows) BY <4>1 DEF StockNames
      <4>3. DOMAIN StockFiles(rows)
              = {"factor-quality.json", "factor-traceability.json", "factor-retention-policy.json"} \cup DOMAIN rows
        BY DEF StockFiles, WrittenOver, OneFile
      <4> QED BY <4>2, <4>3
    <3> QED BY <3>1 DEF StockFiles, WrittenOver, OneFile
  <2>4. QualityOf(output) BY <2>2, <2>3 DEF QualityOf
  <2> HIDE DEF output, contents, rows, raising
  <2>5. run'.id = run.id /\ run'.dry = run.dry /\ run'.outputs = Append(run.outputs, output) BY <1>0, <2>1 DEF NextOutput, NoRun
  <2>6. \A i \in DOMAIN run'.outputs : (i \in DOMAIN run.outputs /\ run'.outputs[i] = run.outputs[i]) \/ run'.outputs[i] = output
    <3> DEFINE outs == run.outputs
               longer == Append(outs, output)
    <3>1. IsSeq(outs) BY <1>0
    <3> HIDE DEF outs
    <3>2. \A i \in DOMAIN longer : (i \in DOMAIN outs /\ longer[i] = outs[i]) \/ longer[i] = output BY <3>1, AppendEach
    <3>3. run'.outputs = longer BY <2>5 DEF outs
    <3> HIDE DEF longer
    <3> QED BY <3>2, <3>3 DEF outs
  <2>7. \A i \in DOMAIN run'.outputs : QualityOf(run'.outputs[i])
    <3> SUFFICES ASSUME NEW i \in DOMAIN run'.outputs PROVE QualityOf(run'.outputs[i]) OBVIOUS
    <3>1. \A k \in DOMAIN run.outputs : QualityOf(run.outputs[k]) BY <1>0 DEF RunLog
    <3> QED BY <2>4, <2>6, <3>1
  <2> QED BY <1>0, <1>1, <2>5, <2>7 DEF RunLog, QualityOf
<1> QED BY <1>2, <1>3

LEMMA NamedLess == ASSUME NEW a, NEW b, a \subseteq b, SameNamed(b) PROVE SameNamed(a)
BY DEF SameNamed

\* A step of a run that adds nothing to its outputs.
LEMMA LogStays ==
  ASSUME TreeKept, RunLog, pc \in RunPhases, SameNamed({LogName}), DOMAIN run = DOMAIN NoRun,
         run' = run \/ \E w : run' = [run EXCEPT !.warned = w], pc' \in LiveRun => pc \in LiveRun
  PROVE  RunLog'
<1>1. run'.id = run.id /\ run'.dry = run.dry /\ run'.outputs = run.outputs BY DEF NoRun
<1>2. pc' \in LiveRun => ~run.dry BY DEF RunLog
<1>3. LogIn(files', run.id, run.dry) BY SameLog
<1> QED BY <1>1, <1>2, <1>3, SameRunLog

LEMMA LogInRun ==
  ASSUME IInv, RunInv, TreeKept, RunLog, StartStock \/ WriteLiveStock \/ WriteDryRunStock \/ RestoreHandlers \/ FlushCacheWriter
  PROVE  RunLog'
<1>0. DOMAIN run = DOMAIN NoRun BY DEF IInv, RunOK
<1>1. ASSUME UNCHANGED files PROVE SameNamed({LogName}) BY <1>1, SameTree
<1>2. CASE StartStock
  <2>1. pc = "stock" /\ UNCHANGED <<files, run>> BY <1>2 DEF StartStock, Locals
  <2>2. pc \in LiveRun /\ pc \in RunPhases BY <2>1 DEF LiveRun, RunPhases
  <2> QED BY <1>0, <1>1, <2>1, <2>2, LogStays
<1>3. CASE WriteLiveStock
  <2>1. pc = "factors" /\ WriteStock(run.snapshots, "stock", "finally") BY <1>3 DEF WriteLiveStock
  <2> QED BY <2>1, LogWritesStock
<1>4. CASE WriteDryRunStock
  <2>1. pc = "dry stock" /\ ((pc' \in {"manifest", "raised"} /\ UNCHANGED <<files, run>>) \/ \E snapshots : WriteStock(snapshots, "dry stock", "raised"))
    BY <1>4 DEF WriteDryRunStock, Raise, Tree
  <2>2. CASE pc' \in {"manifest", "raised"} /\ UNCHANGED <<files, run>>
    <3>1. pc \in RunPhases /\ pc' \notin LiveRun BY <2>1, <2>2 DEF LiveRun, RunPhases
    <3> QED BY <1>0, <1>1, <2>2, <3>1, LogStays
  <2>3. CASE \E snapshots : WriteStock(snapshots, "dry stock", "raised") BY <2>1, <2>3, LogWritesStock
  <2> QED BY <2>1, <2>2, <2>3
<1>5. CASE RestoreHandlers
  <2>1. pc = "finally" /\ UNCHANGED <<files, run>> BY <1>5 DEF RestoreHandlers, Tree, Locals
  <2>2. pc \in LiveRun /\ pc \in RunPhases BY <2>1 DEF LiveRun, RunPhases
  <2> QED BY <1>0, <1>1, <2>1, <2>2, LogStays
<1>6. CASE FlushCacheWriter
  <2>1. pc = "flush" /\ pc' \in {"manifest", "raised"} /\ UNCHANGED files /\ \E w : run' = [run EXCEPT !.warned = w]
    BY <1>6 DEF FlushCacheWriter, Raise, Tree
  <2>2. pc \in RunPhases /\ pc' \notin LiveRun BY <2>1 DEF LiveRun, RunPhases
  <2> QED BY <1>0, <1>1, <2>1, <2>2, LogStays
<1> QED BY <1>2, <1>3, <1>4, <1>5, <1>6

LEMMA LogOutsideRun ==
  ASSUME IInv, Begin \/ End \/ Crash \/ WriteFile \/ WriteManifest \/ Evaluate \/ StartBatch \/ NextStock \/ StockCompleted
               \/ HandleError \/ Aggregate \/ StartReview \/ AskExternalReviewer
  PROVE  RunLog'
<1>1. CASE Begin
  <2>1. turn \in DOMAIN commands BY <1>1 DEF Begin, IInv, InputOK, ReviewOK
  <2>2. pc' \in {"run", "evaluate", "batch", "aggregate", "review"} BY <1>1, <2>1 DEF Begin, Command, IInv, InputOK
  <2> QED BY <2>2, NoRunLog DEF RunPhases, LiveRun
<1>2. CASE End \/ Crash
  <2>1. pc' = "command" BY <1>2 DEF End, Crash, EndProcess
  <2> QED BY <2>1, NoRunLog DEF RunPhases, LiveRun
<1>3. CASE WriteFile \/ WriteManifest \/ Evaluate
  <2>1. pc' \in {"write", "stock result", "ended", "evaluate", "raised"} BY <1>3 DEF WriteFile, WriteManifest, Evaluate, Raise
  <2> QED BY <2>1, NoRunLog DEF RunPhases, LiveRun
<1>4. CASE StartBatch \/ NextStock \/ Aggregate \/ StartReview \/ AskExternalReviewer
  <2>1. pc' \in {"raised", "next stock", "run", "write", "external"}
    BY <1>4 DEF StartBatch, NextStock, Aggregate, StartReview, AskExternalReviewer, Raise
  <2> QED BY <2>1, NoRunLog DEF RunPhases, LiveRun
<1>5. CASE StockCompleted \/ HandleError
  <2>1. pc' \in {"next stock", "command"} BY <1>5 DEF StockCompleted, HandleError, AddResult, EndProcess
  <2> QED BY <2>1, NoRunLog DEF RunPhases, LiveRun
<1> QED BY <1>1, <1>2, <1>3, <1>4, <1>5

LEMMA LogManifests == ASSUME IInv, TreeKept, LogInv, WriteManifest PROVE ManifestLogs'
<1>0. /\ pc = "manifest" /\ DOMAIN files' = DOMAIN files \cup {RunManifest(run.id)}
      /\ \A p \in DOMAIN files : p # RunManifest(run.id) => files'[p] = files[p]
      /\ files'[RunManifest(run.id)].outputs = run.outputs /\ files'[RunManifest(run.id)].dry = run.dry
  BY ManifestShape
<1>1. pc \in RunPhases BY <1>0 DEF RunPhases
<1>2. LogIn(files, run.id, run.dry) /\ \A i \in DOMAIN run.outputs : QualityOf(run.outputs[i]) BY <1>1 DEF LogInv, RunLog
<1>3. \A id : CallLog(id) # RunManifest(run.id)
  <2>1. \A id : CallLog(id)[2] = "api-calls.jsonl" /\ RunManifest(run.id)[2] = "factor-run-manifest.json" BY Paths
  <2> QED BY <2>1
<1>4. ASSUME NEW id, NEW dry, LogIn(files, id, dry) PROVE LogIn(files', id, dry) BY <1>0, <1>3, <1>4 DEF LogIn
<1>5. ASSUME NEW id, RunManifest(id) \in DOMAIN files'
      PROVE  /\ LogIn(files', id, files'[RunManifest(id)].dry)
             /\ \A i \in DOMAIN files'[RunManifest(id)].outputs : QualityOf(files'[RunManifest(id)].outputs[i])
  <2>1. CASE RunManifest(id) = RunManifest(run.id)
    <3>1. id = run.id BY <2>1, SameRun
    <3> QED BY <1>0, <1>2, <1>4, <3>1
  <2>2. CASE RunManifest(id) # RunManifest(run.id)
    <3>1. RunManifest(id) \in DOMAIN files /\ files'[RunManifest(id)] = files[RunManifest(id)] BY <1>0, <1>5, <2>2
    <3>2. LogIn(files, id, files[RunManifest(id)].dry)
          /\ \A i \in DOMAIN files[RunManifest(id)].outputs : QualityOf(files[RunManifest(id)].outputs[i])
      BY <3>1 DEF LogInv, ManifestLogs
    <3> QED BY <1>4, <3>1, <3>2
  <2> QED BY <2>1, <2>2
<1> QED BY <1>5 DEF ManifestLogs

LEMMA LogStep == ASSUME IInv, RunInv, LogInv, [Next]_vars PROVE LogInv'
<1>1. TreeKept BY StepKeeps
<1>2. RunLog /\ ManifestLogs BY DEF LogInv
<1>3. Traced \ {LogName} = {ManifestName, StateName, SummaryName} BY DEF Traced, LogName, ManifestName, StateName, SummaryName
<1>4. ASSUME SameNamed({LogName, ManifestName}) PROVE ManifestLogs'
  <2>1. SameNamed({LogName}) /\ SameNamed({ManifestName}) BY <1>4, NamedLess
  <2>2. CallsKept BY <1>1, <2>1, CallsSame
  <2> QED BY <1>2, <2>1, <2>2, ManifestLogsKept
<1>5. ASSUME OtherStep PROVE ManifestLogs'
  <2>1. SameNamed(Traced) BY <1>5, OtherFiles
  <2>2. SameNamed({LogName, ManifestName}) BY <2>1, NamedLess DEF Traced
  <2> QED BY <1>4, <2>2
<1>6. ASSUME StartRun \/ CallWithApiLog PROVE ManifestLogs'
  <2>1. CallsKept /\ SameNamed(Traced \ {LogName}) BY <1>1, <1>6, CallsOfRun
  <2>2. SameNamed({ManifestName}) BY <1>3, <2>1, NamedLess
  <2> QED BY <1>2, <2>1, <2>2, ManifestLogsKept
<1>7. CASE StartRun BY <1>1, <1>2, <1>6, <1>7, LogStarts DEF LogInv
<1>8. CASE CallWithApiLog BY <1>1, <1>2, <1>6, <1>8, LogCalls DEF LogInv
<1>9. CASE StartStock \/ WriteLiveStock \/ WriteDryRunStock \/ RestoreHandlers \/ FlushCacheWriter
  BY <1>1, <1>2, <1>5, <1>9, LogInRun DEF LogInv, OtherStep
<1>10. CASE Begin \/ End \/ Crash \/ Evaluate \/ StartBatch \/ NextStock \/ StockCompleted \/ HandleError \/ Aggregate \/ StartReview
  BY <1>5, <1>10, LogOutsideRun DEF LogInv, OtherStep
<1>11. CASE WriteFile BY <1>4, <1>11, LogOutsideRun, WriteFileNames DEF LogInv
<1>12. CASE WriteManifest BY <1>1, <1>12, LogOutsideRun, LogManifests DEF LogInv
<1>13. CASE AskExternalReviewer
  <2>1. UNCHANGED files BY <1>13 DEF AskExternalReviewer, Tree
  <2> QED BY <1>4, <1>13, <2>1, LogOutsideRun, SameTree DEF LogInv
<1>14. CASE UNCHANGED vars
  <2>1. RunLog' BY <1>2, <1>14 DEF vars, RunLog, LogIn, QualityOf
  <2> QED BY <1>5, <1>14, <2>1 DEF LogInv, OtherStep
<1> QED BY <1>7, <1>8, <1>9, <1>10, <1>11, <1>12, <1>13, <1>14 DEF Next, Step, Done

LEMMA LogInvariant == Spec => []LogInv
<1>1. Init => LogInv BY DEF Init, LogInv, RunLog, ManifestLogs, RunPhases, LiveRun
<1>2. IInv /\ RunInv /\ LogInv /\ [Next]_vars => LogInv' BY LogStep
<1> QED BY <1>1, <1>2, Invariant, RunInvariant, PTL DEF Spec

LEMMA NotExternal == ASSUME IInv, Next, ~StartReview, ~UNCHANGED vars PROVE pc' # "external"
<1>1. CASE Begin
  <2>1. turn \in DOMAIN commands BY <1>1 DEF Begin, IInv, InputOK, ReviewOK
  <2> QED BY <1>1, <2>1 DEF Begin, Command, IInv, InputOK
<1>2. CASE End \/ Crash \/ HandleError \/ StockCompleted
  BY <1>2 DEF End, Crash, HandleError, StockCompleted, AddResult, EndProcess
<1>3. CASE WriteFile \/ WriteManifest \/ Evaluate \/ StartBatch \/ NextStock \/ Aggregate \/ AskExternalReviewer
  BY <1>3 DEF WriteFile, WriteManifest, Evaluate, StartBatch, NextStock, Aggregate, AskExternalReviewer, Raise
<1>4. CASE StartRun BY <1>4 DEF StartRun, Raise
<1>5. CASE CallWithApiLog BY <1>5 DEF CallWithApiLog, Receive, RaiseInRun
<1>6. CASE StartStock \/ RestoreHandlers \/ FlushCacheWriter
  BY <1>6 DEF StartStock, RestoreHandlers, FlushCacheWriter, RaiseInRun, Raise
<1>7. CASE WriteLiveStock
  <2>1. pc' \in {"stock", "finally"} BY <1>7 DEF WriteLiveStock, WriteStock
  <2> QED BY <2>1
<1>8. CASE WriteDryRunStock
  <2>1. pc' \in {"manifest", "dry stock", "raised"} BY <1>8 DEF WriteDryRunStock, WriteStock, Raise
  <2> QED BY <2>1
<1> QED BY <1>1, <1>2, <1>3, <1>4, <1>5, <1>6, <1>7, <1>8 DEF Next, Step, Done

LEMMA ManifestNames == ASSUME WriteManifest PROVE SameNamed({LogName, StateName, SummaryName})
<1>1. /\ DOMAIN files' = DOMAIN files \cup {RunManifest(run.id)}
      /\ \A p \in DOMAIN files : p # RunManifest(run.id) => files'[p] = files[p]
  BY ManifestShape
<1>2. RunManifest(run.id)[2] \notin {LogName, StateName, SummaryName} BY Paths DEF LogName, StateName, SummaryName
<1> QED BY <1>1, <1>2 DEF SameNamed

LEMMA CallsStep == ASSUME IInv, RunInv, [Next]_vars PROVE CallsKept
<1>1. TreeKept BY StepKeeps
<1>2. CASE StartRun \/ CallWithApiLog BY <1>1, <1>2, CallsOfRun
<1>3. ASSUME SameNamed({LogName}) PROVE CallsKept BY <1>1, <1>3, CallsSame
<1>4. CASE WriteFile
  <2>1. SameNamed({LogName}) BY <1>4, WriteFileNames, NamedLess
  <2> QED BY <1>3, <2>1
<1>5. CASE WriteManifest
  <2>1. SameNamed({LogName}) BY <1>5, ManifestNames, NamedLess
  <2> QED BY <1>3, <2>1
<1>6. CASE AskExternalReviewer
  <2>1. UNCHANGED files BY <1>6 DEF AskExternalReviewer, Tree
  <2> QED BY <1>3, <2>1, SameTree
<1>7. CASE OtherStep
  <2>1. SameNamed(Traced) BY <1>7, OtherFiles
  <2>2. SameNamed({LogName}) BY <2>1, NamedLess DEF Traced
  <2> QED BY <1>3, <2>2
<1> QED BY <1>2, <1>4, <1>5, <1>6, <1>7 DEF Next, Step, Done, OtherStep

\* What may be said of a run or batch may be said of it forever.
LEMMA TruthKept == ASSUME TreeOK, TreeKept, CallsKept, NEW of, Truth(files, of) PROVE Truth(files', of)
<1>1. CASE of[1] = "run"
  <2> DEFINE id == of[2]
  <2>1. /\ RunManifest(id) \in DOMAIN files /\ CallLog(id) \in DOMAIN files
        /\ WholeManifest(files[RunManifest(id)]) /\ \A c \in ToSet(files[CallLog(id)]) : c.ok
    BY <1>1 DEF Truth
  <2> HIDE DEF id
  <2>2. RunDir(id) \in dirs BY <2>1, FinishedRun
  <2>3. RunManifest(id)[1] = RunDir(id) /\ RunManifest(id)[2] \notin Logs BY Paths DEF Logs
  <2>4. RunManifest(id) \in DOMAIN files' /\ files'[RunManifest(id)] = files[RunManifest(id)] BY <2>1, <2>2, <2>3, FileKept
  <2>5. CallLog(id) \in DOMAIN files' /\ files'[CallLog(id)] = files[CallLog(id)] BY <2>1 DEF CallsKept
  <2> QED BY <1>1, <2>1, <2>4, <2>5 DEF Truth, id
<1>2. CASE of[1] # "run"
  <2> DEFINE id == of[2]
  <2>1. Summary(id) \in DOMAIN files /\ WholeSummary(files, files[Summary(id)]) BY <1>2 DEF Truth
  <2> HIDE DEF id
  <2>2. Summary(id) \in DOMAIN files' /\ files'[Summary(id)] = files[Summary(id)] BY <2>1, WrittenSummary
  <2>3. DOMAIN files \subseteq DOMAIN files' BY DEF TreeKept
  <2>4. WholeSummary(files', files'[Summary(id)]) BY <2>1, <2>2, <2>3 DEF WholeSummary
  <2> QED BY <1>2, <2>2, <2>4 DEF Truth, id
<1> QED BY <1>1, <1>2

LEMMA ReviewsKept ==
  ASSUME TreeOK, TreeKept, CallsKept, ReviewInv, SameNamed({StateName}), Unplanned({StateName}),
         pc' = "external" => pc = "external" /\ review' = review
  PROVE  ReviewInv'
<1>1. pc' = "external" /\ review'.findings = {} => Truth(files', review'.dir) BY TruthKept DEF ReviewInv
<1>2. ASSUME NEW i \in DOMAIN todo', todo'[i].path[2] = StateName, todo'[i].content.status = "passed"
      PROVE  Truth(files', todo'[i].content.of)
  <2>1. PICK j \in DOMAIN todo : todo[j] = todo'[i] BY <1>2 DEF Unplanned
  <2>2. Truth(files, todo[j].content.of) BY <1>2, <2>1 DEF ReviewInv
  <2> QED BY <2>1, <2>2, TruthKept
<1>3. ASSUME NEW p \in DOMAIN files', p[2] = StateName, files'[p].status = "passed" PROVE Truth(files', files'[p].of)
  <2>1. p \in DOMAIN files /\ files'[p] = files[p] BY <1>3 DEF SameNamed
  <2>2. Truth(files, files[p].of) BY <1>3, <2>1 DEF ReviewInv
  <2> QED BY <2>1, <2>2, TruthKept
<1> QED BY <1>1, <1>2, <1>3 DEF ReviewInv, Truth

LEMMA NothingFound == ASSUME NEW title, NEW about, NEW found, Finding(title, about, found) = {} PROVE ~found
BY DEF Finding

\* No finding of a run: it is live, completed, and its factors are all OK.
LEMMA RunFindings ==
  ASSUME IInv, RunInv, LogInv, NEW dir, dir[1] = "run", RunManifest(dir[2]) \in DOMAIN files, DeterministicFindings(dir) = {}
  PROVE  Truth(files, dir)
<1> DEFINE id == dir[2]
           manifest == files[RunManifest(id)]
           calls == files[CallLog(id)]
           dirOf == [s \in {o.stock : o \in ToSet(manifest.outputs)} |-> StockDir(id, s)]
<1>1. ManifestOf(dir) = RunManifest(id) BY DEF ManifestOf
<1>2. FactorRunFindings(manifest, calls, files, dirOf) = {} BY <1>1 DEF DeterministicFindings
<1>3. ManifestIn(files, dirs, id)
  <2>1. RunDir(id) \in dirs BY FinishedRun DEF IInv
  <2>2. RunDir(id)[1] = "run" /\ RunDir(id)[2] = id BY Directories
  <2>3. id \in Runs BY <2>1, <2>2 DEF Runs
  <2> QED BY <2>3 DEF RunInv, ManifestsOK, Finished, Written
<1>4. LogIn(files, id, manifest.dry) /\ \A i \in DOMAIN manifest.outputs : QualityOf(manifest.outputs[i])
  BY DEF LogInv, ManifestLogs
<1>5. /\ Finding("status", None, manifest.status # "completed") = {}
      /\ Finding("no warmup", None, manifest.warmup <= 0) = {}
      /\ {<<"no call", endpoint>> : endpoint \in {"trade_cal", "cyq_chips", "daily"} \ {c.endpoint : c \in ToSet(calls)}} = {}
      /\ Finding("failed calls", None, \E c \in ToSet(calls) : ~c.ok) = {}
      /\ (UNION {StockFindings(manifest, o, files, dirOf[o.stock]) : o \in ToSet(manifest.outputs)}) = {}
  <2> HIDE DEF manifest, calls, dirOf
  <2> QED BY <1>2 DEF FactorRunFindings
<1>6. manifest.status = "completed" /\ ~(manifest.warmup <= 0) /\ \A c \in ToSet(calls) : c.ok
  <2> HIDE DEF manifest, calls, dirOf
  <2> QED BY <1>5, NothingFound
<1>7. ~manifest.dry
  <2>1. "trade_cal" \in {c.endpoint : c \in ToSet(calls)}
    <3> DEFINE called == {c.endpoint : c \in ToSet(calls)}
    <3> HIDE DEF called
    <3>1. {<<"no call", endpoint>> : endpoint \in {"trade_cal", "cyq_chips", "daily"} \ called} = {} BY <1>5 DEF called
    <3>2. "trade_cal" \in called BY <3>1
    <3> QED BY <3>2 DEF called
  <2>2. calls # <<>>
    <3> HIDE DEF calls
    <3>1. DOMAIN calls # {} BY <2>1 DEF ToSet
    <3> QED BY <3>1, EmptyOwn
  <2> QED BY <1>4, <2>2 DEF LogIn
<1>8. ASSUME NEW o \in ToSet(manifest.outputs), NEW day \in DOMAIN Rows(o, "factors.jsonl"),
             NEW f \in DOMAIN Rows(o, "factors.jsonl")[day]
      PROVE  Rows(o, "factors.jsonl")[day][f].quality = "OK"
  <2> DEFINE place == StockDir(id, o.stock)
             content == Read(files, <<place, "factor-quality.json">>)
             factors == o.checksums["factors.jsonl"]
  <2>1. PICK i \in DOMAIN manifest.outputs : o = manifest.outputs[i] BY DEF ToSet
  <2>2. OutputIn(files, dirs, id, o) BY <1>3, <2>1 DEF ManifestIn
  <2>3. content = o.checksums["factor-quality.json"] BY <2>2 DEF OutputIn, Read, StockNames
  <2>4. content = QualityStatuses(factors) BY <1>4, <2>1, <2>3 DEF QualityOf
  <2>5. dirOf[o.stock] = place OBVIOUS
  <2>6. StockFindings(manifest, o, files, place) = {} BY <1>5, <2>5
  <2>7. content # None /\ (content = {"OK"} \/ content = {})
    <3> DEFINE present == {name \in StockRefs : Read(files, <<place, name>>) # None}
    <3>1. /\ Finding("files missing", o.stock, present # StockRefs) = {}
          /\ Finding("quality", o.stock, content # None /\ content # {"OK"} /\ content # {}) = {}
      <4> HIDE DEF manifest, dirOf, place
      <4> QED BY <2>6 DEF StockFindings
    <3>2. present = StockRefs /\ ~(content # None /\ content # {"OK"} /\ content # {})
      <4> HIDE DEF present, content
      <4> QED BY <3>1, NothingFound
    <3>3. content # None BY <3>2 DEF StockRefs
    <3> QED BY <3>2, <3>3
  <2>8. factors[day][f].quality \in QualityStatuses(factors) BY DEF QualityStatuses, Rows
  <2> HIDE DEF content, place
  <2>9. factors[day][f].quality = "OK" BY <2>4, <2>7, <2>8
  <2> QED BY <2>9 DEF Rows
<1>9. WholeManifest(manifest) BY <1>6, <1>7, <1>8 DEF WholeManifest
<1> QED BY <1>4, <1>6, <1>9 DEF Truth, LogIn

LEMMA BatchParts ==
  ASSUME NEW summary, NEW report, NEW log, NEW made
  PROVE  FactorBatchFindings(summary, report, log, made) =
           SummaryFindings(summary) \cup StockResultLogFindings(summary.results, log)
           \cup (UNION {CompletedResultFindings(r, made) : r \in ToSet(Completed(summary.results))})
           \cup AggregateKeyFindings(summary)
           \cup (UNION {AggregateRowFindings(key, summary.aggregate[key], summary.success) : key \in DOMAIN summary.aggregate})
           \cup Finding("report", None, report # AggregateReport(summary))
BY DEF FactorBatchFindings

\* No finding of a batch: all of its stocks completed, once, and every row has returns.
LEMMA BatchFindings ==
  ASSUME MergeInv, NEW dir, dir[1] # "run", Summary(dir[2]) \in DOMAIN files, DeterministicFindings(dir) = {}
  PROVE  Truth(files, dir)
<1> DEFINE id == dir[2]
           summary == files[Summary(id)]
           results == summary.results
           completed == {i \in DOMAIN results : results[i].status = "completed"}
           log == IF Written(StockLog(id)) THEN files[StockLog(id)] ELSE <<>>
<1>1. ManifestOf(dir) = Summary(id) BY DEF ManifestOf
<1>2. FactorBatchFindings(summary, files[Report(id)], log, dirs) = {} BY <1>1 DEF DeterministicFindings
<1>3. /\ SummaryFindings(summary) = {}
      /\ (UNION {AggregateRowFindings(key, summary.aggregate[key], summary.success) : key \in DOMAIN summary.aggregate}) = {}
  <2> DEFINE first == SummaryFindings(summary)
             second == StockResultLogFindings(summary.results, log)
             third == UNION {CompletedResultFindings(r, dirs) : r \in ToSet(Completed(summary.results))}
             fourth == AggregateKeyFindings(summary)
             fifth == UNION {AggregateRowFindings(key, summary.aggregate[key], summary.success) : key \in DOMAIN summary.aggregate}
             sixth == Finding("report", None, files[Report(id)] # AggregateReport(summary))
  <2> HIDE DEF summary, log
  <2>1. first \cup second \cup third \cup fourth \cup fifth \cup sixth = {} BY <1>2, BatchParts
  <2> HIDE DEF first, second, third, fourth, fifth, sixth
  <2>2. first = {} /\ fifth = {} BY <2>1
  <2> QED BY <2>2 DEF first, fifth
<1>4. /\ Finding("failed stocks", None, summary.failed # 0) = {}
      /\ Finding("duplicates", None, ~IsInjective([i \in DOMAIN results |-> results[i].stock])) = {}
      /\ Finding("counters", None, SuccessCount(results) # summary.success \/ Len(results) - SuccessCount(results) # summary.failed) = {}
  <2> HIDE DEF summary
  <2> QED BY <1>3 DEF SummaryFindings
<1>5. /\ summary.failed = 0 /\ IsInjective([i \in DOMAIN results |-> results[i].stock])
      /\ Len(results) - SuccessCount(results) = summary.failed
  <2> HIDE DEF summary
  <2> QED BY <1>4, NothingFound
<1>6. SoundResults(files, dirs, results)
  <2>1. Summary(id)[2] = SummaryName BY Paths DEF SummaryName
  <2> QED BY <2>1 DEF MergeInv, ResultsOK
<1>7. IsSeq(results) /\ \A i \in DOMAIN results : CompletedIn(files, dirs, results[i]) BY <1>6 DEF SoundResults, StockResults
<1>8. completed = DOMAIN results
  <2> HIDE DEF results
  <2>1. DOMAIN results = 1..Len(results) /\ Len(results) \in Nat BY <1>7, SeqShape
  <2>2. IsFiniteSet(DOMAIN results) /\ Cardinality(DOMAIN results) = Len(results)
    <3>1. PICK n \in Nat : n = Len(results) BY <2>1
    <3>2. IsFiniteSet(1..n) /\ Cardinality(1..n) = n BY FS_Interval
    <3> QED BY <2>1, <3>1, <3>2
  <2>3. completed \subseteq DOMAIN results OBVIOUS
  <2>4. SuccessCount(results) = Cardinality(completed) BY DEF SuccessCount
  <2> HIDE DEF completed
  <2>5. IsFiniteSet(completed) /\ Cardinality(completed) \in Nat BY <2>2, <2>3, FS_Subset, FS_CardinalityType
  <2>6. Cardinality(completed) = Cardinality(DOMAIN results) BY <1>5, <2>1, <2>2, <2>4, <2>5
  <2> QED BY <2>2, <2>3, <2>6, FS_Subset
<1>9. ASSUME NEW r \in ToSet(results) PROVE r.status = "completed" /\ RunManifest(r.runDir[2]) \in DOMAIN files
  <2> HIDE DEF results
  <2>1. PICK i \in DOMAIN results : r = results[i] BY DEF ToSet
  <2>2. r.status = "completed" BY <1>8, <2>1
  <2> QED BY <1>7, <2>1, <2>2 DEF CompletedIn
<1>10. ASSUME NEW r \in ToSet(results), NEW q \in ToSet(results), r.stock = q.stock PROVE r = q
  <2> HIDE DEF results
  <2>1. PICK i \in DOMAIN results, j \in DOMAIN results : r = results[i] /\ q = results[j] BY DEF ToSet
  <2>2. i = j BY <1>5, <1>10, <2>1 DEF IsInjective
  <2> QED BY <2>1, <2>2
<1>11. ASSUME NEW key \in DOMAIN summary.aggregate PROVE summary.aggregate[key].available # 0
  <2> DEFINE row == summary.aggregate[key]
  <2>1. AggregateRowFindings(key, row, summary.success) = {} BY <1>3
  <2>2. Finding("row without returns", key, row.available <= 0) = {}
    <3> HIDE DEF row, summary
    <3> QED BY <2>1 DEF AggregateRowFindings
  <2>3. ~(row.available <= 0)
    <3> HIDE DEF row
    <3> QED BY <2>2, NothingFound
  <2> HIDE DEF row
  <2>4. row.available # 0 BY <2>3
  <2> QED BY <2>4 DEF row
<1>12. WholeSummary(files, summary) BY <1>9, <1>10, <1>11 DEF WholeSummary
<1> QED BY <1>12 DEF Truth

LEMMA StartReviewShape ==
  ASSUME StartReview
  PROVE  /\ UNCHANGED <<commands, turn, files, todo, clock>> /\ pc = "review" /\ pc' \in {"raised", "external"}
         /\ pc' = "external" =>
              /\ review'.dir = (IF Command.id = None THEN Latest ELSE <<Kind, Command.id>>)
              /\ review'.dir \in dirs /\ Collectable(review'.dir) /\ review'.findings = DeterministicFindings(review'.dir)
<1> DEFINE dir == IF Command.id = None THEN Latest ELSE <<Kind, Command.id>>
<1>1. UNCHANGED <<commands, turn, files, todo, clock>> /\ pc = "review" BY DEF StartReview, Inputs, History
<1>2. CASE dir \notin dirs BY <1>1, <1>2 DEF StartReview, Raise
<1>3. CASE dir \in dirs
  <2>1. IF Collectable(dir) THEN review' = [dir |-> dir, findings |-> DeterministicFindings(dir)] /\ pc' = "external"
        ELSE pc' = "raised"
    BY <1>3 DEF StartReview, Raise
  <2> HIDE DEF dir
  <2>2. pc' = "external" => review'.dir = dir /\ Collectable(dir) /\ review'.findings = DeterministicFindings(dir) BY <2>1
  <2> QED BY <1>1, <1>3, <2>1, <2>2 DEF dir
<1> QED BY <1>2, <1>3

LEMMA ReviewStarts == ASSUME IInv, RunInv, LogInv, MergeInv, ReviewInv, StartReview PROVE ReviewInv'
<1>0. /\ UNCHANGED <<files, todo>>
      /\ pc' = "external" => Collectable(review'.dir) /\ review'.findings = DeterministicFindings(review'.dir)
  BY StartReviewShape
<1>1. ASSUME NEW dir, Collectable(dir), DeterministicFindings(dir) = {} PROVE Truth(files, dir)
  <2>1. ManifestOf(dir) \in DOMAIN files BY <1>1 DEF Collectable, Written
  <2>2. CASE dir[1] = "run" BY <1>1, <2>1, <2>2, RunFindings DEF ManifestOf
  <2>3. CASE dir[1] # "run" BY <1>1, <2>1, <2>3, BatchFindings DEF ManifestOf
  <2> QED BY <2>2, <2>3
<1>2. pc' = "external" /\ review'.findings = {} => Truth(files', review'.dir) BY <1>0, <1>1
<1> QED BY <1>0, <1>2 DEF ReviewInv

LEMMA ReviewAsks == ASSUME ReviewInv, AskExternalReviewer PROVE ReviewInv'
<1>0. pc = "external" /\ pc' = "write" /\ UNCHANGED files BY DEF AskExternalReviewer, Tree
<1>1. PICK failed \in BOOLEAN :
        LET findings == review.findings \cup Finding("external review failed", None, failed)
            dir == ReviewDir(review.dir)
            state == [status |-> IF findings = {} THEN "passed" ELSE "needs_fix", of |-> review.dir, findings |-> findings]
        IN todo' = <<File(<<dir, "findings.json">>, findings), File(<<dir, "artifact-review-report.md">>, findings),
                     File(<<dir, "fix-plan-draft.md">>, findings), File(<<dir, "review-config.json">>, review.dir),
                     File(<<dir, "review-state.json">>, state), File(<<<<"reviews", review.dir>>, "latest.json">>, dir)>>
  BY DEF AskExternalReviewer
<1> DEFINE findings == review.findings \cup Finding("external review failed", None, failed)
           dir == ReviewDir(review.dir)
           state == [status |-> IF findings = {} THEN "passed" ELSE "needs_fix", of |-> review.dir, findings |-> findings]
           f1 == File(<<dir, "findings.json">>, findings)
           f2 == File(<<dir, "artifact-review-report.md">>, findings)
           f3 == File(<<dir, "fix-plan-draft.md">>, findings)
           f4 == File(<<dir, "review-config.json">>, review.dir)
           f5 == File(<<dir, "review-state.json">>, state)
           f6 == File(<<<<"reviews", review.dir>>, "latest.json">>, dir)
<1>2. todo' = <<f1, f2, f3, f4, f5, f6>> BY <1>1
<1>3. /\ f1.path[2] = "findings.json" /\ f2.path[2] = "artifact-review-report.md" /\ f3.path[2] = "fix-plan-draft.md"
      /\ f4.path[2] = "review-config.json" /\ f6.path[2] = "latest.json"
  BY DEF File
<1>4. f5.content.status = "passed" => Truth(files, f5.content.of)
  <2>1. f5.content = state BY DEF File
  <2>2. state.of = review.dir /\ (state.status = "passed" => findings = {}) OBVIOUS
  <2>3. findings = {} => review.findings = {} OBVIOUS
  <2> HIDE DEF f5, state, findings
  <2> QED BY <1>0, <2>1, <2>2, <2>3 DEF ReviewInv
<1> HIDE DEF f1, f2, f3, f4, f5, f6
<1>5. /\ DOMAIN todo' = 1..6 /\ todo'[1] = f1 /\ todo'[2] = f2 /\ todo'[3] = f3 /\ todo'[4] = f4 /\ todo'[5] = f5
      /\ todo'[6] = f6
  BY <1>2
<1>6. ASSUME NEW i \in DOMAIN todo', todo'[i].path[2] = StateName, todo'[i].content.status = "passed"
      PROVE  Truth(files, todo'[i].content.of)
  <2>1. i = 5 BY <1>3, <1>5, <1>6 DEF StateName
  <2> QED BY <1>4, <1>5, <1>6, <2>1
<1> QED BY <1>0, <1>6 DEF ReviewInv

LEMMA ReviewWrites == ASSUME IInv, RunInv, ReviewInv, TreeKept, CallsKept, WriteFile PROVE ReviewInv'
<1>0. /\ pc' \in {"write", "stock result", "ended"} /\ 1 \in DOMAIN todo
      /\ DOMAIN files' = DOMAIN files \cup {todo[1].path} /\ files'[todo[1].path] = todo[1].content
      /\ \A p \in DOMAIN files : p # todo[1].path => files'[p] = files[p]
      /\ \A j \in DOMAIN todo' : \E i \in DOMAIN todo : todo[i] = todo'[j]
  BY WriteFileShape
<1>1. TreeOK BY DEF IInv
<1>2. ASSUME NEW i \in DOMAIN todo', todo'[i].path[2] = StateName, todo'[i].content.status = "passed"
      PROVE  Truth(files', todo'[i].content.of)
  <2>1. PICK j \in DOMAIN todo : todo[j] = todo'[i] BY <1>0
  <2>2. Truth(files, todo[j].content.of) BY <1>2, <2>1 DEF ReviewInv
  <2> QED BY <1>1, <2>1, <2>2, TruthKept
<1>3. ASSUME NEW p \in DOMAIN files', p[2] = StateName, files'[p].status = "passed" PROVE Truth(files', files'[p].of)
  <2>1. CASE p = todo[1].path
    <3>1. Truth(files, todo[1].content.of) BY <1>0, <1>3, <2>1 DEF ReviewInv
    <3> QED BY <1>0, <1>1, <2>1, <3>1, TruthKept
  <2>2. CASE p # todo[1].path
    <3>1. p \in DOMAIN files /\ files'[p] = files[p] BY <1>0, <1>3, <2>2
    <3>2. Truth(files, files[p].of) BY <1>3, <3>1 DEF ReviewInv
    <3> QED BY <1>1, <3>1, <3>2, TruthKept
  <2> QED BY <2>1, <2>2
<1>4. pc' # "external" BY <1>0
<1> QED BY <1>2, <1>3, <1>4 DEF ReviewInv, Truth

LEMMA ReviewStep == ASSUME IInv, RunInv, LogInv, MergeInv, ReviewInv, [Next]_vars PROVE ReviewInv'
<1>1. TreeKept /\ TreeOK BY StepKeeps DEF IInv
<1>2. CallsKept BY CallsStep
<1>3. CASE StartReview BY <1>3, ReviewStarts
<1>4. CASE AskExternalReviewer BY <1>4, ReviewAsks
<1>5. CASE WriteFile BY <1>1, <1>2, <1>5, ReviewWrites
<1>6. CASE ~StartReview /\ ~AskExternalReviewer /\ ~WriteFile
  <2>1. pc' = "external" => pc = "external" /\ review' = review
    <3>1. CASE UNCHANGED vars BY <3>1 DEF vars
    <3>2. CASE ~UNCHANGED vars BY <1>6, <3>2, NotExternal
    <3> QED BY <3>1, <3>2
  <2>2. SameNamed({StateName}) /\ Unplanned({StateName})
    <3>1. CASE OtherStep
      <4>1. SameNamed(Traced) BY <3>1, OtherFiles
      <4>2. SameNamed({StateName}) BY <4>1, NamedLess DEF Traced
      <4>3. Unplanned({StateName}) BY <3>1, OtherPlans DEF Unplanned
      <4> QED BY <4>2, <4>3
    <3>2. CASE StartRun \/ CallWithApiLog
      <4>1. SameNamed(Traced \ {LogName}) BY <1>1, <3>2, CallsOfRun
      <4>2. SameNamed({StateName}) BY <4>1, NamedLess DEF Traced, LogName, StateName
      <4>3. todo' = todo BY <3>2 DEF StartRun, CallWithApiLog
      <4> QED BY <4>2, <4>3, NothingNew
    <3>3. CASE WriteManifest
      <4>1. SameNamed({StateName}) BY <3>3, ManifestNames, NamedLess
      <4>2. todo' = todo BY <3>3 DEF WriteManifest
      <4> QED BY <4>1, <4>2, NothingNew
    <3> QED BY <1>6, <3>1, <3>2, <3>3 DEF Next, Step, Done, OtherStep
  <2> QED BY <1>1, <1>2, <2>1, <2>2, ReviewsKept
<1> QED BY <1>3, <1>4, <1>5, <1>6

LEMMA ReviewInvariant == Spec => []ReviewInv
<1>1. Init => ReviewInv BY DEF Init, ReviewInv
<1>2. IInv /\ RunInv /\ LogInv /\ MergeInv /\ ReviewInv /\ [Next]_vars => ReviewInv' BY ReviewStep
<1> QED BY <1>1, <1>2, Invariant, RunInvariant, LogInvariant, MergeInvariant, PTL DEF Spec

LEMMA ReviewsTell == ASSUME IInv, ReviewInv PROVE ReviewTellsTheTruth
<1> SUFFICES ASSUME NEW d \in dirs, d[1] = "review", Sealed(d), files[<<d, "review-state.json">>].status = "passed"
             PROVE  LET state == files[<<d, "review-state.json">>]
                    IN IF state.of[1] = "run"
                       THEN WholeRun(state.of[2]) /\ \A c \in ToSet(files[CallLog(state.of[2])]) : c.ok
                       ELSE LET summary == files[Summary(state.of[2])]
                            IN /\ \A r \in ToSet(summary.results) : r.status = "completed" /\ Finished(r.runDir[2])
                               /\ \A r, q \in ToSet(summary.results) : r.stock = q.stock => r = q
                               /\ \A key \in DOMAIN summary.aggregate : summary.aggregate[key].available # 0
  BY DEF ReviewTellsTheTruth
<1> DEFINE p == <<d, "review-state.json">>
           of == files[p].of
<1>1. Written(SealOf(d)) /\ SealOf(d) = p
  <2>1. d[1] \in Kinds BY DEF Kinds
  <2> QED BY <2>1, SealedMeans DEF SealOf
<1>2. p \in DOMAIN files /\ p[2] = StateName BY <1>1 DEF Written, StateName
<1>3. Truth(files, of) BY <1>2 DEF ReviewInv
<1>4. CASE of[1] = "run" BY <1>3, <1>4 DEF Truth, WholeManifest, WholeRun
<1>5. CASE of[1] # "run" BY <1>3, <1>5 DEF Truth, WholeSummary, Finished, Written
<1> QED BY <1>4, <1>5

-----------------------------------------------------------------------------
(* What the latest is *)

\* Ids of runs and batches, and timestamps, are numbers.
StampedNames == {SummaryName, ManifestName}
DirsOK(made) == IsFiniteSet(made) /\ \A d \in made : d[1] \in {"run", "batch"} => d[2] \in Nat
Stamps ==
  /\ \A p \in DOMAIN files : p[2] \in StampedNames => files[p].timestamp \in Nat
  /\ \A i \in DOMAIN todo : todo[i].path[2] \in StampedNames => todo[i].content.timestamp \in Nat
RunIds == pc = "run" => run.id \in Nat
LatestInv == clock \in Nat /\ DirsOK(dirs) /\ Stamps /\ RunIds

LEMMA Greatest == ASSUME NEW S \in SUBSET Nat, S # {}, IsFiniteSet(S) PROVE \E m \in S : \A k \in S : k <= m
<1> DEFINE Good == {n \in Nat : \A T \in SUBSET Nat :
                      IsFiniteSet(T) /\ Cardinality(T) = n /\ T # {} => \E m \in T : \A k \in T : k <= m}
<1>1. 0 \in Good
  <2>1. \A T : IsFiniteSet(T) /\ Cardinality(T) = 0 => T = {} BY FS_EmptySet
  <2> QED BY <2>1
<1>2. ASSUME NEW n \in Good PROVE n + 1 \in Good
  <2> SUFFICES ASSUME NEW T \in SUBSET Nat, IsFiniteSet(T), Cardinality(T) = n + 1, T # {}
               PROVE  \E m \in T : \A k \in T : k <= m
    OBVIOUS
  <2>1. PICK x \in T : TRUE OBVIOUS
  <2> DEFINE R == T \ {x}
  <2>2. IsFiniteSet(R) /\ Cardinality(R) = n
    <3>1. IsFiniteSet(R) /\ Cardinality(R) = Cardinality(T) - 1 BY <2>1, FS_RemoveElement
    <3> QED BY <3>1
  <2>3. CASE R = {} BY <2>1, <2>3
  <2>4. CASE R # {}
    <3>1. R \in SUBSET Nat OBVIOUS
    <3> HIDE DEF R
    <3>2. PICK m \in R : \A k \in R : k <= m BY <1>2, <2>2, <2>4, <3>1
    <3>3. m \in Nat /\ x \in Nat /\ m \in T /\ \A k \in T : k = x \/ k \in R BY <2>1, <3>1, <3>2 DEF R
    <3>4. CASE x <= m BY <3>2, <3>3, <3>4
    <3>5. CASE m <= x
      <4>1. ASSUME NEW k \in T PROVE k <= x
        <5>1. k \in Nat OBVIOUS
        <5>2. k = x \/ k <= m BY <3>2, <3>3
        <5> QED BY <3>3, <3>5, <5>1, <5>2
      <4> QED BY <2>1, <4>1
    <3> QED BY <3>3, <3>4, <3>5
  <2> QED BY <2>3, <2>4
<1>3. Good = Nat
  <2>1. Good \subseteq Nat OBVIOUS
  <2> HIDE DEF Good
  <2> QED BY <1>1, <1>2, <2>1, AllNaturals
<1>4. Cardinality(S) \in Good BY <1>3, FS_CardinalityType
<1> QED BY <1>4

LEMMA CommandId == ASSUME IInv, turn <= Len(commands), Command.do # "review" PROVE Command.id \in Nat
<1>1. turn \in DOMAIN commands BY DEF IInv, InputOK, ReviewOK
<1> QED BY <1>1 DEF Command, IInv, InputOK

LEMMA DirsGrow ==
  ASSUME DirsOK(dirs), dirs' = dirs \/ \E d : dirs' = dirs \cup {d} /\ (d[1] \in {"run", "batch"} => d[2] \in Nat)
  PROVE  DirsOK(dirs')
<1>1. CASE dirs' = dirs BY <1>1
<1>2. ASSUME NEW d, dirs' = dirs \cup {d}, d[1] \in {"run", "batch"} => d[2] \in Nat PROVE DirsOK(dirs')
  <2>1. IsFiniteSet(dirs \cup {d}) BY FS_AddElement DEF DirsOK
  <2> QED BY <1>2, <2>1 DEF DirsOK
<1> QED BY <1>1, <1>2

LEMMA LatestDirs == ASSUME IInv, TypeInv, BatchInv, AggregateStarts, LatestInv, [Next]_vars PROVE DirsOK(dirs')
<1>0. DirsOK(dirs) BY DEF LatestInv
<1> SUFFICES dirs' = dirs \/ \E d : dirs' = dirs \cup {d} /\ (d[1] \in {"run", "batch"} => d[2] \in Nat)
  BY <1>0, DirsGrow
<1>1. CASE Begin \/ End \/ Crash \/ WriteFile \/ CallWithApiLog \/ WriteLiveStock \/ RestoreHandlers \/ FlushCacheWriter
           \/ WriteManifest \/ NextStock \/ StockCompleted \/ HandleError \/ AskExternalReviewer \/ UNCHANGED vars
  BY <1>1 DEF Begin, End, Crash, WriteFile, CallWithApiLog, WriteLiveStock, RestoreHandlers, FlushCacheWriter,
              WriteManifest, NextStock, StockCompleted, HandleError, AskExternalReviewer, vars, Tree
<1>2. CASE StartRun
  <2>1. pc = "run" /\ (dirs' = dirs \/ dirs' = dirs \cup {RunDir(run.id)}) BY <1>2, StartRunShape
  <2>2. RunDir(run.id)[2] = run.id /\ run.id \in Nat BY <2>1, Directories DEF LatestInv, RunIds
  <2> QED BY <2>1, <2>2
<1>3. CASE StartStock \/ WriteDryRunStock
  <2>1. dirs' = dirs \/ dirs' = dirs \cup {StockDir(run.id, Stock)} BY <1>3 DEF StartStock, WriteDryRunStock, Tree
  <2>2. StockDir(run.id, Stock)[1] \notin {"run", "batch"} BY StockDirectories
  <2> QED BY <2>1, <2>2
<1>4. CASE Evaluate
  <2>1. dirs' = dirs \/ \E a, b : dirs' = dirs \cup {EvaluationDir(a, b)} BY <1>4 DEF Evaluate
  <2>2. \A a, b : EvaluationDir(a, b)[1] \notin {"run", "batch"} BY StockDirectories
  <2> QED BY <2>1, <2>2
<1>5. CASE StartBatch \/ Aggregate
  <2>1. pc \in {"batch", "aggregate"} /\ (dirs' = dirs \/ dirs' = dirs \cup {BatchDir(Command.id)})
    BY <1>5 DEF StartBatch, Aggregate, Tree
  <2>2. turn <= Len(commands) BY <2>1 DEF TypeInv
  <2>3. Command.do \in {"batch", "aggregate"}
    <3>1. CASE pc = "batch" BY <3>1 DEF BatchInv, BatchSteps, NoBatchSteps
    <3>2. CASE pc = "aggregate" BY <3>2 DEF AggregateStarts
    <3> QED BY <2>1, <3>1, <3>2
  <2>4. Command.id \in Nat BY <2>2, <2>3, CommandId
  <2>5. BatchDir(Command.id)[2] = Command.id BY Directories
  <2> QED BY <2>1, <2>4, <2>5
<1>6. CASE StartReview
  <2>1. dirs' = dirs \/ \E a : dirs' = dirs \cup {ReviewDir(a)} BY <1>6 DEF StartReview
  <2>2. \A a : ReviewDir(a)[1] \notin {"run", "batch"} BY Directories
  <2> QED BY <2>1, <2>2
<1> QED BY <1>1, <1>2, <1>3, <1>4, <1>5, <1>6 DEF Next, Step, Done

LEMMA ClockTicks == ASSUME clock \in Nat, [Next]_vars PROVE clock' \in Nat
<1>1. clock' = clock \/ clock' = clock + 1
  <2>1. CASE Begin \/ End \/ WriteFile \/ CallWithApiLog \/ StartStock \/ WriteLiveStock \/ WriteDryRunStock \/ RestoreHandlers
             \/ FlushCacheWriter \/ StartBatch \/ StockCompleted \/ HandleError \/ AskExternalReviewer \/ Crash \/ UNCHANGED vars
    BY <2>1 DEF Begin, End, WriteFile, CallWithApiLog, StartStock, WriteLiveStock, WriteDryRunStock, RestoreHandlers,
                FlushCacheWriter, StartBatch, StockCompleted, HandleError, AskExternalReviewer, Crash, vars, History
  <2>2. CASE StartRun BY <2>2, StartRunShape
  <2>3. CASE WriteManifest BY <2>3, ManifestShape
  <2>4. CASE Evaluate BY <2>4, EvaluateShape
  <2>5. CASE StartReview BY <2>5, StartReviewShape
  <2>6. CASE NextStock \/ Aggregate BY <2>6 DEF NextStock, Aggregate
  <2> QED BY <2>1, <2>2, <2>3, <2>4, <2>5, <2>6 DEF Next, Step, Done
<1> QED BY <1>1

LEMMA SameStamps == ASSUME Stamps, SameNamed(StampedNames), Unplanned(StampedNames) PROVE Stamps'
BY DEF Stamps, SameNamed, Unplanned

LEMMA PlannedStamp ==
  ASSUME clock \in Nat, Stamps, UNCHANGED files, NEW summary, summary.timestamp = clock + 1, todo' = SummaryFiles(summary)
  PROVE  Stamps'
<1>1. \A i \in DOMAIN todo' : todo'[i].path[2] = SummaryName => todo'[i].content = summary BY PlannedSummary
<1>2. Unplanned({StateName, ManifestName}) BY SummaryPlans
<1>3. ASSUME NEW i \in DOMAIN todo', todo'[i].path[2] \in StampedNames PROVE todo'[i].content.timestamp \in Nat
  <2>1. CASE todo'[i].path[2] = SummaryName BY <1>1, <2>1
  <2>2. CASE todo'[i].path[2] = ManifestName
    <3>1. PICK j \in DOMAIN todo : todo[j] = todo'[i] BY <1>2, <2>2 DEF Unplanned
    <3> QED BY <1>3, <3>1 DEF Stamps
  <2> QED BY <1>3, <2>1, <2>2 DEF StampedNames
<1> QED BY <1>3 DEF Stamps

LEMMA OtherStamps == ASSUME clock \in Nat, Stamps, OtherStep PROVE Stamps'
<1>1. SameNamed(StampedNames)
  <2>1. StampedNames \subseteq Traced BY DEF StampedNames, Traced
  <2> QED BY <2>1, OtherFiles, NamedLess
<1>2. CASE Begin \/ StartStock \/ WriteLiveStock \/ WriteDryRunStock \/ RestoreHandlers \/ FlushCacheWriter
           \/ StartBatch \/ StockCompleted \/ StartReview \/ UNCHANGED vars
  <2>1. todo' = todo
    BY <1>2 DEF Begin, StartStock, WriteLiveStock, WriteDryRunStock, RestoreHandlers, FlushCacheWriter, StartBatch,
                StockCompleted, StartReview, vars
  <2> QED BY <1>1, <2>1, NothingNew, SameStamps
<1>3. CASE End \/ Crash \/ HandleError
  <2>1. todo' = todo \/ todo' = <<>> BY <1>3 DEF End, Crash, HandleError, EndProcess
  <2> QED BY <1>1, <2>1, NothingNew, EmptyOwn, SameStamps
<1>4. CASE Evaluate
  <2>1. \A i \in DOMAIN todo' :
          todo'[i].path[2] \notin OwnNames \cup {"factor-run-manifest.json"} \/ \E j \in DOMAIN todo : todo[j] = todo'[i]
    BY <1>4, EvaluateShape
  <2>2. Unplanned(StampedNames) BY <2>1 DEF Unplanned, OwnNames, StampedNames, ManifestName
  <2> QED BY <1>1, <2>2, SameStamps
<1>5. CASE NextStock \/ Aggregate
  <2>1. UNCHANGED files /\ (todo' = todo \/ \E id, results : todo' = SummaryFiles(BatchSummary(id, results, clock + 1)))
    BY <1>5 DEF NextStock, Aggregate, Tree
  <2>2. ASSUME NEW id, NEW results, todo' = SummaryFiles(BatchSummary(id, results, clock + 1)) PROVE Stamps'
    <3> DEFINE summary == BatchSummary(id, results, clock + 1)
    <3>1. summary.timestamp = clock + 1 BY DEF BatchSummary
    <3>2. todo' = SummaryFiles(summary) BY <2>2
    <3> HIDE DEF summary
    <3> QED BY <2>1, <3>1, <3>2, PlannedStamp
  <2> QED BY <1>1, <2>1, <2>2, NothingNew, SameStamps
<1> QED BY <1>2, <1>3, <1>4, <1>5 DEF OtherStep

LEMMA StampsStep == ASSUME IInv, RunInv, clock \in Nat, Stamps, [Next]_vars PROVE Stamps'
<1>1. TreeKept BY StepKeeps
<1>2. CASE OtherStep BY <1>2, OtherStamps
<1>3. CASE StartRun \/ CallWithApiLog
  <2>1. SameNamed(Traced \ {LogName}) BY <1>1, <1>3, CallsOfRun
  <2>2. StampedNames \subseteq Traced \ {LogName} BY DEF StampedNames, Traced, LogName, ManifestName, SummaryName
  <2>3. SameNamed(StampedNames) BY <2>1, <2>2, NamedLess
  <2>4. todo' = todo BY <1>3 DEF StartRun, CallWithApiLog
  <2> QED BY <2>3, <2>4, NothingNew, SameStamps
<1>4. CASE WriteManifest BY <1>4, ManifestShape DEF Stamps
<1>5. CASE AskExternalReviewer
  <2>1. UNCHANGED files BY <1>5 DEF AskExternalReviewer, Tree
  <2>2. \A i \in DOMAIN todo' : todo'[i].path[2] \notin {SummaryName, "factor-run-manifest.json"} BY <1>5, ReviewPlan
  <2> QED BY <2>1, <2>2 DEF Stamps, StampedNames, ManifestName
<1>6. CASE WriteFile
  <2>1. /\ 1 \in DOMAIN todo
        /\ DOMAIN files' = DOMAIN files \cup {todo[1].path} /\ files'[todo[1].path] = todo[1].content
        /\ \A p \in DOMAIN files : p # todo[1].path => files'[p] = files[p]
        /\ \A j \in DOMAIN todo' : \E i \in DOMAIN todo : todo[i] = todo'[j]
    BY <1>6, WriteFileShape
  <2>2. ASSUME NEW p \in DOMAIN files', p[2] \in StampedNames PROVE files'[p].timestamp \in Nat
    <3>1. CASE p = todo[1].path BY <2>1, <2>2, <3>1 DEF Stamps
    <3>2. CASE p # todo[1].path
      <4>1. p \in DOMAIN files /\ files'[p] = files[p] BY <2>1, <3>2
      <4> QED BY <2>2, <4>1 DEF Stamps
    <3> QED BY <3>1, <3>2
  <2>3. ASSUME NEW j \in DOMAIN todo', todo'[j].path[2] \in StampedNames PROVE todo'[j].content.timestamp \in Nat
    <3>1. PICK i \in DOMAIN todo : todo[i] = todo'[j] BY <2>1
    <3> QED BY <2>3, <3>1 DEF Stamps
  <2> QED BY <2>2, <2>3 DEF Stamps
<1> QED BY <1>2, <1>3, <1>4, <1>5, <1>6 DEF Next, Step, Done, OtherStep

LEMMA RunIdsStep == ASSUME IInv, TypeInv, BatchInv, MergeInv, RunIds, [Next]_vars PROVE RunIds'
<1>1. CASE End \/ Crash \/ WriteFile \/ StartRun \/ CallWithApiLog \/ StartStock \/ WriteLiveStock \/ WriteDryRunStock
           \/ RestoreHandlers \/ FlushCacheWriter \/ WriteManifest \/ Evaluate \/ StartBatch \/ StockCompleted \/ HandleError
           \/ Aggregate \/ StartReview \/ AskExternalReviewer
  <2>1. pc' # "run"
    <3>1. CASE End \/ Crash \/ WriteFile \/ StartRun \/ StartStock \/ RestoreHandlers \/ FlushCacheWriter \/ WriteManifest
      BY <3>1 DEF End, Crash, EndProcess, WriteFile, StartRun, StartStock, RestoreHandlers, FlushCacheWriter, WriteManifest,
                  Raise, RaiseInRun
    <3>2. CASE CallWithApiLog
      <4>1. pc \in {"trade_cal", "cyq_chips", "daily"} /\ ((\E fault : RaiseInRun(fault)) \/ \E answer : Receive(pc, answer))
        BY <3>2 DEF CallWithApiLog
      <4> QED BY <4>1 DEF RaiseInRun, Receive
    <3>3. CASE WriteLiveStock \/ WriteDryRunStock
      <4>1. pc' \in {"manifest", "raised"} \/ \E snapshots : WriteStock(snapshots, "stock", "finally") \/ WriteStock(snapshots, "dry stock", "raised")
        BY <3>3 DEF WriteLiveStock, WriteDryRunStock, Raise
      <4>2. \A snapshots : WriteStock(snapshots, "stock", "finally") => pc' \in {"stock", "finally"} BY DEF WriteStock
      <4>3. \A snapshots : WriteStock(snapshots, "dry stock", "raised") => pc' \in {"dry stock", "raised"} BY DEF WriteStock
      <4> QED BY <4>1, <4>2, <4>3
    <3>4. CASE Evaluate BY <3>4, EvaluateShape
    <3>5. CASE StartBatch \/ Aggregate BY <3>5 DEF StartBatch, Aggregate, Raise
    <3>6. CASE StockCompleted \/ HandleError BY <3>6 DEF StockCompleted, HandleError, AddResult, EndProcess
    <3>7. CASE StartReview BY <3>7, StartReviewShape
    <3>8. CASE AskExternalReviewer BY <3>8 DEF AskExternalReviewer
    <3> QED BY <1>1, <3>1, <3>2, <3>3, <3>4, <3>5, <3>6, <3>7, <3>8
  <2> QED BY <2>1 DEF RunIds
<1>2. CASE Begin
  <2> SUFFICES ASSUME pc' = "run" PROVE run'.id \in Nat BY DEF RunIds
  <2>1. turn <= Len(commands) /\ Command.do = "run" /\ run' = NewRun(Command.id, Command.stocks, Command.dry) BY <1>2 DEF Begin
  <2>2. run'.id = Command.id BY <2>1 DEF NewRun, NoRun
  <2> QED BY <2>1, <2>2, CommandId
<1>3. CASE NextStock
  <2> SUFFICES ASSUME pc' = "run" PROVE run'.id \in Nat BY DEF RunIds
  <2>1. pc = "next stock" BY <1>3 DEF NextStock
  <2>2. MoreStocks /\ \E stocks, dry : run' = NewRun(StockRunId(batch.id, batch.stocks[batch.item]), stocks, dry)
    BY <1>3 DEF NextStock
  <2>3. InBatch BY <2>2 DEF MoreStocks
  <2>4. Command.do = "batch" /\ batch.id = Command.id /\ BatchIn(files, dirs, batch) BY <2>3 DEF BatchInv, BatchState
  <2>5. turn <= Len(commands) BY <2>1 DEF TypeInv
  <2>6. batch.id \in Nat BY <2>4, <2>5, CommandId
  <2>7. batch.item \in DOMAIN batch.stocks
    <3>0. PICK stocks : stocks = batch.stocks OBVIOUS
    <3>1. PICK item \in Nat \ {0} : item = batch.item BY <2>4 DEF BatchIn
    <3>2. IsSeq(stocks) /\ item <= Len(stocks) BY <2>2, <2>4, <3>0, <3>1 DEF BatchIn, MoreStocks
    <3>3. Len(stocks) \in Nat /\ DOMAIN stocks = 1..Len(stocks) BY <3>2, SeqShape
    <3> QED BY <3>0, <3>1, <3>2, <3>3
  <2>8. batch.stocks[batch.item] \in Nat BY <2>3, <2>7 DEF MergeInv, ResultsOK
  <2>9. run'.id = StockRunId(batch.id, batch.stocks[batch.item]) BY <2>2 DEF NewRun, NoRun
  <2>10. PICK id \in Nat, stock \in Nat : id = batch.id /\ stock = batch.stocks[batch.item] BY <2>6, <2>8
  <2>11. run'.id = 10 * id + stock BY <2>9, <2>10 DEF StockRunId
  <2> QED BY <2>11
<1>4. CASE UNCHANGED vars BY <1>4 DEF vars, RunIds
<1> QED BY <1>1, <1>2, <1>3, <1>4 DEF Next, Step, Done

LEMMA LatestStep ==
  ASSUME IInv, TypeInv, RunInv, BatchInv, MergeInv, AggregateStarts, LatestInv, [Next]_vars
  PROVE  LatestInv'
<1>1. clock' \in Nat BY ClockTicks DEF LatestInv
<1>2. DirsOK(dirs') BY LatestDirs
<1>3. Stamps' BY StampsStep DEF LatestInv
<1>4. RunIds' BY RunIdsStep DEF LatestInv
<1> QED BY <1>1, <1>2, <1>3, <1>4 DEF LatestInv, DirsOK

LEMMA LatestInvariant == Spec => []LatestInv
<1>1. Init => LatestInv /\ AggregateStarts
  <2>1. IsFiniteSet({}) BY FS_EmptySet
  <2>2. ASSUME Init PROVE Stamps
    <3>1. DOMAIN files = {} /\ DOMAIN todo = {} BY <2>2, EmptyOwn DEF Init
    <3> QED BY <3>1 DEF Stamps
  <2> QED BY <2>1, <2>2 DEF Init, LatestInv, DirsOK, RunIds, AggregateStarts
<1>2. IInv /\ TypeInv /\ RunInv /\ BatchInv /\ MergeInv /\ AggregateStarts /\ LatestInv /\ [Next]_vars
      => LatestInv' /\ AggregateStarts'
  BY LatestStep, AggregateBegins
<1> QED BY <1>1, <1>2, Invariant, TypeInvariant, RunInvariant, BatchInvariant, MergeInvariant, PTL DEF Spec

\* A pair of numbers that no other of finitely many exceeds, in the first place or, where that is equal, in the second.
LEMMA GreatestPair ==
  ASSUME NEW S, IsFiniteSet(S), S # {}, NEW first, NEW second, \A d \in S : first[d] \in Nat /\ second[d] \in Nat
  PROVE  \E d \in S : \A e \in S : first[e] < first[d] \/ (first[e] = first[d] /\ second[e] <= second[d])
<1> DEFINE F == {first[d] : d \in S}
<1>1. F \in SUBSET Nat /\ F # {} OBVIOUS
<1>2. IsFiniteSet(F)
  <2> DEFINE f == [d \in S |-> first[d]]
  <2>1. f \in Surjection(S, F) BY DEF Surjection
  <2> QED BY <2>1, FS_Surjection
<1> HIDE DEF F
<1>3. PICK m \in F : \A k \in F : k <= m BY <1>1, <1>2, Greatest
<1> DEFINE Top == {d \in S : first[d] = m}
           G == {second[d] : d \in Top}
<1>4. IsFiniteSet(Top) BY FS_Subset
<1>5. G \in SUBSET Nat /\ G # {} BY <1>3 DEF F
<1>6. IsFiniteSet(G)
  <2> DEFINE f == [d \in Top |-> second[d]]
  <2>1. f \in Surjection(Top, G) BY DEF Surjection
  <2> QED BY <1>4, <2>1, FS_Surjection
<1> HIDE DEF G
<1>7. PICK n \in G : \A k \in G : k <= n BY <1>5, <1>6, Greatest
<1>8. PICK d \in Top : second[d] = n BY DEF G
<1>9. ASSUME NEW e \in S PROVE first[e] < first[d] \/ (first[e] = first[d] /\ second[e] <= second[d])
  <2>1. first[e] \in Nat /\ first[e] <= m /\ m \in Nat BY <1>1, <1>3 DEF F
  <2>2. CASE first[e] = m
    <3>1. second[e] <= n BY <1>7, <2>2 DEF G
    <3> QED BY <1>8, <2>2, <3>1
  <2>3. CASE first[e] # m
    <3>1. first[e] < m BY <2>1, <2>3
    <3> QED BY <1>8, <3>1
  <2> QED BY <2>2, <2>3
<1> QED BY <1>8, <1>9

\* Where the latest has a manifest, none with a manifest has a later one.
LEMMA LatestIsBest ==
  ASSUME LatestInv, Written(ManifestOf(Latest)), NEW d \in dirs, d[1] = Kind, Written(ManifestOf(d))
  PROVE  files[ManifestOf(d)].timestamp <= files[ManifestOf(Latest)].timestamp
<1> DEFINE candidates == {e \in dirs : e[1] = Kind}
           Timestamp(e) == IF Written(ManifestOf(e)) THEN files[ManifestOf(e)].timestamp ELSE 0
           Before(e, f) == Timestamp(e) < Timestamp(f) \/ (Timestamp(e) = Timestamp(f) /\ e[2] <= f[2])
           first == [e \in candidates |-> Timestamp(e)]
           second == [e \in candidates |-> e[2]]
<1>1. Kind \in {"run", "batch"} BY DEF Kind
<1>2. ASSUME NEW e \in candidates PROVE Timestamp(e) \in Nat /\ e[2] \in Nat
  <2>1. e[2] \in Nat BY <1>1 DEF LatestInv, DirsOK
  <2>2. ManifestOf(e)[2] \in StampedNames
    <3>1. RunManifest(e[2])[2] = ManifestName /\ Summary(e[2])[2] = SummaryName BY Paths DEF ManifestName, SummaryName
    <3> QED BY <3>1 DEF ManifestOf, StampedNames
  <2>3. Written(ManifestOf(e)) => files[ManifestOf(e)].timestamp \in Nat BY <2>2 DEF Written, LatestInv, Stamps
  <2> QED BY <2>1, <2>3
<1>3. d \in candidates /\ IsFiniteSet(candidates)
  <2>1. IsFiniteSet(dirs) BY DEF LatestInv, DirsOK
  <2> QED BY <2>1, FS_Subset
<1>4. \E f \in candidates : \A e \in candidates : Before(e, f)
  <2>1. /\ \A e \in candidates : first[e] = Timestamp(e) /\ second[e] = e[2]
        /\ \A e \in candidates : first[e] \in Nat /\ second[e] \in Nat
    <3> HIDE DEF candidates, Timestamp
    <3> QED BY <1>2
  <2> HIDE DEF first, second, candidates, Timestamp
  <2>2. candidates # {} BY <1>3
  <2>3. PICK f \in candidates : \A e \in candidates : first[e] < first[f] \/ (first[e] = first[f] /\ second[e] <= second[f])
    BY <1>3, <2>1, <2>2, GreatestPair
  <2> QED BY <2>1, <2>3
<1>5. Latest = CHOOSE f \in candidates : \A e \in candidates : Before(e, f)
  <2>1. candidates # {} BY <1>3
  <2> QED BY <2>1 DEF Latest
<1> HIDE DEF candidates, Before
<1>6. Latest \in candidates /\ \A e \in candidates : Before(e, Latest) BY <1>4, <1>5
<1>7. Timestamp(d) <= Timestamp(Latest)
  <2>1. Before(d, Latest) BY <1>3, <1>6
  <2>2. Timestamp(d) \in Nat /\ Timestamp(Latest) \in Nat BY <1>2, <1>3, <1>6
  <2> HIDE DEF Timestamp
  <2> QED BY <2>1, <2>2 DEF Before
<1> QED BY <1>7

LEMMA LatestPicked ==
  ASSUME IInv, LatestInv, LatestIsNewestFinished, [Next]_vars
  PROVE  LatestIsNewestFinished'
<1>1. CASE StartReview
  <2>1. /\ UNCHANGED <<commands, turn, files>>
        /\ pc' = "external" /\ Command.id = None => review'.dir = Latest /\ Collectable(review'.dir)
    BY <1>1, StartReviewShape
  <2>2. dirs' = dirs \/ \E a : dirs' = dirs \cup {ReviewDir(a)} BY <1>1 DEF StartReview
  <2>3. \A a : ReviewDir(a)[1] = "review" BY Directories
  <2>4. Kind' = Kind /\ Kind \in {"run", "batch"} /\ (Command.id)' = Command.id BY <2>1 DEF Kind, Command
  <2>5. ASSUME pc' = "external", Command.id = None, NEW d \in dirs', d[1] = Kind, Written(ManifestOf(d))
        PROVE  files[ManifestOf(d)].timestamp <= files[ManifestOf(review'.dir)].timestamp
    <3>1. d \in dirs BY <2>2, <2>3, <2>4, <2>5
    <3>2. review'.dir = Latest /\ Written(ManifestOf(Latest)) BY <2>1, <2>5 DEF Collectable
    <3> QED BY <2>5, <3>1, <3>2, LatestIsBest
  <2> QED BY <2>1, <2>4, <2>5 DEF LatestIsNewestFinished, Written, ManifestOf
<1>2. CASE UNCHANGED vars
  BY <1>2 DEF vars, LatestIsNewestFinished, Written, ManifestOf, Kind, Command
<1>3. CASE ~StartReview /\ ~UNCHANGED vars
  <2>1. pc' # "external" BY <1>3, NotExternal DEF vars
  <2> QED BY <2>1 DEF LatestIsNewestFinished
<1> QED BY <1>1, <1>2, <1>3

\* Whatever is run, batched, aggregated and reviewed before, a review that is not told what to
\* review picks the latest finished run or batch, and it passes only what is whole: ecc_artifact_reviewer.py's
\* find_latest_factor_run, find_latest_factor_batch and the deterministic findings.
THEOREM ReviewsAreTrue == Spec => []ReviewsAreOfTheLatest
<1>1. Init => LatestIsNewestFinished BY DEF Init, LatestIsNewestFinished
<1>2. IInv /\ LatestInv /\ LatestIsNewestFinished /\ [Next]_vars => LatestIsNewestFinished' BY LatestPicked
<1>3. IInv /\ ReviewInv /\ LatestIsNewestFinished => ReviewsAreOfTheLatest BY ReviewsTell DEF ReviewsAreOfTheLatest
<1> QED BY <1>1, <1>2, <1>3, Invariant, LatestInvariant, ReviewInvariant, PTL DEF Spec
=============================================================================
