--------------------------- MODULE Services_proofs ---------------------------
(***************************************************************************)
(* What holds of every request, whatever the market, the client, the calls *)
(* that raise and the moment at which the process ends.                    *)
(***************************************************************************)
EXTENDS Services, FiniteSetTheorems, WellFoundedInduction, TLAPS

SamplePoints == BacktestPoints \cup {"sample", "artifacts"}
RunPoints == {"sample", "artifacts", "review", "aggregate", "close"}

\* The handlers a client has before a request, whose they are.
CallersRetry == IF client.kind = "tushare" THEN Caller ELSE None
CallersCache == IF client.kind = "cached" THEN Caller ELSE None

\* While a sample has its handlers on the client, those it found are put aside; it only
\* replaces what its kind of client has.
HandlersOK ==
  /\ DOMAIN client = {"kind", "retry", "cache"}
  /\ HandlersRestored
  /\ pc \in BacktestPoints =>
       IF Research
       THEN /\ saved.retry = CallersRetry /\ saved.cache = CallersCache
            /\ client.kind # "tushare" => client.retry = None
            /\ client.kind # "cached" => client.cache = None
       ELSE client.retry = CallersRetry /\ client.cache = CallersCache
  /\ pc \in RunPoints => Research
  /\ pc \in {"stock", "scanned"} => ~Research

\* The files by which a finished sample is known.
SampleIsWritten(start) ==
  /\ \A f \in {"feature_set.json", "agent_decision_log.jsonl", "backtest_score.json"} : Written(<<start, f>>)
  /\ \A s \in Stages : Written(<<start, s, "manifest.json">>)

\* Samples are written one after the other, each until its last manifest.
SamplesOK ==
  /\ ~Research => files = <<>>
  /\ pc = "received" => files = <<>> /\ item = 1
  /\ samples \in Seq({samples[i] : i \in DOMAIN samples})
  /\ Research =>
       /\ ValidRequest(request) /\ request \in Requests
       /\ item \in 1..(Len(request.starts) + 1)
       /\ Len(samples) = item - 1
       /\ pc \in SamplePoints => item <= Len(request.starts)
       /\ pc \in {"review", "aggregate"} => item = Len(request.starts) + 1
       /\ \A i \in 1..(item - 1) : SampleIsWritten(request.starts[i])
       /\ \A i \in item..Len(request.starts) : ~Written(<<request.starts[i], "backtest", "manifest.json">>)

\* The manifest comes last, and makes the answer a success.
AnswerOK ==
  /\ Written(Manifest) =>
       /\ pc \in {"answered", "done", "dead"}
       /\ item = Len(request.starts) + 1
       /\ files[Manifest].sampleCount = Len(request.starts)
       /\ {<<RunDir, f>> : f \in {"ai_review.json", "agent-decisions.jsonl", "final_report.md"}} \subseteq DOMAIN files
  /\ Research /\ pc = "answered" => Written(Manifest)
  /\ reply # None => pc = "done"
  /\ Research /\ pc = "done" => (reply = 200 <=> Written(Manifest))

IInv == HandlersOK /\ SamplesOK /\ AnswerOK /\ ChecksumsMatch

-----------------------------------------------------------------------------
(* Handlers *)

\* A call goes on with the next one, or fails in a way that depends on the request.
LEMMA CallPoints ==
  ASSUME Call
  PROVE  /\ Research => pc' \in BacktestPoints
         /\ ~Research => pc' \in (BacktestPoints \ {"close"}) \cup {"failed", "stock", "scanned"}
         /\ request.kind # "scan" => pc' \notin {"stock", "scanned"}
<1>1. (\E kind : Fail(kind)) \/ pc' = NextCall(pc) BY DEF Call
<1>2. pc \in {"trade_cal", "stock_basic", "daily", "cyq_chips", "adj_factor"} BY DEF Call
<1>3. CASE \E kind : Fail(kind) BY <1>3 DEF Fail, Research, BacktestPoints
<1>4. CASE pc' = NextCall(pc)
  <2>1. CASE request.kind = "scan"
    <3>1. pc' = CASE pc = "trade_cal" -> "stock" [] pc = "stock_basic" -> "cyq_chips"
                  [] pc = "cyq_chips" -> "daily" [] OTHER -> "scanned"
      BY <1>4, <2>1 DEF NextCall
    <3>2. pc' \in {"stock", "cyq_chips", "daily", "scanned"} BY <1>2, <3>1
    <3> QED BY <2>1, <3>2 DEF Research, BacktestPoints
  <2>2. CASE request.kind # "scan"
    <3>1. pc' = CASE pc = "trade_cal" -> "stock_basic" [] pc = "stock_basic" -> "daily"
                  [] pc = "daily" -> "cyq_chips" [] pc = "cyq_chips" -> "check" [] OTHER -> "evaluate"
      BY <1>4, <2>2 DEF NextCall
    <3>2. pc' \in {"stock_basic", "daily", "cyq_chips", "check", "evaluate"} BY <1>2, <3>1
    <3> QED BY <2>2, <3>2 DEF BacktestPoints
  <2> QED BY <2>1, <2>2
<1> QED BY <1>1, <1>3, <1>4

\* A step that leaves the handlers alone, and a backtest of a run only to close it.
LEMMA SameHandlers ==
  ASSUME HandlersOK, UNCHANGED <<request, client, saved>>,
         pc' \in RunPoints => Research, pc' \in {"stock", "scanned"} => ~Research,
         pc # "dead",
         Research => (pc \in BacktestPoints <=> pc' \in BacktestPoints) \/ pc' = "dead"
  PROVE  HandlersOK'
<1> USE DEF HandlersOK, HandlersRestored, CallersRetry, CallersCache, Research
<1>1. CASE Research
  <2>1. CASE pc' = "dead"
    <3>1. pc' \notin BacktestPoints /\ pc' \in BacktestPoints \cup {"dead"} BY <2>1 DEF BacktestPoints
    <3> QED BY <1>1, <2>1, <3>1
  <2>2. CASE pc' # "dead" /\ (pc \in BacktestPoints <=> pc' \in BacktestPoints) BY <1>1, <2>2
  <2> QED BY <1>1, <2>1, <2>2
<1>2. CASE ~Research
  <2>1. client.retry = CallersRetry /\ client.cache = CallersCache BY <1>2
  <2> QED BY <1>2, <2>1
<1> QED BY <1>1, <1>2

\* Every step keeps the invariant about handlers.
LEMMA StepHandlers ==
  ASSUME HandlersOK, [Next]_vars
  PROVE  HandlersOK'
<1> USE DEF BacktestPoints, RunPoints
<1>1. CASE UNCHANGED vars
  BY <1>1 DEF vars, HandlersOK, HandlersRestored, CallersRetry, CallersCache, Research
<1>2. CASE Receive
  BY <1>2, SameHandlers DEF Receive, Finish, Inputs, Research
<1>3. CASE InstallHandlers
  <2>1. Research BY <1>3 DEF InstallHandlers, HandlersOK
  <2>2. client.retry = CallersRetry /\ client.cache = CallersCache
    BY <1>3 DEF InstallHandlers, HandlersOK, HandlersRestored, CallersRetry, CallersCache
  <2>3. /\ DOMAIN client' = DOMAIN client /\ client'.kind = client.kind
        /\ client.kind # "tushare" => client'.retry = client.retry
        /\ client.kind # "cached" => client'.cache = client.cache
        /\ saved'.retry = client.retry /\ saved'.cache = client.cache
        /\ pc' = "trade_cal" /\ request' = request
    BY <1>3 DEF InstallHandlers, HandlersOK, Inputs
  <2> QED BY <2>1, <2>2, <2>3 DEF HandlersOK, HandlersRestored, CallersRetry, CallersCache, Research
<1>4. CASE Call
  <2>1. UNCHANGED <<request, client, saved>> /\ pc \in BacktestPoints BY <1>4 DEF Call, Inputs
  <2>2. pc' \in RunPoints => Research BY <1>4, CallPoints
  <2>3. pc' \in {"stock", "scanned"} => ~Research BY <1>4, CallPoints
  <2>4. Research => pc' \in BacktestPoints BY <1>4, CallPoints
  <2> HIDE DEF BacktestPoints, RunPoints
  <2>5. pc # "dead" BY <2>1 DEF BacktestPoints
  <2> QED BY <2>1, <2>2, <2>3, <2>4, <2>5, SameHandlers
<1>5. CASE CheckWindow
  BY <1>5, SameHandlers DEF CheckWindow, Fail, Inputs, Research
<1>6. CASE Evaluate
  BY <1>6, SameHandlers DEF Evaluate, Fail, Inputs, Research
<1>7. CASE StartStock
  <2>1. ~Research BY <1>7 DEF StartStock, HandlersOK
  <2> QED BY <1>7, <2>1, SameHandlers DEF StartStock, Fail, Inputs
<1>8. CASE FinishStock
  <2>1. ~Research BY <1>8 DEF FinishStock, HandlersOK
  <2> QED BY <1>8, <2>1, SameHandlers DEF FinishStock, Inputs
<1>9. CASE RestoreHandlers
  <2>1. Research BY <1>9 DEF RestoreHandlers, HandlersOK
  <2>2. /\ saved.retry = CallersRetry /\ saved.cache = CallersCache
        /\ client.kind # "tushare" => client.retry = None
        /\ client.kind # "cached" => client.cache = None
    BY <1>9, <2>1 DEF RestoreHandlers, HandlersOK
  <2>3. /\ DOMAIN client' = DOMAIN client /\ client'.kind = client.kind
        /\ client'.retry = IF client.kind = "tushare" THEN saved.retry ELSE client.retry
        /\ client'.cache = IF client.kind = "cached" THEN saved.cache ELSE client.cache
        /\ pc' \in {"artifacts", "failed"} /\ request' = request
    BY <1>9 DEF RestoreHandlers, HandlersOK, Inputs
  <2>4. client'.retry = CallersRetry /\ client'.cache = CallersCache
    BY <2>2, <2>3 DEF CallersRetry, CallersCache
  <2> QED BY <2>1, <2>3, <2>4 DEF HandlersOK, HandlersRestored, CallersRetry, CallersCache, Research
<1>10. CASE WriteSampleFile
  <2>1. Research /\ pc = "artifacts" BY <1>10 DEF WriteSampleFile, HandlersOK
  <2>2. UNCHANGED <<request, client, saved>> /\ pc' \in {"artifacts", "sample", "review"}
    BY <1>10 DEF WriteSampleFile, Inputs
  <2> QED BY <2>1, <2>2, SameHandlers
<1>11. CASE AskAgent
  <2>1. Research BY <1>11 DEF AskAgent, HandlersOK
  <2> QED BY <1>11, <2>1, SameHandlers DEF AskAgent, Inputs
<1>12. CASE WriteAggregateFile
  <2>1. Research /\ pc = "aggregate" BY <1>12 DEF WriteAggregateFile, HandlersOK
  <2>2. UNCHANGED <<request, client, saved>> /\ pc' \in {"aggregate", "answered"}
    BY <1>12 DEF WriteAggregateFile, Inputs
  <2> QED BY <2>1, <2>2, SameHandlers
<1>13. CASE Reply
  BY <1>13, SameHandlers DEF Reply, Finish, Inputs
<1>14. CASE Crash
  BY <1>14, SameHandlers DEF Crash, Inputs
<1> QED
  BY <1>1, <1>2, <1>3, <1>4, <1>5, <1>6, <1>7, <1>8, <1>9, <1>10, <1>11, <1>12, <1>13, <1>14 DEF Next, Handle

-----------------------------------------------------------------------------
(* Numbers *)

\* A set of numbers that is not empty has a least one.
LEMMA LeastElement ==
  ASSUME NEW T \in SUBSET Nat, T # {}
  PROVE  Min(T) \in T /\ \A y \in T : Min(T) <= y
<1>1. PICK x \in T : \A y \in T : ~(<<y, x>> \in OpToRel(<, Nat)) BY WFMin, NatLessThanWellFounded, Zenon
<1>2. \A y \in T : ~(y < x) BY <1>1, Zenon DEF OpToRel
<1>3. \A y \in T : x <= y BY <1>2
<1> QED BY <1>3 DEF Min

\* A set of numbers with 0 and the next of each of its numbers has them all.
LEMMA AllNaturals == ASSUME NEW S, S \subseteq Nat, 0 \in S, \A n \in S : n + 1 \in S PROVE S = Nat
<1> SUFFICES ASSUME Nat \ S # {} PROVE FALSE OBVIOUS
<1> DEFINE m == Min(Nat \ S)
<1>1. m \in Nat \ S /\ \A k \in Nat \ S : m <= k BY LeastElement
<1> HIDE DEF m
<1>2. m # 0 /\ m - 1 \in Nat BY <1>1
<1>3. m - 1 \in S BY <1>1, <1>2
<1> QED BY <1>1, <1>3

-----------------------------------------------------------------------------
(* Loops over a list *)

\* What each loop makes of what it has so far and the next element.
LoopStep(loop, before, x) ==
  CASE loop = "known" -> IF x \in SupportedStrategies THEN Append(before, x) ELSE before
    [] loop = "counts" -> AddCounts(before, x.counts)
    [] loop = "scores" -> WithScore(before, x)
    [] loop = "samples" -> WithScores(before, x)

\* f has what a loop over N elements has after each of them.
Runs(f, loop, base, list, N) == f = [n \in 0..N |-> IF n = 0 THEN base ELSE LoopStep(loop, f[n - 1], list[n])]

LEMMA RunValues ==
  ASSUME NEW N \in Nat, NEW f, NEW loop, NEW base, NEW list, Runs(f, loop, base, list, N)
  PROVE  f[0] = base /\ \A n \in 1..N : f[n] = LoopStep(loop, f[n - 1], list[n])
<1> DEFINE e(n) == IF n = 0 THEN base ELSE LoopStep(loop, f[n - 1], list[n])
<1>1. f = [n \in 0..N |-> e(n)] BY DEF Runs
<1> HIDE DEF e
<1>2. \A n \in 0..N : f[n] = e(n) BY <1>1
<1>3. f[0] = base BY <1>2 DEF e
<1>4. ASSUME NEW n \in 1..N PROVE f[n] = LoopStep(loop, f[n - 1], list[n])
  <2>1. n \in 0..N /\ n # 0 OBVIOUS
  <2> QED BY <1>2, <2>1 DEF e
<1> QED BY <1>3, <1>4

LEMMA RunsExist ==
  ASSUME NEW N \in Nat, NEW loop, NEW base, NEW list
  PROVE  \E f : Runs(f, loop, base, list, N)
<1> DEFINE T == {n \in Nat : \E f : Runs(f, loop, base, list, n)}
<1>1. 0 \in T
  <2> DEFINE f == [n \in 0..0 |-> base]
             e(n) == IF n = 0 THEN base ELSE LoopStep(loop, f[n - 1], list[n])
  <2>1. \A n \in 0..0 : e(n) = base BY DEF e
  <2> HIDE DEF e
  <2>2. f = [n \in 0..0 |-> e(n)] BY <2>1
  <2>3. Runs(f, loop, base, list, 0) BY <2>2 DEF Runs, e
  <2> QED BY <2>3
<1>2. ASSUME NEW n \in T PROVE n + 1 \in T
  <2>1. n \in Nat /\ n + 1 \in Nat /\ (n + 1) - 1 = n OBVIOUS
  <2>2. PICK f : Runs(f, loop, base, list, n) OBVIOUS
  <2> DEFINE next == LoopStep(loop, f[n], list[n + 1])
             h == [i \in 0..(n + 1) |-> IF i = n + 1 THEN next ELSE f[i]]
             e(i) == IF i = 0 THEN base ELSE LoopStep(loop, h[i - 1], list[i])
  <2> HIDE DEF next
  <2>3. h[n + 1] = next /\ \A i \in 0..n : h[i] = f[i] BY <2>1
  <2>4. f[0] = base /\ \A i \in 1..n : f[i] = LoopStep(loop, f[i - 1], list[i]) BY <2>1, <2>2, RunValues
  <2>5. h = [i \in 0..(n + 1) |-> h[i]] OBVIOUS
  <2> HIDE DEF h
  <2>6. ASSUME NEW i \in 0..(n + 1) PROVE h[i] = e(i)
    <3>1. CASE i = 0 BY <2>1, <2>3, <2>4, <3>1
    <3>2. CASE i = n + 1
      <4>1. i # 0 /\ h[i - 1] = f[n] BY <2>1, <2>3, <3>2
      <4> QED BY <2>3, <3>2, <4>1 DEF next
    <3>3. CASE i # 0 /\ i # n + 1
      <4>1. i \in 1..n /\ i - 1 \in 0..n /\ i \in 0..n BY <2>1, <3>3
      <4> QED BY <2>3, <2>4, <3>3, <4>1
    <3> QED BY <3>1, <3>2, <3>3
  <2> HIDE DEF e
  <2>7. h = [i \in 0..(n + 1) |-> e(i)] BY <2>5, <2>6
  <2>8. Runs(h, loop, base, list, n + 1) BY <2>7 DEF Runs, e
  <2> QED BY <2>1, <2>8
<1> HIDE DEF T
<1>3. T \subseteq Nat BY DEF T
<1>4. N \in T BY <1>1, <1>2, <1>3, AllNaturals
<1> QED BY <1>4 DEF T

\* Each recursive definition has what its loop has at the end.
LEMMA KnownIsLast ==
  ASSUME NEW strategies, Len(strategies) \in Nat
  PROVE  \E f : /\ Runs(f, "known", <<>>, strategies, Len(strategies))
                /\ KnownStrategies(strategies) = f[Len(strategies)]
<1> DEFINE N == Len(strategies)
           Body(g, n) == IF n = 0 THEN <<>>
                         ELSE IF strategies[n] \in SupportedStrategies THEN Append(g[n - 1], strategies[n]) ELSE g[n - 1]
           g == CHOOSE g : g = [n \in 0..N |-> Body(g, n)]
           Steps(h, n) == IF n = 0 THEN <<>> ELSE LoopStep("known", h[n - 1], strategies[n])
<1>1. KnownStrategies(strategies) = g[N] BY DEF KnownStrategies
<1>2. \A h, n : Steps(h, n) = Body(h, n) BY DEF LoopStep
<1> HIDE DEF N, Body, Steps
<1>3. \A h : [n \in 0..N |-> Steps(h, n)] = [n \in 0..N |-> Body(h, n)] BY <1>2
<1>4. \A h : Runs(h, "known", <<>>, strategies, N) <=> h = [n \in 0..N |-> Steps(h, n)] BY DEF Runs, Steps
<1>5. \E h : h = [n \in 0..N |-> Body(h, n)] BY <1>3, <1>4, RunsExist DEF N
<1>6. g = [n \in 0..N |-> Body(g, n)] BY <1>5
<1> HIDE DEF g
<1>7. Runs(g, "known", <<>>, strategies, N) BY <1>3, <1>4, <1>6
<1> QED BY <1>1, <1>7 DEF N

LEMMA SumIsLast ==
  ASSUME NEW scores, Len(scores) \in Nat
  PROVE  \E f : /\ Runs(f, "counts", Counts(0, 0, 0, 0), scores, Len(scores))
                /\ SumCounts(scores) = f[Len(scores)]
<1> DEFINE N == Len(scores)
           Body(g, n) == IF n = 0 THEN Counts(0, 0, 0, 0) ELSE AddCounts(g[n - 1], scores[n].counts)
           g == CHOOSE g : g = [n \in 0..N |-> Body(g, n)]
           Steps(h, n) == IF n = 0 THEN Counts(0, 0, 0, 0) ELSE LoopStep("counts", h[n - 1], scores[n])
<1>1. SumCounts(scores) = g[N] BY DEF SumCounts
<1>2. \A h, n : Steps(h, n) = Body(h, n) BY DEF LoopStep
<1> HIDE DEF N, Body, Steps
<1>3. \A h : [n \in 0..N |-> Steps(h, n)] = [n \in 0..N |-> Body(h, n)] BY <1>2
<1>4. \A h : Runs(h, "counts", Counts(0, 0, 0, 0), scores, N) <=> h = [n \in 0..N |-> Steps(h, n)] BY DEF Runs, Steps
<1>5. \E h : h = [n \in 0..N |-> Body(h, n)] BY <1>3, <1>4, RunsExist DEF N
<1>6. g = [n \in 0..N |-> Body(g, n)] BY <1>5
<1> HIDE DEF g
<1>7. Runs(g, "counts", Counts(0, 0, 0, 0), scores, N) BY <1>3, <1>4, <1>6
<1> QED BY <1>1, <1>7 DEF N

LEMMA WithScoresIsLast ==
  ASSUME NEW groups, NEW scores, Len(scores) \in Nat
  PROVE  \E f : /\ Runs(f, "scores", groups, scores, Len(scores))
                /\ WithScores(groups, scores) = f[Len(scores)]
<1> DEFINE N == Len(scores)
           Body(g, n) == IF n = 0 THEN groups ELSE WithScore(g[n - 1], scores[n])
           g == CHOOSE g : g = [n \in 0..N |-> Body(g, n)]
           Steps(h, n) == IF n = 0 THEN groups ELSE LoopStep("scores", h[n - 1], scores[n])
<1>1. WithScores(groups, scores) = g[N] BY DEF WithScores
<1>2. \A h, n : Steps(h, n) = Body(h, n) BY DEF LoopStep
<1> HIDE DEF N, Body, Steps
<1>3. \A h : [n \in 0..N |-> Steps(h, n)] = [n \in 0..N |-> Body(h, n)] BY <1>2
<1>4. \A h : Runs(h, "scores", groups, scores, N) <=> h = [n \in 0..N |-> Steps(h, n)] BY DEF Runs, Steps
<1>5. \E h : h = [n \in 0..N |-> Body(h, n)] BY <1>3, <1>4, RunsExist DEF N
<1>6. g = [n \in 0..N |-> Body(g, n)] BY <1>5
<1> HIDE DEF g
<1>7. Runs(g, "scores", groups, scores, N) BY <1>3, <1>4, <1>6
<1> QED BY <1>1, <1>7 DEF N

LEMMA GroupsAreLast ==
  ASSUME NEW list, Len(list) \in Nat
  PROVE  \E f : /\ Runs(f, "samples", <<>>, list, Len(list))
                /\ GroupScores(list) = f[Len(list)]
<1> DEFINE N == Len(list)
           Body(g, n) == IF n = 0 THEN <<>> ELSE WithScores(g[n - 1], list[n])
           g == CHOOSE g : g = [n \in 0..N |-> Body(g, n)]
           Steps(h, n) == IF n = 0 THEN <<>> ELSE LoopStep("samples", h[n - 1], list[n])
<1>1. GroupScores(list) = g[N] BY DEF GroupScores
<1>2. \A h, n : Steps(h, n) = Body(h, n) BY DEF LoopStep
<1> HIDE DEF N, Body, Steps
<1>3. \A h : [n \in 0..N |-> Steps(h, n)] = [n \in 0..N |-> Body(h, n)] BY <1>2
<1>4. \A h : Runs(h, "samples", <<>>, list, N) <=> h = [n \in 0..N |-> Steps(h, n)] BY DEF Runs, Steps
<1>5. \E h : h = [n \in 0..N |-> Body(h, n)] BY <1>3, <1>4, RunsExist DEF N
<1>6. g = [n \in 0..N |-> Body(g, n)] BY <1>5
<1> HIDE DEF g
<1>7. Runs(g, "samples", <<>>, list, N) BY <1>3, <1>4, <1>6
<1> QED BY <1>1, <1>7 DEF N

\* A list with one more element at its end.
LEMMA Appended ==
  ASSUME NEW S, NEW s \in Seq(S), NEW e \in S
  PROVE  /\ Append(s, e) \in Seq(S) /\ Len(Append(s, e)) = Len(s) + 1
         /\ DOMAIN Append(s, e) = 1..(Len(s) + 1)
         /\ \A i \in 1..Len(s) : Append(s, e)[i] = s[i]
         /\ Append(s, e)[Len(s) + 1] = e
OBVIOUS

\* The known strategies are those asked for that are candidates, each as often as it is asked for.
LEMMA KnownShape ==
  ASSUME NEW strategies, strategies \in Seq(ToSet(strategies))
  PROVE  LET known == KnownStrategies(strategies)
         IN /\ known \in Seq(ToSet(strategies))
            /\ ToSet(known) = ToSet(strategies) \cap SupportedStrategies
            /\ IsInjective(strategies) => IsInjective(known)
<1> DEFINE N == Len(strategies)
           First(n) == {strategies[i] : i \in 1..n}
<1>1. N \in Nat /\ DOMAIN strategies = 1..N /\ ToSet(strategies) = First(N) BY DEF ToSet
<1>2. PICK f : Runs(f, "known", <<>>, strategies, N) /\ KnownStrategies(strategies) = f[N] BY <1>1, KnownIsLast
<1>3. /\ f[0] = <<>>
      /\ \A n \in 1..N : f[n] = IF strategies[n] \in SupportedStrategies THEN Append(f[n - 1], strategies[n]) ELSE f[n - 1]
  <2>1. N \in Nat /\ Runs(f, "known", <<>>, strategies, N) BY <1>1, <1>2
  <2> HIDE DEF N
  <2>2. f[0] = <<>> /\ \A n \in 1..N : f[n] = LoopStep("known", f[n - 1], strategies[n]) BY <2>1, RunValues
  <2> QED BY <2>2 DEF LoopStep
<1> DEFINE Good(n) == /\ f[n] \in Seq(First(n))
                      /\ {f[n][i] : i \in 1..Len(f[n])} = First(n) \cap SupportedStrategies
                      /\ IsInjective(strategies) => \A i, j \in 1..Len(f[n]) : f[n][i] = f[n][j] => i = j
           T == {n \in Nat : n <= N => Good(n)}
<1> HIDE DEF N
<1>4. 0 \in T
  <2>1. First(0) = {} /\ <<>> \in Seq(First(0)) /\ Len(<<>>) = 0 OBVIOUS
  <2>2. {f[0][i] : i \in 1..Len(f[0])} = {} BY <1>3, <2>1
  <2> QED BY <1>3, <2>1, <2>2
<1>5. ASSUME NEW n \in T PROVE n + 1 \in T
  <2> SUFFICES ASSUME n + 1 <= N PROVE Good(n + 1)
    <3> HIDE DEF Good
    <3> QED OBVIOUS
  <2>1. n \in Nat /\ n + 1 \in 1..N /\ (n + 1) - 1 = n /\ Good(n)
    <3> HIDE DEF Good
    <3> QED BY <1>1
  <2> DEFINE s == strategies[n + 1]
             before == f[n]
             after == f[n + 1]
  <2>2. First(n + 1) = First(n) \cup {s}
    <3>1. \A i \in 1..(n + 1) : i \in 1..n \/ i = n + 1 BY <2>1
    <3>2. 1..n \subseteq 1..(n + 1) /\ n + 1 \in 1..(n + 1) BY <2>1
    <3> QED BY <3>1, <3>2
  <2>3. /\ before \in Seq(First(n)) /\ {before[i] : i \in 1..Len(before)} = First(n) \cap SupportedStrategies
        /\ IsInjective(strategies) => \A i, j \in 1..Len(before) : before[i] = before[j] => i = j
    BY <2>1
  <2>4. after = IF s \in SupportedStrategies THEN Append(before, s) ELSE before BY <1>3, <2>1
  <2>5. IsInjective(strategies) => s \notin First(n)
    <3> SUFFICES ASSUME IsInjective(strategies), NEW i \in 1..n, s = strategies[i] PROVE FALSE OBVIOUS
    <3>1. i \in 1..N /\ i # n + 1 BY <1>1, <2>1
    <3> QED BY <1>1, <2>1, <3>1 DEF IsInjective
  <2> DEFINE Next1 == First(n + 1)
             Now == First(n)
  <2>6. Next1 = Now \cup {s} BY <2>2
  <2>7. /\ before \in Seq(Now) /\ {before[i] : i \in 1..Len(before)} = Now \cap SupportedStrategies
        /\ IsInjective(strategies) => s \notin Now
    BY <2>3, <2>5
  <2> HIDE DEF s, before, after, Next1, Now
  <2>8. before \in Seq(Next1) /\ s \in Next1 BY <2>6, <2>7
  <2>9. CASE s \notin SupportedStrategies
    <3>1. after = before BY <2>4, <2>9
    <3>2. Next1 \cap SupportedStrategies = Now \cap SupportedStrategies BY <2>6, <2>9
    <3>3. after \in Seq(Next1) /\ {after[i] : i \in 1..Len(after)} = Next1 \cap SupportedStrategies
      BY <2>7, <2>8, <3>1, <3>2
    <3> QED BY <2>3, <3>1, <3>3 DEF after, before, Next1
  <2>10. CASE s \in SupportedStrategies
    <3> DEFINE k == Len(before)
    <3>1. after = Append(before, s) BY <2>4, <2>10
    <3>2. /\ after \in Seq(Next1) /\ Len(after) = k + 1 /\ k \in Nat
          /\ \A i \in 1..k : after[i] = before[i]
          /\ after[k + 1] = s
      BY <2>8, <3>1, Appended
    <3> HIDE DEF k
    <3>3. 1..(k + 1) = 1..k \cup {k + 1} BY <3>2
    <3>4. {after[i] : i \in 1..(k + 1)} = {before[i] : i \in 1..k} \cup {s} BY <3>2, <3>3
    <3>5. {after[i] : i \in 1..(k + 1)} = Next1 \cap SupportedStrategies BY <2>6, <2>7, <2>10, <3>4 DEF k
    <3>6. ASSUME IsInjective(strategies), NEW i \in 1..(k + 1), NEW j \in 1..(k + 1), after[i] = after[j] PROVE i = j
      <4>1. \A x \in 1..k : before[x] # s
        <5>1. \A x \in 1..k : before[x] \in Now BY <2>7 DEF k
        <5> QED BY <2>7, <3>6, <5>1
      <4>2. \A x, y \in 1..k : before[x] = before[y] => x = y BY <2>3, <3>6 DEF before, k
      <4> QED BY <3>2, <3>3, <3>6, <4>1, <4>2
    <3> QED BY <3>2, <3>5, <3>6 DEF after, Next1
  <2> QED BY <2>9, <2>10
<1>6. Good(N)
  <2> HIDE DEF T
  <2>1. T \subseteq Nat BY DEF T
  <2>2. N \in T BY <1>1, <1>4, <1>5, <2>1, AllNaturals
  <2> QED BY <1>1, <2>2 DEF T
<1> DEFINE known == f[N]
<1>7. /\ known \in Seq(ToSet(strategies)) /\ {known[i] : i \in 1..Len(known)} = ToSet(strategies) \cap SupportedStrategies
      /\ IsInjective(strategies) => \A i, j \in 1..Len(known) : known[i] = known[j] => i = j
  BY <1>1, <1>6
<1> HIDE DEF known
<1>8. DOMAIN known = 1..Len(known) BY <1>7
<1>9. ToSet(known) = ToSet(strategies) \cap SupportedStrategies BY <1>7, <1>8 DEF ToSet
<1>10. IsInjective(strategies) => IsInjective(known) BY <1>7, <1>8 DEF IsInjective
<1> QED BY <1>2, <1>7, <1>9, <1>10 DEF known

-----------------------------------------------------------------------------
(* Files *)

\* As long as a file of an order is missing, the next one is the first that is.
LEMMA NextFileIsFirst ==
  ASSUME NEW order, NEW n \in Nat, DOMAIN order = 1..n, NEW k \in 1..n, order[k] \notin DOMAIN files
  PROVE  \E i \in 1..n : /\ NextFile(order) = order[i] /\ order[i] \notin DOMAIN files
                         /\ \A j \in 1..(i - 1) : order[j] \in DOMAIN files
<1> DEFINE missing == {i \in DOMAIN order : order[i] \notin DOMAIN files}
<1>1. missing \in SUBSET Nat /\ missing # {} OBVIOUS
<1>2. Min(missing) \in missing /\ \A y \in missing : Min(missing) <= y BY <1>1, LeastElement
<1>3. NextFile(order) = order[Min(missing)] BY DEF NextFile
<1> DEFINE i == Min(missing)
<1> HIDE DEF i
<1>4. i \in 1..n /\ order[i] \notin DOMAIN files BY <1>2 DEF i
<1>5. ASSUME NEW j \in 1..(i - 1) PROVE order[j] \in DOMAIN files
  <2>1. j \in 1..n /\ ~(i <= j) BY <1>4
  <2>2. j \notin missing BY <1>2, <2>1 DEF i
  <2> QED BY <2>1, <2>2
<1> QED BY <1>3, <1>4, <1>5 DEF i

\* What is written is there, in the place of nothing or of what had its path.
LEMMA WrittenFile ==
  ASSUME NEW path, NEW content, files' = WithFile(files, path, content)
  PROVE  /\ DOMAIN files' = DOMAIN files \cup {path}
         /\ files'[path] = content
         /\ \A p \in DOMAIN files : p # path => files'[p] = files[p]
BY DEF WithFile

\* Signals come as a sequence, one file each.
SignalCount == Len(KnownStrategies(request.strategies))

LEMMA SignalFilesShape ==
  ASSUME Research, request \in Requests, NEW sample
  PROVE  /\ SignalCount \in Nat
         /\ SignalFiles(sample) \in Seq({SignalFiles(sample)[i] : i \in 1..SignalCount})
         /\ Len(SignalFiles(sample)) = SignalCount
         /\ \A i \in 1..SignalCount : \E s : SignalFiles(sample)[i] = <<sample, "signal", s>>
<1> DEFINE known == KnownStrategies(request.strategies)
           named == Signals(request.strategies, backtest)
           paths == SignalFiles(sample)
<1>1. known \in Seq(ToSet(request.strategies))
  <2>1. request.strategies \in Seq(ToSet(request.strategies)) BY ServicesAssumption DEF Research
  <2> QED BY <2>1, KnownShape
<1>2. SignalCount = Len(known) BY DEF SignalCount
<1>3. named = [i \in DOMAIN known |->
                [strategy |-> known[i],
                 signal |-> IF known[i] = "composite_baseline" THEN backtest.signal
                            ELSE FollowThrough(backtest.context)]]
  BY DEF Signals, ResearchStrategySignals
<1>4. paths = [i \in DOMAIN named |-> <<sample, "signal", named[i].strategy>>] BY DEF SignalFiles
<1> HIDE DEF known, named, paths
<1>5. DOMAIN known = 1..SignalCount /\ SignalCount \in Nat BY <1>1, <1>2
<1>6. DOMAIN named = 1..SignalCount BY <1>3, <1>5
<1>7. DOMAIN paths = 1..SignalCount BY <1>4, <1>6
<1>8. \A i \in 1..SignalCount : \E s : paths[i] = <<sample, "signal", s>> BY <1>4, <1>6
<1>9. paths = [i \in 1..SignalCount |-> paths[i]] BY <1>4, <1>6
<1>10. paths \in [1..SignalCount -> {paths[i] : i \in 1..SignalCount}] BY <1>9
<1>11. paths \in Seq({paths[i] : i \in 1..SignalCount}) /\ Len(paths) = SignalCount BY <1>5, <1>7, <1>10
<1> QED BY <1>5, <1>8, <1>11 DEF paths

\* The order of the files of a sample, by place.
LEMMA SampleOrder ==
  ASSUME Research, request \in Requests, NEW sample
  PROVE  LET order == SampleFiles(sample)
             n == SignalCount
         IN /\ DOMAIN order = 1..(n + 6) /\ Len(order) = n + 6 /\ n \in Nat
            /\ order[1] = <<sample, "feature_set.json">> /\ order[2] = <<sample, "features", "manifest.json">>
            /\ \A i \in 1..n : order[2 + i] = SignalFiles(sample)[i]
            /\ order[n + 3] = <<sample, "agent_decision_log.jsonl">>
            /\ order[n + 4] = <<sample, "signals", "manifest.json">>
            /\ order[n + 5] = <<sample, "backtest_score.json">>
            /\ order[n + 6] = <<sample, "backtest", "manifest.json">>
<1> DEFINE n == SignalCount
           signals == SignalFiles(sample)
           a1 == <<sample, "feature_set.json">>
           a2 == <<sample, "features", "manifest.json">>
           b1 == <<sample, "agent_decision_log.jsonl">>
           b2 == <<sample, "signals", "manifest.json">>
           b3 == <<sample, "backtest_score.json">>
           b4 == <<sample, "backtest", "manifest.json">>
           S == {signals[i] : i \in 1..n} \cup {a1, a2, b1, b2, b3, b4}
           order == SampleFiles(sample)
<1>1. order = (<<a1, a2>> \o signals) \o <<b1, b2, b3, b4>> BY DEF SampleFiles
<1>2. n \in Nat /\ signals \in Seq({signals[i] : i \in 1..n}) /\ Len(signals) = n BY SignalFilesShape
<1>3. signals \in Seq(S) BY <1>2
<1>4. {a1, a2, b1, b2, b3, b4} \subseteq S OBVIOUS
<1> HIDE DEF n, signals, a1, a2, b1, b2, b3, b4, S, order
<1> DEFINE head == <<a1, a2>>
           back == <<b1, b2, b3, b4>>
<1>5. head \in Seq(S) /\ Len(head) = 2 /\ head[1] = a1 /\ head[2] = a2 BY <1>4
<1>7. back \in Seq(S) /\ Len(back) = 4 /\ back[1] = b1 /\ back[2] = b2 /\ back[3] = b3 /\ back[4] = b4 BY <1>4
<1> HIDE DEF head
<1> HIDE DEF back
<1> DEFINE front == head \o signals
           whole == front \o back
<1>15. front = head \o signals /\ whole = front \o back /\ order = whole BY <1>1 DEF head, back
<1> HIDE DEF front, whole
<1>6. /\ front \in Seq(S) /\ Len(front) = 2 + n
      /\ front[1] = a1 /\ front[2] = a2 /\ \A i \in 1..n : front[2 + i] = signals[i]
  <2>1. /\ front \in Seq(S) /\ Len(front) = Len(head) + Len(signals)
        /\ \A i \in 1..Len(head) : front[i] = head[i]
        /\ \A i \in 1..Len(signals) : front[Len(head) + i] = signals[i]
    <3>1. head \in Seq(S) BY <1>5
    <3>2. front \in Seq(S) BY <1>3, <1>15, <3>1
    <3>3. Len(front) = Len(head) + Len(signals) BY <1>3, <1>15, <3>1
    <3>4. \A i \in 1..Len(head) : front[i] = head[i] BY <1>3, <1>15, <3>1
    <3>5. \A i \in 1..Len(signals) : front[Len(head) + i] = signals[i] BY <1>3, <1>15, <3>1
    <3> QED BY <3>2, <3>3, <3>4, <3>5
  <2> QED BY <1>2, <1>5, <2>1
<1>8. /\ whole \in Seq(S) /\ Len(whole) = Len(front) + Len(back)
      /\ \A i \in 1..Len(front) : whole[i] = front[i]
      /\ \A i \in 1..Len(back) : whole[Len(front) + i] = back[i]
  <2>1. front \in Seq(S) /\ back \in Seq(S) BY <1>6, <1>7
  <2>2. whole \in Seq(S) BY <1>15, <2>1
  <2>3. Len(whole) = Len(front) + Len(back) BY <1>15, <2>1
  <2>4. \A i \in 1..Len(front) : whole[i] = front[i] BY <1>15, <2>1
  <2>5. \A i \in 1..Len(back) : whole[Len(front) + i] = back[i] BY <1>15, <2>1
  <2> QED BY <2>2, <2>3, <2>4, <2>5
<1>9. order = whole BY <1>15
<1>10. order \in Seq(S) /\ Len(order) = n + 6 /\ DOMAIN order = 1..(n + 6) BY <1>2, <1>6, <1>7, <1>8, <1>9
<1>11. order[1] = a1 /\ order[2] = a2 BY <1>2, <1>6, <1>8, <1>9
<1>12. \A i \in 1..n : order[2 + i] = signals[i]
  <2> TAKE i \in 1..n
  <2>1. 2 + i \in 1..Len(front) BY <1>2, <1>6
  <2> QED BY <1>6, <1>8, <1>9, <2>1
<1>13. order[(2 + n) + 1] = b1 /\ order[(2 + n) + 2] = b2 /\ order[(2 + n) + 3] = b3 /\ order[(2 + n) + 4] = b4
  BY <1>6, <1>7, <1>8, <1>9
<1>14. order[n + 3] = b1 /\ order[n + 4] = b2 /\ order[n + 5] = b3 /\ order[n + 6] = b4 BY <1>2, <1>13
<1> QED BY <1>2, <1>10, <1>11, <1>12, <1>14 DEF n, signals, a1, a2, b1, b2, b3, b4, order

\* A file that was not there leaves the others and their checksums alone.
LEMMA NewFileKeeps ==
  ASSUME ChecksumsMatch, NEW path, path \notin DOMAIN files, NEW content,
         files' = WithFile(files, path, content),
         path[2] \in Stages =>
           \A f \in DOMAIN content.checksum : f \in DOMAIN files /\ content.checksum[f] = files[f]
  PROVE  /\ DOMAIN files' = DOMAIN files \cup {path} /\ files'[path] = content
         /\ \A p \in DOMAIN files : files'[p] = files[p]
         /\ ChecksumsMatch'
<1>1. /\ DOMAIN files' = DOMAIN files \cup {path} /\ files'[path] = content
      /\ \A p \in DOMAIN files : files'[p] = files[p]
  BY WrittenFile
<1>2. ASSUME NEW p \in DOMAIN files', p[2] \in Stages, NEW f \in DOMAIN files'[p].checksum
      PROVE  f \in DOMAIN files' /\ files'[p].checksum[f] = files'[f]
  <2>1. CASE p \in DOMAIN files
    <3>1. files'[p] = files[p] BY <1>1, <2>1
    <3>2. f \in DOMAIN files /\ files[p].checksum[f] = files[f]
      BY <1>2, <2>1, <3>1 DEF ChecksumsMatch, Written
    <3> QED BY <1>1, <3>1, <3>2
  <2>2. CASE p = path
    <3>1. files'[p] = content BY <1>1, <2>2
    <3>2. f \in DOMAIN files /\ content.checksum[f] = files[f] BY <1>2, <2>2, <3>1
    <3> QED BY <1>1, <3>1, <3>2
  <2> QED BY <1>1, <2>1, <2>2
<1>3. ChecksumsMatch' BY <1>2 DEF ChecksumsMatch, Written
<1> QED BY <1>1, <1>3

\* What the path of a sample's file can be, by its place.
LEMMA SamplePaths ==
  ASSUME Research, request \in Requests, NEW sample, NEW i \in 1..(SignalCount + 6)
  PROVE  LET p == SampleFiles(sample)[i]
         IN /\ p[1] = sample
            /\ p[2] \notin {"ai_review.json", "agent-decisions.jsonl", "final_report.md", "run-manifest.json"}
            /\ p[2] = "features" => i = 2
            /\ p[2] = "signals" => i = SignalCount + 4
            /\ p[2] = "backtest" => i = SignalCount + 6
<1> DEFINE n == SignalCount
           order == SampleFiles(sample)
<1>1. /\ n \in Nat
      /\ order[1] = <<sample, "feature_set.json">> /\ order[2] = <<sample, "features", "manifest.json">>
      /\ \A j \in 1..n : order[2 + j] = SignalFiles(sample)[j]
      /\ order[n + 3] = <<sample, "agent_decision_log.jsonl">>
      /\ order[n + 4] = <<sample, "signals", "manifest.json">>
      /\ order[n + 5] = <<sample, "backtest_score.json">>
      /\ order[n + 6] = <<sample, "backtest", "manifest.json">>
  BY SampleOrder
<1>2. \A j \in 1..n : \E s : SignalFiles(sample)[j] = <<sample, "signal", s>> BY SignalFilesShape
<1>3. i \in 1..(n + 6) OBVIOUS
<1> HIDE DEF n, order
<1>4. \/ i \in {1, 2, n + 3, n + 4, n + 5, n + 6}
      \/ \E j \in 1..n : i = 2 + j
  <2>1. CASE i \in 3..(n + 2)
    <3>1. i - 2 \in 1..n /\ i = 2 + (i - 2) BY <1>1, <2>1
    <3> QED BY <3>1
  <2>2. CASE i \notin 3..(n + 2) BY <1>1, <1>3, <2>2
  <2> QED BY <2>1, <2>2
<1>5. CASE \E j \in 1..n : i = 2 + j
  <2>1. PICK j \in 1..n : i = 2 + j BY <1>5
  <2>2. PICK s : order[i] = <<sample, "signal", s>> BY <1>1, <1>2, <2>1
  <2>3. order[i][1] = sample /\ order[i][2] = "signal" BY <2>2
  <2> QED BY <2>3 DEF n, order
<1>6. CASE i = 1
  <2>1. order[i][1] = sample /\ order[i][2] = "feature_set.json" BY <1>1, <1>6
  <2> QED BY <2>1 DEF n, order
<1>7. CASE i = 2
  <2>1. order[i][1] = sample /\ order[i][2] = "features" BY <1>1, <1>7
  <2> QED BY <1>7, <2>1 DEF n, order
<1>8. CASE i = n + 3
  <2>1. order[i][1] = sample /\ order[i][2] = "agent_decision_log.jsonl" BY <1>1, <1>8
  <2> QED BY <2>1 DEF n, order
<1>9. CASE i = n + 4
  <2>1. order[i][1] = sample /\ order[i][2] = "signals" BY <1>1, <1>9
  <2> QED BY <1>9, <2>1 DEF n, order
<1>10. CASE i = n + 5
  <2>1. order[i][1] = sample /\ order[i][2] = "backtest_score.json" BY <1>1, <1>10
  <2> QED BY <2>1 DEF n, order
<1>11. CASE i = n + 6
  <2>1. order[i][1] = sample /\ order[i][2] = "backtest" BY <1>1, <1>11
  <2> QED BY <1>11, <2>1 DEF n, order
<1> QED BY <1>4, <1>5, <1>6, <1>7, <1>8, <1>9, <1>10, <1>11

\* The files a stage manifest accounts for come before it.
LEMMA OutputsComeFirst ==
  ASSUME Research, request \in Requests, NEW sample, NEW i \in 1..(SignalCount + 6),
         SampleFiles(sample)[i][2] \in Stages,
         \A j \in 1..(i - 1) : SampleFiles(sample)[j] \in DOMAIN files
  PROVE  \A f \in StageOutputs(SampleFiles(sample)[i]) : f \in DOMAIN files
<1> DEFINE n == SignalCount
           order == SampleFiles(sample)
           p == order[i]
<1>1. /\ n \in Nat
      /\ order[1] = <<sample, "feature_set.json">> /\ order[2] = <<sample, "features", "manifest.json">>
      /\ \A j \in 1..n : order[2 + j] = SignalFiles(sample)[j]
      /\ order[n + 4] = <<sample, "signals", "manifest.json">>
      /\ order[n + 5] = <<sample, "backtest_score.json">>
      /\ order[n + 6] = <<sample, "backtest", "manifest.json">>
  BY SampleOrder
<1>2. p[1] = sample /\ p[2] \in {"features", "signals", "backtest"} BY SamplePaths DEF Stages
<1>3. \A j \in 1..(i - 1) : order[j] \in DOMAIN files OBVIOUS
<1>4. DOMAIN SignalFiles(sample) = 1..n
  <2>1. /\ SignalFiles(sample) \in Seq({SignalFiles(sample)[j] : j \in 1..SignalCount})
        /\ Len(SignalFiles(sample)) = SignalCount
    BY SignalFilesShape
  <2> QED BY <2>1
<1>5. /\ p[2] = "features" => i = 2
      /\ p[2] = "signals" => i = n + 4
      /\ p[2] = "backtest" => i = n + 6
  BY SamplePaths
<1> HIDE DEF n, order
<1>6. CASE p[2] = "features"
  <2>1. StageOutputs(p) = {<<sample, "feature_set.json">>} BY <1>2, <1>6 DEF StageOutputs
  <2>2. order[1] \in DOMAIN files BY <1>3, <1>5, <1>6
  <2> QED BY <1>1, <2>1, <2>2 DEF order
<1>7. CASE p[2] = "signals"
  <2>1. StageOutputs(p) = ToSet(SignalFiles(sample)) BY <1>2, <1>7 DEF StageOutputs
  <2>2. ASSUME NEW j \in 1..n PROVE SignalFiles(sample)[j] \in DOMAIN files
    <3>1. 2 + j \in 1..(i - 1) BY <1>1, <1>5, <1>7
    <3> QED BY <1>1, <1>3, <3>1
  <2>3. \A f \in ToSet(SignalFiles(sample)) : f \in DOMAIN files BY <1>4, <2>2 DEF ToSet
  <2> QED BY <2>1, <2>3 DEF order
<1>8. CASE p[2] = "backtest"
  <2>1. StageOutputs(p) = {<<sample, "backtest_score.json">>} BY <1>2, <1>8 DEF StageOutputs
  <2>2. n + 5 \in 1..(i - 1) BY <1>1, <1>5, <1>8
  <2>3. order[n + 5] \in DOMAIN files BY <1>3, <2>2
  <2> QED BY <1>1, <2>1, <2>3 DEF order
<1> QED BY <1>2, <1>6, <1>7, <1>8

\* What WriteSampleFile does: the first file of the order that is missing, and with the
\* last one it goes on to the next sample.
LEMMA SampleWrite ==
  ASSUME IInv, WriteSampleFile
  PROVE  /\ Research /\ request \in Requests /\ ValidRequest(request)
         /\ item \in 1..Len(request.starts) /\ Len(request.starts) \in Nat /\ Start = request.starts[item]
         /\ UNCHANGED <<request, client, review, reply>>
         /\ \E i \in 1..(SignalCount + 6) :
              LET path == SampleFiles(Start)[i]
              IN /\ path \notin DOMAIN files
                 /\ \A j \in 1..(i - 1) : SampleFiles(Start)[j] \in DOMAIN files
                 /\ files' = WithFile(files, path, SampleContent(path))
                 /\ IF i = SignalCount + 6
                    THEN /\ \E s : samples' = Append(samples, s)
                         /\ item' = item + 1
                         /\ pc' = IF item < Len(request.starts) THEN "sample" ELSE "review"
                    ELSE UNCHANGED <<item, samples, pc>>
<1> DEFINE n == SignalCount
           order == SampleFiles(Start)
<1>1. pc = "artifacts" BY DEF WriteSampleFile
<1>2. Research /\ request \in Requests /\ ValidRequest(request)
  BY <1>1 DEF IInv, HandlersOK, SamplesOK, RunPoints
<1>3. request.starts \in Seq(ToSet(request.starts)) BY <1>2, ServicesAssumption DEF Research
<1>4. item \in 1..Len(request.starts) /\ Len(request.starts) \in Nat
  BY <1>1, <1>2, <1>3 DEF IInv, SamplesOK, SamplePoints
<1>5. Start = request.starts[item] BY <1>2 DEF Start, Research
<1>6. UNCHANGED <<request, client, review, reply>> BY DEF WriteSampleFile, Inputs
<1>7. DOMAIN order = 1..(n + 6) /\ Len(order) = n + 6 /\ n \in Nat
      /\ order[n + 6] = <<Start, "backtest", "manifest.json">>
  BY <1>2, SampleOrder
<1>8. order[n + 6] \notin DOMAIN files
  BY <1>2, <1>4, <1>5, <1>7 DEF IInv, SamplesOK, Written
<1>9. n + 6 \in Nat /\ n + 6 \in 1..(n + 6) BY <1>7
<1> HIDE DEF n, order
<1>10. PICK i \in 1..(n + 6) : /\ NextFile(order) = order[i] /\ order[i] \notin DOMAIN files
                               /\ \A j \in 1..(i - 1) : order[j] \in DOMAIN files
  BY <1>7, <1>8, <1>9, NextFileIsFirst
<1>11. files' = WithFile(files, order[i], SampleContent(order[i])) BY <1>10 DEF WriteSampleFile, order
<1>12. order[i] = Last(order) <=> i = n + 6
  <2>1. Last(order) = order[n + 6] BY <1>7 DEF Last
  <2>2. order[i] = order[n + 6] => i = n + 6
    <3>1. order[n + 6][2] = "backtest" BY <1>7
    <3>2. order[i][2] = "backtest" => i = n + 6 BY <1>2, <1>10, SamplePaths DEF order, n
    <3> QED BY <3>1, <3>2
  <2> QED BY <2>1, <2>2
<1>13. IF i = n + 6
       THEN /\ \E s : samples' = Append(samples, s)
            /\ item' = item + 1
            /\ pc' = IF item < Len(request.starts) THEN "sample" ELSE "review"
       ELSE UNCHANGED <<item, samples, pc>>
  BY <1>10, <1>12 DEF WriteSampleFile, order
<1> QED BY <1>2, <1>4, <1>5, <1>6, <1>10, <1>11, <1>13 DEF n, order

\* A sample's file is none of the run's own, and a stage manifest accounts for what is there.
LEMMA SampleWriteKeepsFiles ==
  ASSUME IInv, Research, request \in Requests, NEW i \in 1..(SignalCount + 6),
         SampleFiles(Start)[i] \notin DOMAIN files,
         \A j \in 1..(i - 1) : SampleFiles(Start)[j] \in DOMAIN files,
         files' = WithFile(files, SampleFiles(Start)[i], SampleContent(SampleFiles(Start)[i]))
  PROVE  /\ DOMAIN files' = DOMAIN files \cup {SampleFiles(Start)[i]}
         /\ \A p \in DOMAIN files : files'[p] = files[p]
         /\ ChecksumsMatch'
<1> DEFINE path == SampleFiles(Start)[i]
           content == SampleContent(path)
<1>1. ASSUME path[2] \in Stages
      PROVE  \A f \in DOMAIN content.checksum : f \in DOMAIN files /\ content.checksum[f] = files[f]
  <2>1. path[2] \in {"features", "signals", "backtest"} BY <1>1 DEF Stages
  <2>2. content = [checksum |-> [f \in StageOutputs(path) |-> Checksum(f)]]
    BY <1>1, <2>1 DEF SampleContent
  <2>3. \A f \in StageOutputs(path) : f \in DOMAIN files BY <1>1, OutputsComeFirst
  <2> HIDE DEF path, content
  <2>4. content.checksum = [f \in StageOutputs(path) |-> Checksum(f)] BY <2>2
  <2>5. DOMAIN content.checksum = StageOutputs(path) BY <2>4
  <2>6. \A f \in StageOutputs(path) : content.checksum[f] = files[f] BY <2>3, <2>4 DEF Checksum
  <2> QED BY <2>3, <2>5, <2>6
<1>2. path \notin DOMAIN files /\ files' = WithFile(files, path, content) /\ ChecksumsMatch BY DEF IInv
<1> HIDE DEF path, content
<1>3. /\ DOMAIN files' = DOMAIN files \cup {path} /\ files'[path] = content
      /\ \A p \in DOMAIN files : files'[p] = files[p]
      /\ ChecksumsMatch'
  BY <1>1, <1>2, NewFileKeeps
<1> QED BY <1>3 DEF path

-----------------------------------------------------------------------------
(* Steps *)

\* A sequence of anything, and one more at its end.
LEMMA OwnElements ==
  ASSUME NEW S, NEW t \in Seq(S)
  PROVE  t \in Seq({t[i] : i \in DOMAIN t})
<1> DEFINE T == {t[i] : i \in DOMAIN t}
<1>1. DOMAIN t = 1..Len(t) /\ Len(t) \in Nat /\ t \in [1..Len(t) -> S] OBVIOUS
<1>2. \A i \in 1..Len(t) : t[i] \in T BY <1>1
<1> HIDE DEF T
<1>3. t \in [1..Len(t) -> T] BY <1>1, <1>2
<1>4. t \in Seq(T) BY <1>1, <1>3
<1> QED BY <1>4 DEF T

LEMMA AppendToAny ==
  ASSUME NEW s, s \in Seq({s[i] : i \in DOMAIN s}), NEW e
  PROVE  /\ Append(s, e) \in Seq({Append(s, e)[i] : i \in DOMAIN Append(s, e)})
         /\ Len(Append(s, e)) = Len(s) + 1
<1> DEFINE S == {s[i] : i \in DOMAIN s} \cup {e}
<1>1. s \in Seq(S) /\ e \in S OBVIOUS
<1> HIDE DEF S
<1>2. Append(s, e) \in Seq(S) /\ Len(Append(s, e)) = Len(s) + 1 BY <1>1
<1> DEFINE t == Append(s, e)
<1>3. t \in Seq(S) BY <1>2
<1> HIDE DEF t
<1>4. t \in Seq({t[i] : i \in DOMAIN t}) BY <1>3, OwnElements
<1> QED BY <1>2, <1>4 DEF t

\* A step that leaves the samples where they are, and does not go on to one.
LEMMA SameSamples ==
  ASSUME SamplesOK, UNCHANGED <<request, item, samples, files>>,
         pc' \notin {"received", "review"},
         pc' = "aggregate" => pc \in {"review", "aggregate"},
         Research /\ pc' \in SamplePoints => pc \in SamplePoints
  PROVE  SamplesOK'
<1>1. (~Research => files = <<>>)' BY DEF SamplesOK, Research
<1>2. (samples \in Seq({samples[i] : i \in DOMAIN samples}))' BY DEF SamplesOK
<1>3. ASSUME Research
      PROVE  (/\ Research
              /\ ValidRequest(request) /\ request \in Requests
              /\ item \in 1..(Len(request.starts) + 1)
              /\ Len(samples) = item - 1
              /\ pc \in SamplePoints => item <= Len(request.starts)
              /\ pc \in {"review", "aggregate"} => item = Len(request.starts) + 1
              /\ \A i \in 1..(item - 1) : SampleIsWritten(request.starts[i])
              /\ \A i \in item..Len(request.starts) : ~Written(<<request.starts[i], "backtest", "manifest.json">>))'
  BY <1>3 DEF SamplesOK, Research, SampleIsWritten, Written, ValidRequest, SamplePoints, BacktestPoints
<1>4. Research' <=> Research BY DEF Research
<1> QED BY <1>1, <1>2, <1>3, <1>4 DEF SamplesOK

\* A step that writes nothing and finishes nothing: of a sample or a scan, or the process ends.
Still ==
  /\ UNCHANGED <<request, item, samples, files, review, reply>>
  /\ \/ pc \in SamplePoints \cup {"stock"} /\ pc' \in SamplePoints \cup {"stock", "scanned", "failed"}
     \/ pc = "stock" /\ pc' = "answered"
     \/ pc \notin {"done", "dead"} /\ pc' = "dead"

LEMMA StillKeeps ==
  ASSUME IInv, Still
  PROVE  SamplesOK' /\ AnswerOK' /\ ChecksumsMatch'
<1> USE DEF Still, SamplePoints, BacktestPoints, Research, Written, Manifest
<1>1. Research => pc # "stock" BY DEF IInv, HandlersOK
<1>3. SamplesOK'
  <2>1. UNCHANGED <<request, item, samples, files>> OBVIOUS
  <2>2. pc' # "received" /\ pc' \notin {"review", "aggregate"} OBVIOUS
  <2>3. Research /\ pc' \in SamplePoints => pc \in SamplePoints BY <1>1
  <2> QED BY <2>1, <2>2, <2>3, SameSamples DEF IInv
<1>4. AnswerOK' BY <1>1 DEF IInv, AnswerOK
<1>5. ChecksumsMatch' BY DEF IInv, ChecksumsMatch
<1> QED BY <1>3, <1>4, <1>5

\* Receiving a request writes its configuration, or turns it away.
LEMMA ReceiveKeeps ==
  ASSUME IInv, Receive
  PROVE  SamplesOK' /\ AnswerOK' /\ ChecksumsMatch'
<1> DEFINE path == <<RunDir, "run-config.json">>
<1>1. pc = "received" /\ files = <<>> /\ item = 1 /\ DOMAIN files = {}
  BY DEF Receive, IInv, SamplesOK
<1>2. reply = None BY <1>1 DEF IInv, AnswerOK
<1>3. UNCHANGED <<request, item, samples, review>> BY DEF Receive, Inputs
<1>4. CASE UNCHANGED files /\ (Research => pc' = "done")
  <2>1. \/ pc' = "done" /\ reply' = 503
        \/ pc' \in {"sample", "trade_cal"} /\ reply' = reply
    BY DEF Receive, Finish
  <2>3. SamplesOK' BY <1>3, <1>4, <2>1, SameSamples DEF IInv, SamplePoints, BacktestPoints
  <2>4. AnswerOK' BY <1>1, <1>2, <1>3, <1>4, <2>1 DEF AnswerOK, Written, Manifest, Research
  <2>5. ChecksumsMatch' BY <1>1, <1>4 DEF ChecksumsMatch
  <2> QED BY <2>3, <2>4, <2>5
<1>5. CASE ~(UNCHANGED files /\ (Research => pc' = "done"))
  <2>1. Research /\ files' = WithFile(files, path, request) /\ pc' = "sample" /\ reply' = reply
    BY <1>5 DEF Receive, Finish
  <2>2. path \notin DOMAIN files /\ path[2] = "run-config.json" BY <1>1
  <2>3. path[2] \notin Stages /\ ChecksumsMatch BY <2>2 DEF Stages, IInv
  <2>4. DOMAIN files' = {path} /\ ChecksumsMatch' BY <1>1, <2>1, <2>2, <2>3, NewFileKeeps
  <2>6. \A start : <<start, "backtest", "manifest.json">> # path BY <2>2
  <2>7. SamplesOK'
    <3>1. Research /\ pc \notin {"review", "aggregate"} BY <1>1, <2>1
    <3>2. Len(request.starts) \in Nat /\ 1 <= Len(request.starts)
      <4>1. request.starts \in Seq(ToSet(request.starts)) BY <2>1, ServicesAssumption DEF Research, IInv, SamplesOK
      <4>2. request.starts # <<>> BY <2>1 DEF IInv, SamplesOK, ValidRequest, Research
      <4> QED BY <4>1, <4>2
    <3> QED BY <1>1, <1>3, <2>1, <2>4, <2>6, <3>2
      DEF IInv, SamplesOK, SampleIsWritten, Research, ValidRequest, Written, SamplePoints, BacktestPoints
  <2>8. AnswerOK' BY <1>1, <1>2, <1>3, <2>1, <2>4 DEF AnswerOK, Written, Manifest, Research
  <2> QED BY <2>4, <2>7, <2>8
<1> QED BY <1>4, <1>5

\* The result of a stock, of a scan, which has no files.
LEMMA FinishStockKeeps ==
  ASSUME IInv, FinishStock
  PROVE  SamplesOK' /\ AnswerOK' /\ ChecksumsMatch'
<1>1. ~Research /\ pc = "scanned" /\ pc' = "stock" BY DEF FinishStock, IInv, HandlersOK
<1>2. UNCHANGED <<request, files, review, reply>> BY DEF FinishStock, Inputs
<1>3. files = <<>> BY <1>1 DEF IInv, SamplesOK
<1>4. PICK s : samples' = Append(samples, s) BY DEF FinishStock
<1>5. samples' \in Seq({samples'[i] : i \in DOMAIN samples'})
  BY <1>4, AppendToAny DEF IInv, SamplesOK
<1>6. reply = None BY <1>1 DEF IInv, AnswerOK
<1>8. SamplesOK' BY <1>1, <1>2, <1>3, <1>5 DEF SamplesOK, Research
<1>9. AnswerOK' BY <1>1, <1>2, <1>3, <1>6 DEF AnswerOK, Written, Manifest, Research
<1>10. ChecksumsMatch' BY <1>2 DEF IInv, ChecksumsMatch, Written
<1> QED BY <1>8, <1>9, <1>10

\* Asking the agent writes no file.
LEMMA AskAgentKeeps ==
  ASSUME IInv, AskAgent
  PROVE  SamplesOK' /\ AnswerOK' /\ ChecksumsMatch'
<1>1. pc = "review" /\ pc' = "aggregate" BY DEF AskAgent
<1>2. UNCHANGED <<request, item, samples, files, reply>> BY DEF AskAgent, Inputs
<1>5. SamplesOK' BY <1>1, <1>2, SameSamples DEF IInv, SamplePoints, BacktestPoints
<1>6. AnswerOK' BY <1>1, <1>2 DEF IInv, AnswerOK, Written, Manifest, Research
<1>7. ChecksumsMatch' BY <1>2 DEF IInv, ChecksumsMatch, Written
<1> QED BY <1>5, <1>6, <1>7

\* A run is answered with success from where its manifest is written, and from nowhere else.
LEMMA ReplyKeeps ==
  ASSUME IInv, Reply
  PROVE  SamplesOK' /\ AnswerOK' /\ ChecksumsMatch'
<1>1. /\ pc' = "done" /\ UNCHANGED <<request, item, samples, files, review>>
      /\ \/ pc = "answered" /\ reply' = 200
         \/ pc \in {"failed", "scanned"} /\ reply' \in {500, 503}
  BY DEF Reply, Finish, Inputs, RunOutputs
<1>3. SamplesOK' BY <1>1, SameSamples DEF IInv, SamplePoints, BacktestPoints
<1>4. AnswerOK' BY <1>1 DEF IInv, AnswerOK, Written, Manifest, Research
<1>5. ChecksumsMatch' BY <1>1 DEF IInv, ChecksumsMatch, Written
<1> QED BY <1>3, <1>4, <1>5

\* Once the last file of a sample is written, all of its files are.
LEMMA LastFileCompletes ==
  ASSUME Research, request \in Requests, NEW sample,
         \A j \in 1..(SignalCount + 5) : SampleFiles(sample)[j] \in DOMAIN files',
         SampleFiles(sample)[SignalCount + 6] \in DOMAIN files'
  PROVE  SampleIsWritten(sample)'
<1> DEFINE n == SignalCount
           order == SampleFiles(sample)
<1>1. /\ n \in Nat
      /\ order[1] = <<sample, "feature_set.json">> /\ order[2] = <<sample, "features", "manifest.json">>
      /\ order[n + 3] = <<sample, "agent_decision_log.jsonl">>
      /\ order[n + 4] = <<sample, "signals", "manifest.json">>
      /\ order[n + 5] = <<sample, "backtest_score.json">>
      /\ order[n + 6] = <<sample, "backtest", "manifest.json">>
  BY SampleOrder
<1>2. \A j \in 1..(n + 5) : order[j] \in DOMAIN files' OBVIOUS
<1>3. order[n + 6] \in DOMAIN files' OBVIOUS
<1> HIDE DEF n, order
<1>4. {1, 2, n + 3, n + 4, n + 5} \subseteq 1..(n + 5) BY <1>1
<1>5. {order[1], order[2], order[n + 3], order[n + 4], order[n + 5], order[n + 6]} \subseteq DOMAIN files'
  BY <1>2, <1>3, <1>4
<1> QED BY <1>1, <1>5 DEF SampleIsWritten, Written, Stages

\* A file of a sample: the others stay, and the last one completes it.
LEMMA WriteSampleKeeps ==
  ASSUME IInv, WriteSampleFile
  PROVE  SamplesOK' /\ AnswerOK' /\ ChecksumsMatch'
<1>1. /\ Research /\ request \in Requests /\ ValidRequest(request)
      /\ item \in 1..Len(request.starts) /\ Len(request.starts) \in Nat /\ Start = request.starts[item]
      /\ UNCHANGED <<request, client, review, reply>>
  BY SampleWrite
<1>2. PICK i \in 1..(SignalCount + 6) :
        LET path == SampleFiles(Start)[i]
        IN /\ path \notin DOMAIN files
           /\ \A j \in 1..(i - 1) : SampleFiles(Start)[j] \in DOMAIN files
           /\ files' = WithFile(files, path, SampleContent(path))
           /\ IF i = SignalCount + 6
              THEN /\ \E s : samples' = Append(samples, s)
                   /\ item' = item + 1
                   /\ pc' = IF item < Len(request.starts) THEN "sample" ELSE "review"
              ELSE UNCHANGED <<item, samples, pc>>
  BY SampleWrite
<1> DEFINE path == SampleFiles(Start)[i]
<1>3. /\ DOMAIN files' = DOMAIN files \cup {path}
      /\ \A p \in DOMAIN files : files'[p] = files[p]
      /\ ChecksumsMatch'
  BY <1>1, <1>2, SampleWriteKeepsFiles
<1>4. /\ path[1] = Start
      /\ path[2] \notin {"ai_review.json", "agent-decisions.jsonl", "final_report.md", "run-manifest.json"}
      /\ path[2] = "backtest" => i = SignalCount + 6
  BY <1>1, SamplePaths
<1>5. pc = "artifacts" BY DEF WriteSampleFile
<1>6. SignalCount \in Nat BY <1>1, SampleOrder
<1>7. IF i = SignalCount + 6
      THEN /\ \E s : samples' = Append(samples, s)
           /\ item' = item + 1
           /\ pc' = IF item < Len(request.starts) THEN "sample" ELSE "review"
      ELSE UNCHANGED <<item, samples, pc>>
  BY <1>2
<1>8. \A j \in 1..(i - 1) : SampleFiles(Start)[j] \in DOMAIN files BY <1>2
<1> HIDE DEF path
<1>9. pc' \in {"artifacts", "sample", "review"} BY <1>5, <1>7
<1>11. \A f \in {"ai_review.json", "agent-decisions.jsonl", "final_report.md", "run-manifest.json"} :
         <<RunDir, f>> # path
  <2> TAKE f \in {"ai_review.json", "agent-decisions.jsonl", "final_report.md", "run-manifest.json"}
  <2>1. <<RunDir, f>>[2] = f OBVIOUS
  <2> QED BY <1>4, <2>1
<1>13. AnswerOK'
  <2>1. Manifest # path BY <1>11 DEF Manifest
  <2>2. Manifest \notin DOMAIN files BY <1>5 DEF IInv, AnswerOK, Written
  <2>3. ~Written(Manifest)'
    <3>1. Manifest' = Manifest BY DEF Manifest
    <3> QED BY <1>3, <2>1, <2>2, <3>1 DEF Written
  <2>4. reply = None BY <1>5 DEF IInv, AnswerOK
  <2> QED BY <1>1, <1>9, <2>3, <2>4 DEF AnswerOK
<1>14. SamplesOK'
  <2>1. ASSUME NEW k \in 1..(item - 1) PROVE SampleIsWritten(request.starts[k])'
    <3>1. SampleIsWritten(request.starts[k]) BY <1>1, <2>1 DEF IInv, SamplesOK
    <3> QED BY <1>1, <1>3, <3>1 DEF SampleIsWritten, Written
  <2>2. samples \in Seq({samples[k] : k \in DOMAIN samples}) /\ Len(samples) = item - 1
    BY <1>1 DEF IInv, SamplesOK
  <2>3. \A k \in item..Len(request.starts) : <<request.starts[k], "backtest", "manifest.json">> \notin DOMAIN files
    BY <1>1 DEF IInv, SamplesOK, Written
  <2>4. CASE i # SignalCount + 6
    <3>1. UNCHANGED <<item, samples, pc>> BY <1>7, <2>4
    <3>2. \A k \in item..Len(request.starts) : <<request.starts[k], "backtest", "manifest.json">> # path
      <4> TAKE k \in item..Len(request.starts)
      <4>1. <<request.starts[k], "backtest", "manifest.json">>[2] = "backtest" OBVIOUS
      <4> QED BY <1>4, <2>4, <4>1
    <3>3. \A k \in item..Len(request.starts) : ~Written(<<request.starts[k], "backtest", "manifest.json">>)'
      BY <1>1, <1>3, <2>3, <3>2 DEF Written
    <3>4. (\A k \in 1..(item - 1) : SampleIsWritten(request.starts[k]))' BY <1>1, <2>1, <3>1
    <3>5. (\A k \in item..Len(request.starts) : ~Written(<<request.starts[k], "backtest", "manifest.json">>))'
      BY <1>1, <3>1, <3>3 DEF Written
    <3>6. (samples \in Seq({samples[k] : k \in DOMAIN samples}))' BY <2>2, <3>1
    <3> QED BY <1>1, <1>5, <2>2, <3>1, <3>4, <3>5, <3>6 DEF SamplesOK, Research, SamplePoints
  <2>5. CASE i = SignalCount + 6
    <3>1. PICK s : samples' = Append(samples, s) BY <1>7, <2>5
    <3>2. item' = item + 1 /\ pc' = IF item < Len(request.starts) THEN "sample" ELSE "review" BY <1>7, <2>5
    <3>3. samples' \in Seq({samples'[k] : k \in DOMAIN samples'}) /\ Len(samples') = item' - 1
      <4>1. Len(samples') = Len(samples) + 1 /\ samples' \in Seq({samples'[k] : k \in DOMAIN samples'})
        BY <2>2, <3>1, AppendToAny
      <4> QED BY <1>1, <2>2, <3>2, <4>1
    <3>4. PICK start : start = Start OBVIOUS
    <3>5. SampleIsWritten(start)'
      <4>1. \A j \in 1..(SignalCount + 5) : SampleFiles(start)[j] \in DOMAIN files'
        <5>1. i - 1 = SignalCount + 5 BY <1>6, <2>5
        <5> QED BY <1>3, <1>8, <3>4, <5>1
      <4>2. SampleFiles(start)[SignalCount + 6] \in DOMAIN files' BY <1>3, <2>5, <3>4 DEF path
      <4> QED BY <1>1, <4>1, <4>2, LastFileCompletes
    <3>6. (\A k \in 1..(item - 1) : SampleIsWritten(request.starts[k]))'
      <4>1. ASSUME NEW k \in 1..item PROVE SampleIsWritten(request.starts[k])'
        <5>1. CASE k \in 1..(item - 1) BY <2>1, <5>1
        <5>2. CASE k = item
          <6>1. request'.starts[k] = start BY <1>1, <3>4, <5>2
          <6> QED BY <3>5, <6>1 DEF SampleIsWritten, Written
        <5> QED BY <1>1, <5>1, <5>2
      <4>2. item' - 1 = item BY <1>1, <3>2
      <4> QED BY <4>1, <4>2
    <3>7. (\A k \in item..Len(request.starts) : ~Written(<<request.starts[k], "backtest", "manifest.json">>))'
      <4>1. ASSUME NEW k \in (item + 1)..Len(request.starts)
            PROVE  <<request.starts[k], "backtest", "manifest.json">> \notin DOMAIN files'
        <5>1. k \in item..Len(request.starts) /\ k # item BY <1>1
        <5>2. request.starts[k] # Start
          <6>1. IsInjective(request.starts) BY <1>1 DEF ValidRequest, Research
          <6>2. request.starts \in Seq(ToSet(request.starts)) BY <1>1, ServicesAssumption DEF Research
          <6>3. k \in DOMAIN request.starts /\ item \in DOMAIN request.starts BY <1>1, <5>1, <6>2
          <6> QED BY <1>1, <5>1, <6>1, <6>3 DEF IsInjective
        <5>3. <<request.starts[k], "backtest", "manifest.json">>[1] # path[1] BY <1>4, <5>2
        <5>4. <<request.starts[k], "backtest", "manifest.json">> # path BY <5>3
        <5> QED BY <1>3, <2>3, <5>1, <5>4
      <4> QED BY <1>1, <3>2, <4>1 DEF Written
    <3>8. item' \in 1..(Len(request.starts) + 1) /\ (pc' = "sample" => item' <= Len(request.starts))
      BY <1>1, <3>2
    <3>9. pc' = "review" => item' = Len(request.starts) + 1 BY <1>1, <3>2
    <3>10. pc' \in {"sample", "review"} BY <3>2
    <3> QED BY <1>1, <3>3, <3>6, <3>7, <3>8, <3>9, <3>10 DEF SamplesOK, Research, SamplePoints, BacktestPoints
  <2> QED BY <2>4, <2>5
<1> QED BY <1>3, <1>13, <1>14

\* The files of the run itself, in their order: the manifest is the last of them.
LEMMA WriteAggregateKeeps ==
  ASSUME IInv, WriteAggregateFile
  PROVE  SamplesOK' /\ AnswerOK' /\ ChecksumsMatch'
<1> DEFINE order == AggregateFiles
<1>1. /\ DOMAIN order = 1..4 /\ Len(order) = 4
      /\ order[1] = <<RunDir, "ai_review.json">> /\ order[2] = <<RunDir, "agent-decisions.jsonl">>
      /\ order[3] = <<RunDir, "final_report.md">> /\ order[4] = Manifest
  BY DEF AggregateFiles, Manifest
<1>2. pc = "aggregate" /\ UNCHANGED <<request, item, samples, review, reply>>
  BY DEF WriteAggregateFile, Inputs
<1>3. Research /\ request \in Requests BY <1>2 DEF IInv, HandlersOK, SamplesOK, RunPoints
<1>4. item = Len(request.starts) + 1 /\ Len(samples) = item - 1 BY <1>2, <1>3 DEF IInv, SamplesOK
<1>5. Len(request.starts) \in Nat
  <2>1. request.starts \in Seq(ToSet(request.starts)) BY <1>3, ServicesAssumption DEF Research
  <2> QED BY <2>1
<1>6. order[4] \notin DOMAIN files BY <1>1, <1>2 DEF IInv, AnswerOK, Written
<1> HIDE DEF order
<1>7. PICK i \in 1..4 : /\ NextFile(order) = order[i] /\ order[i] \notin DOMAIN files
                        /\ \A j \in 1..(i - 1) : order[j] \in DOMAIN files
  <2>1. 4 \in Nat /\ 4 \in 1..4 /\ DOMAIN order = 1..4 BY <1>1
  <2> QED BY <1>6, <2>1, NextFileIsFirst
<1> DEFINE path == order[i]
           content == AggregateContent(path)
<1>8. /\ files' = WithFile(files, path, content)
      /\ pc' = IF path = order[4] THEN "answered" ELSE pc
  BY <1>1, <1>7 DEF WriteAggregateFile, Last, order
<1>9. path \notin DOMAIN files BY <1>7
<1>10. path[2] \in {"ai_review.json", "agent-decisions.jsonl", "final_report.md", "run-manifest.json"}
  BY <1>1, <1>7 DEF Manifest
<1>11. path = order[4] <=> i = 4 BY <1>1, <1>7 DEF Manifest
<1>13. /\ DOMAIN files' = DOMAIN files \cup {path} /\ files'[path] = content
       /\ \A p \in DOMAIN files : files'[p] = files[p]
       /\ ChecksumsMatch'
  <2>1. path[2] \notin Stages BY <1>10 DEF Stages
  <2> HIDE DEF path, content
  <2> QED BY <1>8, <1>9, <2>1, NewFileKeeps DEF IInv
<1>15. SamplesOK'
  <2>1. pc' \in {"aggregate", "answered"} BY <1>2, <1>8
  <2> HIDE DEF path, content
  <2>2. (\A k \in 1..(item - 1) : SampleIsWritten(request.starts[k]))'
    <3>1. ASSUME NEW k \in 1..(item - 1) PROVE SampleIsWritten(request.starts[k])'
      <4>1. SampleIsWritten(request.starts[k]) BY <1>3, <3>1 DEF IInv, SamplesOK
      <4> QED BY <1>2, <1>13, <4>1 DEF SampleIsWritten, Written
    <3> QED BY <1>2, <3>1
  <2>3. (\A k \in item..Len(request.starts) : ~Written(<<request.starts[k], "backtest", "manifest.json">>))'
    BY <1>2, <1>4, <1>5
  <2>4. (samples \in Seq({samples[k] : k \in DOMAIN samples}))' BY <1>2 DEF IInv, SamplesOK
  <2>5. (item \in 1..(Len(request.starts) + 1))' BY <1>2, <1>4, <1>5
  <2>6. ValidRequest(request)' BY <1>2, <1>3 DEF IInv, SamplesOK, ValidRequest
  <2> QED BY <1>2, <1>3, <1>4, <2>1, <2>2, <2>3, <2>4, <2>5, <2>6
    DEF SamplesOK, Research, SamplePoints, BacktestPoints
<1>16. AnswerOK'
  <2>1. reply = None BY <1>2 DEF IInv, AnswerOK
  <2>2. i = 4 => content.sampleCount = Len(samples)
    <3>1. i = 4 => content = [sampleCount |-> Len(samples), callCount |-> Len(logs.api),
                              hadRetry |-> logs.retries > 0, cache |-> logs.cache, scores |-> Scores,
                              reviewStatus |-> review.status]
      BY <1>1 DEF AggregateContent, Manifest
    <3> QED BY <3>1
  <2> HIDE DEF path, content
  <2>3. CASE i # 4
    <3>1. path # Manifest BY <1>1, <1>11, <2>3
    <3>2. Manifest \notin DOMAIN files' BY <1>1, <1>6, <1>13, <3>1
    <3>3. ~Written(Manifest)'
      <4>1. Manifest' = Manifest BY DEF Manifest
      <4> QED BY <3>2, <4>1 DEF Written
    <3>4. pc' = "aggregate" BY <1>2, <1>8, <1>11, <2>3
    <3> QED BY <1>2, <2>1, <3>3, <3>4 DEF AnswerOK
  <2>4. CASE i = 4
    <3>1. path = Manifest /\ Manifest' = Manifest BY <1>1, <2>4 DEF path, Manifest
    <3>2. pc' = "answered" BY <1>8, <1>11, <2>4
    <3>3. Manifest \in DOMAIN files' /\ files'[Manifest].sampleCount = Len(request.starts)
      BY <1>4, <1>5, <1>13, <2>2, <2>4, <3>1
    <3>4. order[1] \in DOMAIN files /\ order[2] \in DOMAIN files /\ order[3] \in DOMAIN files
      BY <1>7, <2>4
    <3>5. {<<RunDir, f>> : f \in {"ai_review.json", "agent-decisions.jsonl", "final_report.md"}}
            \subseteq DOMAIN files'
      BY <1>1, <1>13, <3>4
    <3>6. Written(Manifest)' BY <3>1, <3>3 DEF Written
    <3>7. files'[Manifest'].sampleCount = Len(request.starts) BY <3>1, <3>3
    <3>8. RunDir' = RunDir BY DEF RunDir
    <3> QED BY <1>2, <1>4, <2>1, <3>2, <3>5, <3>6, <3>7, <3>8 DEF AnswerOK
  <2> QED BY <2>3, <2>4
<1> QED BY <1>13, <1>15, <1>16

-----------------------------------------------------------------------------
(* Theorems *)

\* A request that was just received has no files and its client the caller's handlers.
LEMMA InitIInv == Init => IInv
<1> SUFFICES ASSUME Init PROVE IInv OBVIOUS
<1>1. PICK kind \in Clients : client = [kind |-> kind,
                                        retry |-> IF kind = "tushare" THEN Caller ELSE None,
                                        cache |-> IF kind = "cached" THEN Caller ELSE None]
  BY DEF Init
<1>2. HandlersOK BY <1>1 DEF Init, HandlersOK, HandlersRestored, BacktestPoints, RunPoints
<1>3. pc = "received" /\ files = <<>> /\ DOMAIN files = {} BY DEF Init
<1>5. SamplesOK
  <2>1. samples \in Seq({samples[i] : i \in DOMAIN samples}) /\ Len(samples) = 0 BY DEF Init
  <2>2. ValidRequest(request) /\ request \in Requests /\ item = 1 BY DEF Init
  <2>3. Research => Len(request.starts) \in Nat
    <3>1. Research => request.starts \in Seq(ToSet(request.starts)) BY <2>2, ServicesAssumption DEF Research
    <3> QED BY <3>1
  <2> QED BY <1>3, <2>1, <2>2, <2>3 DEF SamplesOK, Written, SamplePoints, BacktestPoints
<1>6. AnswerOK BY <1>3 DEF Init, AnswerOK, Written
<1>7. ChecksumsMatch BY <1>3 DEF ChecksumsMatch
<1> QED BY <1>2, <1>5, <1>6, <1>7 DEF IInv

\* The invariant is inductive.
LEMMA StepIInv == IInv /\ [Next]_vars => IInv'
<1> SUFFICES ASSUME IInv, [Next]_vars PROVE IInv' OBVIOUS
<1>1. HandlersOK' BY StepHandlers DEF IInv
<1> USE DEF SamplePoints, BacktestPoints
<1>2. CASE UNCHANGED vars
  <2>1. UNCHANGED <<request, item, samples, files, review, reply, pc>> BY <1>2 DEF vars
  <2>3. SamplesOK' BY <2>1 DEF IInv, SamplesOK, SampleIsWritten, Research, ValidRequest, Written
  <2>4. AnswerOK' BY <2>1 DEF IInv, AnswerOK, Written, Manifest, Research
  <2>5. ChecksumsMatch' BY <2>1 DEF IInv, ChecksumsMatch, Written
  <2> QED BY <1>1, <2>3, <2>4, <2>5 DEF IInv
<1>3. CASE InstallHandlers
  <2>1. Still BY <1>3 DEF InstallHandlers, Still, Inputs
  <2> QED BY <1>1, <2>1, StillKeeps DEF IInv
<1>4. CASE Call
  <2>1. UNCHANGED <<request, item, samples, files, review, reply>> /\ pc \in SamplePoints
    BY <1>4 DEF Call, Inputs
  <2>2. pc' \in SamplePoints \cup {"stock", "scanned", "failed"} BY <1>4, CallPoints
  <2>3. Still BY <2>1, <2>2 DEF Still
  <2> QED BY <1>1, <2>3, StillKeeps DEF IInv
<1>5. CASE CheckWindow
  <2>1. Still BY <1>5 DEF CheckWindow, Fail, Still, Inputs, RunOutputs
  <2> QED BY <1>1, <2>1, StillKeeps DEF IInv
<1>6. CASE Evaluate
  <2>1. UNCHANGED <<request, item, samples, files, review, reply>> /\ pc = "evaluate"
    BY <1>6 DEF Evaluate, Inputs, RunOutputs
  <2>2. pc' \in {"close", "scanned", "failed"} \/ (~Research /\ pc' = "answered")
    BY <1>6 DEF Evaluate, Fail
  <2>3. CASE pc' \in {"close", "scanned", "failed"}
    <3>1. Still BY <2>1, <2>3 DEF Still
    <3> QED BY <1>1, <3>1, StillKeeps DEF IInv
  <2>4. CASE ~Research /\ pc' = "answered"
    <3>2. SamplesOK' BY <2>1, <2>4, SameSamples DEF IInv
    <3>3. AnswerOK' BY <2>1, <2>4 DEF IInv, AnswerOK, Written, Manifest, Research
    <3>4. ChecksumsMatch' BY <2>1 DEF IInv, ChecksumsMatch, Written
    <3> QED BY <1>1, <3>2, <3>3, <3>4 DEF IInv
  <2> QED BY <2>2, <2>3, <2>4
<1>7. CASE StartStock
  <2>1. ~Research BY <1>7 DEF StartStock, IInv, HandlersOK
  <2>2. Still BY <1>7, <2>1 DEF StartStock, Fail, Still, Inputs, RunOutputs
  <2> QED BY <1>1, <2>2, StillKeeps DEF IInv
<1>8. CASE RestoreHandlers
  <2>1. Still BY <1>8 DEF RestoreHandlers, Still, Inputs, RunOutputs
  <2> QED BY <1>1, <2>1, StillKeeps DEF IInv
<1>9. CASE Crash
  <2>1. Still BY <1>9 DEF Crash, Still, Inputs, RunOutputs
  <2> QED BY <1>1, <2>1, StillKeeps DEF IInv
<1>10. CASE Receive BY <1>1, <1>10, ReceiveKeeps DEF IInv
<1>11. CASE FinishStock BY <1>1, <1>11, FinishStockKeeps DEF IInv
<1>12. CASE WriteSampleFile BY <1>1, <1>12, WriteSampleKeeps DEF IInv
<1>13. CASE AskAgent BY <1>1, <1>13, AskAgentKeeps DEF IInv
<1>14. CASE WriteAggregateFile BY <1>1, <1>14, WriteAggregateKeeps DEF IInv
<1>15. CASE Reply BY <1>1, <1>15, ReplyKeeps DEF IInv
<1> QED
  BY <1>2, <1>3, <1>4, <1>5, <1>6, <1>7, <1>8, <1>9, <1>10, <1>11, <1>12, <1>13, <1>14, <1>15 DEF Next, Handle

\* The inductive invariant holds of every behaviour.
THEOREM Invariance == Spec => []IInv
<1>1. Init => IInv BY InitIInv
<1>2. IInv /\ [Next]_vars => IInv' BY StepIInv
<1> QED BY <1>1, <1>2, PTL DEF Spec

\* Whichever call of a backtest raises, the client is handed back with the handlers of its
\* caller before the run goes on, is answered or fails.
THEOREM HandlersAreRestored == Spec => []HandlersRestored
<1>1. IInv => HandlersRestored BY DEF IInv, HandlersOK
<1> QED BY <1>1, Invariance, PTL

\* For any number of samples and strategies, and wherever the process ends: a run has a manifest
\* only with every file of every sample, an answer of success only with a manifest, and a
\* checksum only of a file that is there and stays as it is.
THEOREM ManifestsAreTrue == Spec => []ManifestsTellTheTruth
<1>1. IInv => ManifestsTellTheTruth
  <2> SUFFICES ASSUME IInv PROVE ManifestsTellTheTruth OBVIOUS
  <2>1. Research /\ reply # None => (reply = 200 <=> Written(Manifest)) BY DEF IInv, AnswerOK
  <2>2. ASSUME Written(Manifest)
        PROVE  /\ files[Manifest].sampleCount = Len(request.starts)
               /\ {<<RunDir, f>> : f \in {"ai_review.json", "agent-decisions.jsonl", "final_report.md"}}
                    \subseteq DOMAIN files
               /\ \A start \in ToSet(request.starts) : SampleIsWritten(start)
    <3>1. /\ item = Len(request.starts) + 1
          /\ files[Manifest].sampleCount = Len(request.starts)
          /\ {<<RunDir, f>> : f \in {"ai_review.json", "agent-decisions.jsonl", "final_report.md"}}
               \subseteq DOMAIN files
      BY <2>2 DEF IInv, AnswerOK
    <3>2. Research
      <4>1. files # <<>> BY <2>2 DEF Written
      <4> QED BY <4>1 DEF IInv, SamplesOK
    <3>3. request.starts \in Seq(ToSet(request.starts))
      BY <3>2, ServicesAssumption DEF Research, IInv, SamplesOK
    <3>4. \A i \in 1..Len(request.starts) : SampleIsWritten(request.starts[i])
      BY <3>1, <3>2, <3>3 DEF IInv, SamplesOK
    <3>5. \A start \in ToSet(request.starts) : \E i \in 1..Len(request.starts) : start = request.starts[i]
      BY <3>3 DEF ToSet
    <3> QED BY <3>1, <3>4, <3>5
  <2>3. ManifestMeansComplete BY <2>1, <2>2 DEF ManifestMeansComplete, SampleIsWritten, Stages
  <2> QED BY <2>3 DEF ManifestsTellTheTruth, IInv
<1> QED BY <1>1, Invariance, PTL
-----------------------------------------------------------------------------
(* Where a request can be, and how far it is *)

CallPointsOf == {"trade_cal", "stock_basic", "daily", "cyq_chips", "adj_factor"}

\* An exception is on its way until it is answered; a scan has its own points.
PointsOK ==
  /\ world \in Worlds /\ request \in Requests /\ ValidRequest(request)
  /\ pc \in BacktestPoints \cup {"received", "sample", "stock", "scanned", "artifacts", "review", "aggregate",
                                 "answered", "failed", "done", "dead"}
  /\ pc \in {"stock", "scanned"} => request.kind = "scan"
  /\ pc \in {"check", "adj_factor", "evaluate", "close"} => request.kind # "scan"
  /\ failure \in {None, "unavailable", "error"}
  /\ failure # None => pc \in {"close", "scanned", "failed", "done", "dead"}
  /\ reply \in {None, 200, 500, 503}
  /\ reply # None => pc = "done"

\* The stocks of a scan are taken one after the other.
ItemOK ==
  /\ request.kind = "scan" =>
       /\ item \in 1..(Len(request.codes) + 1) /\ Len(samples) = item - 1
       /\ pc \in {"received", "trade_cal", "stock_basic", "cyq_chips", "daily", "scanned"} => item <= Len(request.codes)
       /\ pc = "answered" \/ reply = 200 => item = Len(request.codes) + 1
  /\ request.kind \notin {"scan", "research"} => item = 1

\* Only retries that the client reports to the sample are counted in its log.
CountsOK ==
  /\ retries \in 0..MaxRetries /\ logs.retries \in 0..retries /\ faults \in 0..MaxFaults
  /\ {client.retry, client.cache} \subseteq {None, Caller} \cup (IF Research THEN ToSet(request.starts) ELSE {})
  /\ Research /\ client.kind = "tushare" =>
       /\ logs.retries = retries
       /\ pc \in BacktestPoints => client.retry = Start

\* Every call has its row, and a failed one is the last.
RowsOK ==
  /\ ~Research => logs.api = <<>>
  /\ Research =>
       /\ logs.api \in Seq({logs.api[i] : i \in DOMAIN logs.api}) /\ Len(logs.api) = calls
       /\ \A i \in DOMAIN logs.api : ~logs.api[i].ok =>
            /\ i = Len(logs.api) /\ ~Written(Manifest)
            /\ pc \in {"close", "failed", "done", "dead"} /\ (pc = "close" => failure # None)

Events == [hits : Nat, misses : Nat]
ScoreFile(start) == <<start, "backtest_score.json">>
Caches == [i \in DOMAIN samples |-> files[<<samples[i].sample, "backtest_score.json">>].cache]

\* What the log has of cache events is what the finished samples stored, and what the one that
\* is under way remembers.
CachesOK ==
  Research =>
    /\ logs.cache \in Events /\ memory \in Events
    /\ \A i \in DOMAIN samples :
         /\ samples[i].sample = request.starts[i]
         /\ Written(ScoreFile(request.starts[i])) /\ files[ScoreFile(request.starts[i])].cache \in Events
    /\ \A i \in item..Len(request.starts) : Written(ScoreFile(request.starts[i])) =>
         /\ i = item /\ pc \in {"artifacts", "dead"}
         /\ files[ScoreFile(request.starts[i])].cache = memory
    /\ pc \in BacktestPoints \cup {"artifacts"} => logs.cache = AddEvents(SumEvents(Caches), memory)
    /\ pc \in {"received", "sample", "review", "aggregate"} => logs.cache = SumEvents(Caches)

\* The manifest of a run is written last, and nothing it tells of changes after it.
ManifestOK ==
  Written(Manifest) =>
    /\ files[Manifest].cache = SumEvents(Caches) /\ files[Manifest].callCount = calls
    /\ client.kind = "tushare" => (files[Manifest].hadRetry <=> retries > 0)

LogInv == PointsOK /\ ItemOK /\ CountsOK /\ RowsOK /\ CachesOK /\ ManifestOK

-----------------------------------------------------------------------------
(* What signals are computed from *)

\* The signal that the market up to the last day of a window gives, as in SignalsIgnoreTheFuture.
SignalAt(start) ==
  LET days == DaysFrom(start, request.window)
      past == WorldUpTo(Stock, Last(days))
  IN EvaluateCompositeSignal(MarketFeatures(Between(past.chips, days[1], Last(days)),
                                            [i \in DOMAIN days |-> past.bars[days[i]]]))

\* What a backtest of a run has been answered so far.
AnswersOK ==
  /\ DOMAIN got = {"days", "prices", "chips", "factors"}
  /\ Research =>
       /\ pc \in {"stock_basic", "daily", "cyq_chips", "check", "adj_factor", "evaluate"} =>
            got.days = DaysFrom(Start, RequiredDays(request.window)) /\ got.days # Missing
       /\ pc \in {"cyq_chips", "check", "adj_factor", "evaluate"} =>
            got.prices = Between(world.prices[Stock], got.days[1], LastDay)
       /\ pc \in {"check", "adj_factor", "evaluate"} =>
            got.chips = Between(world.chips[Stock], got.days[1], SignalDay)
       /\ pc \in {"adj_factor", "evaluate"} => WindowIsComplete(got.days, request.window, got.prices)

SignalsOK ==
  Research =>
    /\ pc = "artifacts" \/ (pc = "close" /\ failure = None) => backtest.signal = SignalAt(Start)
    /\ \A start \in ToSet(request.starts) :
         Written(<<start, "feature_set.json">>) => files[<<start, "feature_set.json">>].signal = SignalAt(start)

SignalInv == AnswersOK /\ SignalsOK

\* What the calls for a stock of a scan have answered so far.
ScanDays == DaysTo(request.end, request.days)
StockOK ==
  request.kind = "scan" =>
    /\ pc \in {"stock", "stock_basic", "cyq_chips", "daily", "scanned"} => got.days = ScanDays /\ ScanDays # Missing
    /\ pc \in {"stock_basic", "cyq_chips", "daily"} \/ (pc = "scanned" /\ failure = None) => NormalizeTsCode(Code) # None
    /\ pc = "daily" \/ (pc = "scanned" /\ failure = None) =>
         got.chips = Between(world.chips[Stock], ScanDays[1], Last(ScanDays))
    /\ pc = "scanned" /\ failure = None =>
         got.prices = Between(world.prices[Stock], ScanDays[1], Last(ScanDays))
    /\ pc = "scanned" /\ failure = "unavailable" => faults > 0 \/ ~HasData(Code)

\* The result of each stock, as in ScanKeepsStocksApart.
ResultOK(result, code) ==
  /\ result.code = code
  /\ result.status = "ERROR" => faults > 0 \/ ~HasData(code)
  /\ result.status = "OK" =>
       LET stock == NormalizeTsCode(code).stock
           days == DaysTo(request.end, request.days)
           past == WorldUpTo(stock, Last(days))
       IN result.signal = ScanSignal([prices |-> Between(past.bars, days[1], Last(days)),
                                      chips |-> Between(past.chips, days[1], Last(days))])

ResultsOK == request.kind = "scan" => \A i \in DOMAIN samples : ResultOK(samples[i], request.codes[i])

ScanInv == StockOK /\ ResultsOK

-----------------------------------------------------------------------------
(* What a call does *)

\* One outcome of a call: fault is what it ends in, raised is whether the client raised it.
CallWith(fault, retried, raised, events) ==
  /\ retried => retries < MaxRetries
  /\ raised => faults < MaxFaults
  /\ fault # None => raised \/ Answer(pc) = Missing
  /\ retries' = retries + (IF retried THEN 1 ELSE 0)
  /\ faults' = faults + (IF raised THEN 1 ELSE 0)
  /\ Record(pc, fault = None, retried, events)
  /\ IF fault # None THEN Fail(fault) /\ UNCHANGED got
     ELSE pc' = NextCall(pc) /\ got' = Remember(pc, Answer(pc)) /\ UNCHANGED failure /\ Answer(pc) # Missing

\* What a call does: it answers or ends in an exception, and leaves a row.
LEMMA CallShape ==
  ASSUME Call
  PROVE  /\ pc \in CallPointsOf /\ calls' = calls + 1
         /\ UNCHANGED <<world, request, agent, client, saved, item, backtest, files, samples, review, reply>>
         /\ \E fault \in {None, "unavailable", "error"}, retried, raised \in BOOLEAN, events \in Events :
              CallWith(fault, retried, raised, events)
<1>1. /\ pc \in CallPointsOf /\ calls' = calls + 1
      /\ UNCHANGED <<world, request, agent, client, saved, item, backtest, files, samples, review, reply>>
  BY DEF Call, Inputs, CallPointsOf
<1>2. PICK asked \in BOOLEAN, retried \in BOOLEAN, kind \in {None, "unavailable", "error"} :
        LET fault == IF kind = None /\ Answer(pc) = Missing THEN "unavailable" ELSE kind
            events == IF kind = None THEN CacheEvents(pc, asked)
                      ELSE [CacheEvents(pc, asked) EXCEPT !.misses = 0]
        IN /\ retried => retries < MaxRetries
           /\ kind # None => faults < MaxFaults
           /\ retries' = retries + (IF retried THEN 1 ELSE 0)
           /\ faults' = faults + (IF kind # None THEN 1 ELSE 0)
           /\ Record(pc, fault = None, retried, events)
           /\ IF fault # None THEN Fail(fault) /\ UNCHANGED got
              ELSE pc' = NextCall(pc) /\ got' = Remember(pc, Answer(pc)) /\ UNCHANGED failure
  BY DEF Call
<1> DEFINE fault == IF kind = None /\ Answer(pc) = Missing THEN "unavailable" ELSE kind
           events == IF kind = None THEN CacheEvents(pc, asked) ELSE [CacheEvents(pc, asked) EXCEPT !.misses = 0]
           raised == kind # None
<1>3. CacheEvents(pc, asked) \in Events
  <2>1. [hits |-> 0, misses |-> 0] \in Events /\ [hits |-> 0, misses |-> 1] \in Events
        /\ [hits |-> 1, misses |-> 0] \in Events /\ [hits |-> 1, misses |-> 1] \in Events
        /\ [hits |-> 2, misses |-> 0] \in Events
    BY DEF Events
  <2> QED BY <2>1 DEF CacheEvents, NoEvents
<1>4. events \in Events BY <1>3 DEF Events
<1>5. /\ fault \in {None, "unavailable", "error"} /\ raised \in BOOLEAN
      /\ fault = None => Answer(pc) # Missing
      /\ fault # None => raised \/ Answer(pc) = Missing
  BY ServicesAssumption
<1>6. /\ retried => retries < MaxRetries
      /\ retries' = retries + (IF retried THEN 1 ELSE 0)
      /\ Record(pc, fault = None, retried, events)
      /\ raised => faults < MaxFaults
      /\ faults' = faults + (IF raised THEN 1 ELSE 0)
      /\ IF fault # None THEN Fail(fault) /\ UNCHANGED got
         ELSE pc' = NextCall(pc) /\ got' = Remember(pc, Answer(pc)) /\ UNCHANGED failure
  BY <1>2
<1> HIDE DEF fault, events, raised
<1>7. CallWith(fault, retried, raised, events) BY <1>5, <1>6 DEF CallWith
<1> QED BY <1>1, <1>4, <1>5, <1>7

-----------------------------------------------------------------------------
(* Points and stocks *)

\* Nothing changes a request, the market or the agent.
LEMMA SameInputs ==
  ASSUME [Next]_vars
  PROVE  UNCHANGED <<world, request, agent>>
<1>1. CASE UNCHANGED vars BY <1>1 DEF vars
<1>2. CASE Handle
  BY <1>2 DEF Handle, Inputs, Receive, InstallHandlers, Call, CheckWindow, Evaluate, StartStock, FinishStock,
              RestoreHandlers, WriteSampleFile, AskAgent, WriteAggregateFile, Reply
<1>3. CASE Crash BY <1>3 DEF Crash, Inputs
<1> QED BY <1>1, <1>2, <1>3 DEF Next

\* Every step leads to a point where the request may be.
LEMMA StepPoints ==
  ASSUME IInv, PointsOK, [Next]_vars
  PROVE  PointsOK'
<1> DEFINE points == BacktestPoints \cup {"received", "sample", "stock", "scanned", "artifacts", "review", "aggregate",
                                          "answered", "failed", "done", "dead"}
<1>1. UNCHANGED <<world, request>> BY SameInputs
<1>2. (world \in Worlds /\ request \in Requests /\ ValidRequest(request))'
  BY <1>1 DEF PointsOK, ValidRequest
<1>3. SUFFICES
        /\ pc' \in points
        /\ pc' \in {"stock", "scanned"} => request.kind = "scan"
        /\ pc' \in {"check", "adj_factor", "evaluate", "close"} => request.kind # "scan"
        /\ failure' \in {None, "unavailable", "error"}
        /\ failure' # None => pc' \in {"close", "scanned", "failed", "done", "dead"}
        /\ reply' \in {None, 200, 500, 503}
        /\ reply' # None => pc' = "done"
  BY <1>1, <1>2 DEF PointsOK, BacktestPoints
<1> USE DEF PointsOK, BacktestPoints
<1>4. CASE UNCHANGED vars BY <1>4 DEF vars
<1>5. CASE Receive BY <1>5 DEF Receive, Finish
<1>6. CASE InstallHandlers BY <1>6 DEF InstallHandlers
<1>7. CASE Call
  <2>1. PICK fault \in {None, "unavailable", "error"}, retried, raised \in BOOLEAN, events \in Events :
          CallWith(fault, retried, raised, events)
    BY <1>7, CallShape
  <2>2. pc \in CallPointsOf /\ reply' = reply BY <1>7, CallShape
  <2>3. pc \in {"trade_cal", "stock_basic", "daily", "cyq_chips", "adj_factor"} /\ failure = None /\ reply' = None
    BY <2>2 DEF CallPointsOf
  <2>4. CASE fault # None
    <3>1. failure' = fault
          /\ pc' = CASE Research -> "close" [] request.kind = "scan" /\ pc # "trade_cal" -> "scanned"
                     [] OTHER -> "failed"
      BY <2>1, <2>4 DEF CallWith, Fail
    <3>2. \/ Research /\ pc' = "close"
          \/ request.kind = "scan" /\ pc' = "scanned"
          \/ pc' = "failed"
      BY <3>1
    <3> QED BY <2>3, <3>1, <3>2 DEF Research
  <2>5. CASE fault = None
    <3>1. failure' = None /\ pc' = NextCall(pc) BY <2>1, <2>3, <2>5 DEF CallWith
    <3>2. CASE request.kind = "scan"
      <4>1. pc' \in {"stock", "cyq_chips", "daily", "scanned"} BY <2>3, <3>1, <3>2 DEF NextCall
      <4> QED BY <2>3, <3>1, <3>2, <4>1
    <3>3. CASE request.kind # "scan"
      <4>1. pc' = CASE pc = "trade_cal" -> "stock_basic" [] pc = "stock_basic" -> "daily"
                    [] pc = "daily" -> "cyq_chips" [] pc = "cyq_chips" -> "check" [] OTHER -> "evaluate"
        BY <3>1, <3>3 DEF NextCall
      <4>2. pc' \in {"stock_basic", "daily", "cyq_chips", "check", "evaluate"} BY <2>3, <4>1
      <4> QED BY <2>3, <3>1, <3>3, <4>2
    <3> QED BY <3>2, <3>3
  <2> QED BY <2>4, <2>5
<1>8. CASE CheckWindow BY <1>8 DEF CheckWindow, Fail, Research
<1>9. CASE Evaluate BY <1>9 DEF Evaluate, Fail, Research
<1>10. CASE StartStock BY <1>10 DEF StartStock, Fail, Research
<1>11. CASE FinishStock BY <1>11 DEF FinishStock
<1>12. CASE RestoreHandlers BY <1>12 DEF RestoreHandlers
<1>13. CASE WriteSampleFile
  <2>1. pc = "artifacts" /\ pc' \in {"artifacts", "sample", "review"} /\ UNCHANGED <<failure, reply>>
    BY <1>13 DEF WriteSampleFile
  <2> QED BY <2>1
<1>14. CASE AskAgent BY <1>14 DEF AskAgent
<1>15. CASE WriteAggregateFile
  <2>1. pc = "aggregate" /\ pc' \in {"aggregate", "answered"} /\ UNCHANGED <<failure, reply>>
    BY <1>15 DEF WriteAggregateFile
  <2> QED BY <2>1
<1>16. CASE Reply BY <1>16 DEF Reply, Finish, RunOutputs
<1>17. CASE Crash BY <1>17 DEF Crash, RunOutputs
<1> QED
  BY <1>4, <1>5, <1>6, <1>7, <1>8, <1>9, <1>10, <1>11, <1>12, <1>13, <1>14, <1>15, <1>16, <1>17 DEF Next, Handle

\* A call goes on with one of the next points.
LEMMA AfterCall ==
  ASSUME PointsOK, Call
  PROVE  /\ Research => pc' \in {"stock_basic", "daily", "cyq_chips", "check", "evaluate", "close"}
         /\ request.kind = "scan" => pc' \in {"stock", "cyq_chips", "daily", "scanned", "failed"}
         /\ request.kind \notin {"scan", "research"} => pc' \in {"stock_basic", "daily", "cyq_chips", "check", "evaluate", "failed"}
<1>1. PICK fault \in {None, "unavailable", "error"}, retried, raised \in BOOLEAN, events \in Events :
        CallWith(fault, retried, raised, events)
  BY CallShape
<1>2. pc \in {"trade_cal", "stock_basic", "daily", "cyq_chips", "adj_factor"} BY CallShape DEF CallPointsOf
<1>3. CASE fault # None
  <2>1. pc' = CASE Research -> "close" [] request.kind = "scan" /\ pc # "trade_cal" -> "scanned"
                [] OTHER -> "failed"
    BY <1>1, <1>3 DEF CallWith, Fail
  <2> QED BY <2>1 DEF Research
<1>4. CASE fault = None
  <2>1. pc' = NextCall(pc) BY <1>1, <1>4 DEF CallWith
  <2>2. CASE request.kind = "scan"
    <3>1. pc' \in {"stock", "cyq_chips", "daily", "scanned"} BY <1>2, <2>1, <2>2 DEF NextCall
    <3> QED BY <2>2, <3>1 DEF Research
  <2>3. CASE request.kind # "scan"
    <3>1. pc' = CASE pc = "trade_cal" -> "stock_basic" [] pc = "stock_basic" -> "daily"
                  [] pc = "daily" -> "cyq_chips" [] pc = "cyq_chips" -> "check" [] OTHER -> "evaluate"
      BY <2>1, <2>3 DEF NextCall
    <3>2. pc' \in {"stock_basic", "daily", "cyq_chips", "check", "evaluate"} BY <1>2, <3>1
    <3> QED BY <2>3, <3>2
  <2> QED BY <2>2, <2>3
<1> QED BY <1>3, <1>4

\* The codes of a scan are a sequence that is not empty.
LEMMA CodesOfScan ==
  ASSUME PointsOK, request.kind = "scan"
  PROVE  Len(request.codes) \in Nat \ {0} /\ DOMAIN request.codes = 1..Len(request.codes)
<1>1. request.codes \in Seq(ToSet(request.codes)) /\ request.codes # <<>>
  BY ServicesAssumption DEF PointsOK, ValidRequest
<1> QED BY <1>1

\* No step skips a stock, and no step of a backtest counts as one.
LEMMA StepItem ==
  ASSUME IInv, PointsOK, ItemOK, [Next]_vars
  PROVE  ItemOK'
<1>1. request' = request BY SameInputs
<1>2. CASE request.kind \notin {"scan", "research"}
  <2>1. item = 1 BY <1>2 DEF ItemOK
  <2>2. pc \notin {"scanned"} \cup RunPoints BY <1>2 DEF IInv, HandlersOK, Research, PointsOK
  <2>3. item' = item
    BY <2>2, Zenon DEF Next, Handle, Inputs, Receive, InstallHandlers, Call, CheckWindow, Evaluate, StartStock, FinishStock,
              RestoreHandlers, WriteSampleFile, AskAgent, WriteAggregateFile, Reply, Crash, vars, RunPoints
  <2> QED BY <1>1, <1>2, <2>1, <2>3 DEF ItemOK
<1>3. CASE request.kind = "research" BY <1>1, <1>3 DEF ItemOK
<1>4. CASE request.kind = "scan"
  <2> DEFINE n == Len(request.codes)
             points == {"received", "trade_cal", "stock_basic", "cyq_chips", "daily", "scanned"}
  <2>1. n \in Nat \ {0} BY <1>4, CodesOfScan
  <2>2. ~Research BY <1>4 DEF Research
  <2>3. /\ item \in 1..(n + 1) /\ Len(samples) = item - 1
        /\ pc \in points => item <= n
        /\ pc = "answered" \/ reply = 200 => item = n + 1
    BY <1>4 DEF ItemOK
  <2>4. SUFFICES /\ item' \in 1..(n + 1) /\ Len(samples') = item' - 1
                 /\ pc' \in points => item' <= n
                 /\ pc' = "answered" \/ reply' = 200 => item' = n + 1
    BY <1>1, <1>4 DEF ItemOK
  <2> HIDE DEF n
  <2>5. reply # None => pc = "done" BY DEF PointsOK
  <2>6. CASE UNCHANGED vars BY <2>3, <2>6 DEF vars
  <2>7. CASE Receive
    <3>1. pc = "received" /\ UNCHANGED <<item, samples>> /\ pc' = "trade_cal" /\ reply' = reply
      BY <1>4, <2>2, <2>7 DEF Receive
    <3> QED BY <2>3, <2>5, <3>1
  <2>8. CASE Call
    <3>1. UNCHANGED <<item, samples, reply>> /\ pc \in CallPointsOf /\ pc' # "answered" BY <1>4, <2>8, CallShape, AfterCall
    <3>2. pc \in {"trade_cal", "stock_basic", "cyq_chips", "daily", "adj_factor"} BY <3>1 DEF CallPointsOf
    <3>3. pc # "adj_factor" BY <1>4 DEF PointsOK
    <3> QED BY <2>3, <3>1, <3>2, <3>3
  <2>9. CASE StartStock
    <3>1. pc = "stock" /\ UNCHANGED <<item, samples, reply>> BY <2>9 DEF StartStock, RunOutputs
    <3>2. \/ item > n /\ pc' = "answered"
          \/ item <= n /\ pc' # "answered"
      <4>1. CASE item > n BY <2>9, <4>1 DEF StartStock, n
      <4>2. CASE ~(item > n) BY <2>1, <2>3, <2>9, <4>2 DEF StartStock, Fail, n
      <4> QED BY <4>1, <4>2
    <3>3. reply # 200 \/ item = n + 1 BY <2>3
    <3> QED BY <2>1, <2>3, <3>1, <3>2, <3>3
  <2>10. CASE FinishStock
    <3>1. pc = "scanned" /\ item' = item + 1 /\ pc' = "stock" /\ reply' = reply BY <2>10 DEF FinishStock
    <3>2. PICK s : samples' = Append(samples, s) BY <2>10 DEF FinishStock
    <3>3. Len(samples') = Len(samples) + 1 BY <3>2, AppendToAny DEF IInv, SamplesOK
    <3>4. reply # 200 \/ item = n + 1 BY <2>3
    <3>5. item <= n BY <2>3, <3>1
    <3> QED BY <2>1, <2>3, <3>1, <3>3, <3>4, <3>5
  <2>11. CASE Reply
    <3>1. UNCHANGED <<item, samples>> /\ pc' = "done" /\ (reply' = 200 => pc = "answered")
      BY <2>11 DEF Reply, Finish, RunOutputs
    <3> QED BY <2>3, <3>1
  <2>12. CASE Crash
    <3>1. UNCHANGED <<item, samples, reply>> /\ pc' = "dead" BY <2>12 DEF Crash, RunOutputs
    <3> QED BY <2>3, <3>1
  <2>13. CASE InstallHandlers BY <2>2, <2>13 DEF InstallHandlers, IInv, HandlersOK, RunPoints
  <2>14. CASE CheckWindow BY <1>4, <2>14 DEF CheckWindow, PointsOK
  <2>15. CASE Evaluate BY <1>4, <2>15 DEF Evaluate, PointsOK
  <2>16. CASE RestoreHandlers BY <2>2, <2>16 DEF RestoreHandlers, IInv, HandlersOK, RunPoints
  <2>17. CASE WriteSampleFile BY <2>2, <2>17 DEF WriteSampleFile, IInv, HandlersOK, RunPoints
  <2>18. CASE AskAgent BY <2>2, <2>18 DEF AskAgent, IInv, HandlersOK, RunPoints
  <2>19. CASE WriteAggregateFile BY <2>2, <2>19 DEF WriteAggregateFile, IInv, HandlersOK, RunPoints
  <2> QED BY <2>6, <2>7, <2>8, <2>9, <2>10, <2>11, <2>12, <2>13, <2>14, <2>15, <2>16, <2>17, <2>18, <2>19
          DEF Next, Handle
<1> QED BY <1>2, <1>3, <1>4

\* The start dates of a run are a sequence.
LEMMA StartsOfRun ==
  ASSUME PointsOK, Research
  PROVE  /\ request.starts \in Seq(ToSet(request.starts))
         /\ Len(request.starts) \in Nat /\ DOMAIN request.starts = 1..Len(request.starts)
         /\ \A i \in 1..Len(request.starts) : request.starts[i] \in ToSet(request.starts)
<1>1. request.starts \in Seq(ToSet(request.starts)) BY ServicesAssumption DEF PointsOK, Research
<1> QED BY <1>1

\* The sample a run is at.
LEMMA StartOfSample ==
  ASSUME IInv, PointsOK, Research, pc \in SamplePoints
  PROVE  /\ item \in 1..Len(request.starts) /\ Start = request.starts[item] /\ Start \in ToSet(request.starts)
<1>1. item \in 1..(Len(request.starts) + 1) /\ item <= Len(request.starts) /\ Len(request.starts) \in Nat
  BY StartsOfRun DEF IInv, SamplesOK
<1>2. item \in 1..Len(request.starts) BY <1>1
<1>3. Start = request.starts[item] BY DEF Start, Research
<1> QED BY <1>2, <1>3, StartsOfRun

\* What a call records, in a run.
LEMMA RecordInRun ==
  ASSUME Research, NEW endpoint, NEW ok \in BOOLEAN, NEW retried \in BOOLEAN, NEW events, Record(endpoint, ok, retried, events)
  PROVE  /\ \E sample : logs'.api = Append(logs.api, [sample |-> sample, endpoint |-> endpoint, ok |-> ok])
         /\ logs'.retries = logs.retries + (IF retried /\ client.retry = Start THEN 1 ELSE 0)
         /\ logs'.cache = IF client.cache = Start THEN AddEvents(logs.cache, events) ELSE logs.cache
         /\ memory' = IF client.cache = Start THEN AddEvents(memory, events) ELSE memory
<1>1. logs' = [api |-> Append(logs.api, [sample |-> Start, endpoint |-> endpoint, ok |-> ok]),
               retries |-> logs.retries + (IF retried /\ OfThisSample(client.retry) THEN 1 ELSE 0),
               cache |-> IF OfThisSample(client.cache) THEN AddEvents(logs.cache, events) ELSE logs.cache]
  BY DEF Record
<1>2. memory' = IF OfThisSample(client.cache) THEN AddEvents(memory, events) ELSE memory BY DEF Record
<1>3. \A h : OfThisSample(h) <=> h = Start BY DEF OfThisSample
<1> QED BY <1>1, <1>2, <1>3

\* Every retry of a client that reports them to the sample is counted in the log of the run.
LEMMA StepCounts ==
  ASSUME IInv, PointsOK, CountsOK, [Next]_vars
  PROVE  CountsOK'
<1> DEFINE owners == {None, Caller} \cup (IF Research THEN ToSet(request.starts) ELSE {})
<1>1. request' = request BY SameInputs
<1>2. Research' <=> Research BY <1>1 DEF Research
<1>3. MaxRetries \in Nat /\ MaxFaults \in Nat BY ServicesAssumption
<1>4. /\ retries \in 0..MaxRetries /\ logs.retries \in 0..retries /\ faults \in 0..MaxFaults
      /\ {client.retry, client.cache} \subseteq owners
      /\ Research /\ client.kind = "tushare" =>
           /\ logs.retries = retries
           /\ pc \in BacktestPoints => client.retry = Start
  BY DEF CountsOK
<1>5. owners' = owners BY <1>1, <1>2
<1>6. SUFFICES
        /\ retries' \in 0..MaxRetries /\ logs'.retries \in 0..retries' /\ faults' \in 0..MaxFaults
        /\ {client'.retry, client'.cache} \subseteq owners
        /\ Research /\ client'.kind = "tushare" =>
             /\ logs'.retries = retries'
             /\ pc' \in BacktestPoints => client'.retry = Start'
  BY <1>1, <1>2, <1>5 DEF CountsOK, BacktestPoints
<1> HIDE DEF owners
<1>7. CASE /\ UNCHANGED <<client, logs, retries, faults>>
           /\ Research /\ pc' \in BacktestPoints => pc \in BacktestPoints /\ item' = item
  <2>1. Research /\ pc' \in BacktestPoints => Start' = Start BY <1>1, <1>7 DEF Start, Research
  <2> QED BY <1>4, <1>7, <2>1
<1>8. CASE Call
  <2>1. PICK fault \in {None, "unavailable", "error"}, retried, raised \in BOOLEAN, events \in Events :
          CallWith(fault, retried, raised, events)
    BY <1>8, CallShape
  <2>2. UNCHANGED <<client, item>> /\ pc \in BacktestPoints BY <1>8, CallShape DEF CallPointsOf, BacktestPoints
  <2>3. /\ retried => retries < MaxRetries
        /\ raised => faults < MaxFaults
        /\ retries' = retries + (IF retried THEN 1 ELSE 0)
        /\ faults' = faults + (IF raised THEN 1 ELSE 0)
        /\ Record(pc, fault = None, retried, events)
    BY <2>1 DEF CallWith
  <2>4. retries' \in 0..MaxRetries
    <3>1. CASE retried BY <1>3, <1>4, <2>3, <3>1
    <3>2. CASE ~retried BY <1>3, <1>4, <2>3, <3>2
    <3> QED BY <3>1, <3>2
  <2>5. faults' \in 0..MaxFaults
    <3>1. CASE raised BY <1>3, <1>4, <2>3, <3>1
    <3>2. CASE ~raised BY <1>3, <1>4, <2>3, <3>2
    <3> QED BY <3>1, <3>2
  <2>6. Start' = Start BY <1>1, <2>2 DEF Start
  <2>7. CASE Research
    <3>1. logs'.retries = logs.retries + (IF retried /\ client.retry = Start THEN 1 ELSE 0)
      BY <2>3, <2>7, RecordInRun
    <3>2. logs'.retries \in 0..retries'
      <4>1. CASE retried BY <1>4, <2>3, <3>1, <4>1
      <4>2. CASE ~retried BY <1>4, <2>3, <3>1, <4>2
      <4> QED BY <4>1, <4>2
    <3>3. client.kind = "tushare" => logs'.retries = retries'
      BY <1>4, <2>2, <2>3, <2>7, <3>1
    <3> QED BY <1>4, <2>2, <2>4, <2>5, <2>6, <2>7, <3>2, <3>3
  <2>8. CASE ~Research
    <3>1. logs' = logs BY <2>3, <2>8 DEF Record
    <3>2. logs.retries \in 0..retries'
      <4>1. CASE retried BY <1>4, <2>3, <4>1
      <4>2. CASE ~retried BY <1>4, <2>3, <4>2
      <4> QED BY <4>1, <4>2
    <3> QED BY <1>4, <2>2, <2>4, <2>5, <2>8, <3>1, <3>2
  <2> QED BY <2>7, <2>8
<1>9. CASE InstallHandlers
  <2>1. /\ pc = "sample" /\ UNCHANGED <<item, logs, retries, faults>>
        /\ client' = [client EXCEPT !.retry = IF client.kind = "tushare" THEN Start ELSE @,
                                    !.cache = IF client.kind = "cached" THEN Start ELSE @]
    BY <1>9 DEF InstallHandlers, History
  <2>2. Research BY <2>1 DEF IInv, HandlersOK, RunPoints
  <2>3. Start \in ToSet(request.starts) BY <2>1, <2>2, StartOfSample DEF SamplePoints
  <2>4. Start \in owners BY <2>2, <2>3 DEF owners
  <2>5. DOMAIN client = {"kind", "retry", "cache"} BY DEF IInv, HandlersOK
  <2>6. /\ client'.kind = client.kind
        /\ client'.retry = IF client.kind = "tushare" THEN Start ELSE client.retry
        /\ client'.cache = IF client.kind = "cached" THEN Start ELSE client.cache
    BY <2>1, <2>5
  <2>7. Start' = Start BY <1>1, <2>1 DEF Start
  <2> QED BY <1>4, <2>1, <2>4, <2>6, <2>7
<1>10. CASE RestoreHandlers
  <2>1. /\ pc' \in {"artifacts", "failed"} /\ UNCHANGED <<logs, retries, faults>>
        /\ client' = [client EXCEPT !.retry = IF client.kind = "tushare" THEN saved.retry ELSE @,
                                    !.cache = IF client.kind = "cached" THEN saved.cache ELSE @]
    BY <1>10 DEF RestoreHandlers, RunOutputs, History
  <2>2. DOMAIN client = {"kind", "retry", "cache"} BY DEF IInv, HandlersOK
  <2>3. client'.kind = client.kind BY <2>1, <2>2
  <2>4. HandlersRestored' BY StepHandlers DEF IInv, HandlersOK
  <2>5. pc' \notin BacktestPoints \cup {"dead"} BY <2>1 DEF BacktestPoints
  <2>6. {client'.retry, client'.cache} \subseteq {None, Caller} BY <2>4, <2>5 DEF HandlersRestored, BacktestPoints
  <2>7. {None, Caller} \subseteq owners BY DEF owners
  <2> QED BY <1>4, <2>1, <2>3, <2>5, <2>6, <2>7
<1>11. \/ UNCHANGED vars \/ Receive \/ CheckWindow \/ Evaluate \/ StartStock \/ FinishStock \/ WriteSampleFile
       \/ AskAgent \/ WriteAggregateFile \/ Reply \/ Crash
       => UNCHANGED <<client, logs, retries, faults>>
  BY Zenon DEF vars, Receive, CheckWindow, Evaluate, StartStock, FinishStock, WriteSampleFile, AskAgent, WriteAggregateFile,
         Reply, Crash, RunOutputs, History
<1>12. UNCHANGED vars => pc' = pc /\ item' = item BY DEF vars
<1>13. CheckWindow \/ Evaluate => pc \in BacktestPoints /\ item' = item BY DEF CheckWindow, Evaluate, BacktestPoints
<1>14. StartStock \/ FinishStock => ~Research BY DEF StartStock, FinishStock, PointsOK, Research
<1>15. Receive /\ Research => pc' \notin BacktestPoints BY DEF Receive, Finish, BacktestPoints
<1>16. WriteSampleFile \/ AskAgent \/ WriteAggregateFile => pc' \notin BacktestPoints
  <2>1. WriteSampleFile => pc' \in {"artifacts", "sample", "review"} BY DEF WriteSampleFile
  <2>2. AskAgent => pc' = "aggregate" BY DEF AskAgent
  <2>3. WriteAggregateFile => pc' \in {"aggregate", "answered"} BY DEF WriteAggregateFile
  <2> QED BY <2>1, <2>2, <2>3 DEF BacktestPoints
<1>17. Reply \/ Crash => pc' \notin BacktestPoints BY DEF Reply, Crash, Finish, BacktestPoints
<1>18. CASE \/ UNCHANGED vars \/ Receive \/ CheckWindow \/ Evaluate \/ StartStock \/ FinishStock \/ WriteSampleFile
            \/ AskAgent \/ WriteAggregateFile \/ Reply \/ Crash
  BY <1>7, <1>11, <1>12, <1>13, <1>14, <1>15, <1>16, <1>17, <1>18
<1> QED BY <1>8, <1>9, <1>10, <1>18 DEF Next, Handle

\* Whatever else is written, the manifest is only written by the last step of a run.
LEMMA SameManifest ==
  ASSUME IInv, [Next]_vars, pc # "aggregate"
  PROVE  Written(Manifest)' => Written(Manifest)
<1>1. Written(Manifest)' => pc' \in {"answered", "done", "dead"} BY StepIInv DEF IInv, AnswerOK
<1>2. Manifest' = Manifest BY DEF Manifest
<1>3. CASE Receive
  <2>1. pc' = "done" => UNCHANGED files BY <1>3 DEF Receive, Finish
  <2>2. pc' \in {"done", "sample", "trade_cal"} BY <1>3 DEF Receive, Finish
  <2> QED BY <1>1, <1>2, <2>1, <2>2 DEF Written
<1>4. CASE WriteSampleFile
  <2>1. pc' \in {"artifacts", "sample", "review"} BY <1>4 DEF WriteSampleFile
  <2> QED BY <1>1, <2>1
<1>5. CASE WriteAggregateFile BY <1>5 DEF WriteAggregateFile
<1>6. CASE UNCHANGED files BY <1>2, <1>6 DEF Written
<1>7. UNCHANGED vars \/ InstallHandlers \/ Call \/ CheckWindow \/ Evaluate \/ StartStock \/ FinishStock \/ RestoreHandlers
      \/ AskAgent \/ Reply \/ Crash => UNCHANGED files
  BY Zenon DEF vars, InstallHandlers, Call, CheckWindow, Evaluate, StartStock, FinishStock, RestoreHandlers,
         AskAgent, Reply, Crash, RunOutputs, History
<1> QED BY <1>3, <1>4, <1>5, <1>6, <1>7 DEF Next, Handle

\* Every call has its row, and after a failed one there is none.
LEMMA StepRows ==
  ASSUME IInv, PointsOK, RowsOK, [Next]_vars
  PROVE  RowsOK'
<1>1. request' = request BY SameInputs
<1>2. Research' <=> Research BY <1>1 DEF Research
<1>3. CASE ~Research
  <2>1. logs.api = <<>> BY <1>3 DEF RowsOK
  <2>2. logs' = logs
    <3>1. CASE Call
      <4>1. PICK fault \in {None, "unavailable", "error"}, retried, raised \in BOOLEAN, events \in Events :
              CallWith(fault, retried, raised, events)
        BY <3>1, CallShape
      <4>2. Record(pc, fault = None, retried, events) BY <4>1 DEF CallWith
      <4> QED BY <1>3, <4>2 DEF Record
    <3>2. CASE ~Call
      BY <3>2, Zenon DEF Next, Handle, vars, Receive, InstallHandlers, CheckWindow, Evaluate, StartStock, FinishStock,
             RestoreHandlers, WriteSampleFile, AskAgent, WriteAggregateFile, Reply, Crash, RunOutputs
    <3> QED BY <3>1, <3>2
  <2> QED BY <1>2, <1>3, <2>1, <2>2 DEF RowsOK
<1>4. CASE Research
  <2> DEFINE rows == logs.api
  <2>1. /\ rows \in Seq({rows[i] : i \in DOMAIN rows}) /\ Len(rows) = calls
        /\ \A i \in DOMAIN rows : ~rows[i].ok =>
             /\ i = Len(rows) /\ ~Written(Manifest)
             /\ pc \in {"close", "failed", "done", "dead"} /\ (pc = "close" => failure # None)
    BY <1>4 DEF RowsOK
  <2>2. CASE Call
    <3>1. PICK fault \in {None, "unavailable", "error"}, retried, raised \in BOOLEAN, events \in Events :
            CallWith(fault, retried, raised, events)
      BY <2>2, CallShape
    <3>2. UNCHANGED files /\ calls' = calls + 1 BY <2>2, CallShape
    <3>3. pc \in {"trade_cal", "stock_basic", "daily", "cyq_chips", "adj_factor"} BY <2>2, CallShape DEF CallPointsOf
    <3> DEFINE ok == fault = None
    <3>4. Record(pc, ok, retried, events) BY <3>1 DEF CallWith
    <3>5. ~ok => failure' # None /\ pc' = "close"
      <4>1. ~ok => Fail(fault) BY <3>1 DEF CallWith
      <4>2. ASSUME Fail(fault) PROVE failure' = fault /\ pc' = "close"
        <5>1. failure' = fault
              /\ pc' = CASE Research -> "close" [] request.kind = "scan" /\ pc # "trade_cal" -> "scanned"
                         [] OTHER -> "failed"
          BY <4>2 DEF Fail
        <5> QED BY <1>4, <5>1 DEF Research
      <4> QED BY <4>1, <4>2
    <3>6. ok \in BOOLEAN OBVIOUS
    <3> HIDE DEF ok
    <3>7. PICK sample : logs'.api = Append(rows, [sample |-> sample, endpoint |-> pc, ok |-> ok])
      BY <1>4, <3>4, <3>6, RecordInRun
    <3> DEFINE row == [sample |-> sample, endpoint |-> pc, ok |-> ok]
               next == logs'.api
    <3>8. row.ok = ok OBVIOUS
    <3>9. next = Append(rows, row) BY <3>7
    <3> HIDE DEF row, rows
    <3>10. next \in Seq({next[i] : i \in DOMAIN next}) /\ Len(next) = Len(rows) + 1 BY <2>1, <3>9, AppendToAny
    <3>11. /\ DOMAIN next = 1..(Len(rows) + 1) /\ next[Len(rows) + 1] = row
           /\ \A i \in 1..Len(rows) : next[i] = rows[i]
      <4> DEFINE S == {rows[i] : i \in DOMAIN rows} \cup {row}
      <4>1. rows \in Seq(S) /\ row \in S BY <2>1
      <4> HIDE DEF S
      <4> QED BY <3>9, <4>1
    <3>12. Len(rows) \in Nat /\ DOMAIN rows = 1..Len(rows) BY <2>1
    <3>13. ~Written(Manifest)'
      <4>1. ~Written(Manifest) BY <3>3 DEF IInv, AnswerOK
      <4> QED BY <2>2, <3>2, <4>1 DEF Written, Manifest
    <3>14. ASSUME NEW i \in DOMAIN next, ~next[i].ok
           PROVE  i = Len(next) /\ pc' = "close" /\ failure' # None
      <4>1. CASE i \in 1..Len(rows)
        <5>1. ~rows[i].ok BY <3>11, <3>14, <4>1
        <5>2. pc \in {"close", "failed", "done", "dead"} BY <2>1, <3>12, <4>1, <5>1
        <5> QED BY <3>3, <5>2
      <4>2. CASE i = Len(rows) + 1
        <5>1. ~ok BY <3>8, <3>11, <3>14, <4>2
        <5> QED BY <3>5, <3>10, <4>2, <5>1
      <4> QED BY <3>11, <3>12, <4>1, <4>2
    <3>15. Len(next) = calls' BY <2>1, <3>2, <3>10
    <3> QED BY <1>2, <1>4, <3>10, <3>13, <3>14, <3>15 DEF RowsOK
  <2>3. CASE ~Call
    <3>1. logs' = logs /\ calls' = calls
      BY <2>3, Zenon DEF Next, Handle, vars, Receive, InstallHandlers, CheckWindow, Evaluate, StartStock, FinishStock,
             RestoreHandlers, WriteSampleFile, AskAgent, WriteAggregateFile, Reply, Crash, RunOutputs, History
    <3>2. ASSUME NEW i \in DOMAIN rows, ~rows[i].ok
          PROVE  /\ i = Len(rows) /\ ~Written(Manifest)'
                 /\ pc' \in {"close", "failed", "done", "dead"} /\ (pc' = "close" => failure' # None)
      <4>1. /\ i = Len(rows) /\ ~Written(Manifest)
            /\ pc \in {"close", "failed", "done", "dead"} /\ (pc = "close" => failure # None)
        BY <2>1, <3>2
      <4>2. ~Written(Manifest)' BY <4>1, SameManifest
      <4>3. pc' \in {"close", "failed", "done", "dead"} /\ (pc' = "close" => failure' # None)
        <5>1. CASE RestoreHandlers BY <4>1, <5>1 DEF RestoreHandlers
        <5>2. CASE Reply BY <5>2 DEF Reply, Finish
        <5>3. CASE Crash BY <5>3 DEF Crash
        <5>4. CASE UNCHANGED vars BY <4>1, <5>4 DEF vars
        <5>5. ~(Receive \/ InstallHandlers \/ CheckWindow \/ Evaluate \/ StartStock \/ FinishStock \/ WriteSampleFile
                \/ AskAgent \/ WriteAggregateFile)
          BY <4>1 DEF Receive, InstallHandlers, CheckWindow, Evaluate, StartStock, FinishStock, WriteSampleFile,
                AskAgent, WriteAggregateFile
        <5> QED BY <2>3, <5>1, <5>2, <5>3, <5>4, <5>5 DEF Next, Handle
      <4> QED BY <4>1, <4>2, <4>3
    <3> HIDE DEF rows
    <3>3. logs'.api = rows BY <3>1 DEF rows
    <3> QED BY <1>2, <1>4, <2>1, <3>1, <3>2, <3>3 DEF RowsOK
  <2> QED BY <2>2, <2>3
<1> QED BY <1>3, <1>4

-----------------------------------------------------------------------------
(* Sums of cache events *)

LEMMA EventsAdd ==
  /\ NoEvents \in Events
  /\ \A a, b \in Events : AddEvents(a, b) \in Events
  /\ \A a, b, c \in Events : AddEvents(AddEvents(a, b), c) = AddEvents(a, AddEvents(b, c))
  /\ \A a \in Events : AddEvents(a, NoEvents) = a
<1>1. NoEvents \in Events BY DEF NoEvents, Events
<1>2. ASSUME NEW a \in Events, NEW b \in Events PROVE AddEvents(a, b) \in Events
  BY DEF AddEvents, Events
<1>3. ASSUME NEW a \in Events, NEW b \in Events, NEW c \in Events
      PROVE  AddEvents(AddEvents(a, b), c) = AddEvents(a, AddEvents(b, c))
  <2>1. (a.hits + b.hits) + c.hits = a.hits + (b.hits + c.hits) /\ (a.misses + b.misses) + c.misses = a.misses + (b.misses + c.misses)
    BY DEF Events
  <2> QED BY <2>1 DEF AddEvents
<1>4. ASSUME NEW a \in Events PROVE AddEvents(a, NoEvents) = a BY DEF AddEvents, Events, NoEvents
<1> QED BY <1>1, <1>2, <1>3, <1>4

\* The sums of the first summaries of s.
Totals(f, s, n) ==
  f \in [0..n -> Events] /\ f[0] = NoEvents /\ \A i \in 1..n : f[i] = AddEvents(f[i - 1], s[i])

LEMMA TotalsExist ==
  ASSUME NEW N \in Nat, NEW s \in [1..N -> Events]
  PROVE  \E f : Totals(f, s, N)
<1> DEFINE T == {n \in Nat : n <= N => \E f : Totals(f, s, n)}
<1>1. 0 \in T
  <2> DEFINE f == [i \in 0..0 |-> NoEvents]
  <2>1. f \in [0..0 -> Events] /\ f[0] = NoEvents BY EventsAdd
  <2> HIDE DEF f
  <2>2. Totals(f, s, 0) BY <2>1 DEF Totals
  <2> QED BY <2>2
<1>2. ASSUME NEW n \in T PROVE n + 1 \in T
  <2> SUFFICES ASSUME n + 1 <= N PROVE \E f : Totals(f, s, n + 1) OBVIOUS
  <2>1. n \in Nat /\ n <= N /\ n + 1 \in 1..N OBVIOUS
  <2>2. PICK f : Totals(f, s, n) BY <2>1
  <2> DEFINE next == AddEvents(f[n], s[n + 1])
             h == [i \in 0..(n + 1) |-> IF i = n + 1 THEN next ELSE f[i]]
  <2>3. f \in [0..n -> Events] /\ f[n] \in Events /\ s[n + 1] \in Events BY <2>1, <2>2 DEF Totals
  <2>4. next \in Events BY <2>3, EventsAdd
  <2> HIDE DEF next
  <2>5. h \in [0..(n + 1) -> Events] BY <2>1, <2>3, <2>4
  <2>6. h[n + 1] = next /\ \A i \in 0..n : h[i] = f[i] BY <2>1
  <2> HIDE DEF h
  <2>7. h[0] = NoEvents BY <2>1, <2>2, <2>6 DEF Totals
  <2>8. ASSUME NEW i \in 1..(n + 1) PROVE h[i] = AddEvents(h[i - 1], s[i])
    <3>1. CASE i = n + 1
      <4>1. h[i - 1] = f[n] BY <2>1, <2>6, <3>1
      <4> QED BY <2>6, <3>1, <4>1 DEF next
    <3>2. CASE i # n + 1
      <4>1. i \in 1..n /\ i - 1 \in 0..n /\ i \in 0..n BY <2>1, <3>2
      <4> QED BY <2>2, <2>6, <4>1 DEF Totals
    <3> QED BY <3>1, <3>2
  <2>9. Totals(h, s, n + 1) BY <2>5, <2>7, <2>8 DEF Totals
  <2> QED BY <2>9
<1> HIDE DEF T
<1>3. T \subseteq Nat BY DEF T
<1>4. N \in T BY <1>1, <1>2, <1>3, AllNaturals
<1> QED BY <1>4 DEF T

\* Sums of the same summaries are the same.
LEMMA TotalsAgree ==
  ASSUME NEW N \in Nat, NEW s, NEW t, \A i \in 1..N : s[i] = t[i],
         NEW f, Totals(f, s, N), NEW M \in Nat, N <= M, NEW g, Totals(g, t, M)
  PROVE  f[N] = g[N]
<1> DEFINE T == {n \in Nat : n <= N => f[n] = g[n]}
<1>1. 0 \in T BY DEF Totals
<1>2. ASSUME NEW n \in T PROVE n + 1 \in T
  <2> SUFFICES ASSUME n + 1 <= N PROVE f[n + 1] = g[n + 1] OBVIOUS
  <2>1. n \in Nat /\ f[n] = g[n] /\ n + 1 \in 1..N /\ n + 1 \in 1..M /\ (n + 1) - 1 = n OBVIOUS
  <2>2. f[n + 1] = AddEvents(f[n], s[n + 1]) BY <2>1 DEF Totals
  <2>3. g[n + 1] = AddEvents(g[n], t[n + 1]) BY <2>1 DEF Totals
  <2> QED BY <2>1, <2>2, <2>3
<1> HIDE DEF T
<1>3. T \subseteq Nat BY DEF T
<1>4. N \in T BY <1>1, <1>2, <1>3, AllNaturals
<1> QED BY <1>4 DEF T

\* The recursive sum is the last of the sums.
LEMMA SumIsLastTotal ==
  ASSUME NEW N \in Nat, NEW s \in [1..N -> Events], Len(s) = N
  PROVE  \E f : Totals(f, s, N) /\ SumEvents(s) = f[N]
<1> DEFINE Eq(f) == f = [n \in 0..N |-> IF n = 0 THEN NoEvents ELSE AddEvents(f[n - 1], s[n])]
           g == CHOOSE f : Eq(f)
<1>1. PICK f : Totals(f, s, N) BY TotalsExist
<1>2. Eq(f)
  <2> DEFINE e(n) == IF n = 0 THEN NoEvents ELSE AddEvents(f[n - 1], s[n])
  <2>1. \A n \in 0..N : f[n] = e(n)
    <3> TAKE n \in 0..N
    <3>1. CASE n = 0 BY <1>1, <3>1 DEF Totals
    <3>2. CASE n # 0
      <4>1. n \in 1..N BY <3>2
      <4> QED BY <1>1, <3>2, <4>1 DEF Totals
    <3> QED BY <3>1, <3>2
  <2> HIDE DEF e
  <2>2. f = [n \in 0..N |-> e(n)] BY <1>1, <2>1 DEF Totals
  <2> QED BY <2>2 DEF e
<1> HIDE DEF Eq
<1>3. Eq(g) BY <1>2
<1> HIDE DEF g
<1>4. SumEvents(s) = g[N]
  <2>1. g = CHOOSE sum : sum = [n \in 0..N |-> IF n = 0 THEN NoEvents ELSE AddEvents(sum[n - 1], s[n])]
    BY DEF g, Eq
  <2> QED BY <2>1 DEF SumEvents
<1>5. \A n \in 0..N : g[n] = IF n = 0 THEN NoEvents ELSE AddEvents(g[n - 1], s[n])
  <2> DEFINE e(n) == IF n = 0 THEN NoEvents ELSE AddEvents(g[n - 1], s[n])
  <2>1. g = [n \in 0..N |-> e(n)] BY <1>3 DEF Eq
  <2> HIDE DEF e
  <2>2. \A n \in 0..N : g[n] = e(n) BY <2>1
  <2> QED BY <2>2 DEF e
<1>6. DOMAIN g = 0..N /\ g = [n \in 0..N |-> g[n]]
  <2> DEFINE e(n) == IF n = 0 THEN NoEvents ELSE AddEvents(g[n - 1], s[n])
  <2>1. g = [n \in 0..N |-> e(n)] BY <1>3 DEF Eq
  <2> HIDE DEF e
  <2> QED BY <2>1
<1> DEFINE T == {n \in Nat : n <= N => g[n] \in Events}
<1>7. N \in T /\ T = Nat
  <2>1. 0 \in T BY <1>5, EventsAdd
  <2>2. ASSUME NEW n \in T PROVE n + 1 \in T
    <3> SUFFICES ASSUME n + 1 <= N PROVE g[n + 1] \in Events OBVIOUS
    <3>1. n \in Nat /\ n + 1 \in 0..N /\ n + 1 # 0 /\ (n + 1) - 1 = n /\ n + 1 \in 1..N OBVIOUS
    <3>2. g[n + 1] = AddEvents(g[n], s[n + 1]) BY <1>5, <3>1
    <3>3. g[n] \in Events /\ s[n + 1] \in Events BY <3>1
    <3> QED BY <3>2, <3>3, EventsAdd
  <2> HIDE DEF T
  <2>3. T \subseteq Nat BY DEF T
  <2> QED BY <2>1, <2>2, <2>3, AllNaturals
<1>8. \A n \in 0..N : g[n] \in Events BY <1>7
<1>9. Totals(g, s, N)
  <2>1. g \in [0..N -> Events] BY <1>6, <1>8
  <2>2. g[0] = NoEvents BY <1>5
  <2>3. ASSUME NEW i \in 1..N PROVE g[i] = AddEvents(g[i - 1], s[i])
    <3>1. i \in 0..N /\ i # 0 OBVIOUS
    <3> QED BY <1>5, <3>1
  <2> QED BY <2>1, <2>2, <2>3 DEF Totals
<1> QED BY <1>4, <1>9

\* The sum of none, and of one more.
LEMMA SumOfNone == SumEvents(<<>>) = NoEvents
<1>1. <<>> \in [1..0 -> Events] /\ Len(<<>>) = 0 OBVIOUS
<1>2. PICK f : Totals(f, <<>>, 0) /\ SumEvents(<<>>) = f[0] BY <1>1, SumIsLastTotal
<1> QED BY <1>2 DEF Totals

LEMMA SumOfMore ==
  ASSUME NEW N \in Nat, NEW s \in [1..N -> Events], Len(s) = N,
         NEW t \in [1..(N + 1) -> Events], Len(t) = N + 1, \A i \in 1..N : t[i] = s[i]
  PROVE  SumEvents(s) \in Events /\ SumEvents(t) = AddEvents(SumEvents(s), t[N + 1])
<1>1. PICK f : Totals(f, s, N) /\ SumEvents(s) = f[N] BY SumIsLastTotal
<1>2. N + 1 \in Nat OBVIOUS
<1>3. PICK g : Totals(g, t, N + 1) /\ SumEvents(t) = g[N + 1] BY <1>2, SumIsLastTotal
<1>4. \A i \in 1..N : s[i] = t[i] OBVIOUS
<1>5. f[N] = g[N] BY <1>1, <1>2, <1>3, <1>4, TotalsAgree
<1>6. g[N + 1] = AddEvents(g[N], t[N + 1])
  <2>1. N + 1 \in 1..(N + 1) /\ (N + 1) - 1 = N OBVIOUS
  <2> QED BY <1>3, <2>1 DEF Totals
<1>7. f[N] \in Events BY <1>1 DEF Totals
<1> QED BY <1>1, <1>3, <1>5, <1>6, <1>7

LEMMA SumInEvents ==
  ASSUME NEW N \in Nat, NEW s \in [1..N -> Events], Len(s) = N
  PROVE  SumEvents(s) \in Events
<1>1. PICK f : Totals(f, s, N) /\ SumEvents(s) = f[N] BY SumIsLastTotal
<1> QED BY <1>1 DEF Totals

-----------------------------------------------------------------------------
(* What the log says of the caches *)

\* The summaries of the finished samples, as a sequence.
LEMMA CachesShape ==
  ASSUME IInv, PointsOK, CachesOK, Research
  PROVE  /\ Len(samples) \in Nat /\ DOMAIN samples = 1..Len(samples) /\ Len(samples) = item - 1
         /\ item \in 1..(Len(request.starts) + 1) /\ Len(request.starts) \in Nat
         /\ Caches \in [1..Len(samples) -> Events] /\ Len(Caches) = Len(samples)
         /\ \A i \in 1..Len(samples) : Caches[i] = files[ScoreFile(request.starts[i])].cache
<1>1. /\ samples \in Seq({samples[i] : i \in DOMAIN samples}) /\ Len(samples) = item - 1
      /\ item \in 1..(Len(request.starts) + 1) /\ Len(request.starts) \in Nat
  BY StartsOfRun DEF IInv, SamplesOK
<1>2. Len(samples) \in Nat /\ DOMAIN samples = 1..Len(samples) BY <1>1
<1>3. \A i \in DOMAIN samples :
        samples[i].sample = request.starts[i] /\ files[ScoreFile(request.starts[i])].cache \in Events
  BY DEF CachesOK
<1>4. \A i \in DOMAIN samples : <<samples[i].sample, "backtest_score.json">> = ScoreFile(request.starts[i])
  BY <1>3 DEF ScoreFile
<1>5. Caches = [i \in DOMAIN samples |-> files[<<samples[i].sample, "backtest_score.json">>].cache] BY DEF Caches
<1>6. DOMAIN Caches = DOMAIN samples BY <1>5
<1>7. \A i \in DOMAIN samples : Caches[i] = files[ScoreFile(request.starts[i])].cache BY <1>4, <1>5
<1>8. Caches = [i \in DOMAIN samples |-> Caches[i]] BY <1>5
<1>9. Caches \in [1..Len(samples) -> Events] BY <1>2, <1>3, <1>7, <1>8
<1>10. Len(Caches) = Len(samples) BY <1>2, <1>9
<1> QED BY <1>1, <1>2, <1>7, <1>9, <1>10

\* A step that finishes no sample and writes no score of one.
LEMMA CachesStay ==
  ASSUME IInv, PointsOK, CachesOK, Research, UNCHANGED <<request, item, samples>>,
         \A p \in DOMAIN files : p \in DOMAIN files' /\ files'[p] = files[p],
         \A p \in DOMAIN files' : p \in DOMAIN files \/ p[2] # "backtest_score.json",
         pc \in {"artifacts", "dead"} => pc' \in {"artifacts", "dead"} /\ memory' = memory,
         logs'.cache \in Events, memory' \in Events,
         pc' \in BacktestPoints \cup {"artifacts"} => logs'.cache = AddEvents(SumEvents(Caches), memory'),
         pc' \in {"received", "sample", "review", "aggregate"} => logs'.cache = SumEvents(Caches)
  PROVE  CachesOK' /\ Caches' = Caches
<1>1. Research' BY DEF Research
<1>2. \A i \in DOMAIN samples :
        /\ samples[i].sample = request.starts[i]
        /\ Written(ScoreFile(request.starts[i])) /\ files[ScoreFile(request.starts[i])].cache \in Events
  BY DEF CachesOK
<1>3. \A s : ScoreFile(s) \in DOMAIN files' => ScoreFile(s) \in DOMAIN files BY DEF ScoreFile
<1>4. Caches' = Caches
  <2>1. ASSUME NEW i \in DOMAIN samples
        PROVE  files'[<<samples[i].sample, "backtest_score.json">>] = files[<<samples[i].sample, "backtest_score.json">>]
    <3>1. <<samples[i].sample, "backtest_score.json">> \in DOMAIN files BY <1>2 DEF ScoreFile, Written
    <3> QED BY <3>1
  <2>2. samples' = samples OBVIOUS
  <2> QED BY <2>1, <2>2, Zenon DEF Caches
<1>5. ASSUME NEW i \in DOMAIN samples'
      PROVE  /\ samples'[i].sample = request'.starts[i]
             /\ ScoreFile(request'.starts[i]) \in DOMAIN files' /\ files'[ScoreFile(request'.starts[i])].cache \in Events
  <2>1. ScoreFile(request.starts[i]) \in DOMAIN files BY <1>2 DEF Written
  <2> QED BY <1>2, <2>1
<1>6. ASSUME NEW i \in item..Len(request.starts), ScoreFile(request.starts[i]) \in DOMAIN files'
      PROVE  /\ i = item /\ pc' \in {"artifacts", "dead"}
             /\ files'[ScoreFile(request.starts[i])].cache = memory'
  <2>1. Written(ScoreFile(request.starts[i])) BY <1>3, <1>6 DEF Written
  <2>2. i = item /\ pc \in {"artifacts", "dead"} /\ files[ScoreFile(request.starts[i])].cache = memory
    BY <2>1 DEF CachesOK
  <2> QED BY <2>1, <2>2 DEF Written
<1> HIDE DEF Caches
<1>7. (\A i \in DOMAIN samples :
         /\ samples[i].sample = request.starts[i]
         /\ Written(ScoreFile(request.starts[i])) /\ files[ScoreFile(request.starts[i])].cache \in Events)'
  BY <1>5 DEF Written, ScoreFile
<1>8. (\A i \in item..Len(request.starts) : Written(ScoreFile(request.starts[i])) =>
         /\ i = item /\ pc \in {"artifacts", "dead"}
         /\ files[ScoreFile(request.starts[i])].cache = memory)'
  BY <1>6 DEF Written, ScoreFile
<1>9. (pc \in BacktestPoints \cup {"artifacts"} => logs.cache = AddEvents(SumEvents(Caches), memory))'
  <2>1. pc' \in BacktestPoints \cup {"artifacts"} => logs'.cache = AddEvents(SumEvents(Caches'), memory') BY <1>4
  <2> QED BY <2>1 DEF BacktestPoints, AddEvents, SumEvents, NoEvents
<1>10. (pc \in {"received", "sample", "review", "aggregate"} => logs.cache = SumEvents(Caches))'
  <2>1. pc' \in {"received", "sample", "review", "aggregate"} => logs'.cache = SumEvents(Caches') BY <1>4
  <2> QED BY <2>1 DEF AddEvents, SumEvents, NoEvents
<1>11. (logs.cache \in Events /\ memory \in Events)' BY DEF Events
<1> QED BY <1>1, <1>4, <1>7, <1>8, <1>9, <1>10, <1>11 DEF CachesOK

\* A file of a sample: its score has what was remembered, and the last one makes it a finished sample.
LEMMA SampleWriteCaches ==
  ASSUME IInv, PointsOK, CachesOK, WriteSampleFile
  PROVE  CachesOK'
<1> DEFINE n == SignalCount
           order == SampleFiles(Start)
<1>1. /\ Research /\ request \in Requests /\ ValidRequest(request)
      /\ item \in 1..Len(request.starts) /\ Len(request.starts) \in Nat /\ Start = request.starts[item]
      /\ request' = request
  BY SampleWrite
<1>2. PICK i \in 1..(n + 6) :
        /\ order[i] \notin DOMAIN files
        /\ \A j \in 1..(i - 1) : order[j] \in DOMAIN files
        /\ files' = WithFile(files, order[i], SampleContent(order[i]))
        /\ IF i = n + 6
           THEN /\ \E s : samples' = Append(samples, s)
                /\ item' = item + 1
                /\ pc' = IF item < Len(request.starts) THEN "sample" ELSE "review"
           ELSE UNCHANGED <<item, samples, pc>>
  BY SampleWrite
<1> DEFINE path == order[i]
<1>3. DOMAIN files' = DOMAIN files \cup {path} /\ \A p \in DOMAIN files : files'[p] = files[p]
  BY <1>1, <1>2, SampleWriteKeepsFiles
<1>4. files'[path] = SampleContent(path) BY <1>2, WrittenFile
<1>5. path[1] = Start BY <1>1, SamplePaths
<1>6. /\ n \in Nat /\ order[n + 5] = ScoreFile(Start)
      /\ order[n + 6] = <<Start, "backtest", "manifest.json">>
  BY <1>1, SampleOrder DEF ScoreFile
<1>7. UNCHANGED <<logs, memory>> /\ pc = "artifacts" BY DEF WriteSampleFile
<1>8. path = ScoreFile(Start) => files'[path].cache = memory
  <2>1. ASSUME path = ScoreFile(Start) PROVE SampleContent(path) = [scores |-> StrategyScores, cache |-> memory]
    <3>1. path[2] = "backtest_score.json" BY <2>1 DEF ScoreFile
    <3> HIDE DEF path
    <3> QED BY <3>1 DEF SampleContent, Stages
  <2> HIDE DEF path
  <2> QED BY <1>4, <2>1
<1>9. \A s : ScoreFile(s) = path => s = Start
  <2> HIDE DEF path
  <2> QED BY <1>5 DEF ScoreFile
<1>10. /\ logs.cache \in Events /\ memory \in Events
       /\ \A k \in DOMAIN samples :
            /\ samples[k].sample = request.starts[k]
            /\ ScoreFile(request.starts[k]) \in DOMAIN files /\ files[ScoreFile(request.starts[k])].cache \in Events
       /\ \A k \in item..Len(request.starts) : ScoreFile(request.starts[k]) \in DOMAIN files =>
            k = item /\ files[ScoreFile(request.starts[k])].cache = memory
       /\ logs.cache = AddEvents(SumEvents(Caches), memory)
  BY <1>1, <1>7 DEF CachesOK, Written
<1> HIDE DEF order, path
<1>11. \A k \in item..Len(request.starts) : request.starts[k] = Start => k = item
  <2>1. IsInjective(request.starts) BY <1>1 DEF ValidRequest, Research
  <2>2. DOMAIN request.starts = 1..Len(request.starts) BY <1>1, StartsOfRun
  <2> QED BY <1>1, <2>1, <2>2 DEF IsInjective
<1>12. ASSUME NEW k \in item..Len(request.starts), ScoreFile(request.starts[k]) \in DOMAIN files'
       PROVE  k = item /\ files'[ScoreFile(request.starts[k])].cache = memory
  <2>1. CASE ScoreFile(request.starts[k]) = path BY <1>1, <1>8, <1>9, <1>11, <2>1
  <2>2. CASE ScoreFile(request.starts[k]) \in DOMAIN files BY <1>3, <1>10, <2>2
  <2> QED BY <1>3, <1>12, <2>1, <2>2
<1>13. CASE i # n + 6
  <2>1. UNCHANGED <<item, samples, pc>> BY <1>2, <1>13
  <2>2. Caches' = Caches
    <3>1. ASSUME NEW k \in DOMAIN samples
          PROVE  files'[<<samples[k].sample, "backtest_score.json">>] = files[<<samples[k].sample, "backtest_score.json">>]
      <4>1. <<samples[k].sample, "backtest_score.json">> \in DOMAIN files BY <1>10 DEF ScoreFile
      <4> QED BY <1>3, <4>1
    <3>2. samples' = samples BY <2>1
    <3> QED BY <3>1, <3>2, Zenon DEF Caches
  <2>3. \A k \in DOMAIN samples :
          /\ samples[k].sample = request.starts[k]
          /\ ScoreFile(request.starts[k]) \in DOMAIN files' /\ files'[ScoreFile(request.starts[k])].cache \in Events
    BY <1>3, <1>10
  <2>4. (/\ logs.cache \in Events /\ memory \in Events
         /\ \A k \in DOMAIN samples :
              /\ samples[k].sample = request.starts[k]
              /\ Written(ScoreFile(request.starts[k])) /\ files[ScoreFile(request.starts[k])].cache \in Events)'
    BY <1>1, <1>7, <1>10, <2>1, <2>3 DEF Written, ScoreFile, Events
  <2>5. (\A k \in item..Len(request.starts) : Written(ScoreFile(request.starts[k])) =>
           /\ k = item /\ pc \in {"artifacts", "dead"}
           /\ files[ScoreFile(request.starts[k])].cache = memory)'
    BY <1>1, <1>7, <1>12, <2>1 DEF Written, ScoreFile
  <2>6. logs'.cache = AddEvents(SumEvents(Caches'), memory') BY <1>7, <1>10, <2>2
  <2>7. pc' = "artifacts" BY <1>7, <2>1
  <2>8. (logs.cache = AddEvents(SumEvents(Caches), memory))' BY <2>6 DEF AddEvents, SumEvents, NoEvents
  <2> QED BY <2>4, <2>5, <2>7, <2>8 DEF CachesOK
<1>14. CASE i = n + 6
  <2>1. item' = item + 1 /\ pc' \in {"sample", "review"} BY <1>2, <1>14
  <2>2. PICK result : samples' = Append(samples, result) /\ result.sample = Start
    <3>1. item' # item BY <1>1, <2>1
    <3> DEFINE result == [sample |-> Start, signalDate |-> backtest.signalDate, strategies |-> StrategyScores]
    <3>2. samples' = Append(samples, result) BY <3>1 DEF WriteSampleFile
    <3>3. result.sample = Start OBVIOUS
    <3> QED BY <3>2, <3>3
  <2> DEFINE N == Len(samples)
  <2>3. /\ N \in Nat /\ DOMAIN samples = 1..N /\ N = item - 1
        /\ Caches \in [1..N -> Events] /\ Len(Caches) = N
        /\ \A k \in 1..N : Caches[k] = files[ScoreFile(request.starts[k])].cache
    BY <1>1, CachesShape
  <2>4. Len(samples') = N + 1 BY <2>2, AppendToAny DEF IInv, SamplesOK
  <2>5. /\ DOMAIN samples' = 1..(N + 1) /\ samples'[N + 1] = result
        /\ \A k \in 1..N : samples'[k] = samples[k]
    <3> DEFINE S == {samples[k] : k \in DOMAIN samples} \cup {result}
    <3>1. samples \in Seq(S) /\ result \in S BY DEF IInv, SamplesOK
    <3> HIDE DEF S
    <3> QED BY <2>2, <3>1
  <2>6. ScoreFile(Start) \in DOMAIN files /\ files[ScoreFile(Start)].cache = memory
    <3>1. n + 5 \in 1..(i - 1) BY <1>6, <1>14
    <3>2. ScoreFile(Start) \in DOMAIN files BY <1>2, <1>6, <3>1
    <3>3. item \in item..Len(request.starts) BY <1>1
    <3> QED BY <1>1, <1>10, <3>2, <3>3
  <2>7. ASSUME NEW k \in 1..(N + 1)
        PROVE  /\ samples'[k].sample = request.starts[k]
               /\ ScoreFile(request.starts[k]) \in DOMAIN files' /\ files'[ScoreFile(request.starts[k])].cache \in Events
               /\ files'[ScoreFile(request.starts[k])].cache = IF k = N + 1 THEN memory ELSE Caches[k]
    <3>1. CASE k = N + 1
      <4>1. samples'[k].sample = Start /\ Start = request.starts[k] BY <1>1, <2>2, <2>3, <2>5, <3>1
      <4> QED BY <1>3, <1>10, <2>6, <3>1, <4>1
    <3>2. CASE k # N + 1
      <4>1. k \in 1..N BY <2>3, <3>2
      <4> QED BY <1>3, <1>10, <2>3, <2>5, <3>2, <4>1
    <3> QED BY <3>1, <3>2
  <2> DEFINE t == Caches'
  <2>8. t = [k \in DOMAIN samples' |-> files'[<<samples'[k].sample, "backtest_score.json">>].cache]
    BY DEF Caches
  <2> HIDE DEF t, N
  <2>9. DOMAIN t = 1..(N + 1) BY <2>5, <2>8
  <2>10. \A k \in 1..(N + 1) : t[k] = IF k = N + 1 THEN memory ELSE Caches[k]
    <3> TAKE k \in 1..(N + 1)
    <3>1. t[k] = files'[<<samples'[k].sample, "backtest_score.json">>].cache BY <2>5, <2>8
    <3>2. <<samples'[k].sample, "backtest_score.json">> = ScoreFile(request.starts[k]) BY <2>7 DEF ScoreFile
    <3> QED BY <2>7, <3>1, <3>2
  <2>11. t \in [1..(N + 1) -> Events] /\ Len(t) = N + 1
    <3>1. t = [k \in 1..(N + 1) |-> t[k]] BY <2>5, <2>8
    <3>2. \A k \in 1..(N + 1) : t[k] \in Events BY <1>10, <2>3, <2>10
    <3>3. t \in [1..(N + 1) -> Events] BY <3>1, <3>2
    <3> QED BY <2>3, <3>3
  <2>12. SumEvents(t) = AddEvents(SumEvents(Caches), memory)
    <3>1. \A k \in 1..N : t[k] = Caches[k] BY <2>3, <2>10
    <3>2. t[N + 1] = memory BY <2>3, <2>10
    <3> HIDE DEF Caches
    <3>3. SumEvents(t) = AddEvents(SumEvents(Caches), t[N + 1]) BY <2>3, <2>11, <3>1, SumOfMore
    <3> QED BY <3>2, <3>3
  <2>13. logs'.cache = SumEvents(t) BY <1>7, <1>10, <2>12
  <2>14. (logs.cache = SumEvents(Caches))' BY <2>13 DEF t, SumEvents, AddEvents, NoEvents
  <2>15. (/\ logs.cache \in Events /\ memory \in Events
          /\ \A k \in DOMAIN samples :
               /\ samples[k].sample = request.starts[k]
               /\ Written(ScoreFile(request.starts[k])) /\ files[ScoreFile(request.starts[k])].cache \in Events)'
    BY <1>1, <1>7, <1>10, <2>5, <2>7 DEF Written, ScoreFile, Events
  <2>16. (\A k \in item..Len(request.starts) : Written(ScoreFile(request.starts[k])) =>
            /\ k = item /\ pc \in {"artifacts", "dead"}
            /\ files[ScoreFile(request.starts[k])].cache = memory)'
    <3>1. ASSUME NEW k \in (item + 1)..Len(request.starts) PROVE ScoreFile(request.starts[k]) \notin DOMAIN files'
      <4>1. k \in item..Len(request.starts) /\ k # item BY <1>1
      <4> QED BY <1>12, <4>1
    <3> QED BY <1>1, <2>1, <3>1 DEF Written, ScoreFile
  <2>17. pc' \notin BacktestPoints \cup {"artifacts"} BY <2>1 DEF BacktestPoints
  <2> QED BY <2>14, <2>15, <2>16, <2>17 DEF CachesOK, BacktestPoints
<1> QED BY <1>13, <1>14

\* A file of the run itself is the score of no sample.
LEMMA AggregateWrite ==
  ASSUME IInv, WriteAggregateFile
  PROVE  /\ Research /\ request \in Requests /\ pc = "aggregate" /\ Manifest \notin DOMAIN files
         /\ UNCHANGED <<request, client, item, logs, memory, samples, review, calls, retries>>
         /\ \E path : /\ path[2] \in {"ai_review.json", "agent-decisions.jsonl", "final_report.md", "run-manifest.json"}
                      /\ path \notin DOMAIN files
                      /\ DOMAIN files' = DOMAIN files \cup {path}
                      /\ files'[path] = AggregateContent(path)
                      /\ \A p \in DOMAIN files : files'[p] = files[p]
                      /\ pc' = IF path = Manifest THEN "answered" ELSE "aggregate"
<1> DEFINE order == AggregateFiles
<1>1. /\ DOMAIN order = 1..4 /\ Len(order) = 4
      /\ order[1] = <<RunDir, "ai_review.json">> /\ order[2] = <<RunDir, "agent-decisions.jsonl">>
      /\ order[3] = <<RunDir, "final_report.md">> /\ order[4] = Manifest
  BY DEF AggregateFiles, Manifest
<1>2. pc = "aggregate" /\ UNCHANGED <<request, client, item, logs, memory, samples, review, calls, retries>>
  BY DEF WriteAggregateFile, Inputs, History
<1>3. Research /\ request \in Requests BY <1>2 DEF IInv, HandlersOK, SamplesOK, RunPoints
<1>4. Manifest \notin DOMAIN files BY <1>2 DEF IInv, AnswerOK, Written
<1>5. /\ files' = WithFile(files, NextFile(order), AggregateContent(NextFile(order)))
      /\ pc' = IF NextFile(order) = order[4] THEN "answered" ELSE pc
  BY <1>1 DEF WriteAggregateFile, Last
<1> HIDE DEF order
<1>6. PICK i \in 1..4 : NextFile(order) = order[i] /\ order[i] \notin DOMAIN files
  <2>1. 4 \in Nat /\ 4 \in 1..4 BY <1>1
  <2> QED BY <1>1, <1>4, <2>1, NextFileIsFirst
<1> DEFINE path == order[i]
<1>7. path[2] \in {"ai_review.json", "agent-decisions.jsonl", "final_report.md", "run-manifest.json"}
  BY <1>1, <1>6 DEF Manifest
<1>8. files' = WithFile(files, path, AggregateContent(path)) /\ path \notin DOMAIN files BY <1>5, <1>6
<1>9. pc' = IF path = Manifest THEN "answered" ELSE "aggregate" BY <1>1, <1>2, <1>5, <1>6
<1> HIDE DEF path
<1>10. /\ DOMAIN files' = DOMAIN files \cup {path} /\ files'[path] = AggregateContent(path)
       /\ \A p \in DOMAIN files : p # path => files'[p] = files[p]
  BY <1>8, WrittenFile
<1> QED BY <1>2, <1>3, <1>4, <1>7, <1>8, <1>9, <1>10

\* In every step the log keeps to what the samples remember.
LEMMA StepCaches ==
  ASSUME IInv, PointsOK, CachesOK, [Next]_vars
  PROVE  CachesOK'
<1>1. request' = request BY SameInputs
<1>2. Research' <=> Research BY <1>1 DEF Research
<1>3. SUFFICES ASSUME Research PROVE CachesOK' BY <1>2 DEF CachesOK
<1>4. logs.cache \in Events /\ memory \in Events BY <1>3 DEF CachesOK
<1>5. /\ pc \in BacktestPoints \cup {"artifacts"} => logs.cache = AddEvents(SumEvents(Caches), memory)
      /\ pc \in {"received", "sample", "review", "aggregate"} => logs.cache = SumEvents(Caches)
  BY <1>3 DEF CachesOK
<1>6. SumEvents(Caches) \in Events BY <1>3, CachesShape, SumInEvents
<1> HIDE DEF Caches
<1> DEFINE sum == SumEvents(Caches)
           early == {"received", "sample", "review", "aggregate"}
<1>7. CASE UNCHANGED vars
  <2>1. UNCHANGED <<item, samples, files, logs, memory, pc>> BY <1>7 DEF vars
  <2> QED BY <1>1, <1>3, <1>4, <1>5, <2>1, CachesStay
<1>8. CASE Receive
  <2>1. pc = "received" /\ UNCHANGED <<item, samples, logs, memory>> /\ pc' \in {"done", "sample"}
    BY <1>3, <1>8 DEF Receive, Finish
  <2>2. files = <<>> BY <2>1 DEF IInv, SamplesOK
  <2>3. UNCHANGED files \/ files' = WithFile(files, <<RunDir, "run-config.json">>, request)
    BY <1>3, <1>8 DEF Receive
  <2> DEFINE path == <<RunDir, "run-config.json">>
  <2>4. path[2] # "backtest_score.json" OBVIOUS
  <2> HIDE DEF path
  <2>5. CASE UNCHANGED files
    BY <1>1, <1>3, <1>4, <1>5, <2>1, <2>5, CachesStay DEF BacktestPoints
  <2>6. CASE files' = WithFile(files, path, request)
    <3>1. DOMAIN files' = DOMAIN files \cup {path} BY <2>6, WrittenFile
    <3>2. DOMAIN files = {} BY <2>2
    <3>3. \A p \in DOMAIN files : p \in DOMAIN files' /\ files'[p] = files[p] BY <3>2
    <3>4. \A p \in DOMAIN files' : p \in DOMAIN files \/ p[2] # "backtest_score.json" BY <2>4, <3>1
    <3> QED BY <1>1, <1>3, <1>4, <1>5, <2>1, <3>3, <3>4, CachesStay DEF BacktestPoints
  <2> QED BY <2>3, <2>5, <2>6 DEF path
<1>9. CASE InstallHandlers
  <2>1. pc = "sample" /\ UNCHANGED <<item, samples, files, logs>> /\ memory' = NoEvents /\ pc' = "trade_cal"
    BY <1>9 DEF InstallHandlers
  <2>2. logs'.cache = AddEvents(sum, memory') BY <1>5, <1>6, <2>1, EventsAdd
  <2>3. memory' \in Events BY <2>1, EventsAdd
  <2> QED BY <1>1, <1>3, <1>4, <2>1, <2>2, <2>3, CachesStay
<1>10. CASE Call
  <2>1. PICK fault \in {None, "unavailable", "error"}, retried, raised \in BOOLEAN, events \in Events :
          CallWith(fault, retried, raised, events)
    BY <1>10, CallShape
  <2>2. UNCHANGED <<item, samples, files>> BY <1>10, CallShape
  <2>3. pc \in {"trade_cal", "stock_basic", "daily", "cyq_chips", "adj_factor"} BY <1>10, CallShape DEF CallPointsOf
  <2> DEFINE ok == fault = None
  <2>4. Record(pc, ok, retried, events) BY <2>1 DEF CallWith
  <2>5. ok \in BOOLEAN OBVIOUS
  <2> HIDE DEF ok
  <2>6. /\ logs'.cache = IF client.cache = Start THEN AddEvents(logs.cache, events) ELSE logs.cache
        /\ memory' = IF client.cache = Start THEN AddEvents(memory, events) ELSE memory
    BY <1>3, <2>4, <2>5, RecordInRun
  <2>7. logs.cache = AddEvents(sum, memory) BY <1>5, <2>3 DEF BacktestPoints
  <2>8. logs'.cache \in Events /\ memory' \in Events /\ logs'.cache = AddEvents(sum, memory')
    <3>1. CASE client.cache = Start
      <4>1. AddEvents(AddEvents(sum, memory), events) = AddEvents(sum, AddEvents(memory, events))
        BY <1>4, <1>6, EventsAdd
      <4>2. AddEvents(logs.cache, events) \in Events /\ AddEvents(memory, events) \in Events BY <1>4, EventsAdd
      <4> QED BY <2>6, <2>7, <3>1, <4>1, <4>2
    <3>2. CASE client.cache # Start BY <1>4, <2>6, <2>7, <3>2
    <3> QED BY <3>1, <3>2
  <2>9. pc' \notin early BY <1>3, <1>10, AfterCall
  <2> QED BY <1>1, <1>3, <2>2, <2>3, <2>8, <2>9, CachesStay
<1>11. CASE CheckWindow \/ Evaluate
  <2>1. pc \in {"check", "evaluate"} /\ UNCHANGED <<item, samples, files, logs, memory>>
    BY <1>11 DEF CheckWindow, Evaluate, RunOutputs
  <2>2. pc' \in {"adj_factor", "close"} BY <1>3, <1>11 DEF CheckWindow, Evaluate, Fail, Research
  <2> QED BY <1>1, <1>3, <1>4, <1>5, <2>1, <2>2, CachesStay DEF BacktestPoints
<1>12. CASE StartStock \/ FinishStock BY <1>3, <1>12 DEF StartStock, FinishStock, PointsOK, Research
<1>13. CASE RestoreHandlers
  <2>1. pc = "close" /\ UNCHANGED <<item, samples, files, logs, memory>> /\ pc' \in {"artifacts", "failed"}
    BY <1>13 DEF RestoreHandlers, RunOutputs
  <2> QED BY <1>1, <1>3, <1>4, <1>5, <2>1, CachesStay DEF BacktestPoints
<1>14. CASE WriteSampleFile BY <1>14, SampleWriteCaches
<1>15. CASE AskAgent
  <2>1. pc = "review" /\ UNCHANGED <<item, samples, files, logs, memory>> /\ pc' = "aggregate"
    BY <1>15 DEF AskAgent
  <2> QED BY <1>1, <1>3, <1>4, <1>5, <2>1, CachesStay DEF BacktestPoints
<1>16. CASE WriteAggregateFile
  <2>1. pc = "aggregate" /\ UNCHANGED <<item, samples, logs, memory>> BY <1>16, AggregateWrite
  <2>2. PICK path : /\ path[2] \in {"ai_review.json", "agent-decisions.jsonl", "final_report.md", "run-manifest.json"}
                    /\ DOMAIN files' = DOMAIN files \cup {path}
                    /\ \A p \in DOMAIN files : files'[p] = files[p]
                    /\ pc' = IF path = Manifest THEN "answered" ELSE "aggregate"
    BY <1>16, AggregateWrite
  <2>3. \A p \in DOMAIN files : p \in DOMAIN files' /\ files'[p] = files[p] BY <2>2
  <2>4. \A p \in DOMAIN files' : p \in DOMAIN files \/ p[2] # "backtest_score.json" BY <2>2
  <2>5. pc' \in {"aggregate", "answered"} BY <2>2
  <2> QED BY <1>1, <1>3, <1>4, <1>5, <2>1, <2>3, <2>4, <2>5, CachesStay DEF BacktestPoints
<1>17. CASE Reply \/ Crash
  <2>1. UNCHANGED <<item, samples, files, logs, memory>> BY <1>17 DEF Reply, Crash, RunOutputs
  <2>2. \/ pc' = "done" /\ pc \in {"answered", "failed", "scanned"}
        \/ pc' = "dead"
    BY <1>17 DEF Reply, Crash, Finish
  <2> QED BY <1>1, <1>3, <1>4, <2>1, <2>2, CachesStay DEF BacktestPoints
<1> QED BY <1>7, <1>8, <1>9, <1>10, <1>11, <1>12, <1>13, <1>14, <1>15, <1>16, <1>17 DEF Next, Handle

\* The manifest is written from the log, and nothing it tells of changes after it.
LEMMA StepManifest ==
  ASSUME IInv, PointsOK, CountsOK, RowsOK, CachesOK, ManifestOK, [Next]_vars
  PROVE  ManifestOK'
<1>1. Manifest' = Manifest BY DEF Manifest
<1>2. SUFFICES ASSUME Manifest \in DOMAIN files'
      PROVE  /\ files'[Manifest].cache = SumEvents(Caches') /\ files'[Manifest].callCount = calls'
             /\ client'.kind = "tushare" => (files'[Manifest].hadRetry <=> retries' > 0)
  BY <1>1 DEF ManifestOK, Written, SumEvents, AddEvents, NoEvents
<1>3. CASE WriteAggregateFile
  <2>1. /\ Research /\ pc = "aggregate" /\ Manifest \notin DOMAIN files
        /\ UNCHANGED <<request, client, item, logs, memory, samples, calls, retries>>
    BY <1>3, AggregateWrite
  <2>2. PICK path : /\ path[2] \in {"ai_review.json", "agent-decisions.jsonl", "final_report.md", "run-manifest.json"}
                    /\ path \notin DOMAIN files
                    /\ DOMAIN files' = DOMAIN files \cup {path}
                    /\ files'[path] = AggregateContent(path)
                    /\ \A p \in DOMAIN files : files'[p] = files[p]
                    /\ pc' = IF path = Manifest THEN "answered" ELSE "aggregate"
    BY <1>3, AggregateWrite
  <2>3. path = Manifest BY <1>2, <2>1, <2>2
  <2>4. AggregateContent(Manifest)
          = [sampleCount |-> Len(samples), callCount |-> Len(logs.api), hadRetry |-> logs.retries > 0,
             cache |-> logs.cache, scores |-> Scores, reviewStatus |-> review.status]
    BY DEF AggregateContent, Manifest
  <2>5. /\ files'[Manifest].callCount = Len(logs.api) /\ files'[Manifest].cache = logs.cache
        /\ files'[Manifest].hadRetry = (logs.retries > 0)
    BY <2>2, <2>3, <2>4
  <2>6. Len(logs.api) = calls BY <2>1 DEF RowsOK
  <2>7. client.kind = "tushare" => logs.retries = retries BY <2>1 DEF CountsOK
  <2>8. logs.cache = SumEvents(Caches) BY <2>1 DEF CachesOK
  <2>9. Caches' = Caches
    <3>1. \A i \in DOMAIN samples :
            samples[i].sample = request.starts[i] /\ ScoreFile(request.starts[i]) \in DOMAIN files
      BY <2>1 DEF CachesOK, Written
    <3>2. ASSUME NEW i \in DOMAIN samples
          PROVE  files'[<<samples[i].sample, "backtest_score.json">>] = files[<<samples[i].sample, "backtest_score.json">>]
      BY <2>2, <3>1 DEF ScoreFile
    <3>3. samples' = samples BY <2>1
    <3> QED BY <3>2, <3>3, Zenon DEF Caches
  <2> QED BY <2>1, <2>5, <2>6, <2>7, <2>8, <2>9
<1>4. CASE ~WriteAggregateFile
  <2>1. pc \in {"aggregate", "answered", "done", "dead"}
    <3>1. CASE pc = "aggregate" BY <3>1
    <3>2. CASE pc # "aggregate"
      <4>1. Written(Manifest) BY <1>1, <1>2, <3>2, SameManifest DEF Written
      <4> QED BY <4>1 DEF IInv, AnswerOK
    <3> QED BY <3>1, <3>2
  <2>2. ~(Receive \/ InstallHandlers \/ Call \/ CheckWindow \/ Evaluate \/ StartStock \/ FinishStock \/ RestoreHandlers
          \/ WriteSampleFile \/ AskAgent)
    BY <2>1 DEF Receive, InstallHandlers, Call, CheckWindow, Evaluate, StartStock, FinishStock, RestoreHandlers,
          WriteSampleFile, AskAgent
  <2>3. UNCHANGED vars \/ Reply \/ Crash BY <1>4, <2>2 DEF Next, Handle
  <2>4. UNCHANGED <<client, files, samples, calls, retries>> BY <2>3, Zenon DEF vars, Reply, Crash, RunOutputs, History
  <2>5. Written(Manifest) BY <1>2, <2>4 DEF Written
  <2>6. Caches' = Caches BY <2>4, Zenon DEF Caches
  <2> QED BY <2>4, <2>5, <2>6 DEF ManifestOK
<1> QED BY <1>3, <1>4

LEMMA InitLog == Init => LogInv
<1> SUFFICES ASSUME Init PROVE LogInv OBVIOUS
<1>1. PICK kind \in Clients : client = [kind |-> kind,
                                        retry |-> IF kind = "tushare" THEN Caller ELSE None,
                                        cache |-> IF kind = "cached" THEN Caller ELSE None]
  BY DEF Init
<1>2. client.retry \in {None, Caller} /\ client.cache \in {None, Caller} BY <1>1
<1>3. MaxRetries \in Nat /\ MaxFaults \in Nat BY ServicesAssumption
<1>4. /\ pc = "received" /\ files = <<>> /\ samples = <<>> /\ item = 1 /\ memory = NoEvents
      /\ logs.api = <<>> /\ logs.retries = 0 /\ logs.cache = NoEvents /\ retries = 0 /\ faults = 0 /\ calls = 0
      /\ failure = None /\ reply = None
  BY DEF Init
<1>5. PointsOK BY <1>4 DEF Init, PointsOK, BacktestPoints
<1>6. ItemOK
  <2>1. request.kind = "scan" => Len(request.codes) \in Nat \ {0} BY <1>5, CodesOfScan
  <2>2. Len(samples) = 0 /\ reply # 200 BY <1>4, ServicesAssumption
  <2> QED BY <1>4, <2>1, <2>2 DEF ItemOK
<1>7. CountsOK BY <1>2, <1>3, <1>4 DEF CountsOK, BacktestPoints
<1>8. RowsOK BY <1>4 DEF RowsOK
<1>9. CachesOK
  <2>1. Caches = <<>> BY <1>4 DEF Caches
  <2>2. logs.cache = SumEvents(Caches) BY <1>4, <2>1, SumOfNone
  <2>3. logs.cache \in Events /\ memory \in Events BY <1>4, EventsAdd
  <2>4. DOMAIN files = {} /\ DOMAIN samples = {} BY <1>4
  <2> QED BY <1>4, <2>2, <2>3, <2>4 DEF CachesOK, Written, BacktestPoints
<1>10. ManifestOK BY <1>4 DEF ManifestOK, Written
<1> QED BY <1>5, <1>6, <1>7, <1>8, <1>9, <1>10 DEF LogInv

LEMMA StepLog == IInv /\ LogInv /\ [Next]_vars => LogInv'
BY StepPoints, StepItem, StepCounts, StepRows, StepCaches, StepManifest DEF LogInv

\* The inductive invariant of the log: rows, retries, cache events and the manifest that sums them up,
\* of a request that is where it may be.
THEOREM LogInvariance == Spec => []LogInv
<1>1. Init => LogInv BY InitLog
<1>2. IInv /\ LogInv /\ [Next]_vars => LogInv' BY StepLog
<1> QED BY <1>1, <1>2, Invariance, PTL DEF Spec

\* For any number of samples and stocks, any client and any sequence of calls that are retried or
\* raise: the log has a row for every call and ends with the first that failed, its cache summary is the
\* sum of what the finished samples and the one under way remember, a client with a retry hook has
\* every retry in it, and the manifest tells what the log has.
THEOREM LogsAreTrue == Spec => []LogsTellTheRun
<1>1. IInv /\ LogInv => LogsTellTheRun
  <2> SUFFICES ASSUME IInv, LogInv PROVE LogsTellTheRun OBVIOUS
  <2>1. PointsOK /\ ItemOK /\ CountsOK /\ RowsOK /\ CachesOK /\ ManifestOK BY DEF LogInv
  <2>2. TypeOK
    <3>1. item \in 1..(1 + CASE Research -> Len(request.starts) [] request.kind = "scan" -> Len(request.codes) [] OTHER -> 0)
      <4>1. CASE Research
        <5>1. item \in 1..(1 + Len(request.starts)) BY <2>1, <4>1, StartsOfRun DEF IInv, SamplesOK
        <5> QED BY <4>1, <5>1 DEF Research
      <4>2. CASE request.kind = "scan"
        <5>1. item \in 1..(1 + Len(request.codes)) BY <2>1, <4>2, CodesOfScan DEF ItemOK
        <5> QED BY <4>2, <5>1 DEF Research
      <4>3. CASE request.kind \notin {"scan", "research"}
        <5>1. item \in 1..(1 + 0) BY <2>1, <4>3 DEF ItemOK
        <5> QED BY <4>3, <5>1 DEF Research
      <4> QED BY <4>1, <4>2, <4>3 DEF Research
    <3> QED BY <2>1, <3>1 DEF TypeOK, PointsOK, CountsOK
  <2>3. LogsAgreeWithSamples BY <2>1 DEF ManifestOK, LogsAgreeWithSamples, Caches
  <2>4. ErrorRowsEndTheRun
    <3>1. CASE Research BY <2>1, <3>1 DEF RowsOK, ErrorRowsEndTheRun
    <3>2. CASE ~Research
      <4>1. DOMAIN logs.api = {} BY <2>1, <3>2 DEF RowsOK
      <4> QED BY <4>1 DEF ErrorRowsEndTheRun
    <3> QED BY <3>1, <3>2
  <2>5. RetriesVisibleWithHook BY <2>1 DEF ManifestOK, RetriesVisibleWithHook
  <2> QED BY <2>2, <2>3, <2>4, <2>5 DEF LogsTellTheRun
<1> QED BY <1>1, Invariance, LogInvariance, PTL

-----------------------------------------------------------------------------
(* Days of the calendar *)

LEMMA CalendarOfWorld ==
  ASSUME PointsOK
  PROVE  /\ world.open \in Seq(Nat) /\ Len(world.open) \in Nat /\ DOMAIN world.open = 1..Len(world.open)
         /\ \A i, j \in 1..Len(world.open) : i < j => world.open[i] < world.open[j]
BY ServicesAssumption DEF PointsOK

\* Days that follow each other in the calendar.
LEMMA SubDays ==
  ASSUME PointsOK, NEW b \in Nat, NEW n \in Nat, b + n <= Len(world.open)
  PROVE  LET d == SubSeq(world.open, b + 1, b + n)
         IN /\ d \in Seq(Nat) /\ Len(d) = n /\ DOMAIN d = 1..n
            /\ \A i \in 1..n : d[i] = world.open[b + i] /\ d[i] \in Nat
            /\ \A i, j \in 1..n : i < j => d[i] < d[j]
<1> DEFINE open == world.open
           d == SubSeq(open, b + 1, b + n)
<1>1. /\ open \in Seq(Nat) /\ Len(open) \in Nat /\ DOMAIN open = 1..Len(open)
      /\ \A i, j \in 1..Len(open) : i < j => open[i] < open[j]
  BY CalendarOfWorld
<1> HIDE DEF open
<1>2. b + 1 \in 1..(Len(open) + 1) /\ b + n \in b..Len(open) BY <1>1 DEF open
<1>3. \A i \in 1..n : d[i] = open[(b + 1) + i - 1] BY <1>1, <1>2
<1>4. d \in Seq(Nat) /\ Len(d) = n BY <1>1, <1>2
<1>5. \A i \in 1..n : b + i \in 1..Len(open) BY <1>1 DEF open
<1> HIDE DEF d
<1>6. \A i \in 1..n : d[i] = open[b + i] /\ d[i] \in Nat
  <2> TAKE i \in 1..n
  <2>1. (b + 1) + i - 1 = b + i OBVIOUS
  <2> QED BY <1>1, <1>3, <1>5, <2>1
<1>7. DOMAIN d = 1..n BY <1>4
<1>8. ASSUME NEW i \in 1..n, NEW j \in 1..n, i < j PROVE d[i] < d[j]
  <2>1. b + i \in 1..Len(open) /\ b + j \in 1..Len(open) /\ b + i < b + j BY <1>5, <1>8
  <2> QED BY <1>1, <1>6, <2>1
<1> QED BY <1>4, <1>6, <1>7, <1>8 DEF open, d

\* The days of a window are the first of those that were asked for.
LEMMA FewerDays ==
  ASSUME PointsOK, NEW start, NEW n \in Nat, NEW m \in Nat, n <= m, DaysFrom(start, m) # Missing
  PROVE  LET d == DaysFrom(start, n)
             all == DaysFrom(start, m)
         IN /\ Len(d) = n /\ DOMAIN d = 1..n
            /\ \A i \in 1..n : d[i] = all[i] /\ d[i] \in Nat
            /\ \A i, j \in 1..n : i < j => d[i] < d[j]
<1> DEFINE before == Cardinality({i \in DOMAIN world.open : world.open[i] < start})
<1>1. before \in Nat
  <2>1. IsFiniteSet(1..Len(world.open))
    <3> DEFINE length == Len(world.open)
    <3>1. length \in Nat BY CalendarOfWorld
    <3> HIDE DEF length
    <3>2. 1 \in Int /\ length \in Int BY <3>1
    <3>3. IsFiniteSet(1..length) BY <3>2, FS_Interval, Zenon
    <3> QED BY <3>3 DEF length
  <2>2. {i \in DOMAIN world.open : world.open[i] < start} \subseteq 1..Len(world.open) BY CalendarOfWorld
  <2>3. IsFiniteSet({i \in DOMAIN world.open : world.open[i] < start}) BY <2>1, <2>2, FS_Subset
  <2> QED BY <2>3, FS_CardinalityType
<1>2. /\ DaysFrom(start, m) = IF before + m > Len(world.open) THEN Missing ELSE SubSeq(world.open, before + 1, before + m)
      /\ DaysFrom(start, n) = IF before + n > Len(world.open) THEN Missing ELSE SubSeq(world.open, before + 1, before + n)
  BY DEF DaysFrom
<1> HIDE DEF before
<1>3. Len(world.open) \in Nat BY CalendarOfWorld
<1>4. before + m <= Len(world.open) /\ before + n <= Len(world.open) BY <1>1, <1>2, <1>3
<1>5. /\ DaysFrom(start, m) = SubSeq(world.open, before + 1, before + m)
      /\ DaysFrom(start, n) = SubSeq(world.open, before + 1, before + n)
  BY <1>1, <1>2, <1>3, <1>4
<1> DEFINE d == SubSeq(world.open, before + 1, before + n)
           all == SubSeq(world.open, before + 1, before + m)
<1>6. /\ Len(d) = n /\ DOMAIN d = 1..n
      /\ \A i \in 1..n : d[i] = world.open[before + i] /\ d[i] \in Nat
      /\ \A i, j \in 1..n : i < j => d[i] < d[j]
  BY <1>1, <1>4, SubDays
<1>7. \A i \in 1..m : all[i] = world.open[before + i] BY <1>1, <1>4, SubDays
<1> HIDE DEF d, all
<1>8. \A i \in 1..n : i \in 1..m OBVIOUS
<1> QED BY <1>5, <1>6, <1>7, <1>8 DEF d, all

\* The last offset is the greatest.
LEMMA RequiredDaysReach ==
  ASSUME NEW window \in Nat
  PROVE  RequiredDays(window) \in Nat /\ window <= RequiredDays(window)
<1> DEFINE last == Offsets[Len(Offsets)]
<1>1. /\ Offsets \in Seq(Nat) /\ Len(Offsets) \in Nat \ {0} /\ DOMAIN Offsets = 1..Len(Offsets)
      /\ \A i, j \in 1..Len(Offsets) : i < j => Offsets[i] < Offsets[j]
  <2>1. Offsets \in Seq(Nat \ {0}) /\ Offsets # <<>> BY OffsetsAssumption
  <2> QED BY <2>1, OffsetsAssumption
<1>2. last \in ToSet(Offsets) BY <1>1 DEF ToSet
<1>3. \A x \in ToSet(Offsets) : x \in Nat /\ last >= x
  <2> TAKE x \in ToSet(Offsets)
  <2>1. PICK i \in 1..Len(Offsets) : x = Offsets[i] BY <1>1 DEF ToSet
  <2>2. x \in Nat /\ last \in Nat BY <1>1, <2>1
  <2>3. CASE i = Len(Offsets) BY <2>1, <2>2, <2>3
  <2>4. CASE i # Len(Offsets)
    <3>1. i < Len(Offsets) /\ Len(Offsets) \in 1..Len(Offsets)
      <4>1. i \in 1..Len(Offsets) /\ Len(Offsets) \in Nat \ {0} BY <1>1, <2>1
      <4> QED BY <2>4, <4>1
    <3>2. Offsets[i] < last BY <1>1, <2>1, <3>1
    <3> QED BY <2>1, <2>2, <3>2
  <2> QED BY <2>3, <2>4
<1> HIDE DEF last
<1>4. Max(ToSet(Offsets)) \in ToSet(Offsets) BY <1>2, <1>3 DEF Max
<1>5. Max(ToSet(Offsets)) \in Nat BY <1>3, <1>4
<1> QED BY <1>5 DEF RequiredDays

\* The rows of a range are those of the days in it.
LEMMA BetweenRows ==
  ASSUME NEW rows, NEW first, NEW last, NEW d \in DOMAIN Between(rows, first, last)
  PROVE  d \in DOMAIN rows /\ d \in first..last /\ Between(rows, first, last)[d] = rows[d]
BY DEF Between, Restrict

\* What is cut off after the last day of a range is not in it.
LEMMA BetweenUpTo ==
  ASSUME NEW rows, NEW first \in Int, NEW last \in Int
  PROVE  Between(Restrict(rows, {d \in DOMAIN rows : d <= last}), first, last) = Between(rows, first, last)
<1> DEFINE past == Restrict(rows, {d \in DOMAIN rows : d <= last})
           days == {d \in DOMAIN rows : d \in first..last}
<1>1. past = [d \in {d \in DOMAIN rows : d <= last} |-> rows[d]] BY DEF Restrict
<1> HIDE DEF past
<1>2. DOMAIN past = {d \in DOMAIN rows : d <= last} /\ \A d \in DOMAIN past : past[d] = rows[d] BY <1>1
<1>3. {d \in DOMAIN past : d \in first..last} = days BY <1>2
<1>4. Between(past, first, last) = [d \in days |-> past[d]] BY <1>3 DEF Between, Restrict
<1>5. Between(rows, first, last) = [d \in days |-> rows[d]] BY DEF Between, Restrict
<1>6. \A d \in days : past[d] = rows[d] BY <1>2
<1> HIDE DEF days
<1>7. [d \in days |-> past[d]] = [d \in days |-> rows[d]] BY <1>6
<1> QED BY <1>4, <1>5, <1>7 DEF past

\* What a complete backtest computes its signal from is the market up to the last day of its window.
LEMMA SignalOfWindow ==
  ASSUME PointsOK, Research, NEW start, NEW days, days = DaysFrom(start, RequiredDays(request.window)), days # Missing,
         NEW last, NEW prices, prices = Between(world.prices[Stock], days[1], last),
         NEW chips, chips = Between(world.chips[Stock], days[1], days[request.window]),
         WindowIsComplete(days, request.window, prices)
  PROVE  EvaluateCompositeSignal(MarketFeatures(chips, AnalysisBars(days, request.window, prices))) = SignalAt(start)
<1> DEFINE w == request.window
           d == DaysFrom(start, w)
           past == WorldUpTo(Stock, Last(d))
<1>1. w \in Nat /\ w >= 2 BY ServicesAssumption DEF PointsOK, Research, ValidRequest
<1>2. RequiredDays(w) \in Nat /\ w <= RequiredDays(w) BY <1>1, RequiredDaysReach
<1>3. /\ Len(d) = w /\ DOMAIN d = 1..w
      /\ \A i \in 1..w : d[i] = days[i] /\ d[i] \in Nat
      /\ \A i, j \in 1..w : i < j => d[i] < d[j]
  BY <1>1, <1>2, FewerDays
<1>4. EvaluateCompositeSignal(MarketFeatures(Between(past.chips, d[1], Last(d)), [i \in DOMAIN d |-> past.bars[d[i]]]))
        = SignalAt(start)
  BY DEF SignalAt
<1>5. AnalysisBars(days, w, prices) = [i \in 1..w |-> prices[days[i]]] BY DEF AnalysisBars
<1>6. /\ past.bars = Restrict(world.prices[Stock], {x \in DOMAIN world.prices[Stock] : x <= Last(d)})
      /\ past.chips = Restrict(world.chips[Stock], {x \in DOMAIN world.chips[Stock] : x <= Last(d)})
  BY DEF WorldUpTo
<1>7. Last(d) = d[w] BY <1>3 DEF Last
<1>8. WindowIsComplete(days, w, prices) /\ chips = Between(world.chips[Stock], days[1], days[w]) OBVIOUS
<1> HIDE DEF w, d, past
<1>9. d[1] \in Nat /\ d[w] \in Nat /\ d[1] = days[1] /\ d[w] = days[w] BY <1>1, <1>3
<1>10. chips = Between(past.chips, d[1], Last(d)) BY <1>6, <1>7, <1>8, <1>9, BetweenUpTo
<1>11. ASSUME NEW i \in 1..w PROVE prices[days[i]] = past.bars[d[i]]
  <2>1. days[i] \in DOMAIN prices BY <1>8 DEF WindowIsComplete
  <2>2. days[i] \in DOMAIN world.prices[Stock] /\ prices[days[i]] = world.prices[Stock][days[i]]
    <3> DEFINE rows == world.prices[Stock]
    <3>1. prices = Between(rows, days[1], last) OBVIOUS
    <3> HIDE DEF rows
    <3> DEFINE some == Between(rows, days[1], last)
    <3>2. \A x \in DOMAIN some : x \in DOMAIN rows /\ some[x] = rows[x] BY BetweenRows
    <3> HIDE DEF some
    <3>3. days[i] \in DOMAIN rows /\ prices[days[i]] = rows[days[i]] BY <2>1, <3>1, <3>2 DEF some
    <3> QED BY <3>3 DEF rows
  <2>3. d[i] <= d[w]
    <3>1. CASE i = w BY <1>3, <3>1
    <3>2. CASE i # w
      <4>1. i < w /\ w \in 1..w BY <1>1, <3>2
      <4> QED BY <1>3, <4>1
    <3> QED BY <3>1, <3>2
  <2>4. past.bars = [x \in {x \in DOMAIN world.prices[Stock] : x <= Last(d)} |-> world.prices[Stock][x]]
    BY <1>6 DEF Restrict
  <2>5. d[i] = days[i] BY <1>3
  <2> QED BY <1>7, <2>2, <2>3, <2>4, <2>5
<1>12. AnalysisBars(days, w, prices) = [i \in DOMAIN d |-> past.bars[d[i]]]
  <2>1. [i \in 1..w |-> prices[days[i]]] = [i \in 1..w |-> past.bars[d[i]]] BY <1>11
  <2> QED BY <1>3, <1>5, <2>1
<1>13. EvaluateCompositeSignal(MarketFeatures(chips, AnalysisBars(days, w, prices))) = SignalAt(start)
  BY <1>4, <1>10, <1>12
<1> QED BY <1>13 DEF w

-----------------------------------------------------------------------------
(* What the calls have answered *)

\* An answer takes its place among those of the other calls.
LEMMA Remembered ==
  ASSUME DOMAIN got = {"days", "prices", "chips", "factors"}, NEW endpoint, NEW answer
  PROVE  LET new == Remember(endpoint, answer)
         IN /\ DOMAIN new = {"days", "prices", "chips", "factors"}
            /\ new.days = IF endpoint = "trade_cal" THEN answer ELSE got.days
            /\ new.prices = IF endpoint = "daily" THEN answer ELSE got.prices
            /\ new.chips = IF endpoint = "cyq_chips" THEN answer ELSE got.chips
BY DEF Remember

\* Where an exception leads.
LEMMA FailsTo ==
  ASSUME NEW kind, Fail(kind)
  PROVE  /\ failure' = kind
         /\ Research => pc' = "close"
         /\ request.kind = "scan" => pc' = IF pc = "trade_cal" THEN "failed" ELSE "scanned"
         /\ request.kind \notin {"scan", "research"} => pc' = "failed"
<1>1. failure' = kind
      /\ pc' = CASE Research -> "close" [] request.kind = "scan" /\ pc # "trade_cal" -> "scanned" [] OTHER -> "failed"
  BY DEF Fail
<1>2. Research <=> request.kind = "research" BY DEF Research
<1>3. CASE Research BY <1>1, <1>2, <1>3
<1>4. CASE ~Research BY <1>1, <1>2, <1>4
<1> QED BY <1>3, <1>4

\* A call that goes on has an answer.
LEMMA CallGoesOn ==
  ASSUME Call, PointsOK
  PROVE  \/ /\ failure' \in {"unavailable", "error"} /\ got' = got
            /\ Research => pc' = "close"
            /\ request.kind = "scan" => pc' = IF pc = "trade_cal" THEN "failed" ELSE "scanned"
            /\ failure' = "unavailable" => faults' = faults + 1 \/ Answer(pc) = Missing
         \/ /\ failure' = None /\ pc' = NextCall(pc) /\ got' = Remember(pc, Answer(pc)) /\ Answer(pc) # Missing
<1>1. PICK fault \in {None, "unavailable", "error"}, retried, raised \in BOOLEAN, events \in Events :
        CallWith(fault, retried, raised, events)
  BY CallShape
<1>2. CASE fault # None
  <2>1. Fail(fault) /\ got' = got /\ faults' = faults + (IF raised THEN 1 ELSE 0) /\ (raised \/ Answer(pc) = Missing)
    BY <1>1, <1>2 DEF CallWith
  <2>2. /\ failure' = fault
        /\ Research => pc' = "close"
        /\ request.kind = "scan" => pc' = IF pc = "trade_cal" THEN "failed" ELSE "scanned"
    BY <2>1, FailsTo
  <2> QED BY <1>2, <2>1, <2>2
<1>3. CASE fault = None
  <2>1. pc' = NextCall(pc) /\ got' = Remember(pc, Answer(pc)) /\ UNCHANGED failure /\ Answer(pc) # Missing
    BY <1>1, <1>3 DEF CallWith
  <2>2. pc \in {"trade_cal", "stock_basic", "daily", "cyq_chips", "adj_factor"} BY CallShape DEF CallPointsOf
  <2>3. failure = None BY <2>2 DEF PointsOK
  <2> QED BY <2>1, <2>3
<1> QED BY <1>2, <1>3

\* The stock of a run is the same for all of its samples.
LEMMA SameStock ==
  ASSUME Research \/ item' = item, request' = request
  PROVE  Stock' = Stock /\ NormalizeTsCode(Code)' = NormalizeTsCode(Code) /\ Code' = Code
<1>1. Code' = Code BY DEF Code, Research
<1> QED BY <1>1 DEF Stock

\* The steps of a backtest keep what its calls have answered.
LEMMA StepAnswers ==
  ASSUME IInv, PointsOK, AnswersOK, [Next]_vars
  PROVE  AnswersOK'
<1> DEFINE fields == {"days", "prices", "chips", "factors"}
           asked == {"stock_basic", "daily", "cyq_chips", "check", "adj_factor", "evaluate"}
<1>1. UNCHANGED <<world, request>> BY SameInputs
<1>2. Research' <=> Research BY <1>1 DEF Research
<1>3. DOMAIN got = fields BY DEF AnswersOK
<1>4. DOMAIN got' = fields
  <2>1. CASE Call
    <3>1. got' = got \/ got' = Remember(pc, Answer(pc)) BY <2>1, CallGoesOn
    <3> QED BY <1>3, <3>1, Remembered
  <2>2. CASE InstallHandlers BY <2>2 DEF InstallHandlers, NoCalls
  <2>3. CASE StartStock BY <1>3, <2>3 DEF StartStock, NoCalls
  <2>4. CASE ~(Call \/ InstallHandlers \/ StartStock)
    <3>1. got' = got
      BY <2>4, Zenon DEF Next, Handle, vars, Receive, CheckWindow, Evaluate, FinishStock,
             RestoreHandlers, WriteSampleFile, AskAgent, WriteAggregateFile, Reply, Crash
    <3> QED BY <1>3, <3>1
  <2> QED BY <2>1, <2>2, <2>3, <2>4
<1>5. CASE ~Research BY <1>2, <1>4, <1>5 DEF AnswersOK
<1>6. CASE Research
  <2>1. /\ pc \in asked => got.days = DaysFrom(Start, RequiredDays(request.window)) /\ got.days # Missing
        /\ pc \in {"cyq_chips", "check", "adj_factor", "evaluate"} =>
             got.prices = Between(world.prices[Stock], got.days[1], LastDay)
        /\ pc \in {"check", "adj_factor", "evaluate"} =>
             got.chips = Between(world.chips[Stock], got.days[1], SignalDay)
        /\ pc \in {"adj_factor", "evaluate"} => WindowIsComplete(got.days, request.window, got.prices)
    BY <1>6 DEF AnswersOK
  <2>2. Stock' = Stock BY <1>1, <1>6, SameStock
  <2>3. SUFFICES
          /\ pc' \in asked => got'.days = DaysFrom(Start', RequiredDays(request.window)) /\ got'.days # Missing
          /\ pc' \in {"cyq_chips", "check", "adj_factor", "evaluate"} =>
               got'.prices = Between(world.prices[Stock], got'.days[1], LastDay')
          /\ pc' \in {"check", "adj_factor", "evaluate"} =>
               got'.chips = Between(world.chips[Stock], got'.days[1], SignalDay')
          /\ pc' \in {"adj_factor", "evaluate"} => WindowIsComplete(got'.days, request.window, got'.prices)
    <3>1. DaysFrom(Start, RequiredDays(request.window))' = DaysFrom(Start', RequiredDays(request.window))
      BY <1>1 DEF DaysFrom
    <3> QED BY <1>1, <1>2, <1>4, <1>6, <2>2, <3>1 DEF AnswersOK
  <2>4. LastDay = LastAvailableObservationDate(got.days, request.window) /\ SignalDay = got.days[request.window]
    BY <1>6 DEF LastDay, SignalDay, Research
  <2>5. LastDay' = LastAvailableObservationDate(got'.days, request.window) /\ SignalDay' = got'.days[request.window]
    BY <1>1, <1>6 DEF LastDay, SignalDay, Research
  <2>6. item' = item => Start' = Start BY <1>1 DEF Start
  <2>7. CASE Call
    <3>1. item' = item /\ pc \in CallPointsOf BY <2>7, CallShape
    <3>2. pc \in {"trade_cal", "stock_basic", "daily", "cyq_chips", "adj_factor"} BY <3>1 DEF CallPointsOf
    <3>3. CASE pc' = "close" BY <3>3
    <3>4. CASE pc' # "close"
      <4>1. pc' = NextCall(pc) /\ got' = Remember(pc, Answer(pc)) /\ Answer(pc) # Missing
        BY <1>6, <2>7, <3>4, CallGoesOn
      <4>2. pc' = CASE pc = "trade_cal" -> "stock_basic" [] pc = "stock_basic" -> "daily"
                    [] pc = "daily" -> "cyq_chips" [] pc = "cyq_chips" -> "check" [] OTHER -> "evaluate"
        BY <1>6, <4>1 DEF NextCall, Research
      <4>3. /\ got'.days = IF pc = "trade_cal" THEN Answer(pc) ELSE got.days
            /\ got'.prices = IF pc = "daily" THEN Answer(pc) ELSE got.prices
            /\ got'.chips = IF pc = "cyq_chips" THEN Answer(pc) ELSE got.chips
        BY <1>3, <4>1, Remembered
      <4>4. CASE pc = "trade_cal"
        <5>1. Answer(pc) = DaysFrom(Start, RequiredDays(request.window)) BY <1>6, <4>4 DEF Answer, Research
        <5>2. pc' = "stock_basic" BY <4>2, <4>4
        <5> QED BY <2>6, <3>1, <4>1, <4>3, <4>4, <5>1, <5>2
      <4>5. CASE pc = "stock_basic"
        <5>1. pc' = "daily" BY <4>2, <4>5
        <5> QED BY <2>1, <2>6, <3>1, <4>3, <4>5, <5>1
      <4>6. CASE pc = "daily"
        <5>1. Answer(pc) = OrEmpty(Between(world.prices[Stock], got.days[1], LastDay), <<>>) BY <4>6 DEF Answer
        <5>2. Answer(pc) = Between(world.prices[Stock], got.days[1], LastDay) BY <4>1, <5>1 DEF OrEmpty
        <5>3. pc' = "cyq_chips" BY <4>2, <4>6
        <5> QED BY <2>1, <2>4, <2>5, <2>6, <3>1, <4>3, <4>6, <5>2, <5>3
      <4>7. CASE pc = "cyq_chips"
        <5>1. Answer(pc) = OrEmpty(Between(world.chips[Stock], got.days[1], SignalDay), <<>>) BY <4>7 DEF Answer
        <5>2. Answer(pc) = Between(world.chips[Stock], got.days[1], SignalDay) BY <4>1, <5>1 DEF OrEmpty
        <5>3. pc' = "check" BY <4>2, <4>7
        <5> QED BY <2>1, <2>4, <2>5, <2>6, <3>1, <4>3, <4>7, <5>2, <5>3
      <4>8. CASE pc = "adj_factor"
        <5>1. pc' = "evaluate" BY <4>2, <4>8
        <5> QED BY <2>1, <2>4, <2>5, <2>6, <3>1, <4>3, <4>8, <5>1
      <4> QED BY <3>2, <4>4, <4>5, <4>6, <4>7, <4>8
    <3> QED BY <3>3, <3>4
  <2>8. CASE CheckWindow
    <3>1. pc = "check" /\ UNCHANGED <<item, got>> BY <2>8 DEF CheckWindow
    <3>2. \/ pc' = "adj_factor" /\ WindowIsComplete(got.days, request.window, got.prices)
          \/ pc' = "close"
      BY <1>6, <2>8, FailsTo DEF CheckWindow
    <3> QED BY <2>1, <2>4, <2>5, <2>6, <3>1, <3>2
  <2>9. CASE UNCHANGED vars
    <3>1. UNCHANGED <<item, got, pc>> BY <2>9 DEF vars
    <3> QED BY <2>1, <2>4, <2>5, <2>6, <3>1
  <2>10. CASE pc' \notin asked BY <2>10
  <2>11. Receive \/ InstallHandlers \/ Evaluate \/ RestoreHandlers \/ AskAgent \/ Reply \/ Crash
         => pc' \notin asked
    BY <1>6 DEF Receive, InstallHandlers, Evaluate, Fail, RestoreHandlers, AskAgent, Reply, Crash, Finish
  <2>12. ~(StartStock \/ FinishStock) BY <1>6 DEF StartStock, FinishStock, PointsOK, Research
  <2>13. WriteSampleFile => pc' \in {"artifacts", "sample", "review"} BY DEF WriteSampleFile
  <2>14. WriteAggregateFile => pc' \in {"aggregate", "answered"} BY DEF WriteAggregateFile
  <2> QED BY <2>7, <2>8, <2>9, <2>10, <2>11, <2>12, <2>13, <2>14 DEF Next, Handle
<1> QED BY <1>5, <1>6

FeatureFile(start) == <<start, "feature_set.json">>

\* The signal of a response is that of the market up to the last day of its window.
LEMMA EvaluateSignal ==
  ASSUME PointsOK, AnswersOK, Research, Evaluate
  PROVE  \/ failure' # None /\ pc' = "close"
         \/ backtest'.signal = SignalAt(Start)
<1>1. pc = "evaluate" /\ backtest' = BacktestResponse(got.days, request.window, got.prices, got.chips, got.factors)
  BY DEF Evaluate
<1>2. CASE backtest' = Missing
  <2>1. Fail("unavailable") BY <1>2 DEF Evaluate
  <2>2. failure' = "unavailable" /\ pc' = "close" BY <2>1, FailsTo
  <2> QED BY <2>2, ServicesAssumption
<1>3. CASE backtest' # Missing
  <2> DEFINE signal == EvaluateCompositeSignal(MarketFeatures(got.chips, AnalysisBars(got.days, request.window, got.prices)))
  <2>1. backtest'.signal = signal
    <3> HIDE DEF signal
    <3> DEFINE response == BacktestResponse(got.days, request.window, got.prices, got.chips, got.factors)
               context == AdjustedContext(got.days, request.window, got.prices, got.factors)
               observations == Observations(got.days, request.window, got.prices, got.factors)
               bad == context.return = Missing \/ \E i \in DOMAIN Offsets : observations[i].return = Missing
    <3>1. response = IF bad THEN Missing
                     ELSE [signalDate |-> got.days[request.window], signal |-> signal,
                           context |-> context, observations |-> observations]
      BY Zenon DEF BacktestResponse, signal
    <3> HIDE DEF bad, response, context, observations
    <3>2. response # Missing /\ backtest' = response BY <1>1, <1>3 DEF response
    <3>3. response = [signalDate |-> got.days[request.window], signal |-> signal,
                      context |-> context, observations |-> observations]
      BY <3>1, <3>2
    <3> QED BY <3>2, <3>3
  <2>2. /\ got.days = DaysFrom(Start, RequiredDays(request.window)) /\ got.days # Missing
        /\ got.prices = Between(world.prices[Stock], got.days[1], LastDay)
        /\ got.chips = Between(world.chips[Stock], got.days[1], got.days[request.window])
        /\ WindowIsComplete(got.days, request.window, got.prices)
    <3>1. SignalDay = got.days[request.window] BY DEF SignalDay, Research
    <3> QED BY <1>1, <3>1 DEF AnswersOK
  <2>3. signal = SignalAt(Start) BY <2>2, SignalOfWindow
  <2> QED BY <2>1, <2>3
<1> QED BY <1>2, <1>3

\* Every signal that is on its way to a file, or in one, comes from the market up to its date.
LEMMA StepSignals ==
  ASSUME IInv, PointsOK, AnswersOK, SignalsOK, [Next]_vars
  PROVE  SignalsOK'
<1>1. UNCHANGED <<world, request>> BY SameInputs
<1>2. Research' <=> Research BY <1>1 DEF Research
<1>3. SUFFICES ASSUME Research PROVE SignalsOK' BY <1>2 DEF SignalsOK
<1>4. ASSUME NEW start PROVE SignalAt(start)' = SignalAt(start)
  BY <1>1, <1>3 DEF SignalAt, DaysFrom, WorldUpTo, Stock, Code, Research
<1>5. /\ pc = "artifacts" \/ (pc = "close" /\ failure = None) => backtest.signal = SignalAt(Start)
      /\ \A start \in ToSet(request.starts) :
           FeatureFile(start) \in DOMAIN files => files[FeatureFile(start)].signal = SignalAt(start)
  BY <1>3 DEF SignalsOK, FeatureFile, Written
<1>6. SUFFICES
        /\ pc' = "artifacts" \/ (pc' = "close" /\ failure' = None) => backtest'.signal = SignalAt(Start')
        /\ \A start \in ToSet(request.starts) :
             FeatureFile(start) \in DOMAIN files' => files'[FeatureFile(start)].signal = SignalAt(start)
  <2>1. SignalAt(Start)' = SignalAt(Start')
    BY <1>1, <1>3 DEF SignalAt, DaysFrom, WorldUpTo, Stock, Code, Research
  <2> QED BY <1>1, <1>3, <1>4, <2>1, SMTT(30) DEF SignalsOK, FeatureFile, Written
<1>7. item' = item => Start' = Start BY <1>1 DEF Start
<1>8. ASSUME \A p \in DOMAIN files' : (p \in DOMAIN files /\ files'[p] = files[p]) \/ p[2] # "feature_set.json"
      PROVE  \A start \in ToSet(request.starts) :
               FeatureFile(start) \in DOMAIN files' => files'[FeatureFile(start)].signal = SignalAt(start)
  <2> TAKE start \in ToSet(request.starts)
  <2>1. FeatureFile(start)[2] = "feature_set.json" BY DEF FeatureFile
  <2> QED BY <1>5, <1>8, <2>1
<1>9. CASE WriteSampleFile
  <2> DEFINE order == SampleFiles(Start)
             n == SignalCount
  <2>1. /\ request \in Requests /\ Start \in ToSet(request.starts)
    <3>1. item \in 1..Len(request.starts) /\ Start = request.starts[item] /\ request \in Requests BY <1>9, SampleWrite
    <3> QED BY <1>3, <3>1, StartsOfRun
  <2>2. PICK i \in 1..(n + 6) :
          /\ order[i] \notin DOMAIN files
          /\ \A j \in 1..(i - 1) : order[j] \in DOMAIN files
          /\ files' = WithFile(files, order[i], SampleContent(order[i]))
          /\ IF i = n + 6
             THEN /\ \E s : samples' = Append(samples, s)
                  /\ item' = item + 1
                  /\ pc' = IF item < Len(request.starts) THEN "sample" ELSE "review"
             ELSE UNCHANGED <<item, samples, pc>>
    BY <1>9, SampleWrite
  <2> DEFINE path == order[i]
  <2>3. DOMAIN files' = DOMAIN files \cup {path} /\ \A p \in DOMAIN files : files'[p] = files[p]
    BY <1>3, <2>1, <2>2, SampleWriteKeepsFiles
  <2>4. files'[path] = SampleContent(path) BY <2>2, WrittenFile
  <2>5. path[1] = Start BY <1>3, <2>1, SamplePaths
  <2>6. UNCHANGED backtest /\ pc = "artifacts" BY <1>9 DEF WriteSampleFile
  <2>7. backtest.signal = SignalAt(Start) BY <1>5, <2>6
  <2>8. ASSUME NEW start, FeatureFile(start) = path PROVE start = Start /\ files'[path].signal = SignalAt(start)
    <3>1. path[2] = "feature_set.json" /\ path[1] = start BY <2>8 DEF FeatureFile
    <3> HIDE DEF path
    <3>2. SampleContent(path) = [signal |-> backtest.signal, context |-> backtest.context]
      BY <3>1 DEF SampleContent, Stages
    <3>3. files'[path].signal = backtest.signal BY <2>4, <3>2
    <3> QED BY <2>5, <2>7, <3>1, <3>3
  <2> HIDE DEF order, path
  <2>9. ASSUME NEW start \in ToSet(request.starts), FeatureFile(start) \in DOMAIN files'
        PROVE  files'[FeatureFile(start)].signal = SignalAt(start)
    <3>1. CASE FeatureFile(start) = path BY <2>8, <3>1
    <3>2. CASE FeatureFile(start) \in DOMAIN files BY <1>5, <2>3, <3>2
    <3> QED BY <2>3, <2>9, <3>1, <3>2
  <2>10. pc' = "artifacts" => item' = item
    <3>1. CASE i = n + 6 BY <2>2, <3>1
    <3>2. CASE i # n + 6 BY <2>2, <3>2
    <3> QED BY <3>1, <3>2
  <2>11. pc' # "close" BY <1>9 DEF WriteSampleFile
  <2> QED BY <1>7, <2>6, <2>7, <2>9, <2>10, <2>11
<1>10. CASE WriteAggregateFile
  <2>1. PICK path : /\ path[2] \in {"ai_review.json", "agent-decisions.jsonl", "final_report.md", "run-manifest.json"}
                    /\ path \notin DOMAIN files
                    /\ DOMAIN files' = DOMAIN files \cup {path}
                    /\ files'[path] = AggregateContent(path)
                    /\ \A p \in DOMAIN files : files'[p] = files[p]
                    /\ pc' = IF path = Manifest THEN "answered" ELSE "aggregate"
    BY <1>10, AggregateWrite
  <2>2. \A p \in DOMAIN files' : (p \in DOMAIN files /\ files'[p] = files[p]) \/ p[2] # "feature_set.json" BY <2>1
  <2>3. pc' \in {"answered", "aggregate"} BY <2>1
  <2> QED BY <1>8, <2>2, <2>3
<1>11. CASE Receive
  <2>1. files = <<>> /\ DOMAIN files = {} BY <1>11 DEF Receive, IInv, SamplesOK
  <2>2. UNCHANGED files \/ files' = WithFile(files, <<RunDir, "run-config.json">>, request) BY <1>11 DEF Receive
  <2> DEFINE path == <<RunDir, "run-config.json">>
  <2>3. path[2] # "feature_set.json" OBVIOUS
  <2> HIDE DEF path
  <2>4. files' = WithFile(files, path, request) => DOMAIN files' = DOMAIN files \cup {path} BY WrittenFile
  <2>5. \A p \in DOMAIN files' : (p \in DOMAIN files /\ files'[p] = files[p]) \/ p[2] # "feature_set.json"
    BY <2>1, <2>2, <2>3, <2>4 DEF path
  <2>6. pc' \in {"done", "sample", "trade_cal"} BY <1>11 DEF Receive, Finish
  <2> QED BY <1>8, <2>5, <2>6
<1>12. CASE UNCHANGED files /\ (pc' = "artifacts" \/ (pc' = "close" /\ failure' = None) => backtest'.signal = SignalAt(Start'))
  BY <1>5, <1>12
<1>13. UNCHANGED vars \/ InstallHandlers \/ Call \/ CheckWindow \/ Evaluate \/ RestoreHandlers \/ AskAgent \/ Reply \/ Crash
       => UNCHANGED files
  BY Zenon DEF vars, InstallHandlers, Call, CheckWindow, Evaluate, RestoreHandlers, AskAgent, Reply, Crash, RunOutputs, History
<1>14. ~(StartStock \/ FinishStock) BY <1>3 DEF StartStock, FinishStock, PointsOK, Research
<1>15. InstallHandlers \/ AskAgent \/ Reply \/ Crash => pc' \notin {"artifacts", "close"}
  BY DEF InstallHandlers, AskAgent, Reply, Crash, Finish
<1>16. ASSUME Call PROVE pc' # "artifacts" /\ ~(pc' = "close" /\ failure' = None)
  <2>1. pc' \in {"stock_basic", "daily", "cyq_chips", "check", "evaluate", "close"} BY <1>3, <1>16, AfterCall
  <2>2. CASE failure' \in {"unavailable", "error"} BY <2>1, <2>2, ServicesAssumption
  <2>3. CASE pc' = NextCall(pc)
    <3>1. pc' = CASE pc = "trade_cal" -> "stock_basic" [] pc = "stock_basic" -> "daily"
                  [] pc = "daily" -> "cyq_chips" [] pc = "cyq_chips" -> "check" [] OTHER -> "evaluate"
      BY <1>3, <2>3 DEF NextCall, Research
    <3>2. pc \in {"trade_cal", "stock_basic", "daily", "cyq_chips", "adj_factor"} BY <1>16, CallShape DEF CallPointsOf
    <3> QED BY <3>1, <3>2
  <2> QED BY <1>16, <2>2, <2>3, CallGoesOn
<1>17. ASSUME CheckWindow PROVE pc' # "artifacts" /\ ~(pc' = "close" /\ failure' = None)
  <2>1. pc' = "adj_factor" \/ Fail("unavailable") BY <1>17 DEF CheckWindow
  <2>2. Fail("unavailable") => failure' = "unavailable" /\ pc' = "close" BY <1>3, FailsTo
  <2> QED BY <2>1, <2>2, ServicesAssumption
<1>18. ASSUME Evaluate
       PROVE  pc' = "artifacts" \/ (pc' = "close" /\ failure' = None) => backtest'.signal = SignalAt(Start')
  <2>1. item' = item BY <1>18 DEF Evaluate
  <2> QED BY <1>3, <1>7, <1>18, <2>1, EvaluateSignal
<1>19. ASSUME RestoreHandlers
       PROVE  pc' = "artifacts" \/ (pc' = "close" /\ failure' = None) => backtest'.signal = SignalAt(Start')
  <2>1. /\ pc = "close" /\ UNCHANGED <<item, backtest>>
        /\ pc' = IF failure = None THEN "artifacts" ELSE "failed"
    BY <1>19 DEF RestoreHandlers
  <2> QED BY <1>5, <1>7, <2>1
<1>20. ASSUME UNCHANGED vars
       PROVE  pc' = "artifacts" \/ (pc' = "close" /\ failure' = None) => backtest'.signal = SignalAt(Start')
  <2>1. UNCHANGED <<item, backtest, pc, failure>> BY <1>20 DEF vars
  <2> QED BY <1>5, <1>7, <2>1
<1> QED
  BY <1>9, <1>10, <1>11, <1>12, <1>13, <1>14, <1>15, <1>16, <1>17, <1>18, <1>19, <1>20 DEF Next, Handle

LEMMA InitSignals == Init => SignalInv
<1> SUFFICES ASSUME Init PROVE SignalInv OBVIOUS
<1>1. pc = "received" /\ got = NoCalls /\ files = <<>> BY DEF Init
<1>2. DOMAIN got = {"days", "prices", "chips", "factors"} BY <1>1 DEF NoCalls
<1>3. AnswersOK BY <1>1, <1>2 DEF AnswersOK
<1>4. SignalsOK BY <1>1 DEF SignalsOK, Written
<1> QED BY <1>3, <1>4 DEF SignalInv

\* The inductive invariant of the signals: what the calls of a backtest have answered is what the market
\* has for their ranges, and the signal made of it is the one of the window.
THEOREM SignalInvariance == Spec => []SignalInv
<1>1. Init => SignalInv BY InitSignals
<1>2. IInv /\ LogInv /\ SignalInv /\ [Next]_vars => SignalInv' BY StepAnswers, StepSignals DEF LogInv, SignalInv
<1> QED BY <1>1, <1>2, Invariance, LogInvariance, PTL DEF Spec

\* For any market, window and offsets: the signal in a file of a run is the one the market gives when
\* everything after the last day of the window is cut off, whatever the calls answered beyond it.
THEOREM SignalsAreOfTheirDate == Spec => []SignalsIgnoreTheFuture
<1>1. SignalInv => SignalsIgnoreTheFuture
  <2> SUFFICES ASSUME SignalInv, NEW start \in (IF Research THEN ToSet(request.starts) ELSE {}),
                      Written(<<start, "feature_set.json">>)
               PROVE  files[<<start, "feature_set.json">>].signal = SignalAt(start)
    BY Zenon DEF SignalsIgnoreTheFuture, SignalAt
  <2> QED BY DEF SignalInv, SignalsOK
<1> QED BY <1>1, SignalInvariance, PTL

-----------------------------------------------------------------------------
(* The stocks of a scan *)

\* The days of a scan are days of the calendar.
LEMMA DaysOfScan ==
  ASSUME PointsOK, request.kind = "scan", ScanDays # Missing
  PROVE  /\ ScanDays[1] \in ToSet(world.open) /\ Last(ScanDays) \in ToSet(world.open)
         /\ ScanDays[1] \in Nat /\ Last(ScanDays) \in Nat
<1> DEFINE n == request.days
           until == Cardinality({i \in DOMAIN world.open : world.open[i] <= request.end})
<1>1. n \in Nat /\ n >= 1 BY ServicesAssumption DEF PointsOK, ValidRequest
<1>2. until \in Nat /\ until <= Len(world.open)
  <2>1. IsFiniteSet(1..Len(world.open)) /\ Cardinality(1..Len(world.open)) = Len(world.open)
    <3>1. Len(world.open) \in Nat BY CalendarOfWorld
    <3> QED BY <3>1, FS_Interval
  <2>2. {i \in DOMAIN world.open : world.open[i] <= request.end} \subseteq 1..Len(world.open) BY CalendarOfWorld
  <2>3. /\ IsFiniteSet({i \in DOMAIN world.open : world.open[i] <= request.end})
        /\ until <= Cardinality(1..Len(world.open))
    BY <2>1, <2>2, FS_Subset
  <2> QED BY <2>1, <2>3, FS_CardinalityType
<1>3. ScanDays = IF until < n THEN Missing ELSE SubSeq(world.open, until - n + 1, until) BY DEF ScanDays, DaysTo
<1> HIDE DEF n, until
<1>4. n <= until BY <1>1, <1>2, <1>3
<1> DEFINE b == until - n
<1>5. b \in Nat /\ b + n = until /\ b + n <= Len(world.open) BY <1>1, <1>2, <1>4
<1>6. ScanDays = SubSeq(world.open, b + 1, b + n) BY <1>1, <1>2, <1>3, <1>4, <1>5
<1> HIDE DEF b
<1>7. /\ Len(ScanDays) = n
      /\ \A i \in 1..n : ScanDays[i] = world.open[b + i] /\ ScanDays[i] \in Nat
  BY <1>1, <1>5, <1>6, SubDays
<1>8. \A i \in 1..n : ScanDays[i] \in ToSet(world.open)
  <2> TAKE i \in 1..n
  <2>1. Len(world.open) \in Nat /\ DOMAIN world.open = 1..Len(world.open) BY CalendarOfWorld
  <2>2. b + i \in DOMAIN world.open BY <1>1, <1>5, <2>1
  <2> QED BY <1>7, <2>2 DEF ToSet
<1>9. Last(ScanDays) = ScanDays[n] /\ n \in 1..n /\ 1 \in 1..n BY <1>1, <1>7 DEF Last
<1> QED BY <1>7, <1>8, <1>9

\* The rows of a stock of a scan.
LEMMA AnswersOfScan ==
  ASSUME PointsOK, ItemOK, request.kind = "scan", item <= Len(request.codes), ScanDays # Missing,
         NormalizeTsCode(Code) # None
  PROVE  /\ Stock = Code.stock /\ Stock # Missing /\ Code = request.codes[item]
         /\ Between(world.prices[Stock], ScanDays[1], Last(ScanDays)) # Missing
         /\ Between(world.chips[Stock], ScanDays[1], Last(ScanDays)) # Missing
<1>1. Code = request.codes[item] BY DEF Code
<1>2. item \in 1..Len(request.codes) /\ DOMAIN request.codes = 1..Len(request.codes)
  BY CodesOfScan DEF ItemOK
<1>3. Stock = Code.stock BY DEF Stock, NormalizeTsCode
<1>4. ScanDays[1] \in ToSet(world.open) /\ Last(ScanDays) \in ToSet(world.open) BY DaysOfScan
<1>5. request \in Requests /\ world \in Worlds BY DEF PointsOK
<1> QED BY <1>1, <1>2, <1>3, <1>4, <1>5, AnswersAssumption

\* Without rows of one kind there is no data.
LEMMA NoRowsNoData ==
  ASSUME NormalizeTsCode(Code) # None =>
           \/ Between(world.prices[Stock], ScanDays[1], Last(ScanDays)) = <<>>
           \/ Between(world.chips[Stock], ScanDays[1], Last(ScanDays)) = <<>>
  PROVE  ~HasData(Code)
<1> SUFFICES ASSUME HasData(Code) PROVE FALSE OBVIOUS
<1> DEFINE first == ScanDays[1]
           last == Last(ScanDays)
           prices == world.prices[Stock]
           chips == world.chips[Stock]
<1>1. /\ NormalizeTsCode(Code) # None
      /\ \E d \in DOMAIN prices : d \in first..last
      /\ \E d \in DOMAIN chips : d \in first..last
  BY DEF HasData, Stock, ScanDays
<1> HIDE DEF first, last, prices, chips
<1>2. Between(prices, first, last) # <<>>
  <2>1. DOMAIN Between(prices, first, last) = {d \in DOMAIN prices : d \in first..last} BY DEF Between, Restrict
  <2>2. PICK d \in DOMAIN prices : d \in first..last BY <1>1
  <2>3. d \in DOMAIN Between(prices, first, last) BY <2>1, <2>2
  <2>4. DOMAIN <<>> = {} OBVIOUS
  <2> QED BY <2>3, <2>4
<1>3. Between(chips, first, last) # <<>>
  <2>1. DOMAIN Between(chips, first, last) = {d \in DOMAIN chips : d \in first..last} BY DEF Between, Restrict
  <2>2. PICK d \in DOMAIN chips : d \in first..last BY <1>1
  <2>3. d \in DOMAIN Between(chips, first, last) BY <2>1, <2>2
  <2>4. DOMAIN <<>> = {} OBVIOUS
  <2> QED BY <2>3, <2>4
<1> QED BY <1>1, <1>2, <1>3 DEF prices, chips, first, last

\* Each stock of a scan is answered for itself, and fails when a call of it raised or it has no data.
LEMMA StepStock ==
  ASSUME IInv, PointsOK, ItemOK, CountsOK, AnswersOK, StockOK, [Next]_vars
  PROVE  StockOK'
<1> DEFINE points == {"stock", "stock_basic", "cyq_chips", "daily", "scanned"}
           Bars == Between(world.prices[Stock], ScanDays[1], Last(ScanDays))
           Chips == Between(world.chips[Stock], ScanDays[1], Last(ScanDays))
           valid == NormalizeTsCode(Code) # None
<1>1. UNCHANGED <<world, request>> BY SameInputs
<1>2. SUFFICES ASSUME request.kind = "scan" PROVE StockOK' BY <1>1 DEF StockOK
<1>3. ScanDays' = ScanDays BY <1>1 DEF ScanDays, DaysTo
<1>4. SUFFICES
        /\ pc' \in points => got'.days = ScanDays /\ ScanDays # Missing
        /\ pc' \in {"stock_basic", "cyq_chips", "daily"} \/ (pc' = "scanned" /\ failure' = None) => NormalizeTsCode(Code') # None
        /\ pc' = "daily" \/ (pc' = "scanned" /\ failure' = None) =>
             got'.chips = Between(world.chips[Stock'], ScanDays[1], Last(ScanDays))
        /\ pc' = "scanned" /\ failure' = None =>
             got'.prices = Between(world.prices[Stock'], ScanDays[1], Last(ScanDays))
        /\ pc' = "scanned" /\ failure' = "unavailable" => faults' > 0 \/ ~HasData(Code')
  <2>1. HasData(Code)' = HasData(Code') BY <1>1 DEF HasData, DaysTo
  <2> QED BY <1>1, <1>3, <2>1 DEF StockOK
<1>5. /\ pc \in points => got.days = ScanDays /\ ScanDays # Missing
      /\ pc \in {"stock_basic", "cyq_chips", "daily"} \/ (pc = "scanned" /\ failure = None) => valid
      /\ pc = "daily" \/ (pc = "scanned" /\ failure = None) => got.chips = Chips
      /\ pc = "scanned" /\ failure = None => got.prices = Bars
      /\ pc = "scanned" /\ failure = "unavailable" => faults > 0 \/ ~HasData(Code)
  BY <1>2 DEF StockOK
<1>6. item' = item => Code' = Code /\ Stock' = Stock BY <1>1, SameStock
<1>7. CASE Call
  <2>1. item' = item /\ pc \in {"trade_cal", "stock_basic", "cyq_chips", "daily"}
    <3>1. item' = item /\ pc \in {"trade_cal", "stock_basic", "cyq_chips", "daily", "adj_factor"}
      BY <1>7, CallShape DEF CallPointsOf
    <3> QED BY <1>2, <3>1 DEF PointsOK
  <2>2. item <= Len(request.codes) BY <1>2, <2>1 DEF ItemOK
  <2>3. SignalDay = Last(got.days) /\ LastDay = Last(got.days) BY <1>2 DEF SignalDay, LastDay
  <2>4. pc # "trade_cal" => Stock # Missing /\ Bars # Missing /\ Chips # Missing
    BY <1>2, <1>5, <2>1, <2>2, AnswersOfScan
  <2>5. /\ pc = "trade_cal" => Answer(pc) = ScanDays
        /\ pc = "stock_basic" => Answer(pc) = Stock
        /\ pc = "cyq_chips" => Answer(pc) = OrEmpty(Chips, <<>>)
        /\ pc = "daily" => Answer(pc) = OrEmpty(Bars, <<>>)
    <3>1. CASE pc = "trade_cal" BY <1>2, <3>1 DEF Answer, ScanDays
    <3>2. CASE pc = "stock_basic" BY <3>2 DEF Answer
    <3>3. CASE pc = "cyq_chips" BY <1>5, <2>3, <3>3 DEF Answer
    <3>4. CASE pc = "daily" BY <1>5, <2>3, <3>4 DEF Answer
    <3> QED BY <2>1, <3>1, <3>2, <3>3, <3>4
  <2> HIDE DEF Bars, Chips
  <2>6. CASE failure' \in {"unavailable", "error"} /\ got' = got
             /\ pc' = (IF pc = "trade_cal" THEN "failed" ELSE "scanned")
             /\ (failure' = "unavailable" => faults' = faults + 1 \/ Answer(pc) = Missing)
    <3>1. failure' # None BY <2>6, ServicesAssumption
    <3>2. ASSUME pc # "trade_cal", Answer(pc) = Missing PROVE ~HasData(Code)
      <4>1. Bars = <<>> \/ Chips = <<>> BY <2>1, <2>4, <2>5, <3>2 DEF OrEmpty
      <4> QED BY <4>1, NoRowsNoData DEF Bars, Chips
    <3>3. faults' = faults + 1 => faults' > 0 BY DEF CountsOK
    <3> QED BY <1>5, <1>6, <2>1, <2>6, <3>1, <3>2, <3>3
  <2>7. CASE failure' = None /\ pc' = NextCall(pc) /\ got' = Remember(pc, Answer(pc)) /\ Answer(pc) # Missing
    <3>1. /\ got'.days = IF pc = "trade_cal" THEN Answer(pc) ELSE got.days
          /\ got'.prices = IF pc = "daily" THEN Answer(pc) ELSE got.prices
          /\ got'.chips = IF pc = "cyq_chips" THEN Answer(pc) ELSE got.chips
      BY <2>7, Remembered DEF AnswersOK
    <3>2. pc' = CASE pc = "trade_cal" -> "stock" [] pc = "stock_basic" -> "cyq_chips"
                  [] pc = "cyq_chips" -> "daily" [] OTHER -> "scanned"
      BY <1>2, <2>7 DEF NextCall
    <3>3. failure' # "unavailable" BY <2>7, ServicesAssumption
    <3>4. /\ pc = "cyq_chips" => Answer(pc) = Chips
          /\ pc = "daily" => Answer(pc) = Bars
      BY <2>5, <2>7 DEF OrEmpty
    <3>5. CASE pc = "trade_cal"
      <4>1. pc' = "stock" BY <3>2, <3>5
      <4> QED BY <2>5, <2>7, <3>1, <3>5, <4>1
    <3>6. CASE pc = "stock_basic"
      <4>1. pc' = "cyq_chips" BY <3>2, <3>6
      <4> QED BY <1>5, <1>6, <2>1, <3>1, <3>6, <4>1
    <3>7. CASE pc = "cyq_chips"
      <4>1. pc' = "daily" BY <3>2, <3>7
      <4> QED BY <1>5, <1>6, <2>1, <3>1, <3>4, <3>7, <4>1 DEF Chips
    <3>8. CASE pc = "daily"
      <4>1. pc' = "scanned" BY <3>2, <3>8
      <4>2. got.chips = Chips BY <1>5, <3>8 DEF Chips
      <4> QED BY <1>5, <1>6, <2>1, <3>1, <3>3, <3>4, <3>8, <4>1, <4>2 DEF Chips, Bars
    <3> QED BY <2>1, <3>5, <3>6, <3>7, <3>8
  <2> QED BY <1>2, <1>7, <2>6, <2>7, CallGoesOn
<1>8. CASE StartStock
  <2>1. pc = "stock" /\ UNCHANGED <<item, faults>> BY <1>8 DEF StartStock, History
  <2>2. got.days = ScanDays /\ ScanDays # Missing BY <1>5, <2>1
  <2>3. CASE item > Len(request.codes)
    <3>1. pc' = "answered" BY <1>8, <2>3 DEF StartStock
    <3> QED BY <3>1
  <2>4. CASE ~(item > Len(request.codes))
    <3>1. got'.days = ScanDays
      <4>1. got' = [NoCalls EXCEPT !.days = got.days] BY <1>8, <2>4 DEF StartStock
      <4> QED BY <2>2, <4>1 DEF NoCalls
    <3>2. CASE NormalizeTsCode(Code) = None
      <4>1. Fail("unavailable") BY <1>8, <2>4, <3>2 DEF StartStock
      <4>2. failure' = "unavailable" /\ pc' = "scanned" BY <1>2, <2>1, <4>1, FailsTo
      <4>3. ~HasData(Code) BY <3>2, NoRowsNoData
      <4>4. failure' # None BY <4>2, ServicesAssumption
      <4> QED BY <1>6, <2>1, <2>2, <3>1, <4>2, <4>3, <4>4
    <3>3. CASE NormalizeTsCode(Code) # None
      <4>1. pc' = "stock_basic" BY <1>8, <2>4, <3>3 DEF StartStock
      <4> QED BY <1>6, <2>1, <2>2, <3>1, <3>3, <4>1
    <3> QED BY <3>2, <3>3
  <2> QED BY <2>3, <2>4
<1>9. CASE FinishStock
  <2>1. pc = "scanned" /\ pc' = "stock" /\ got' = got BY <1>9 DEF FinishStock
  <2> QED BY <1>5, <2>1
<1>10. CASE UNCHANGED vars
  <2>1. UNCHANGED <<item, got, pc, failure, faults>> BY <1>10 DEF vars
  <2> QED BY <1>5, <1>6, <2>1
<1>11. Receive \/ Reply \/ Crash => pc' \in {"trade_cal", "done", "dead"}
  BY <1>2 DEF Receive, Reply, Crash, Finish, Research
<1>12. ~(InstallHandlers \/ RestoreHandlers \/ WriteSampleFile \/ AskAgent \/ WriteAggregateFile)
  BY <1>2 DEF InstallHandlers, RestoreHandlers, WriteSampleFile, AskAgent, WriteAggregateFile,
              IInv, HandlersOK, RunPoints, Research
<1>13. ~(CheckWindow \/ Evaluate) BY <1>2 DEF CheckWindow, Evaluate, PointsOK
<1>14. CASE pc' \notin points BY <1>14
<1> QED BY <1>7, <1>8, <1>9, <1>10, <1>11, <1>12, <1>13, <1>14 DEF Next, Handle

\* The signal of a stock that was scanned is of its own rows, up to the last day.
LEMMA SignalOfStock ==
  ASSUME IInv, PointsOK, StockOK, request.kind = "scan", pc = "scanned", failure = None
  PROVE  LET past == WorldUpTo(Stock, Last(ScanDays))
         IN ScanSignal(got) = ScanSignal([prices |-> Between(past.bars, ScanDays[1], Last(ScanDays)),
                                          chips |-> Between(past.chips, ScanDays[1], Last(ScanDays))])
<1> DEFINE past == WorldUpTo(Stock, Last(ScanDays))
           first == ScanDays[1]
           last == Last(ScanDays)
           answers == [prices |-> Between(past.bars, first, last), chips |-> Between(past.chips, first, last)]
<1>1. /\ ScanDays # Missing
      /\ got.chips = Between(world.chips[Stock], first, last)
      /\ got.prices = Between(world.prices[Stock], first, last)
  BY DEF StockOK
<1>2. first \in Int /\ last \in Int BY <1>1, DaysOfScan
<1>3. /\ past.bars = Restrict(world.prices[Stock], {d \in DOMAIN world.prices[Stock] : d <= last})
      /\ past.chips = Restrict(world.chips[Stock], {d \in DOMAIN world.chips[Stock] : d <= last})
  BY DEF WorldUpTo
<1> HIDE DEF past, first, last
<1>4. /\ Between(past.bars, first, last) = got.prices
      /\ Between(past.chips, first, last) = got.chips
  BY <1>1, <1>2, <1>3, BetweenUpTo
<1>5. answers.prices = got.prices /\ answers.chips = got.chips BY <1>4
<1> HIDE DEF answers
<1>6. ScanSignal(answers) = ScanSignal(got) BY <1>5 DEF ScanSignal
<1> QED BY <1>6 DEF answers, past, first, last

\* A stock that is finished has the result it would have on its own, and those before it keep theirs.
LEMMA FinishedResult ==
  ASSUME IInv, PointsOK, ItemOK, StockOK, ResultsOK, FinishStock
  PROVE  \A i \in DOMAIN samples' : ResultOK(samples'[i], request.codes[i])
<1>1. pc = "scanned" /\ failure # "error" BY DEF FinishStock
<1>2. request.kind = "scan" BY <1>1 DEF PointsOK
<1> DEFINE bad == failure = "unavailable" \/ got.chips = <<>> \/ got.prices = <<>>
           result == [code |-> Code,
                      status |-> IF bad THEN "ERROR" ELSE "OK",
                      signal |-> IF bad THEN [action |-> "HOLD", confidence |-> 0] ELSE ScanSignal(got)]
<1>3. samples' = Append(samples, result) BY DEF FinishStock
<1>4. failure \in {None, "unavailable"} BY <1>1 DEF PointsOK
<1>5. Code = request.codes[item] BY <1>2 DEF Code
<1>6. result.code = Code /\ result.status = (IF bad THEN "ERROR" ELSE "OK") /\ (~bad => result.signal = ScanSignal(got))
  OBVIOUS
<1> HIDE DEF result
<1>7. result.status = "ERROR" => faults > 0 \/ ~HasData(Code)
  <2>1. SUFFICES ASSUME bad PROVE faults > 0 \/ ~HasData(Code) BY <1>6
  <2>2. CASE failure = "unavailable" BY <1>1, <1>2, <2>2 DEF StockOK
  <2>3. CASE failure = None
    <3>1. failure # "unavailable" BY <2>3, ServicesAssumption
    <3>2. /\ got.chips = Between(world.chips[Stock], ScanDays[1], Last(ScanDays))
          /\ got.prices = Between(world.prices[Stock], ScanDays[1], Last(ScanDays))
      BY <1>1, <1>2, <2>3 DEF StockOK
    <3> QED BY <2>1, <3>1, <3>2, NoRowsNoData
  <2> QED BY <1>4, <2>2, <2>3
<1> DEFINE past == WorldUpTo(Stock, Last(ScanDays))
           answers == [prices |-> Between(past.bars, ScanDays[1], Last(ScanDays)),
                       chips |-> Between(past.chips, ScanDays[1], Last(ScanDays))]
<1>8. result.status = "OK" => result.signal = ScanSignal(answers)
  <2>1. SUFFICES ASSUME result.status = "OK" PROVE result.signal = ScanSignal(answers) OBVIOUS
  <2>2. ~bad BY <1>6, <2>1
  <2>3. failure = None BY <1>4, <2>2
  <2>4. ScanSignal(got) = ScanSignal(answers) BY <1>1, <1>2, <2>3, SignalOfStock
  <2> QED BY <1>6, <2>2, <2>4
<1>9. ResultOK(result, Code)
  <2>1. Stock = NormalizeTsCode(Code).stock /\ ScanDays = DaysTo(request.end, request.days) BY DEF Stock, ScanDays
  <2> QED BY <1>6, <1>7, <1>8, <2>1 DEF ResultOK
<1>10. Len(samples) \in Nat /\ Len(samples) = item - 1 /\ item \in Nat /\ samples \in Seq({samples[i] : i \in DOMAIN samples})
  <2>1. samples \in Seq({samples[i] : i \in DOMAIN samples}) BY DEF IInv, SamplesOK
  <2>2. item \in Nat
    <3>1. item \in 1..(Len(request.codes) + 1) /\ Len(request.codes) \in Nat BY <1>2, CodesOfScan DEF ItemOK
    <3> QED BY <3>1
  <2>3. Len(samples) \in Nat BY <2>1
  <2> QED BY <1>2, <2>1, <2>2, <2>3 DEF ItemOK
<1>11. /\ DOMAIN samples' = 1..item
       /\ samples'[item] = result
       /\ \A i \in 1..(item - 1) : i \in DOMAIN samples /\ samples'[i] = samples[i]
  <2>1. DOMAIN samples = 1..(item - 1) BY <1>10
  <2>2. \A s \in Seq({samples[i] : i \in DOMAIN samples} \cup {result}) :
          /\ DOMAIN Append(s, result) = 1..(Len(s) + 1) /\ Append(s, result)[Len(s) + 1] = result
          /\ \A i \in 1..Len(s) : Append(s, result)[i] = s[i]
    OBVIOUS
  <2>3. samples \in Seq({samples[i] : i \in DOMAIN samples} \cup {result}) BY <1>10
  <2> QED BY <1>3, <1>10, <2>1, <2>2, <2>3
<1>12. \A i \in DOMAIN samples : ResultOK(samples[i], request.codes[i]) BY <1>2 DEF ResultsOK
<1> SUFFICES ASSUME NEW i \in DOMAIN samples' PROVE ResultOK(samples'[i], request.codes[i]) OBVIOUS
<1>13. CASE i = item BY <1>5, <1>9, <1>11, <1>13
<1>14. CASE i # item
  <2>1. i \in 1..(item - 1) BY <1>10, <1>11, <1>14, SMTT(30)
  <2> QED BY <1>11, <1>12, <2>1
<1> QED BY <1>13, <1>14

\* A result stays true while the scan goes on: what went wrong is never forgotten.
LEMMA StepResults ==
  ASSUME IInv, PointsOK, ItemOK, CountsOK, StockOK, ResultsOK, [Next]_vars
  PROVE  ResultsOK'
<1>1. UNCHANGED <<world, request>> BY SameInputs
<1>2. SUFFICES ASSUME request.kind = "scan" PROVE ResultsOK' BY <1>1 DEF ResultsOK
<1>3. faults' = faults \/ faults' = faults + 1
  <2>1. CASE Call
    <3>1. PICK fault \in {None, "unavailable", "error"}, retried, raised \in BOOLEAN, events \in Events :
            CallWith(fault, retried, raised, events)
      BY <2>1, CallShape
    <3>2. faults' = faults + (IF raised THEN 1 ELSE 0) BY <3>1 DEF CallWith
    <3>3. faults \in Nat BY DEF CountsOK
    <3> QED BY <3>2, <3>3
  <2>2. CASE ~Call
    BY <2>2, Zenon DEF Next, Handle, vars, History, Receive, InstallHandlers, CheckWindow, Evaluate, StartStock, FinishStock,
           RestoreHandlers, WriteSampleFile, AskAgent, WriteAggregateFile, Reply, Crash
  <2> QED BY <2>1, <2>2
<1>4. faults > 0 => faults' > 0 BY <1>3 DEF CountsOK
<1> DEFINE After(result, code) ==
             /\ result.code = code
             /\ result.status = "ERROR" => faults' > 0 \/ ~HasData(code)
             /\ result.status = "OK" =>
                  LET stock == NormalizeTsCode(code).stock
                      days == DaysTo(request.end, request.days)
                      past == WorldUpTo(stock, Last(days))
                  IN result.signal = ScanSignal([prices |-> Between(past.bars, days[1], Last(days)),
                                                 chips |-> Between(past.chips, days[1], Last(days))])
<1>5. \A result, code : ResultOK(result, code) => After(result, code) BY <1>4 DEF ResultOK
<1> HIDE DEF After
<1>6. \A i \in DOMAIN samples' : After(samples'[i], request.codes[i])
  <2>1. CASE FinishStock BY <1>5, <2>1, FinishedResult
  <2>2. CASE ~FinishStock
    <3>1. ~WriteSampleFile BY <1>2 DEF WriteSampleFile, IInv, HandlersOK, RunPoints, Research
    <3>2. samples' = samples
      BY <2>2, <3>1, Zenon DEF Next, Handle, vars, RunOutputs, Receive, InstallHandlers, Call, CheckWindow, Evaluate,
             StartStock, RestoreHandlers, AskAgent, WriteAggregateFile, Reply, Crash
    <3> QED BY <1>2, <1>5, <3>2 DEF ResultsOK
  <2> QED BY <2>1, <2>2
<1>7. SUFFICES ASSUME NEW i \in DOMAIN samples' PROVE ResultOK(samples[i], request.codes[i])'
  BY DEF ResultsOK
<1>8. After(samples'[i], request.codes[i]) BY <1>6
<1> QED BY <1>1, <1>8, Zenon DEF After, ResultOK, HasData, DaysTo, WorldUpTo

LEMMA InitScan == Init => ScanInv
<1> SUFFICES ASSUME Init PROVE ScanInv OBVIOUS
<1>1. pc = "received" /\ samples = <<>> BY DEF Init
<1>2. StockOK BY <1>1 DEF StockOK
<1>3. ResultsOK BY <1>1 DEF ResultsOK
<1> QED BY <1>2, <1>3 DEF ScanInv

\* The inductive invariant of a scan: what its calls have answered is of the stock that is under way, and
\* every result is the one of its own stock.
THEOREM ScanInvariance == Spec => []ScanInv
<1>1. Init => ScanInv BY InitScan
<1>2. IInv /\ LogInv /\ SignalInv /\ ScanInv /\ [Next]_vars => ScanInv'
  BY StepStock, StepResults DEF LogInv, SignalInv, ScanInv
<1> QED BY <1>1, <1>2, Invariance, LogInvariance, SignalInvariance, PTL DEF Spec

\* For any codes, market and sequence of calls that raise: an answered scan has a result for every code,
\* a stock fails only where a call raised or it has no data, and the signal of one that did not is the
\* one its own rows give.
THEOREM StocksAreApart == Spec => []ScanKeepsStocksApart
<1>1. LogInv /\ ScanInv => ScanKeepsStocksApart
  <2> SUFFICES ASSUME LogInv, ScanInv, request.kind = "scan" PROVE ScanKeepsStocksApart BY DEF ScanKeepsStocksApart
  <2>1. ASSUME reply = 200 PROVE Len(samples) = Len(request.codes)
    <3>1. item = Len(request.codes) + 1 /\ Len(samples) = item - 1 BY <2>1 DEF LogInv, ItemOK
    <3>2. Len(request.codes) \in Nat BY CodesOfScan DEF LogInv
    <3> QED BY <3>1, <3>2
  <2>2. \A i \in DOMAIN samples : ResultOK(samples[i], request.codes[i]) BY DEF ScanInv, ResultsOK
  <2> QED BY <2>1, <2>2, Zenon DEF ScanKeepsStocksApart, ResultOK
<1> QED BY <1>1, LogInvariance, ScanInvariance, PTL

-----------------------------------------------------------------------------
(* Counts *)

CountSet == [match : Nat, mismatch : Nat, neutral : Nat, unavailable : Nat]
SumOf(c) == c.match + c.mismatch + c.neutral + c.unavailable

LEMMA DisjointUnion ==
  ASSUME NEW S, IsFiniteSet(S), NEW R, IsFiniteSet(R), S \cap R = {}
  PROVE  IsFiniteSet(S \cup R) /\ Cardinality(S \cup R) = Cardinality(S) + Cardinality(R)
<1>1. IsFiniteSet(S \cup R) /\ Cardinality(S \cup R) = Cardinality(S) + Cardinality(R) - Cardinality(S \cap R)
  BY FS_Union
<1>2. Cardinality(S \cap R) = 0 BY FS_EmptySet
<1>3. Cardinality(S) \in Nat /\ Cardinality(R) \in Nat BY FS_CardinalityType
<1> DEFINE s == Cardinality(S)
           r == Cardinality(R)
           both == Cardinality(S \cap R)
           all == Cardinality(S \cup R)
<1>4. s \in Nat /\ r \in Nat /\ both = 0 /\ all = s + r - both BY <1>1, <1>2, <1>3
<1> HIDE DEF s, r, both, all
<1>5. all = s + r BY <1>4
<1> QED BY <1>1, <1>5 DEF all, s, r

\* Every observation of a sample has one of the four labels.
LEMMA CountsOfSample ==
  ASSUME NEW named, NEW response
  PROVE  LET counts == ScoreStrategy(named, response).counts
         IN counts \in CountSet /\ SumOf(counts) = Len(Offsets)
<1> DEFINE scores == [i \in DOMAIN Offsets |-> ScoreObservation(named.signal.action, response.observations[i])]
           With(label) == {i \in DOMAIN scores : scores[i].label = label}
           counts == ScoreStrategy(named, response).counts
           N == Len(Offsets)
<1>1. counts = [match |-> Labelled(scores, "MATCH"), mismatch |-> Labelled(scores, "MISMATCH"),
                neutral |-> Labelled(scores, "NEUTRAL"), unavailable |-> Labelled(scores, "N/A")]
  BY DEF ScoreStrategy, Counts
<1>2. \A label : Labelled(scores, label) = Cardinality(With(label)) BY DEF Labelled
<1>3. N \in Nat /\ DOMAIN Offsets = 1..N /\ DOMAIN scores = 1..N BY OffsetsAssumption
<1>4. ASSUME NEW i \in 1..N PROVE scores[i].label \in {"MATCH", "MISMATCH", "NEUTRAL", "N/A"}
  <2> DEFINE o == response.observations[i]
  <2>1. scores[i].label = MatchLabel(named.signal.action, o.return) BY <1>3 DEF ScoreObservation
  <2> HIDE DEF o, scores
  <2> QED BY <2>1 DEF MatchLabel
<1> HIDE DEF scores, counts, N
<1> DEFINE m == With("MATCH")
           w == With("MISMATCH")
           z == With("NEUTRAL")
           u == With("N/A")
<1>5. m \cup w \cup z \cup u = 1..N BY <1>3, <1>4
<1>6. m \cap w = {} /\ (m \cup w) \cap z = {} /\ (m \cup w \cup z) \cap u = {} OBVIOUS
<1>7. IsFiniteSet(1..N) /\ Cardinality(1..N) = N
  <2>1. 1 \in Int /\ N \in Int /\ ~(1 > N + 1) BY <1>3
  <2>2. IsFiniteSet(1..N) /\ Cardinality(1..N) = IF 1 > N THEN 0 ELSE N - 1 + 1 BY <2>1, FS_Interval
  <2> QED BY <1>3, <2>2
<1>8. m \subseteq 1..N /\ w \subseteq 1..N /\ z \subseteq 1..N /\ u \subseteq 1..N BY <1>5
<1> HIDE DEF m, w, z, u
<1>9. IsFiniteSet(m) /\ IsFiniteSet(w) /\ IsFiniteSet(z) /\ IsFiniteSet(u) BY <1>7, <1>8, FS_Subset
<1>10. Cardinality(m) \in Nat /\ Cardinality(w) \in Nat /\ Cardinality(z) \in Nat /\ Cardinality(u) \in Nat
  BY <1>9, FS_CardinalityType
<1> DEFINE mw == m \cup w
           mwz == mw \cup z
<1>11. IsFiniteSet(mw) /\ Cardinality(mw) = Cardinality(m) + Cardinality(w) BY <1>6, <1>9, DisjointUnion
<1>12. mw \cap z = {} BY <1>6
<1> HIDE DEF mw
<1>13. IsFiniteSet(mwz) /\ Cardinality(mwz) = Cardinality(mw) + Cardinality(z) BY <1>9, <1>11, <1>12, DisjointUnion
<1>14. mwz \cap u = {} /\ mwz \cup u = 1..N BY <1>5, <1>6 DEF mw
<1> HIDE DEF mwz
<1>15. Cardinality(1..N) = Cardinality(m) + Cardinality(w) + Cardinality(z) + Cardinality(u)
  <2>1. Cardinality(mwz \cup u) = Cardinality(mwz) + Cardinality(u) BY <1>9, <1>13, <1>14, DisjointUnion
  <2>2. Cardinality(1..N) = Cardinality(mwz) + Cardinality(u) BY <1>14, <2>1
  <2> QED BY <1>11, <1>13, <2>2
<1>16. counts = [match |-> Cardinality(m), mismatch |-> Cardinality(w), neutral |-> Cardinality(z), unavailable |-> Cardinality(u)]
  BY <1>1, <1>2 DEF m, w, z, u
<1>17. counts \in CountSet BY <1>10, <1>16 DEF CountSet
<1>18. SumOf(counts) = N BY <1>7, <1>10, <1>15, <1>16 DEF SumOf
<1> QED BY <1>17, <1>18 DEF counts, N

Balanced(c) == c \in CountSet /\ SumOf(c) = Len(Offsets)

\* A list of n scores, each with all of its observations counted.
IsGroup(group, n) ==
  /\ group \in Seq({group[i] : i \in DOMAIN group}) /\ Len(group) = n
  /\ \A i \in 1..n : Balanced(group[i].counts)

LEMMA GroupOfNone == IsGroup(<<>>, 0)
<1>1. <<>> \in Seq({<<>>[i] : i \in DOMAIN <<>>}) /\ Len(<<>>) = 0 OBVIOUS
<1> QED BY <1>1 DEF IsGroup

LEMMA GroupOfMore ==
  ASSUME NEW group, NEW n \in Nat, IsGroup(group, n), NEW score, Balanced(score.counts)
  PROVE  IsGroup(Append(group, score), n + 1)
<1> DEFINE S == {group[i] : i \in DOMAIN group}
           more == Append(group, score)
<1>1. group \in Seq(S) /\ Len(group) = n /\ \A i \in 1..n : Balanced(group[i].counts) BY DEF IsGroup
<1>2. more \in Seq({more[i] : i \in DOMAIN more}) /\ Len(more) = n + 1 BY <1>1, AppendToAny
<1> DEFINE U == S \cup {score}
<1>3. group \in Seq(U) /\ score \in U BY <1>1
<1> HIDE DEF S, U
<1>4. (\A i \in 1..Len(group) : more[i] = group[i]) /\ more[Len(group) + 1] = score BY <1>3, Appended
<1> HIDE DEF more
<1>5. ASSUME NEW i \in 1..(n + 1) PROVE Balanced(more[i].counts)
  <2>1. i \in 1..n \/ i = n + 1 OBVIOUS
  <2> QED BY <1>1, <1>4, <2>1
<1> QED BY <1>2, <1>5 DEF IsGroup, more

\* The counts of a group add up to those of its observations.
LEMMA SumOfGroup ==
  ASSUME NEW group, NEW n \in Nat, IsGroup(group, n)
  PROVE  SumCounts(group) \in CountSet /\ SumOf(SumCounts(group)) = n * Len(Offsets)
<1> DEFINE L == Len(Offsets)
<1>1. L \in Nat /\ Len(group) = n /\ \A i \in 1..n : Balanced(group[i].counts) BY OffsetsAssumption DEF IsGroup
<1>2. PICK f : Runs(f, "counts", Counts(0, 0, 0, 0), group, n) /\ SumCounts(group) = f[n] BY <1>1, SumIsLast
<1>3. f[0] = Counts(0, 0, 0, 0) /\ \A i \in 1..n : f[i] = AddCounts(f[i - 1], group[i].counts)
  <2>1. f[0] = Counts(0, 0, 0, 0) /\ \A i \in 1..n : f[i] = LoopStep("counts", f[i - 1], group[i])
    BY <1>2, RunValues
  <2> QED BY <2>1 DEF LoopStep
<1>4. \A i \in 1..n : group[i].counts \in CountSet /\ SumOf(group[i].counts) = L BY <1>1 DEF Balanced
<1> DEFINE T == {k \in Nat : k <= n => f[k] \in CountSet /\ SumOf(f[k]) = k * L}
<1> HIDE DEF L
<1>5. 0 \in T
  <2>1. f[0] = [match |-> 0, mismatch |-> 0, neutral |-> 0, unavailable |-> 0] BY <1>3 DEF Counts
  <2>2. f[0] \in CountSet /\ SumOf(f[0]) = 0 BY <2>1 DEF CountSet, SumOf
  <2>3. 0 * L = 0 BY <1>1
  <2> QED BY <2>2, <2>3
<1>6. ASSUME NEW k \in T PROVE k + 1 \in T
  <2> SUFFICES ASSUME k + 1 <= n PROVE f[k + 1] \in CountSet /\ SumOf(f[k + 1]) = (k + 1) * L OBVIOUS
  <2>1. k \in Nat /\ k + 1 \in 1..n /\ (k + 1) - 1 = k /\ f[k] \in CountSet /\ SumOf(f[k]) = k * L OBVIOUS
  <2> DEFINE a == f[k]
             b == group[k + 1].counts
  <2>2. f[k + 1] = AddCounts(a, b) /\ b \in CountSet /\ SumOf(b) = L BY <1>3, <1>4, <2>1
  <2>3. a \in CountSet /\ SumOf(a) = k * L BY <2>1
  <2> HIDE DEF a, b
  <2>4. AddCounts(a, b) = [match |-> a.match + b.match, mismatch |-> a.mismatch + b.mismatch,
                           neutral |-> a.neutral + b.neutral, unavailable |-> a.unavailable + b.unavailable]
    BY DEF AddCounts, Counts
  <2>5. AddCounts(a, b) \in CountSet BY <2>2, <2>3, <2>4 DEF CountSet
  <2>6. SumOf(AddCounts(a, b)) = SumOf(a) + SumOf(b) BY <2>2, <2>3, <2>4 DEF CountSet, SumOf
  <2>7. (k + 1) * L = k * L + L BY <1>1, <2>1
  <2> QED BY <2>2, <2>3, <2>5, <2>6, <2>7
<1> HIDE DEF T
<1>7. T \subseteq Nat BY DEF T
<1>8. n \in T BY <1>5, <1>6, <1>7, AllNaturals
<1> QED BY <1>2, <1>8 DEF T, L

-----------------------------------------------------------------------------
(* Groups *)

\* The scores of one sample: one for each known strategy, in their order.
ScoresOf(scores, known) ==
  /\ Len(scores) = Len(known)
  /\ \A i \in 1..Len(known) : scores[i].strategy = known[i] /\ Balanced(scores[i].counts)

\* The groups after n samples.
GroupsOf(groups, names, n) ==
  /\ DOMAIN groups = IF n = 0 THEN {} ELSE names
  /\ \A s \in names : IsGroup(GroupOf(groups, s), n)

\* One more sample gives each of its strategies one more score.
LEMMA SampleGrouped ==
  ASSUME NEW known, known \in Seq(ToSet(known)), IsInjective(known), NEW n \in Nat,
         NEW groups, GroupsOf(groups, ToSet(known), n), NEW scores, ScoresOf(scores, known)
  PROVE  GroupsOf(WithScores(groups, scores), ToSet(known), n + 1)
<1> DEFINE M == Len(known)
           names == ToSet(known)
           First(m) == {known[j] : j \in 1..m}
<1>1. M \in Nat /\ DOMAIN known = 1..M /\ Len(scores) = M /\ names = First(M) BY DEF ScoresOf, ToSet
<1>2. \A i \in 1..M : scores[i].strategy = known[i] /\ Balanced(scores[i].counts) BY DEF ScoresOf
<1>3. \A i, j \in 1..M : known[i] = known[j] => i = j BY <1>1 DEF IsInjective
<1>4. PICK f : Runs(f, "scores", groups, scores, M) /\ WithScores(groups, scores) = f[M] BY <1>1, WithScoresIsLast
<1>5. f[0] = groups /\ \A m \in 1..M : f[m] = WithScore(f[m - 1], scores[m])
  <2>1. f[0] = groups /\ \A m \in 1..M : f[m] = LoopStep("scores", f[m - 1], scores[m]) BY <1>1, <1>4, RunValues
  <2> QED BY <2>1 DEF LoopStep
<1> DEFINE Good(m) == /\ DOMAIN f[m] = DOMAIN groups \cup First(m)
                      /\ \A j \in 1..M : IsGroup(GroupOf(f[m], known[j]), IF j <= m THEN n + 1 ELSE n)
           T == {m \in Nat : m <= M => Good(m)}
<1> HIDE DEF M
<1>6. 0 \in T
  <2>1. First(0) = {} OBVIOUS
  <2>2. ASSUME NEW j \in 1..M PROVE IsGroup(GroupOf(f[0], known[j]), IF j <= 0 THEN n + 1 ELSE n)
    <3>1. ~(j <= 0) /\ known[j] \in names BY <1>1
    <3>2. IsGroup(GroupOf(groups, known[j]), n) BY <3>1 DEF GroupsOf
    <3> QED BY <1>5, <3>1, <3>2
  <2> QED BY <1>5, <2>1, <2>2
<1>7. ASSUME NEW m \in T PROVE m + 1 \in T
  <2> SUFFICES ASSUME m + 1 <= M PROVE Good(m + 1) OBVIOUS
  <2>1. m \in Nat /\ m + 1 \in 1..M /\ (m + 1) - 1 = m /\ Good(m) BY <1>1
  <2> DEFINE before == f[m]
             after == f[m + 1]
             score == scores[m + 1]
             name == known[m + 1]
  <2>2. after = WithScore(before, score) /\ score.strategy = name /\ Balanced(score.counts) BY <1>2, <1>5, <2>1
  <2>3. /\ DOMAIN before = DOMAIN groups \cup First(m)
        /\ \A j \in 1..M : IsGroup(GroupOf(before, known[j]), IF j <= m THEN n + 1 ELSE n)
    BY <2>1
  <2>4. First(m + 1) = First(m) \cup {name}
    <3>1. \A i \in 1..(m + 1) : i \in 1..m \/ i = m + 1 BY <2>1
    <3>2. 1..m \subseteq 1..(m + 1) /\ m + 1 \in 1..(m + 1) BY <2>1
    <3> QED BY <3>1, <3>2
  <2> HIDE DEF before, after, score, name
  <2>5. after = [s \in DOMAIN before \cup {name} |->
                   IF s = name THEN Append(GroupOf(before, s), score) ELSE before[s]]
    BY <2>2 DEF WithScore
  <2>6. DOMAIN after = DOMAIN before \cup {name} BY <2>5
  <2>7. GroupOf(after, name) = Append(GroupOf(before, name), score) BY <2>5 DEF GroupOf
  <2>8. \A s : s # name => GroupOf(after, s) = GroupOf(before, s) BY <2>5 DEF GroupOf
  <2>9. ASSUME NEW j \in 1..M PROVE IsGroup(GroupOf(after, known[j]), IF j <= m + 1 THEN n + 1 ELSE n)
    <3>1. CASE j = m + 1
      <4>1. ~(j <= m) /\ j <= m + 1 /\ known[j] = name BY <2>1, <3>1 DEF name
      <4>2. IsGroup(GroupOf(before, name), n) BY <2>3, <4>1
      <4>3. IsGroup(Append(GroupOf(before, name), score), n + 1) BY <2>2, <4>2, GroupOfMore
      <4> QED BY <2>7, <4>1, <4>3
    <3>2. CASE j # m + 1
      <4>1. j <= m <=> j <= m + 1 BY <1>1, <2>1, <3>2
      <4>2. known[j] # name BY <1>3, <2>1, <3>2 DEF name
      <4> QED BY <2>3, <2>8, <4>1, <4>2
    <3> QED BY <3>1, <3>2
  <2>10. DOMAIN after = DOMAIN groups \cup First(m + 1) BY <2>3, <2>4, <2>6
  <2> QED BY <2>9, <2>10 DEF after
<1>8. Good(M)
  <2> HIDE DEF T
  <2>1. T \subseteq Nat BY DEF T
  <2>2. M \in T BY <1>1, <1>6, <1>7, <2>1, AllNaturals
  <2> QED BY <1>1, <2>2 DEF T
<1> DEFINE result == f[M]
<1>9. DOMAIN result = DOMAIN groups \cup names BY <1>1, <1>8
<1>10. DOMAIN groups \subseteq names BY DEF GroupsOf
<1>11. ASSUME NEW s \in names PROVE IsGroup(GroupOf(result, s), n + 1)
  <2>1. PICK j \in 1..M : s = known[j] BY <1>1
  <2>2. j <= M BY <1>1
  <2> QED BY <1>8, <2>1, <2>2
<1> HIDE DEF result
<1>12. GroupsOf(result, names, n + 1)
  <2>1. DOMAIN result = names /\ n + 1 # 0 BY <1>9, <1>10
  <2> QED BY <1>11, <2>1 DEF GroupsOf
<1> QED BY <1>4, <1>12 DEF result

\* After the last sample every known strategy has a score of each.
LEMMA SamplesGrouped ==
  ASSUME NEW known, known \in Seq(ToSet(known)), IsInjective(known), NEW list, NEW N \in Nat, Len(list) = N,
         \A i \in 1..N : ScoresOf(list[i], known)
  PROVE  GroupsOf(GroupScores(list), ToSet(known), N)
<1>1. PICK f : Runs(f, "samples", <<>>, list, N) /\ GroupScores(list) = f[N] BY GroupsAreLast
<1>2. f[0] = <<>> /\ \A n \in 1..N : f[n] = WithScores(f[n - 1], list[n])
  <2>1. f[0] = <<>> /\ \A n \in 1..N : f[n] = LoopStep("samples", f[n - 1], list[n]) BY <1>1, RunValues
  <2> QED BY <2>1 DEF LoopStep
<1> DEFINE T == {n \in Nat : n <= N => GroupsOf(f[n], ToSet(known), n)}
<1>3. 0 \in T
  <2>1. DOMAIN <<>> = {} OBVIOUS
  <2>2. \A s : GroupOf(<<>>, s) = <<>> BY <2>1 DEF GroupOf
  <2> QED BY <1>2, <2>1, <2>2, GroupOfNone DEF GroupsOf
<1>4. ASSUME NEW n \in T PROVE n + 1 \in T
  <2> SUFFICES ASSUME n + 1 <= N PROVE GroupsOf(f[n + 1], ToSet(known), n + 1) OBVIOUS
  <2>1. n \in Nat /\ n + 1 \in 1..N /\ (n + 1) - 1 = n /\ GroupsOf(f[n], ToSet(known), n) OBVIOUS
  <2>2. f[n + 1] = WithScores(f[n], list[n + 1]) BY <1>2, <2>1
  <2> QED BY <2>1, <2>2, SampleGrouped
<1> HIDE DEF T
<1>5. T \subseteq Nat BY DEF T
<1>6. N \in T BY <1>3, <1>4, <1>5, AllNaturals
<1> QED BY <1>1, <1>6 DEF T

\* The aggregate has every known strategy with all of its samples and observations.
LEMMA AggregateAddsUp ==
  ASSUME NEW known, known \in Seq(ToSet(known)), IsInjective(known), NEW list, NEW N \in Nat \ {0}, Len(list) = N,
         \A i \in 1..N : ScoresOf(list[i], known)
  PROVE  LET scores == AggregateScores(list)
         IN /\ DOMAIN scores = ToSet(known)
            /\ \A s \in ToSet(known) : scores[s].samples = N /\ SumOf(scores[s].counts) = N * Len(Offsets)
<1> DEFINE groups == GroupScores(list)
           scores == AggregateScores(list)
           average(s) == Average([i \in DOMAIN groups[s] |-> groups[s][i].average])
<1>1. GroupsOf(groups, ToSet(known), N) BY SamplesGrouped
<1>2. scores = [s \in DOMAIN groups |-> [samples |-> Len(groups[s]), average |-> average(s), counts |-> SumCounts(groups[s])]]
  BY DEF AggregateScores
<1> HIDE DEF groups, scores, average
<1>3. DOMAIN groups = ToSet(known) BY <1>1 DEF GroupsOf
<1>4. ASSUME NEW s \in ToSet(known) PROVE scores[s].samples = N /\ SumOf(scores[s].counts) = N * Len(Offsets)
  <2>1. IsGroup(groups[s], N) BY <1>1, <1>3 DEF GroupsOf, GroupOf
  <2>2. scores[s].samples = Len(groups[s]) /\ scores[s].counts = SumCounts(groups[s]) BY <1>2, <1>3
  <2> QED BY <2>1, <2>2, SumOfGroup DEF IsGroup
<1> QED BY <1>2, <1>3, <1>4 DEF scores

-----------------------------------------------------------------------------
(* Confidences *)

LEMMA LeastOfTwo == ASSUME NEW a \in Int, NEW b \in Int PROVE Min({a, b}) = IF b < a THEN b ELSE a
<1> DEFINE m == IF b < a THEN b ELSE a
<1>1. m \in {a, b} /\ \A y \in {a, b} : m <= y OBVIOUS
<1>2. \A x \in {a, b} : (\A y \in {a, b} : x <= y) => x = m OBVIOUS
<1> HIDE DEF m
<1>3. (CHOOSE x \in {a, b} : \A y \in {a, b} : x <= y) = m BY <1>1, <1>2
<1> QED BY <1>3 DEF Min, m

LEMMA GreatestOfTwo == ASSUME NEW a \in Int, NEW b \in Int PROVE Max({a, b}) = IF b > a THEN b ELSE a
<1> DEFINE m == IF b > a THEN b ELSE a
<1>1. m \in {a, b} /\ \A y \in {a, b} : m >= y OBVIOUS
<1>2. \A x \in {a, b} : (\A y \in {a, b} : x >= y) => x = m OBVIOUS
<1> HIDE DEF m
<1>3. (CHOOSE x \in {a, b} : \A y \in {a, b} : x >= y) = m BY <1>1, <1>2
<1> QED BY <1>3 DEF Max, m

\* The scores of a direction are sums of a few fixed points, and a direction needs most of them: its
\* confidence is above every HOLD and below the cap.
LEMMA CompositeIsConsistent == ASSUME NEW f PROVE Consistent(EvaluateCompositeSignal(f))
<1> DEFINE buy == BuyScore(f)
           sell == SellScore(f)
           action == SelectAction(buy, sell)
           confidence == ConfidenceFor(action, buy, sell)
<1>1. buy \in {0, 22, 42, 64}
  <2>1. \A rule, points : Score(rule, points) = points \/ Score(rule, points) = 0 BY DEF Score
  <2>2. PICK a \in {0, 42}, b \in {0, 22} : buy = a + b BY <2>1 DEF BuyScore
  <2> QED BY <2>2
<1>2. sell \in {0, 22, 30, 45, 52, 67, 75, 97}
  <2>1. \A rule, points : Score(rule, points) = points \/ Score(rule, points) = 0 BY DEF Score
  <2>2. PICK a \in {0, 45}, b \in {0, 30}, c \in {0, 22} : sell = a + b + c BY <2>1 DEF SellScore
  <2> QED BY <2>2
<1> HIDE DEF buy, sell
<1>3. CASE HasMissingCoreFeatures(f)
  <2>1. EvaluateCompositeSignal(f) = [action |-> "HOLD", confidence |-> 2000] BY <1>3 DEF EvaluateCompositeSignal
  <2> QED BY <2>1 DEF Consistent
<1>4. CASE ~HasMissingCoreFeatures(f)
  <2>1. EvaluateCompositeSignal(f) = [action |-> action, confidence |-> confidence]
    BY <1>4 DEF EvaluateCompositeSignal, buy, sell
  <2>2. \/ action = "BUY" /\ buy >= 55 /\ buy > sell + 15
        \/ action = "SELL" /\ sell >= 55 /\ sell > buy + 15
        \/ action = "HOLD"
    BY DEF SelectAction
  <2> HIDE DEF action
  <2>3. confidence \in 0..10000 /\ (action # "HOLD" => confidence > 6500)
    <3>1. CASE action = "BUY" /\ buy >= 55 /\ buy > sell + 15
      <4>1. buy = 64 /\ sell < 49 BY <1>1, <1>2, <3>1
      <4> DEFINE n == 4500 + 100 * buy - 35 * sell
      <4>2. n \in Int /\ n >= 9220 BY <1>2, <4>1
      <4>3. confidence = Min({9500, n}) BY <3>1 DEF ConfidenceFor
      <4> HIDE DEF n, confidence
      <4>4. 9500 \in Int OBVIOUS
      <4>5. Min({9500, n}) = IF n < 9500 THEN n ELSE 9500 BY <4>2, <4>4, LeastOfTwo
      <4> QED BY <3>1, <4>2, <4>3, <4>5
    <3>2. CASE action = "SELL" /\ sell >= 55 /\ sell > buy + 15
      <4>1. sell >= 67 /\ sell <= 97 /\ buy <= 64 BY <1>1, <1>2, <3>2
      <4> DEFINE n == 4500 + 100 * sell - 35 * buy
      <4>2. n \in Int /\ n >= 8960 BY <1>1, <1>2, <4>1
      <4>3. confidence = Min({9500, n}) BY <3>2 DEF ConfidenceFor
      <4> HIDE DEF n, confidence
      <4>4. 9500 \in Int OBVIOUS
      <4>5. Min({9500, n}) = IF n < 9500 THEN n ELSE 9500 BY <4>2, <4>4, LeastOfTwo
      <4> QED BY <3>2, <4>2, <4>3, <4>5
    <3>3. CASE action = "HOLD"
      <4> DEFINE n == 5000 + 20 * AbsoluteValue(buy - sell)
      <4>1. n \in Int BY <1>1, <1>2 DEF AbsoluteValue
      <4>2. confidence = Max({3500, Min({6500, n})}) BY <3>3 DEF ConfidenceFor
      <4> DEFINE inner == Min({6500, n})
      <4> HIDE DEF n, confidence
      <4>3. 6500 \in Int /\ 3500 \in Int OBVIOUS
      <4>4. inner = IF n < 6500 THEN n ELSE 6500 BY <4>1, <4>3, LeastOfTwo
      <4> HIDE DEF inner
      <4>5. inner \in Int /\ inner <= 6500 BY <4>1, <4>4
      <4>6. Max({3500, inner}) = IF inner > 3500 THEN inner ELSE 3500 BY <4>3, <4>5, GreatestOfTwo
      <4> QED BY <3>3, <4>2, <4>5, <4>6 DEF inner
    <3> QED BY <2>2, <3>1, <3>2, <3>3
  <2> HIDE DEF confidence
  <2> QED BY <2>1, <2>3 DEF Consistent
<1> QED BY <1>3, <1>4

-----------------------------------------------------------------------------
(* Scores *)

\* The strategies of a run that are known.
Known == KnownStrategies(request.strategies)

\* What the manifest says of the scores of a run, as in ScoresAddUp.
AddsUp(scores, strategies, runs) ==
  /\ DOMAIN scores = ToSet(strategies) \cap SupportedStrategies
  /\ \A s \in DOMAIN scores : scores[s].samples = runs /\ SumOf(scores[s].counts) = runs * Len(Offsets)

SamplesScored == Research => \A i \in DOMAIN samples : ScoresOf(samples[i].strategies, Known)
ManifestAddsUp ==
  Research /\ Written(Manifest) => AddsUp(files[Manifest].scores, request.strategies, Len(request.starts))

ScoreInv == SamplesScored /\ ManifestAddsUp /\ SignalsAreConsistent

LEMMA KnownOfRun ==
  ASSUME Research, request \in Requests, ValidRequest(request)
  PROVE  /\ Known \in Seq(ToSet(Known)) /\ IsInjective(Known)
         /\ ToSet(Known) = ToSet(request.strategies) \cap SupportedStrategies
<1>1. request.strategies \in Seq(ToSet(request.strategies)) BY ServicesAssumption DEF Research
<1>2. IsInjective(request.strategies) BY DEF ValidRequest, Research
<1>3. Known \in Seq(ToSet(request.strategies)) /\ IsInjective(Known) /\ ToSet(Known) = ToSet(request.strategies) \cap SupportedStrategies
  BY <1>1, <1>2, KnownShape DEF Known
<1>4. Known \in Seq({Known[i] : i \in DOMAIN Known}) BY <1>3, OwnElements
<1> QED BY <1>3, <1>4 DEF ToSet

\* The scores of a sample are those of its signals, one for each known strategy.
LEMMA ScoresOfSample ==
  ASSUME Research, request \in Requests, ValidRequest(request)
  PROVE  ScoresOf(StrategyScores, Known)
<1> DEFINE named == Signals(request.strategies, backtest)
           scores == StrategyScores
           N == Len(Known)
           score(i) == ScoreStrategy(named[i], backtest)
<1>1. Known \in Seq(ToSet(Known)) BY KnownOfRun
<1>2. named = [i \in DOMAIN Known |->
                [strategy |-> Known[i],
                 signal |-> IF Known[i] = "composite_baseline" THEN backtest.signal
                            ELSE FollowThrough(backtest.context)]]
  BY DEF Signals, ResearchStrategySignals, Known
<1>3. scores = [i \in DOMAIN named |-> score(i)] BY DEF StrategyScores
<1>4. \A i : score(i).strategy = named[i].strategy BY DEF ScoreStrategy
<1>5. \A i : Balanced(score(i).counts) BY CountsOfSample DEF Balanced
<1> HIDE DEF named, scores, score
<1>6. N \in Nat /\ DOMAIN Known = 1..N BY <1>1
<1>7. DOMAIN named = 1..N /\ \A i \in 1..N : named[i].strategy = Known[i] BY <1>2, <1>6
<1>8. scores = [i \in 1..N |-> score(i)] BY <1>3, <1>7
<1>9. \A i \in 1..N : scores[i] = score(i) BY <1>8
<1> DEFINE S == {score(i) : i \in 1..N}
<1>10. scores \in [1..N -> S] BY <1>8
<1> HIDE DEF N, S
<1>11. scores \in Seq(S) /\ Len(scores) = N BY <1>6, <1>10
<1>12. \A i \in 1..N : scores[i].strategy = Known[i] /\ Balanced(scores[i].counts) BY <1>4, <1>5, <1>7, <1>9
<1> QED BY <1>11, <1>12 DEF ScoresOf, scores, N

\* The aggregate of a run that has finished its samples.
LEMMA ScoresOfRun ==
  ASSUME IInv, PointsOK, Research, pc = "aggregate", \A i \in DOMAIN samples : ScoresOf(samples[i].strategies, Known)
  PROVE  AddsUp(Scores, request.strategies, Len(request.starts))
<1> DEFINE list == [i \in DOMAIN samples |-> samples[i].strategies]
           N == Len(request.starts)
<1>1. /\ request \in Requests /\ ValidRequest(request)
      /\ samples \in Seq({samples[i] : i \in DOMAIN samples}) /\ Len(samples) = item - 1 /\ item = N + 1
  BY DEF IInv, SamplesOK
<1>2. N \in Nat /\ request.starts \in Seq(ToSet(request.starts)) BY StartsOfRun
<1>3. N # 0
  <2>1. request.starts # <<>> BY <1>1 DEF ValidRequest, Research
  <2> QED BY <1>2, <2>1
<1>4. Len(samples) = N /\ DOMAIN samples = 1..N BY <1>1, <1>2
<1>5. DOMAIN list = 1..N /\ \A i \in 1..N : list[i] = samples[i].strategies BY <1>4
<1>6. list = [i \in 1..N |-> samples[i].strategies] BY <1>4
<1>7. \A i \in 1..N : ScoresOf(list[i], Known) BY <1>4, <1>5
<1> DEFINE S == {samples[i].strategies : i \in 1..N}
<1>8. list \in [1..N -> S] BY <1>6
<1>9. Scores = AggregateScores(list) BY DEF Scores
<1> HIDE DEF N, S, list
<1>10. list \in Seq(S) /\ Len(list) = N BY <1>2, <1>8
<1>11. Known \in Seq(ToSet(Known)) /\ IsInjective(Known) /\ ToSet(Known) = ToSet(request.strategies) \cap SupportedStrategies
  BY <1>1, KnownOfRun
<1>12. N \in Nat \ {0} BY <1>2, <1>3 DEF N
<1> DEFINE known == Known
           scores == AggregateScores(list)
<1>13. /\ known \in Seq(ToSet(known)) /\ IsInjective(known) /\ Len(list) = N
       /\ \A i \in 1..N : ScoresOf(list[i], known)
  BY <1>7, <1>10, <1>11
<1> HIDE DEF known
<1>14. /\ DOMAIN scores = ToSet(known)
       /\ \A s \in ToSet(known) : scores[s].samples = N /\ SumOf(scores[s].counts) = N * Len(Offsets)
  BY <1>12, <1>13, AggregateAddsUp
<1> HIDE DEF scores
<1>15. Scores = scores /\ ToSet(known) = ToSet(request.strategies) \cap SupportedStrategies BY <1>9, <1>11 DEF scores, known
<1> QED BY <1>14, <1>15 DEF AddsUp, N

\* Samples finish with a score of every known strategy, the manifest has their aggregate, and feature files
\* have signals of the composite strategy.
LEMMA StepScores ==
  ASSUME IInv, PointsOK, SignalsOK, ScoreInv, [Next]_vars
  PROVE  ScoreInv'
<1>1. UNCHANGED <<world, request>> BY SameInputs
<1>2. (Research' <=> Research) /\ Known' = Known /\ Manifest' = Manifest BY <1>1 DEF Research, Known, Manifest
<1>3. ASSUME NEW start PROVE Consistent(SignalAt(start)) BY CompositeIsConsistent DEF SignalAt
<1>4. ASSUME Research PROVE \A i \in DOMAIN samples : ScoresOf(samples[i].strategies, Known)
  BY <1>4 DEF ScoreInv, SamplesScored
<1>5. SUFFICES
        /\ Research => \A i \in DOMAIN samples' : ScoresOf(samples'[i].strategies, Known)
        /\ Research /\ Manifest \in DOMAIN files' =>
             AddsUp(files'[Manifest].scores, request.strategies, Len(request.starts))
        /\ \A path \in DOMAIN files' : path[2] = "feature_set.json" => Consistent(files'[path].signal)
  <2>1. SamplesScored' <=> (Research' => \A i \in DOMAIN samples' : ScoresOf(samples'[i].strategies, Known'))
    BY DEF SamplesScored, ScoresOf, Balanced, SumOf
  <2>2. ManifestAddsUp' <=> (Research' /\ Manifest' \in DOMAIN files' =>
                               AddsUp(files'[Manifest'].scores, request'.strategies, Len(request'.starts)))
    BY DEF ManifestAddsUp, Written, AddsUp, SumOf
  <2>3. SignalsAreConsistent' <=> \A path \in DOMAIN files' : path[2] = "feature_set.json" => Consistent(files'[path].signal)
    BY DEF SignalsAreConsistent
  <2>4. request' = request BY <1>1
  <2>5. SamplesScored' BY <1>2, <2>1
  <2>6. ManifestAddsUp' BY <1>2, <2>2, <2>4
  <2>7. SignalsAreConsistent' BY <2>3
  <2> QED BY <2>5, <2>6, <2>7 DEF ScoreInv
<1>6. \A path \in DOMAIN files : path[2] = "feature_set.json" => Consistent(files[path].signal)
  BY DEF ScoreInv, SignalsAreConsistent
<1>7. Research /\ Manifest \in DOMAIN files => AddsUp(files[Manifest].scores, request.strategies, Len(request.starts))
  BY DEF ScoreInv, ManifestAddsUp, Written
<1>8. CASE WriteSampleFile
  <2>1. /\ Research /\ request \in Requests /\ ValidRequest(request) /\ pc = "artifacts"
    BY <1>8, SampleWrite DEF WriteSampleFile
  <2>2. PICK i \in 1..(SignalCount + 6) :
          LET path == SampleFiles(Start)[i]
          IN /\ path \notin DOMAIN files
             /\ \A j \in 1..(i - 1) : SampleFiles(Start)[j] \in DOMAIN files
             /\ files' = WithFile(files, path, SampleContent(path))
    BY <1>8, SampleWrite
  <2> DEFINE path == SampleFiles(Start)[i]
  <2>3. DOMAIN files' = DOMAIN files \cup {path} /\ \A p \in DOMAIN files : files'[p] = files[p]
    BY <2>1, <2>2, SampleWriteKeepsFiles
  <2>4. files'[path] = SampleContent(path) BY <2>2, WrittenFile
  <2> HIDE DEF path
  <2>5. path[2] = "feature_set.json" => Consistent(files'[path].signal)
    <3> SUFFICES ASSUME path[2] = "feature_set.json" PROVE Consistent(files'[path].signal) OBVIOUS
    <3>1. SampleContent(path) = [signal |-> backtest.signal, context |-> backtest.context]
      BY DEF SampleContent, Stages
    <3>2. backtest.signal = SignalAt(Start) BY <2>1 DEF SignalsOK
    <3> QED BY <1>3, <2>4, <3>1, <3>2
  <2>6. \A p \in DOMAIN files' : p[2] = "feature_set.json" => Consistent(files'[p].signal) BY <1>6, <2>3, <2>5
  <2>7. Manifest \notin DOMAIN files'
    <3>1. ~Written(Manifest) BY <2>1 DEF IInv, AnswerOK
    <3> QED BY <1>2, <2>1, <3>1, SameManifest DEF Written
  <2> DEFINE sample == [sample |-> Start, signalDate |-> backtest.signalDate, strategies |-> StrategyScores]
  <2>8. samples' = samples \/ samples' = Append(samples, sample) BY <1>8 DEF WriteSampleFile
  <2>9. ScoresOf(sample.strategies, Known) BY <2>1, ScoresOfSample
  <2> HIDE DEF sample
  <2>10. samples \in Seq({samples[k] : k \in DOMAIN samples}) BY DEF IInv, SamplesOK
  <2>11. ASSUME samples' = Append(samples, sample), NEW k \in DOMAIN samples'
         PROVE  ScoresOf(samples'[k].strategies, Known)
    <3> DEFINE S == {samples[j] : j \in DOMAIN samples} \cup {sample}
    <3>1. samples \in Seq(S) /\ sample \in S BY <2>10
    <3> HIDE DEF S
    <3>2. /\ DOMAIN samples' = 1..(Len(samples) + 1) /\ Len(samples) \in Nat /\ DOMAIN samples = 1..Len(samples)
          /\ \A j \in 1..Len(samples) : samples'[j] = samples[j]
          /\ samples'[Len(samples) + 1] = sample
      BY <2>11, <3>1, Appended
    <3>3. k \in 1..Len(samples) \/ k = Len(samples) + 1 BY <3>2
    <3> QED BY <1>4, <2>1, <2>9, <3>2, <3>3
  <2>12. \A k \in DOMAIN samples' : ScoresOf(samples'[k].strategies, Known) BY <1>4, <2>1, <2>8, <2>11
  <2> QED BY <2>6, <2>7, <2>12
<1>9. CASE WriteAggregateFile
  <2>1. Research /\ pc = "aggregate" /\ Manifest \notin DOMAIN files /\ samples' = samples BY <1>9, AggregateWrite
  <2>2. PICK path : /\ path[2] \in {"ai_review.json", "agent-decisions.jsonl", "final_report.md", "run-manifest.json"}
                    /\ DOMAIN files' = DOMAIN files \cup {path}
                    /\ files'[path] = AggregateContent(path)
                    /\ \A p \in DOMAIN files : files'[p] = files[p]
    BY <1>9, AggregateWrite
  <2>3. \A p \in DOMAIN files' : p[2] = "feature_set.json" => Consistent(files'[p].signal) BY <1>6, <2>2
  <2>4. Manifest \in DOMAIN files' => files'[Manifest].scores = Scores
    <3>1. Manifest \in DOMAIN files' => path = Manifest BY <2>1, <2>2
    <3>2. AggregateContent(Manifest)
            = [sampleCount |-> Len(samples), callCount |-> Len(logs.api), hadRetry |-> logs.retries > 0,
               cache |-> logs.cache, scores |-> Scores, reviewStatus |-> review.status]
      BY DEF AggregateContent, Manifest
    <3>3. AggregateContent(Manifest).scores = Scores BY <3>2
    <3> QED BY <2>2, <3>1, <3>3
  <2> QED BY <1>4, <2>1, <2>3, <2>4, ScoresOfRun
<1>10. CASE Receive
  <2>1. pc = "received" /\ files = <<>> /\ DOMAIN files = {} /\ samples' = samples
    BY <1>10 DEF Receive, IInv, SamplesOK
  <2>2. UNCHANGED files \/ files' = WithFile(files, <<RunDir, "run-config.json">>, request) BY <1>10 DEF Receive
  <2> DEFINE path == <<RunDir, "run-config.json">>
  <2>3. path[2] # "feature_set.json" OBVIOUS
  <2> HIDE DEF path
  <2>4. files' = WithFile(files, path, request) => DOMAIN files' = DOMAIN files \cup {path} BY WrittenFile
  <2>5. \A p \in DOMAIN files' : p[2] # "feature_set.json" BY <2>1, <2>2, <2>3, <2>4 DEF path
  <2>6. Manifest \notin DOMAIN files'
    <3>1. ~Written(Manifest) /\ pc # "aggregate" BY <2>1 DEF Written
    <3> QED BY <1>2, <3>1, SameManifest DEF Written
  <2> QED BY <1>4, <2>1, <2>5, <2>6
<1>11. CASE UNCHANGED <<files, samples>> BY <1>4, <1>6, <1>7, <1>11
<1>12. CASE FinishStock
  <2>1. ~Research BY <1>12 DEF FinishStock, PointsOK, Research
  <2>2. UNCHANGED files BY <1>12 DEF FinishStock
  <2> QED BY <1>6, <2>1, <2>2
<1>13. UNCHANGED vars \/ InstallHandlers \/ Call \/ CheckWindow \/ Evaluate \/ StartStock \/ RestoreHandlers
       \/ AskAgent \/ Reply \/ Crash => UNCHANGED <<files, samples>>
  BY Zenon DEF vars, InstallHandlers, Call, CheckWindow, Evaluate, StartStock, RestoreHandlers,
         AskAgent, Reply, Crash, RunOutputs, History
<1> QED BY <1>8, <1>9, <1>10, <1>11, <1>12, <1>13 DEF Next, Handle

LEMMA InitScores == Init => ScoreInv
BY DEF Init, ScoreInv, SamplesScored, ManifestAddsUp, SignalsAreConsistent, Written

\* The inductive invariant of the scores: each finished sample has one score of every known strategy with all of
\* its observations counted, the manifest has their aggregate, and signals in files are the composite strategy's.
THEOREM ScoreInvariance == Spec => []ScoreInv
<1>1. Init => ScoreInv BY InitScores
<1>2. IInv /\ LogInv /\ SignalInv /\ ScoreInv /\ [Next]_vars => ScoreInv' BY StepScores DEF LogInv, SignalInv
<1> QED BY <1>1, <1>2, Invariance, LogInvariance, SignalInvariance, PTL DEF Spec

\* For any market, strategies, start dates and offsets: every observation of every sample of a finished run is
\* counted under one label of its strategy, no known strategy is left out, and no confidence leaves its range or
\* lets a HOLD outrank a direction.
THEOREM ScoresAgree == Spec => []ScoresAreConsistent
<1>1. IInv /\ ScoreInv => ScoresAreConsistent
  <2> SUFFICES ASSUME IInv, ScoreInv PROVE ScoresAreConsistent OBVIOUS
  <2>1. ScoresAddUp
    <3> SUFFICES ASSUME Written(Manifest)
                 PROVE  AddsUp(files[Manifest].scores, request.strategies, Len(request.starts))
      BY Zenon DEF ScoresAddUp, AddsUp, SumOf
    <3>1. Research
      <4>1. files # <<>> BY DEF Written
      <4> QED BY <4>1 DEF IInv, SamplesOK
    <3> QED BY <3>1 DEF ScoreInv, ManifestAddsUp
  <2>2. SignalsAreConsistent BY DEF ScoreInv
  <2> QED BY <2>1, <2>2 DEF ScoresAreConsistent
<1> QED BY <1>1, Invariance, ScoreInvariance, PTL

-----------------------------------------------------------------------------
(* What the report tells *)

\* A score with one result per offset, in their order.
ForEveryOffset(score) ==
  DOMAIN score.scores = DOMAIN Offsets /\ \A k \in DOMAIN Offsets : score.scores[k].offset = Offsets[k]

\* A backtest that is to be written has an observation for each offset.
ObservedOK ==
  Research =>
    /\ pc = "artifacts" \/ (pc = "close" /\ failure = None) =>
         \A k \in DOMAIN Offsets : backtest.observations[k].offset = Offsets[k]
    /\ \A i \in DOMAIN samples : \A score \in ToSet(samples[i].strategies) : ForEveryOffset(score)

\* What is kept of a sample is what its score file has.
StoredOK ==
  Research =>
    /\ \A i \in DOMAIN samples : files[ScoreFile(request.starts[i])].scores = samples[i].strategies
    /\ pc = "artifacts" /\ Written(ScoreFile(Start)) => files[ScoreFile(Start)].scores = StrategyScores

\* The section of a report, by what its text names.
SectionOf(mentions, results) == IF ToSet(Offsets) \subseteq mentions THEN {} ELSE ObservationSection(results)

\* A report is written when all samples are finished, from a review of them.
SectionOK ==
  /\ pc = "aggregate" => review.section = SectionOf(review.mentions, samples)
  /\ Written(Report) =>
       /\ pc \in {"aggregate", "answered", "done", "dead"} /\ Research /\ item = Len(request.starts) + 1
       /\ files[Report].section = SectionOf(files[Report].mentions, samples)

ReportInv == ObservedOK /\ StoredOK /\ SectionOK

\* The scores of a backtest have what it observed.
LEMMA OffsetsOfScores ==
  ASSUME \A k \in DOMAIN Offsets : backtest.observations[k].offset = Offsets[k]
  PROVE  \A score \in ToSet(StrategyScores) : ForEveryOffset(score)
<1> TAKE score \in ToSet(StrategyScores)
<1> DEFINE named == Signals(request.strategies, backtest)
           scores(n) == [k \in DOMAIN Offsets |-> ScoreObservation(n.signal.action, backtest.observations[k])]
<1>1. PICK i \in DOMAIN named : score = ScoreStrategy(named[i], backtest) BY DEF StrategyScores, ToSet
<1>2. score.scores = scores(named[i]) BY <1>1 DEF ScoreStrategy
<1>3. ASSUME NEW k \in DOMAIN Offsets PROVE scores(named[i])[k].offset = Offsets[k]
  <2>1. scores(named[i])[k] = ScoreObservation(named[i].signal.action, backtest.observations[k]) OBVIOUS
  <2>2. scores(named[i])[k].offset = backtest.observations[k].offset BY <2>1 DEF ScoreObservation
  <2> QED BY <2>2
<1>4. DOMAIN scores(named[i]) = DOMAIN Offsets OBVIOUS
<1> HIDE DEF named, scores
<1> QED BY <1>2, <1>3, <1>4 DEF ForEveryOffset

\* A response has an observation for each offset, whether or not there was a price for it.
LEMMA EvaluateOffsets ==
  ASSUME Research, Evaluate
  PROVE  \/ failure' # None /\ pc' = "close"
         \/ \A k \in DOMAIN Offsets : backtest'.observations[k].offset = Offsets[k]
<1>1. backtest' = BacktestResponse(got.days, request.window, got.prices, got.chips, got.factors) BY DEF Evaluate
<1>2. CASE backtest' = Missing
  <2>1. Fail("unavailable") BY <1>2 DEF Evaluate
  <2>2. failure' = "unavailable" /\ pc' = "close" BY <2>1, FailsTo
  <2> QED BY <2>2, ServicesAssumption
<1>3. CASE backtest' # Missing
  <2> DEFINE observations == Observations(got.days, request.window, got.prices, got.factors)
             context == AdjustedContext(got.days, request.window, got.prices, got.factors)
             signal == EvaluateCompositeSignal(MarketFeatures(got.chips, AnalysisBars(got.days, request.window, got.prices)))
             response == BacktestResponse(got.days, request.window, got.prices, got.chips, got.factors)
             bad == context.return = Missing \/ \E i \in DOMAIN Offsets : observations[i].return = Missing
  <2>1. response = IF bad THEN Missing
                   ELSE [signalDate |-> got.days[request.window], signal |-> signal,
                         context |-> context, observations |-> observations]
    BY Zenon DEF BacktestResponse
  <2>2. ASSUME NEW k \in DOMAIN Offsets PROVE observations[k].offset = Offsets[k]
    <3>1. observations[k] = BuildObservation(Offsets[k], ObservationDate(got.days, request.window, Offsets[k]),
                                             got.days[request.window], got.prices, got.factors)
      BY DEF Observations
    <3> HIDE DEF observations
    <3> QED BY <3>1 DEF BuildObservation
  <2> HIDE DEF bad, response, context, observations, signal
  <2>3. response # Missing /\ backtest' = response BY <1>1, <1>3 DEF response
  <2>4. backtest'.observations = observations BY <2>1, <2>3
  <2> QED BY <2>2, <2>4
<1> QED BY <1>2, <1>3

\* The points of a run from which a step leads to the files of a sample.
LEMMA ToArtifacts ==
  ASSUME IInv, PointsOK, Research, [Next]_vars
  PROVE  \/ pc' # "artifacts" /\ ~(pc' = "close" /\ failure' = None)
         \/ Evaluate
         \/ pc = "artifacts" /\ pc' = "artifacts" /\ UNCHANGED <<item, backtest>>
         \/ pc = "close" /\ failure = None /\ UNCHANGED <<item, backtest, files, samples>>
<1>1. CASE Receive BY <1>1 DEF Receive, Finish
<1>2. CASE InstallHandlers BY <1>2 DEF InstallHandlers
<1>3. CASE Call
  <2>1. pc' \in {"stock_basic", "daily", "cyq_chips", "check", "evaluate", "close"} BY <1>3, AfterCall
  <2>2. CASE failure' \in {"unavailable", "error"} BY <2>1, <2>2, ServicesAssumption
  <2>3. CASE pc' = NextCall(pc)
    <3>1. pc' = CASE pc = "trade_cal" -> "stock_basic" [] pc = "stock_basic" -> "daily"
                  [] pc = "daily" -> "cyq_chips" [] pc = "cyq_chips" -> "check" [] OTHER -> "evaluate"
      BY <2>3 DEF NextCall, Research
    <3>2. pc \in {"trade_cal", "stock_basic", "daily", "cyq_chips", "adj_factor"} BY <1>3, CallShape DEF CallPointsOf
    <3> QED BY <3>1, <3>2
  <2> QED BY <1>3, <2>2, <2>3, CallGoesOn
<1>4. CASE CheckWindow
  <2>1. pc' = "adj_factor" \/ Fail("unavailable") BY <1>4 DEF CheckWindow
  <2>2. Fail("unavailable") => failure' = "unavailable" BY FailsTo
  <2>3. Fail("unavailable") => pc' = "close" BY FailsTo
  <2> QED BY <2>1, <2>2, <2>3, ServicesAssumption
<1>5. CASE Evaluate BY <1>5
<1>6. CASE StartStock \/ FinishStock BY <1>6 DEF StartStock, FinishStock, PointsOK, Research
<1>7. CASE RestoreHandlers
  <2>1. pc = "close" /\ UNCHANGED <<item, backtest, files, samples>> /\ pc' = IF failure = None THEN "artifacts" ELSE "failed"
    BY <1>7 DEF RestoreHandlers, RunOutputs
  <2> QED BY <2>1
<1>8. CASE WriteSampleFile
  <2>1. pc = "artifacts" /\ UNCHANGED backtest /\ pc' \in {"artifacts", "sample", "review"}
        /\ (pc' = "artifacts" => item' = item)
    BY <1>8 DEF WriteSampleFile
  <2> QED BY <2>1
<1>9. CASE AskAgent BY <1>9 DEF AskAgent
<1>10. CASE WriteAggregateFile
  <2>1. pc' \in {"aggregate", "answered"} BY <1>10, AggregateWrite
  <2> QED BY <2>1
<1>11. CASE Reply BY <1>11 DEF Reply, Finish
<1>12. CASE Crash BY <1>12 DEF Crash
<1>13. CASE UNCHANGED vars
  <2>1. UNCHANGED <<pc, failure, item, backtest, files, samples>> BY <1>13 DEF vars
  <2> QED BY <2>1
<1> QED BY <1>1, <1>2, <1>3, <1>4, <1>5, <1>6, <1>7, <1>8, <1>9, <1>10, <1>11, <1>12, <1>13 DEF Next, Handle

\* A step that writes no file of a sample leaves what is there, and the samples.
LEMMA OtherFiles ==
  ASSUME IInv, PointsOK, Research, [Next]_vars, ~WriteSampleFile
  PROVE  /\ UNCHANGED <<samples, item>>
         /\ \A p \in DOMAIN files : p \in DOMAIN files' /\ files'[p] = files[p]
         /\ \A p \in DOMAIN files' : p \in DOMAIN files \/ p[2] # "backtest_score.json"
         /\ Report \in DOMAIN files' => Report \in DOMAIN files \/ WriteAggregateFile
<1>1. CASE Receive
  <2> DEFINE path == <<RunDir, "run-config.json">>
  <2>1. path[2] = "run-config.json" /\ path # Report BY DEF Report
  <2>2. files = <<>> /\ DOMAIN files = {} /\ UNCHANGED <<samples, item>> BY <1>1 DEF Receive, IInv, SamplesOK
  <2>3. UNCHANGED files \/ files' = WithFile(files, path, request) BY <1>1 DEF Receive
  <2> HIDE DEF path
  <2>4. files' = WithFile(files, path, request) => DOMAIN files' = DOMAIN files \cup {path} BY WrittenFile
  <2> QED BY <2>1, <2>2, <2>3, <2>4
<1>2. CASE WriteAggregateFile
  <2>1. UNCHANGED <<samples, item>> BY <1>2, AggregateWrite
  <2>2. PICK path : /\ path[2] \in {"ai_review.json", "agent-decisions.jsonl", "final_report.md", "run-manifest.json"}
                    /\ DOMAIN files' = DOMAIN files \cup {path}
                    /\ \A p \in DOMAIN files : files'[p] = files[p]
    BY <1>2, AggregateWrite
  <2>3. path[2] # "backtest_score.json" BY <2>2
  <2> QED BY <1>2, <2>1, <2>2, <2>3
<1>3. CASE StartStock \/ FinishStock BY <1>3 DEF StartStock, FinishStock, PointsOK, Research
<1>4. UNCHANGED vars \/ InstallHandlers \/ Call \/ CheckWindow \/ Evaluate \/ RestoreHandlers \/ AskAgent \/ Reply \/ Crash
      => UNCHANGED <<files, samples, item>>
  BY Zenon DEF vars, InstallHandlers, Call, CheckWindow, Evaluate, RestoreHandlers, AskAgent, Reply, Crash, RunOutputs, History
<1>5. CASE UNCHANGED <<files, samples, item>> BY <1>5
<1> QED BY <1>1, <1>2, <1>3, <1>4, <1>5 DEF Next, Handle

\* What a sample adds to the results of a run.
LEMMA SampleResult ==
  ASSUME IInv, WriteSampleFile
  PROVE  \/ samples' = samples
         \/ \E sample : /\ sample.sample = Start /\ sample.strategies = StrategyScores
                        /\ DOMAIN samples' = 1..(Len(samples) + 1) /\ Len(samples) \in Nat
                        /\ DOMAIN samples = 1..Len(samples)
                        /\ \A k \in 1..Len(samples) : samples'[k] = samples[k]
                        /\ samples'[Len(samples) + 1] = sample
<1> DEFINE sample == [sample |-> Start, signalDate |-> backtest.signalDate, strategies |-> StrategyScores]
<1>1. samples' = samples \/ samples' = Append(samples, sample) BY DEF WriteSampleFile
<1>2. sample.sample = Start /\ sample.strategies = StrategyScores OBVIOUS
<1> HIDE DEF sample
<1>3. ASSUME samples' = Append(samples, sample)
      PROVE  /\ DOMAIN samples' = 1..(Len(samples) + 1) /\ Len(samples) \in Nat
             /\ DOMAIN samples = 1..Len(samples)
             /\ \A k \in 1..Len(samples) : samples'[k] = samples[k]
             /\ samples'[Len(samples) + 1] = sample
  <2> DEFINE S == {samples[k] : k \in DOMAIN samples} \cup {sample}
  <2>1. samples \in Seq(S) /\ sample \in S BY DEF IInv, SamplesOK
  <2> HIDE DEF S
  <2> QED BY <1>3, <2>1, Appended
<1> QED BY <1>1, <1>2, <1>3

\* Every backtest that goes on to its files has an observation for each offset, and so have its scores.
LEMMA StepObserved ==
  ASSUME IInv, PointsOK, ObservedOK, [Next]_vars
  PROVE  ObservedOK'
<1>1. Research' <=> Research BY SameInputs DEF Research
<1>2. SUFFICES ASSUME Research PROVE ObservedOK' BY <1>1 DEF ObservedOK
<1>3. /\ pc = "artifacts" \/ (pc = "close" /\ failure = None) =>
           \A k \in DOMAIN Offsets : backtest.observations[k].offset = Offsets[k]
      /\ \A i \in DOMAIN samples : \A score \in ToSet(samples[i].strategies) : ForEveryOffset(score)
  BY <1>2 DEF ObservedOK
<1>4. pc' = "artifacts" \/ (pc' = "close" /\ failure' = None) =>
        \A k \in DOMAIN Offsets : backtest'.observations[k].offset = Offsets[k]
  <2>1. CASE Evaluate
    <3>1. pc' = "close" BY <1>2, <2>1, FailsTo DEF Evaluate
    <3> QED BY <1>2, <2>1, <3>1, EvaluateOffsets
  <2>2. CASE pc' # "artifacts" /\ ~(pc' = "close" /\ failure' = None) BY <2>2
  <2>3. CASE UNCHANGED backtest /\ (pc = "artifacts" \/ (pc = "close" /\ failure = None)) BY <1>3, <2>3
  <2> QED BY <1>2, <2>1, <2>2, <2>3, ToArtifacts
<1>5. \A i \in DOMAIN samples' : \A score \in ToSet(samples'[i].strategies) : ForEveryOffset(score)
  <2>1. CASE samples' = samples BY <1>3, <2>1
  <2>2. CASE WriteSampleFile /\ samples' # samples
    <3>1. PICK sample : /\ sample.strategies = StrategyScores
                        /\ DOMAIN samples' = 1..(Len(samples) + 1) /\ Len(samples) \in Nat
                        /\ DOMAIN samples = 1..Len(samples)
                        /\ \A k \in 1..Len(samples) : samples'[k] = samples[k]
                        /\ samples'[Len(samples) + 1] = sample
      BY <2>2, SampleResult
    <3>2. pc = "artifacts" BY <2>2 DEF WriteSampleFile
    <3>3. \A score \in ToSet(sample.strategies) : ForEveryOffset(score) BY <1>3, <3>1, <3>2, OffsetsOfScores
    <3> TAKE i \in DOMAIN samples'
    <3>4. i \in 1..Len(samples) \/ i = Len(samples) + 1 BY <3>1
    <3> QED BY <1>3, <3>1, <3>3, <3>4
  <2> QED BY <1>2, <2>1, <2>2, OtherFiles
<1>6. ASSUME NEW score PROVE ForEveryOffset(score)' <=> ForEveryOffset(score) BY DEF ForEveryOffset
<1> QED BY <1>1, <1>2, <1>4, <1>5 DEF ObservedOK, ForEveryOffset

\* The score file of a sample and its result are made of the same backtest.
LEMMA StepStored ==
  ASSUME IInv, PointsOK, CachesOK, StoredOK, [Next]_vars
  PROVE  StoredOK'
<1>1. request' = request /\ (Research' <=> Research) BY SameInputs DEF Research
<1>2. SUFFICES ASSUME Research PROVE StoredOK' BY <1>1 DEF StoredOK
<1>3. /\ \A i \in DOMAIN samples : files[ScoreFile(request.starts[i])].scores = samples[i].strategies
      /\ pc = "artifacts" /\ ScoreFile(Start) \in DOMAIN files => files[ScoreFile(Start)].scores = StrategyScores
  BY <1>2 DEF StoredOK, Written
<1>4. \A i \in DOMAIN samples : ScoreFile(request.starts[i]) \in DOMAIN files BY <1>2 DEF CachesOK, Written
<1>5. item' = item => Start' = Start BY <1>1 DEF Start
<1>6. backtest' = backtest => StrategyScores' = StrategyScores BY <1>1 DEF StrategyScores, Signals
<1>7. SUFFICES
        /\ \A i \in DOMAIN samples' : files'[ScoreFile(request.starts[i])].scores = samples'[i].strategies
        /\ pc' = "artifacts" /\ ScoreFile(Start') \in DOMAIN files' =>
             files'[ScoreFile(Start')].scores = StrategyScores'
  BY <1>1 DEF StoredOK, Written, ScoreFile
<1>8. CASE ~WriteSampleFile
  <2>1. /\ UNCHANGED <<samples, item>>
        /\ \A p \in DOMAIN files : p \in DOMAIN files' /\ files'[p] = files[p]
        /\ \A p \in DOMAIN files' : p \in DOMAIN files \/ p[2] # "backtest_score.json"
    BY <1>2, <1>8, OtherFiles
  <2>2. \A i \in DOMAIN samples' : files'[ScoreFile(request.starts[i])].scores = samples'[i].strategies
    BY <1>3, <1>4, <2>1
  <2>3. ASSUME pc' = "artifacts", ScoreFile(Start') \in DOMAIN files'
        PROVE  files'[ScoreFile(Start')].scores = StrategyScores'
    <3>1. ScoreFile(Start) \in DOMAIN files
      <4>1. ScoreFile(Start)[2] = "backtest_score.json" BY DEF ScoreFile
      <4> QED BY <1>5, <2>1, <2>3, <4>1
    <3>2. CASE pc = "artifacts" /\ UNCHANGED backtest BY <1>3, <1>5, <1>6, <2>1, <3>1, <3>2
    <3>3. CASE pc = "close"
      <4>1. item \in 1..Len(request.starts) /\ Start = request.starts[item]
        BY <1>2, <3>3, StartOfSample DEF SamplePoints, BacktestPoints
      <4>2. item \in item..Len(request.starts) BY <4>1
      <4> QED BY <1>2, <3>1, <3>3, <4>1, <4>2 DEF CachesOK, Written
    <3>4. ~Evaluate
      <4>1. Evaluate => pc' = "close" BY <1>2, FailsTo DEF Evaluate
      <4> QED BY <2>3, <4>1
    <3> QED BY <1>2, <2>3, <3>2, <3>3, <3>4, ToArtifacts
  <2> QED BY <2>2, <2>3
<1>9. CASE WriteSampleFile
  <2> DEFINE n == SignalCount
             order == SampleFiles(Start)
  <2>1. /\ request \in Requests /\ item \in 1..Len(request.starts) /\ Start = request.starts[item]
        /\ n \in Nat /\ order[n + 5] = ScoreFile(Start)
    BY <1>2, <1>9, SampleWrite, SampleOrder DEF ScoreFile
  <2>2. PICK i \in 1..(n + 6) :
          /\ order[i] \notin DOMAIN files
          /\ \A j \in 1..(i - 1) : order[j] \in DOMAIN files
          /\ files' = WithFile(files, order[i], SampleContent(order[i]))
          /\ IF i = n + 6
             THEN /\ \E s : samples' = Append(samples, s)
                  /\ item' = item + 1
                  /\ pc' = IF item < Len(request.starts) THEN "sample" ELSE "review"
             ELSE UNCHANGED <<item, samples, pc>>
    BY <1>9, SampleWrite
  <2> DEFINE path == order[i]
  <2>3. DOMAIN files' = DOMAIN files \cup {path} /\ \A p \in DOMAIN files : files'[p] = files[p]
    BY <1>2, <2>1, <2>2, SampleWriteKeepsFiles
  <2>4. files'[path] = SampleContent(path) BY <2>2, WrittenFile
  <2>5. UNCHANGED backtest /\ pc = "artifacts" BY <1>9 DEF WriteSampleFile
  <2>6. path = ScoreFile(Start) => files'[path].scores = StrategyScores
    <3>1. ASSUME path = ScoreFile(Start) PROVE SampleContent(path) = [scores |-> StrategyScores, cache |-> memory]
      <4>1. path[2] = "backtest_score.json" BY <3>1 DEF ScoreFile
      <4> HIDE DEF path
      <4> QED BY <4>1 DEF SampleContent, Stages
    <3> HIDE DEF path
    <3> QED BY <2>4, <3>1
  <2> HIDE DEF path
  <2>7. ScoreFile(Start) \in DOMAIN files' => files'[ScoreFile(Start)].scores = StrategyScores
    BY <1>3, <2>3, <2>5, <2>6
  <2>8. \A k \in DOMAIN samples : files'[ScoreFile(request.starts[k])].scores = samples[k].strategies
    BY <1>3, <1>4, <2>3
  <2>9. CASE i # n + 6
    <3>1. UNCHANGED <<item, samples, pc>> BY <2>2, <2>9
    <3> QED BY <1>5, <1>6, <2>5, <2>7, <2>8, <3>1
  <2>10. CASE i = n + 6
    <3>1. pc' \in {"sample", "review"} BY <2>2, <2>10
    <3>2. ScoreFile(Start) \in DOMAIN files'
      <4>1. n + 5 \in 1..(i - 1) BY <2>1, <2>10
      <4> QED BY <2>1, <2>2, <2>3, <4>1
    <3>3. Len(samples) = item - 1 BY <1>2 DEF IInv, SamplesOK
    <3>4. samples' # samples
      <4>1. item' # item BY <2>1, <2>2, <2>10
      <4>2. samples \in Seq({samples[k] : k \in DOMAIN samples}) BY DEF IInv, SamplesOK
      <4>3. Len(samples') = Len(samples) + 1 /\ Len(samples) \in Nat BY <2>2, <2>10, <4>2, AppendToAny
      <4> QED BY <4>3
    <3>5. PICK sample : /\ sample.strategies = StrategyScores
                        /\ DOMAIN samples' = 1..(Len(samples) + 1) /\ Len(samples) \in Nat
                        /\ DOMAIN samples = 1..Len(samples)
                        /\ \A k \in 1..Len(samples) : samples'[k] = samples[k]
                        /\ samples'[Len(samples) + 1] = sample
      BY <1>9, <3>4, SampleResult
    <3>6. ASSUME NEW k \in DOMAIN samples'
          PROVE  files'[ScoreFile(request.starts[k])].scores = samples'[k].strategies
      <4>1. CASE k \in 1..Len(samples) BY <2>8, <3>5, <4>1
      <4>2. CASE k = Len(samples) + 1
        <5>1. k = item BY <2>1, <3>3, <4>2
        <5> QED BY <2>1, <2>7, <3>2, <3>5, <4>2, <5>1
      <4> QED BY <3>5, <4>1, <4>2
    <3> QED BY <3>1, <3>6
  <2> QED BY <2>9, <2>10
<1> QED BY <1>8, <1>9

\* The report is made of a review of all samples, and nothing it was made of changes after it.
LEMMA StepSection ==
  ASSUME IInv, PointsOK, SectionOK, [Next]_vars
  PROVE  SectionOK'
<1>1. request' = request /\ (Research' <=> Research) /\ Report' = Report BY SameInputs DEF Research, Report
<1>2. CASE ~Research
  <2>1. ~Research' /\ files' = <<>> /\ pc' # "aggregate"
    BY <1>1, <1>2, StepIInv DEF IInv, SamplesOK, HandlersOK, RunPoints
  <2> QED BY <2>1 DEF SectionOK, Written
<1>3. CASE Research
  <2>1. SUFFICES
          /\ pc' = "aggregate" => review'.section = SectionOf(review'.mentions, samples')
          /\ Report \in DOMAIN files' =>
               /\ pc' \in {"aggregate", "answered", "done", "dead"} /\ item' = Len(request.starts) + 1
               /\ files'[Report].section = SectionOf(files'[Report].mentions, samples')
    BY <1>1, <1>3 DEF SectionOK, Written, Report
  <2>2. /\ pc = "aggregate" => review.section = SectionOf(review.mentions, samples)
        /\ Report \in DOMAIN files =>
             /\ pc \in {"aggregate", "answered", "done", "dead"} /\ item = Len(request.starts) + 1
             /\ files[Report].section = SectionOf(files[Report].mentions, samples)
    BY DEF SectionOK, Written
  <2>4. CASE WriteSampleFile
    <3>1. pc = "artifacts" /\ pc' \in {"artifacts", "sample", "review"} BY <2>4 DEF WriteSampleFile
    <3>2. request \in Requests BY <2>4, SampleWrite
    <3>3. PICK i \in 1..(SignalCount + 6) :
            LET path == SampleFiles(Start)[i]
            IN /\ path \notin DOMAIN files
               /\ \A j \in 1..(i - 1) : SampleFiles(Start)[j] \in DOMAIN files
               /\ files' = WithFile(files, path, SampleContent(path))
      BY <2>4, SampleWrite
    <3> DEFINE path == SampleFiles(Start)[i]
    <3>4. DOMAIN files' = DOMAIN files \cup {path} BY <1>3, <3>2, <3>3, SampleWriteKeepsFiles
    <3>5. path[2] # "final_report.md" BY <1>3, <3>2, SamplePaths
    <3> HIDE DEF path
    <3>6. path # Report BY <3>5 DEF Report
    <3> QED BY <2>2, <3>1, <3>4, <3>6
  <2>5. CASE ~WriteSampleFile
    <3>1. /\ UNCHANGED <<samples, item>>
          /\ \A p \in DOMAIN files : p \in DOMAIN files' /\ files'[p] = files[p]
          /\ Report \in DOMAIN files' => Report \in DOMAIN files \/ WriteAggregateFile
      BY <1>3, <2>5, OtherFiles
    <3>3. CASE WriteAggregateFile
      <4>1. pc = "aggregate" /\ review' = review BY <3>3, AggregateWrite
      <4>2. item = Len(request.starts) + 1 BY <1>3, <4>1 DEF IInv, SamplesOK
      <4>3. PICK path : /\ path[2] \in {"ai_review.json", "agent-decisions.jsonl", "final_report.md", "run-manifest.json"}
                        /\ DOMAIN files' = DOMAIN files \cup {path}
                        /\ files'[path] = AggregateContent(path)
                        /\ pc' = IF path = Manifest THEN "answered" ELSE "aggregate"
        BY <3>3, AggregateWrite
      <4>4. path = Report => files'[Report].section = SectionOf(files'[Report].mentions, samples)
        <5>1. AggregateContent(Report)
                = [mentions |-> review.mentions, section |-> review.section, cache |-> logs.cache]
          BY DEF AggregateContent, Report
        <5> QED BY <2>2, <4>1, <4>3, <5>1
      <4>5. Report \in DOMAIN files' => files'[Report].section = SectionOf(files'[Report].mentions, samples)
        BY <2>2, <3>1, <4>3, <4>4
      <4>6. pc' \in {"aggregate", "answered"} BY <4>3
      <4>7. review'.section = SectionOf(review'.mentions, samples) BY <2>2, <4>1
      <4> QED BY <3>1, <4>2, <4>5, <4>6, <4>7
    <3>4. CASE AskAgent
      <4>1. pc = "review" BY <3>4 DEF AskAgent
      <4>2. Report \notin DOMAIN files' BY <2>2, <3>1, <3>4, <4>1 DEF WriteAggregateFile
      <4>3. PICK status, mentions : review' = EnsureObservationCoverage(status, mentions) BY <3>4 DEF AskAgent
      <4> DEFINE missing == {offset \in ToSet(Offsets) : ~ContainsObservationLabel(mentions, offset)}
      <4>4. missing = {} <=> ToSet(Offsets) \subseteq mentions BY DEF ContainsObservationLabel
      <4>5. review' = [status |-> status, missing |-> missing, mentions |-> mentions,
                       section |-> IF missing = {} THEN {} ELSE ObservationSection(samples),
                       decisions |-> IF status = "completed" THEN 1 ELSE 0]
        BY <4>3 DEF EnsureObservationCoverage
      <4> HIDE DEF missing
      <4>6. review'.mentions = mentions /\ review'.section = IF missing = {} THEN {} ELSE ObservationSection(samples)
        BY <4>5
      <4>7. review'.section = SectionOf(review'.mentions, samples) BY <4>4, <4>6 DEF SectionOf
      <4> QED BY <3>1, <4>2, <4>7
    <3>5. CASE ~WriteAggregateFile /\ ~AskAgent
      <4>2. CASE UNCHANGED vars
        <5>1. UNCHANGED <<pc, review, files, item>> BY <4>2 DEF vars
        <5> QED BY <2>2, <3>1, <5>1
      <4>3. CASE Reply \/ Crash
        <5>1. pc' \in {"done", "dead"} BY <4>3 DEF Reply, Crash, Finish
        <5> QED BY <2>2, <3>1, <3>5, <5>1
      <4>4. CASE Receive \/ InstallHandlers \/ Call \/ CheckWindow \/ Evaluate \/ StartStock \/ FinishStock \/ RestoreHandlers
        <5>1. pc \notin {"aggregate", "answered", "done", "dead"}
          BY <4>4 DEF Receive, InstallHandlers, Call, CheckWindow, Evaluate, StartStock, FinishStock, RestoreHandlers
        <5>2. Report \notin DOMAIN files' BY <2>2, <3>1, <3>5, <5>1
        <5>3. pc' # "aggregate"
          <6>1. CASE Call BY <1>3, <6>1, CallPoints DEF BacktestPoints
          <6>2. CASE Receive \/ InstallHandlers \/ CheckWindow \/ Evaluate \/ RestoreHandlers
            BY <1>3, <6>2, FailsTo DEF Receive, Finish, InstallHandlers, CheckWindow, Evaluate, RestoreHandlers
          <6>3. CASE StartStock \/ FinishStock BY <1>3, <6>3 DEF StartStock, FinishStock, PointsOK, Research
          <6> QED BY <4>4, <6>1, <6>2, <6>3
        <5> QED BY <5>2, <5>3
      <4> QED BY <2>5, <3>5, <4>2, <4>3, <4>4 DEF Next, Handle
    <3> QED BY <3>3, <3>4, <3>5
  <2> QED BY <2>4, <2>5
<1> QED BY <1>2, <1>3

LEMMA InitReport == Init => ReportInv
BY DEF Init, ReportInv, ObservedOK, StoredOK, SectionOK, Written

\* The inductive invariant of the report: its section is made of the results of all samples, and each of these is
\* what its score file has, with every offset.
THEOREM ReportInvariance == Spec => []ReportInv
<1>1. Init => ReportInv BY InitReport
<1>2. IInv /\ LogInv /\ ReportInv /\ [Next]_vars => ReportInv'
  BY StepObserved, StepStored, StepSection DEF LogInv, ReportInv
<1> QED BY <1>1, <1>2, Invariance, LogInvariance, PTL DEF Spec

\* Whatever the agent answers, and whether it answers at all: what its text does not name of the observations, the
\* report tells for every sample and strategy, as the score files on disk have it.
THEOREM ReportIsComplete == Spec => []ReportTellsScores
<1>1. IInv /\ LogInv /\ ReportInv => ReportTellsScores
  <2> SUFFICES ASSUME IInv, LogInv, ReportInv, Written(Report),
                      NEW offset \in ToSet(Offsets) \ files[Report].mentions, NEW start \in ToSet(request.starts),
                      NEW score \in ToSet(files[<<start, "backtest_score.json">>].scores)
               PROVE  \E line \in files[Report].section, k \in DOMAIN Offsets :
                        /\ line.sample = start /\ line.strategy = score.strategy
                        /\ score.scores[k].offset = offset
                        /\ line.observations[k] = [offset |-> offset, label |-> score.scores[k].label]
    BY Zenon DEF ReportTellsScores
  <2>1. Research /\ item = Len(request.starts) + 1 /\ files[Report].section = SectionOf(files[Report].mentions, samples)
    BY DEF ReportInv, SectionOK
  <2>2. files[Report].section = ObservationSection(samples) BY <2>1 DEF SectionOf
  <2>3. PICK i \in 1..Len(request.starts) : start = request.starts[i]
    BY <2>1, StartsOfRun DEF ToSet, LogInv
  <2>4. i \in DOMAIN samples /\ DOMAIN samples = 1..Len(samples)
    BY <2>1, <2>3, CachesShape DEF LogInv
  <2>5. samples[i].sample = start /\ samples[i] \in ToSet(samples) BY <2>1, <2>3, <2>4 DEF LogInv, CachesOK, ToSet
  <2>6. score \in ToSet(samples[i].strategies)
    BY <2>1, <2>3, <2>4 DEF ReportInv, StoredOK, ScoreFile
  <2>7. ForEveryOffset(score) BY <2>1, <2>4, <2>6 DEF ReportInv, ObservedOK
  <2>8. PICK k \in DOMAIN Offsets : Offsets[k] = offset BY DEF ToSet
  <2> DEFINE line == ObservationLine(samples[i], score)
  <2>9. line \in files[Report].section BY <2>2, <2>5, <2>6 DEF ObservationSection
  <2>10. line.sample = start /\ line.strategy = score.strategy BY <2>5 DEF ObservationLine
  <2>11. DOMAIN score.scores = DOMAIN Offsets /\ score.scores[k].offset = offset BY <2>7, <2>8 DEF ForEveryOffset
  <2>12. line.observations[k] = [offset |-> offset, label |-> score.scores[k].label]
    <3>1. line.observations = [j \in DOMAIN score.scores |->
                                 [offset |-> score.scores[j].offset, label |-> score.scores[j].label]]
      BY DEF ObservationLine
    <3> HIDE DEF line
    <3> QED BY <2>8, <2>11, <3>1
  <2> HIDE DEF line
  <2> QED BY <2>8, <2>9, <2>10, <2>11, <2>12
<1> QED BY <1>1, Invariance, LogInvariance, ReportInvariance, PTL
=============================================================================
