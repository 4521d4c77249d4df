------------------------- MODULE CacheWriter_proofs -------------------------
(***************************************************************************)
(* What holds of the cache writers for any number of them, in any mixture  *)
(* of modes, with any number of jobs, failing transactions, exceptions and *)
(* crashes: the flush lock excludes, no job is left without a thread as    *)
(* long as no exception ends one, and statuses are what the jobs earned.   *)
(* And for one writer: what is replayed after a crash leaves no trace.     *)
(***************************************************************************)
EXTENDS CacheWriter, FiniteSetTheorems, NaturalsInduction, WellFoundedInduction, TLAPS

\* What is proved of the tables, for the agents <<writer, role>>.
SP == INSTANCE MarketCacheStore_proofs WITH MaxVersions <- 0, MaxDamage <- 0

\* The ranges of the writers' variables.  How far attempt can get depends on where the agent
\* is, so its bound is left to Progress below.
Shape ==
  /\ now \in Nat
  /\ mode \in Modes
  /\ jobs \in Seq(Job)
  /\ lock \in [Writers -> Roles \cup {"free"}]
  /\ pc \in [Agents -> CallerPoints \cup DrainPoints]
  /\ \A w \in Writers : pc[Caller(w)] \in CallerPoints /\ pc[Drain(w)] \in DrainPoints
  /\ batch \in [Agents -> SUBSET DOMAIN jobs]
  /\ attempt \in [Agents -> Nat]
  /\ request \in [Writers -> Store!Write \cup {NoOp}]
  /\ \A w \in Writers : pc[Caller(w)] = "enqueue" => request[w] \in Store!Write
  /\ syncs \in Nat /\ upsertFaults \in Nat /\ flushFaults \in Nat /\ crashes \in Nat
  /\ abandoned \subseteq DOMAIN jobs

\* While no exception has ended a thread, no thread is on its way out with work left.
Wakeup ==
  flushFaults = 0 =>
    /\ NoLostWakeup
    /\ \A w \in Writers : pc[Drain(w)] \notin {"unwinding", "dead"}

-----------------------------------------------------------------------------

LEMMA Begins == Init => Shape /\ FlushExclusive /\ Wakeup
<1> SUFFICES ASSUME Init PROVE Shape /\ FlushExclusive /\ Wakeup
  OBVIOUS
<1>1. Shape
  <2>1. jobs \in Seq(Job) /\ DOMAIN jobs = {}
    BY DEF Init
  <2>2. batch \in [Agents -> SUBSET DOMAIN jobs] /\ attempt \in [Agents -> Nat]
    BY DEF Init
  <2>3. /\ pc \in [Agents -> CallerPoints \cup DrainPoints]
        /\ \A w \in Writers : pc[Caller(w)] = "idle" /\ pc[Drain(w)] = "none"
    BY DEF Init, Agents, Roles, CallerPoints, DrainPoints, Caller, Drain
  <2> QED BY <2>1, <2>2, <2>3 DEF Init, Store!Init, Shape, Roles, CallerPoints, DrainPoints
<1>2. FlushExclusive
  BY DEF Init, FlushExclusive, InFlush, Agents, Roles
<1>3. Wakeup
  BY DEF Init, Wakeup, NoLostWakeup, PendingJobs, Agents, Roles, Drain
<1> QED BY <1>1, <1>2, <1>3

\* What is fetched and passes validate_cache_write is a write, whenever it is fetched.
LEMMA FetchedShape ==
  ASSUME Shape, NEW wr \in FetchedWrites, Store!ValidCacheWrite(wr)
  PROVE  wr \in Store!Write
BY DEF Shape, FetchedWrites, Store!Write, Store!ValidCacheWrite

\* A new job is a row of the table; the others are where they were.
LEMMA NewJobShape ==
  ASSUME Shape, NEW w \in Writers, NEW wr \in Store!Write, jobs' = Append(jobs, NewJob(w, wr))
  PROVE  /\ NewJob(w, wr) \in Job
         /\ jobs' \in Seq(Job)
         /\ DOMAIN jobs' = DOMAIN jobs \cup {Len(jobs) + 1}
         /\ jobs'[Len(jobs) + 1] = NewJob(w, wr)
         /\ \A j \in DOMAIN jobs : jobs'[j] = jobs[j]
<1>1. NewJob(w, wr) \in Job
  BY DEF NewJob, Job
<1>2. jobs \in Seq(Job)
  BY DEF Shape
<1> HIDE DEF NewJob, Job
<1> QED BY <1>1, <1>2

\* Snapshots and the history of abandoned jobs stay within a table that only grows.
LEMMA TableGrows ==
  ASSUME Shape, DOMAIN jobs \subseteq DOMAIN jobs'
  PROVE  /\ batch \in [Agents -> SUBSET DOMAIN jobs']
         /\ abandoned \subseteq DOMAIN jobs'
BY DEF Shape

\* The clock only ticks.
LEMMA CommitKeepsTime == ASSUME NEW a, Store!CommitUpsert(a) PROVE now' = now
BY DEF Store!CommitUpsert
LEMMA BeginKeepsTime == ASSUME NEW a, NEW wr, NEW allow, Store!BeginUpsert(a, wr, allow) PROVE now' = now
BY DEF Store!BeginUpsert
LEMMA AbortKeepsTime == ASSUME NEW a, Store!AbortUpsert(a) PROVE now' = now
BY DEF Store!AbortUpsert

-----------------------------------------------------------------------------
(* The shape of the state *)

LEMMA CallerKeepsShape ==
  ASSUME Shape, NEW w \in Writers,
         \/ \E wr \in FetchedWrites : WriteSync(w, wr) \/ WriteAsync(w, wr) \/ WriteAuto(w, wr)
         \/ CallFlush(w) \/ ReturnSync(w) \/ ReturnFromFlush(w)
         \/ EnqueueLocked(w) \/ EnqueueRaises(w)
  PROVE  Shape'
<1> USE DEF Goto, Agents, Roles, CallerPoints, DrainPoints, Caller, Drain
<1>1. ASSUME NEW wr \in FetchedWrites, WriteSync(w, wr) PROVE Shape'
  BY <1>1, BeginKeepsTime DEF WriteSync, faultVars, Shape
<1>2. ASSUME NEW wr \in FetchedWrites, WriteAsync(w, wr) PROVE Shape'
  <2>1. jobs' \in Seq(Job) /\ DOMAIN jobs \subseteq DOMAIN jobs'
    BY FetchedShape, <1>2, NewJobShape DEF WriteAsync
  <2> QED BY <1>2, <2>1, TableGrows DEF WriteAsync, storeVars, faultVars, Shape
<1>3. ASSUME NEW wr \in FetchedWrites, WriteAuto(w, wr) PROVE Shape'
  <2>1. wr \in Store!Write
    BY <1>3, FetchedShape DEF WriteAuto
  <2> QED BY <1>3, <2>1 DEF WriteAuto, storeVars, faultVars, Shape
<1>4. CASE CallFlush(w)
  BY <1>4 DEF CallFlush, storeVars, faultVars, Shape
<1>5. CASE ReturnSync(w)
  BY <1>5, CommitKeepsTime, AbortKeepsTime DEF ReturnSync, Shape
<1>6. CASE ReturnFromFlush(w)
  BY <1>6 DEF ReturnFromFlush, storeVars, faultVars, Shape
<1>7. CASE EnqueueLocked(w)
  <2>1. jobs' \in Seq(Job) /\ DOMAIN jobs \subseteq DOMAIN jobs'
    BY <1>7, NewJobShape DEF EnqueueLocked, Shape
  <2> QED BY <1>7, <2>1, TableGrows DEF EnqueueLocked, DrainIsAlive, storeVars, faultVars, Shape
<1>8. CASE EnqueueRaises(w)
  BY <1>8 DEF EnqueueRaises, storeVars, Shape
<1> QED BY <1>1, <1>2, <1>3, <1>4, <1>5, <1>6, <1>7, <1>8

\* Replacing one job by one of the same owner, settled, keeps the table's shape and adds
\* nothing pending.
LEMMA Settles ==
  ASSUME jobs \in Seq(Job), NEW n \in DOMAIN jobs, NEW e \in Job, e.write = jobs[n].write,
         e.owner = jobs[n].owner, e.status # "PENDING", jobs' = [jobs EXCEPT ![n] = e]
  PROVE  /\ jobs' \in Seq(Job)
         /\ DOMAIN jobs' = DOMAIN jobs
         /\ \A j \in DOMAIN jobs : jobs'[j].write = jobs[j].write
         /\ \A j \in DOMAIN jobs : jobs'[j].owner = jobs[j].owner
         /\ \A j \in DOMAIN jobs : jobs'[j].status = "PENDING" => jobs[j].status = "PENDING"
<1>1. jobs \in [1..Len(jobs) -> Job] /\ Len(jobs) \in Nat
  OBVIOUS
<1>2. jobs' \in [1..Len(jobs) -> Job]
  BY <1>1
<1>3. jobs' \in Seq(Job) /\ DOMAIN jobs' = DOMAIN jobs
  BY <1>1, <1>2
<1>4. \A j \in DOMAIN jobs : j # n => jobs'[j] = jobs[j]
  BY <1>1
<1>5. jobs'[n] = e
  BY <1>1
<1> QED BY <1>3, <1>4, <1>5

\* A mark changes one job, if any.
LEMMA MarksSettle ==
  ASSUME Shape, NEW w \in Writers, NEW r \in Roles, MarkSucceeded(w, r) \/ MarkFailed(w, r)
  PROVE  /\ jobs' \in Seq(Job)
         /\ DOMAIN jobs' = DOMAIN jobs
         /\ \A j \in DOMAIN jobs : jobs'[j].write = jobs[j].write
         /\ \A j \in DOMAIN jobs : jobs'[j].owner = jobs[j].owner
         /\ \A j \in DOMAIN jobs : jobs'[j].status = "PENDING" => jobs[j].status = "PENDING"
<1> DEFINE n == NextJob(<<w, r>>)
           succeeded == [jobs[n] EXCEPT !.status = "SUCCEEDED"]
           failed == [jobs[n] EXCEPT !.status = "FAILED_PERMANENT", !.attempts = jobs[n].attempts + 1]
<1>1. jobs' = [jobs EXCEPT ![n] = succeeded] \/ jobs' = [jobs EXCEPT ![n] = failed]
  BY DEF MarkSucceeded, MarkFailed
<1>2. jobs \in Seq(Job)
  BY DEF Shape
<1> HIDE DEF n
<1>3. CASE n \in DOMAIN jobs
  <2>1. jobs[n] \in Job
    BY <1>2, <1>3
  <2>2. succeeded \in Job /\ succeeded.write = jobs[n].write /\ succeeded.owner = jobs[n].owner /\ succeeded.status = "SUCCEEDED"
    BY <2>1 DEF Job
  <2>6. jobs[n].attempts + 1 \in Nat
    BY <2>1 DEF Job
  <2>3. failed \in Job /\ failed.write = jobs[n].write /\ failed.owner = jobs[n].owner /\ failed.status = "FAILED_PERMANENT"
    BY <2>1, <2>6 DEF Job
  <2> HIDE DEF succeeded, failed
  <2>4. CASE jobs' = [jobs EXCEPT ![n] = succeeded]
    BY <1>2, <1>3, <2>2, <2>4, Settles
  <2>5. CASE jobs' = [jobs EXCEPT ![n] = failed]
    BY <1>2, <1>3, <2>3, <2>5, Settles
  <2> QED BY <1>1, <2>4, <2>5
<1>4. CASE n \notin DOMAIN jobs
  <2> HIDE DEF succeeded, failed
  <2>1. jobs \in [1..Len(jobs) -> Job] /\ Len(jobs) \in Nat /\ DOMAIN jobs = 1..Len(jobs)
    BY <1>2
  <2>2. jobs' \in [1..Len(jobs) -> Job] /\ \A j \in 1..Len(jobs) : jobs'[j] = jobs[j]
    BY <1>1, <1>4, <2>1
  <2>3. jobs' \in Seq(Job) /\ DOMAIN jobs' = DOMAIN jobs
    BY <2>1, <2>2
  <2> QED BY <2>1, <2>2, <2>3
<1> QED BY <1>3, <1>4

LEMMA MarksKeepShape ==
  ASSUME Shape, NEW w \in Writers, NEW r \in Roles, MarkSucceeded(w, r) \/ MarkFailed(w, r)
  PROVE  Shape'
<1> DEFINE a == <<w, r>>
           rest == batch[a] \ {NextJob(a)}
<1>1. jobs' \in Seq(Job) /\ DOMAIN jobs' = DOMAIN jobs
  BY MarksSettle
<1>2. a \in Agents
  BY DEF Agents
<1>3. batch' = [batch EXCEPT ![a] = rest] /\ attempt' = [attempt EXCEPT ![a] = 0]
  BY DEF MarkSucceeded, MarkFailed, NextInBatch
<1>4. rest \in SUBSET DOMAIN jobs
  BY <1>2 DEF Shape
<1>5. pc' = [pc EXCEPT ![a] = "attempt"]
  BY DEF MarkSucceeded, MarkFailed, Goto
<1>6. UNCHANGED <<storeVars, mode, lock, request, syncs, faultVars, abandoned>>
  BY DEF MarkSucceeded, MarkFailed
<1> HIDE DEF rest
<1>7. batch' \in [Agents -> SUBSET DOMAIN jobs'] /\ attempt' \in [Agents -> Nat]
  BY <1>1, <1>2, <1>3, <1>4 DEF Shape
<1>8. /\ pc' \in [Agents -> CallerPoints \cup DrainPoints]
      /\ \A v \in Writers : pc'[Caller(v)] \in CallerPoints /\ pc'[Drain(v)] \in DrainPoints
      /\ \A v \in Writers : pc'[Caller(v)] = "enqueue" => pc[Caller(v)] = "enqueue"
  BY <1>5 DEF Shape, CallerPoints, DrainPoints, Agents, Roles, Caller, Drain
<1> QED BY <1>1, <1>6, <1>7, <1>8 DEF Shape, storeVars, faultVars

LEMMA FlushKeepsShape ==
  ASSUME Shape, NEW w \in Writers, NEW r \in Roles,
         \/ StartFlush(w, r) \/ BeginAttempt(w, r) \/ CommitAttempt(w, r) \/ FailAttempt(w, r)
         \/ DrainUntilIdle(w) \/ ThreadEnds(w) \/ FlushRaises(w, r) \/ Crash(w) \/ Tick
  PROVE  Shape'
<1> USE DEF Goto, Agents, Roles, CallerPoints, DrainPoints, Caller, Drain
<1>0. PendingJobs \subseteq DOMAIN jobs
  BY DEF PendingJobs
<1>1. CASE StartFlush(w, r)
  BY <1>0, <1>1 DEF StartFlush, storeVars, faultVars, Shape
<1>2. CASE BeginAttempt(w, r)
  BY <1>2, BeginKeepsTime DEF BeginAttempt, faultVars, Shape
<1>3. CASE CommitAttempt(w, r)
  BY <1>3, CommitKeepsTime DEF CommitAttempt, faultVars, Shape
<1>4. CASE FailAttempt(w, r)
  BY <1>4, AbortKeepsTime DEF FailAttempt, Shape
<1>5. CASE DrainUntilIdle(w)
  BY <1>5 DEF DrainUntilIdle, storeVars, faultVars, Shape
<1>6. CASE ThreadEnds(w)
  BY <1>6 DEF ThreadEnds, storeVars, faultVars, Shape
<1>7. CASE FlushRaises(w, r)
  <2>1. abandoned' \subseteq DOMAIN jobs
    BY <1>0, <1>7 DEF FlushRaises, Abandon, Shape
  <2> QED BY <1>7, <2>1 DEF FlushRaises, storeVars, Shape
<1>8. CASE Crash(w)
  <2>1. abandoned' \subseteq DOMAIN jobs
    BY <1>0, <1>8 DEF Crash, Abandon, Shape
  <2>2. batch' \in [Agents -> SUBSET DOMAIN jobs] /\ attempt' \in [Agents -> Nat]
    BY <1>8 DEF Crash, Shape
  <2>3. /\ pc' \in [Agents -> CallerPoints \cup DrainPoints]
        /\ \A v \in Writers : pc'[Caller(v)] \in CallerPoints /\ pc'[Drain(v)] \in DrainPoints
        /\ \A v \in Writers : pc'[Caller(v)] = "enqueue" => v # w /\ pc[Caller(v)] = "enqueue"
    BY <1>8 DEF Crash, Shape
  <2>4. /\ lock' \in [Writers -> Roles \cup {"free"}]
        /\ request' \in [Writers -> Store!Write \cup {NoOp}]
        /\ \A v \in Writers : v # w => request'[v] = request[v]
    BY <1>8 DEF Crash, Shape
  <2>5. crashes' \in Nat /\ UNCHANGED <<now, mode, jobs, syncs, upsertFaults, flushFaults>>
    BY <1>8 DEF Crash, Shape
  <2> QED BY <2>1, <2>2, <2>3, <2>4, <2>5 DEF Shape
<1>9. CASE Tick
  BY <1>9 DEF Tick, Store!Tick, writerVars, faultVars, Shape
<1> QED BY <1>1, <1>2, <1>3, <1>4, <1>5, <1>6, <1>7, <1>8, <1>9

LEMMA ShapeStep == Shape /\ [Next]_vars => Shape'
<1> SUFFICES ASSUME Shape, [Next]_vars PROVE Shape'
  OBVIOUS
<1>1. ASSUME NEW w \in Writers, NEW wr \in FetchedWrites,
             WriteSync(w, wr) \/ WriteAsync(w, wr) \/ WriteAuto(w, wr)
      PROVE  Shape'
  BY <1>1, CallerKeepsShape
<1>2. ASSUME NEW w \in Writers,
             CallFlush(w) \/ EnqueueRaises(w) \/ ReturnSync(w) \/ ReturnFromFlush(w) \/ EnqueueLocked(w)
      PROVE  Shape'
  BY <1>2, CallerKeepsShape
<1>3. ASSUME NEW w \in Writers, NEW r \in Roles, MarkSucceeded(w, r) \/ MarkFailed(w, r)
      PROVE  Shape'
  BY <1>3, MarksKeepShape
<1>4. ASSUME NEW w \in Writers, NEW r \in Roles,
             \/ StartFlush(w, r) \/ BeginAttempt(w, r) \/ CommitAttempt(w, r) \/ FailAttempt(w, r)
             \/ DrainUntilIdle(w) \/ ThreadEnds(w) \/ FlushRaises(w, r) \/ Crash(w)
      PROVE  Shape'
  BY <1>4, FlushKeepsShape
<1>5. CASE Tick
  BY <1>5 DEF Tick, Store!Tick, writerVars, faultVars, Shape
<1>6. CASE UNCHANGED vars
  BY <1>6 DEF vars, storeVars, writerVars, faultVars, Shape
<1> QED BY <1>1, <1>2, <1>3, <1>4, <1>5, <1>6 DEF Next, Work, Roles

-----------------------------------------------------------------------------
(* The flush lock excludes *)

\* A step that moves no lock and leaves every agent inside or outside a flush.
LEMMA LocksUntouched ==
  ASSUME FlushExclusive, lock' = lock, \A a \in Agents : InFlush(a)' <=> InFlush(a)
  PROVE  FlushExclusive'
BY DEF FlushExclusive, Agents

LEMMA CallerKeepsExclusion ==
  ASSUME Shape, FlushExclusive, NEW w \in Writers,
         \/ \E wr \in FetchedWrites : WriteSync(w, wr) \/ WriteAsync(w, wr) \/ WriteAuto(w, wr)
         \/ CallFlush(w) \/ ReturnSync(w) \/ ReturnFromFlush(w)
         \/ EnqueueLocked(w) \/ EnqueueRaises(w)
  PROVE  FlushExclusive'
<1> USE DEF Shape, Goto, Agents, Roles, Caller, Drain, InFlush
<1>1. ASSUME NEW wr \in FetchedWrites, WriteSync(w, wr) \/ WriteAsync(w, wr) \/ WriteAuto(w, wr)
      PROVE  FlushExclusive'
  BY <1>1, LocksUntouched DEF WriteSync, WriteAsync, WriteAuto
<1>2. CASE CallFlush(w)
  BY <1>2, LocksUntouched DEF CallFlush
<1>3. CASE ReturnSync(w)
  BY <1>3, LocksUntouched DEF ReturnSync
<1>4. CASE ReturnFromFlush(w)
  BY <1>4 DEF ReturnFromFlush, FlushExclusive
<1>5. CASE EnqueueLocked(w)
  BY <1>5, LocksUntouched DEF EnqueueLocked, DrainIsAlive
<1>6. CASE EnqueueRaises(w)
  BY <1>6, LocksUntouched DEF EnqueueRaises
<1> QED BY <1>1, <1>2, <1>3, <1>4, <1>5, <1>6

LEMMA FlushKeepsExclusion ==
  ASSUME Shape, FlushExclusive, NEW w \in Writers, NEW r \in Roles,
         \/ StartFlush(w, r) \/ BeginAttempt(w, r) \/ CommitAttempt(w, r) \/ FailAttempt(w, r)
         \/ MarkSucceeded(w, r) \/ MarkFailed(w, r)
         \/ DrainUntilIdle(w) \/ ThreadEnds(w) \/ FlushRaises(w, r) \/ Crash(w)
  PROVE  FlushExclusive'
<1> USE DEF Shape, Goto, Agents, Roles, Caller, Drain, InFlush
<1>1. CASE StartFlush(w, r)
  BY <1>1 DEF StartFlush, FlushExclusive
<1>2. CASE BeginAttempt(w, r) \/ CommitAttempt(w, r) \/ FailAttempt(w, r)
  BY <1>2, LocksUntouched DEF BeginAttempt, CommitAttempt, FailAttempt
<1>3. CASE MarkSucceeded(w, r) \/ MarkFailed(w, r)
  BY <1>3, LocksUntouched DEF MarkSucceeded, MarkFailed
<1>4. CASE DrainUntilIdle(w)
  BY <1>4 DEF DrainUntilIdle, FlushExclusive
<1>5. CASE ThreadEnds(w)
  BY <1>5, LocksUntouched DEF ThreadEnds
\* Whoever raises holds the lock, or the lock is free and nobody does.
<1>6. CASE FlushRaises(w, r)
  BY <1>6 DEF FlushRaises, FlushExclusive
<1>7. CASE Crash(w)
  BY <1>7 DEF Crash, FlushExclusive
<1> QED BY <1>1, <1>2, <1>3, <1>4, <1>5, <1>6, <1>7

LEMMA ExclusionStep == Shape /\ FlushExclusive /\ [Next]_vars => FlushExclusive'
<1> SUFFICES ASSUME Shape, FlushExclusive, [Next]_vars PROVE FlushExclusive'
  OBVIOUS
<1>1. ASSUME NEW w \in Writers, NEW wr \in FetchedWrites,
             WriteSync(w, wr) \/ WriteAsync(w, wr) \/ WriteAuto(w, wr)
      PROVE  FlushExclusive'
  BY <1>1, CallerKeepsExclusion
<1>2. ASSUME NEW w \in Writers,
             CallFlush(w) \/ EnqueueRaises(w) \/ ReturnSync(w) \/ ReturnFromFlush(w) \/ EnqueueLocked(w)
      PROVE  FlushExclusive'
  BY <1>2, CallerKeepsExclusion
<1>3. ASSUME NEW w \in Writers, NEW r \in Roles,
             \/ StartFlush(w, r) \/ BeginAttempt(w, r) \/ CommitAttempt(w, r) \/ FailAttempt(w, r)
             \/ MarkSucceeded(w, r) \/ MarkFailed(w, r)
             \/ DrainUntilIdle(w) \/ ThreadEnds(w) \/ FlushRaises(w, r) \/ Crash(w)
      PROVE  FlushExclusive'
  BY <1>3, FlushKeepsExclusion
<1>4. CASE Tick \/ UNCHANGED vars
  BY <1>4 DEF Tick, vars, storeVars, writerVars, faultVars, FlushExclusive, InFlush
<1> QED BY <1>1, <1>2, <1>3, <1>4 DEF Next, Work, Roles

-----------------------------------------------------------------------------
(* No lost wakeup *)

LEMMA OwnersAreWriters == ASSUME Shape PROVE \A j \in DOMAIN jobs : jobs[j].owner \in Writers
<1> SUFFICES ASSUME NEW j \in DOMAIN jobs PROVE jobs[j].owner \in Writers
  OBVIOUS
<1>1. jobs \in [1..Len(jobs) -> Job] /\ DOMAIN jobs = 1..Len(jobs)
  BY DEF Shape
<1>2. jobs[j] \in Job
  BY <1>1
<1> QED BY <1>2 DEF Job

\* What wakes a job stays awake: a step that adds no pending job, and in which no live
\* thread ends, keeps every pending job with a thread or among the abandoned.
LEMMA StaysAwake ==
  ASSUME Shape, Wakeup, mode' = mode, abandoned \subseteq abandoned', flushFaults' = flushFaults,
         DOMAIN jobs' = DOMAIN jobs,
         \A j \in DOMAIN jobs : jobs'[j].owner = jobs[j].owner,
         \A j \in DOMAIN jobs : jobs'[j].status = "PENDING" => jobs[j].status = "PENDING",
         \A v \in Writers :
           /\ pc[Drain(v)] # "none" => pc'[Drain(v)] # "none"
           /\ pc[Drain(v)] \notin {"unwinding", "dead"} => pc'[Drain(v)] \notin {"unwinding", "dead"}
  PROVE  Wakeup'
<1>1. \A j \in DOMAIN jobs : jobs[j].owner \in Writers
  BY OwnersAreWriters
<1>2. PendingJobs' \subseteq PendingJobs
  BY DEF PendingJobs
<1>3. \A v \in Writers : flushFaults = 0 /\ DrainIsAlive(v) => DrainIsAlive(v)'
  BY DEF Wakeup, DrainIsAlive
<1> QED BY <1>1, <1>2, <1>3 DEF Wakeup, NoLostWakeup, PendingJobs

LEMMA CallerKeepsWakeup ==
  ASSUME Shape, Wakeup, NEW w \in Writers,
         \/ \E wr \in FetchedWrites : WriteSync(w, wr) \/ WriteAsync(w, wr) \/ WriteAuto(w, wr)
         \/ CallFlush(w) \/ ReturnSync(w) \/ ReturnFromFlush(w)
         \/ EnqueueLocked(w) \/ EnqueueRaises(w)
  PROVE  Wakeup'
<1>0. pc \in [Agents -> CallerPoints \cup DrainPoints] /\ Caller(w) \in Agents
      /\ \A v \in Writers : Drain(v) \in Agents /\ Drain(v) # Caller(w)
  BY DEF Shape, Agents, Roles, Caller, Drain
<1>a. \A label : Goto(Caller(w), label) => \A v \in Writers : pc'[Drain(v)] = pc[Drain(v)]
  BY <1>0 DEF Goto
<1>1. ASSUME NEW wr \in FetchedWrites, WriteSync(w, wr) \/ WriteAuto(w, wr)
      PROVE  Wakeup'
  BY <1>1, <1>a, StaysAwake DEF WriteSync, WriteAuto, faultVars
<1>2. ASSUME NEW wr \in FetchedWrites, WriteAsync(w, wr)
      PROVE  Wakeup'
  <2>1. /\ DOMAIN jobs' = DOMAIN jobs \cup {Len(jobs) + 1}
        /\ jobs'[Len(jobs) + 1] = NewJob(w, wr)
        /\ \A j \in DOMAIN jobs : jobs'[j] = jobs[j]
    BY <1>2, FetchedShape, NewJobShape DEF WriteAsync
  <2>2. mode[w] = "async" /\ UNCHANGED <<pc, mode, flushFaults, abandoned>>
    BY <1>2 DEF WriteAsync, faultVars
  <2>3. NewJob(w, wr).owner = w
    BY DEF NewJob
  <2> QED BY <2>1, <2>2, <2>3 DEF Wakeup, NoLostWakeup, PendingJobs, DrainIsAlive
<1>3. CASE CallFlush(w) \/ ReturnFromFlush(w)
  BY <1>3, <1>a, StaysAwake DEF CallFlush, ReturnFromFlush, faultVars
<1>4. CASE ReturnSync(w)
  BY <1>4, <1>a, StaysAwake DEF ReturnSync
<1>5. CASE EnqueueRaises(w)
  BY <1>5, <1>a, StaysAwake DEF EnqueueRaises
<1>6. CASE EnqueueLocked(w)
  <2>1. /\ DOMAIN jobs' = DOMAIN jobs \cup {Len(jobs) + 1}
        /\ jobs'[Len(jobs) + 1] = NewJob(w, request[w])
        /\ \A j \in DOMAIN jobs : jobs'[j] = jobs[j]
    BY <1>6, NewJobShape DEF EnqueueLocked, Shape
  <2>2. NewJob(w, request[w]).owner = w /\ UNCHANGED <<mode, flushFaults, abandoned>>
    BY <1>6 DEF EnqueueLocked, faultVars, NewJob
  <2>3. \A v \in Writers : DrainIsAlive(v) => pc'[Drain(v)] = pc[Drain(v)]
    BY <1>0, <1>6 DEF EnqueueLocked, DrainIsAlive, Drain
  <2>4. pc'[Drain(w)] = IF DrainIsAlive(w) THEN pc[Drain(w)] ELSE "flush"
    BY <1>0, <1>6 DEF EnqueueLocked
  <2>5. \A v \in Writers : v # w => pc'[Drain(v)] = pc[Drain(v)]
    BY <1>0, <1>6 DEF EnqueueLocked, Drain
  <2>6. \A v \in Writers : DrainIsAlive(v) => DrainIsAlive(v)'
    BY <2>3 DEF DrainIsAlive
  <2>7. DrainIsAlive(w)'
    BY <2>4 DEF DrainIsAlive
  <2>8. \A v \in Writers : pc[Drain(v)] \notin {"unwinding", "dead"}
                             => pc'[Drain(v)] \notin {"unwinding", "dead"}
    BY <2>4, <2>5
  <2>9. \A j \in DOMAIN jobs : jobs[j].owner \in Writers
    BY OwnersAreWriters
  <2> QED BY <2>1, <2>2, <2>6, <2>7, <2>8, <2>9 DEF Wakeup, NoLostWakeup, PendingJobs
<1> QED BY <1>1, <1>2, <1>3, <1>4, <1>5, <1>6

LEMMA FlushKeepsWakeup ==
  ASSUME Shape, Wakeup, NEW w \in Writers, NEW r \in Roles,
         \/ StartFlush(w, r) \/ BeginAttempt(w, r) \/ CommitAttempt(w, r) \/ FailAttempt(w, r)
         \/ MarkSucceeded(w, r) \/ MarkFailed(w, r)
  PROVE  Wakeup'
<1>0. pc \in [Agents -> CallerPoints \cup DrainPoints] /\ <<w, r>> \in Agents
      /\ \A v \in Writers : Drain(v) \in Agents
  BY DEF Shape, Agents, Roles, Caller, Drain
\* Between the snapshot and the end of a flush a thread is not on its way out.
<1>1. \A label : Goto(<<w, r>>, label) /\ label \notin {"none", "unwinding", "dead"} =>
        \A v \in Writers :
          /\ pc[Drain(v)] # "none" => pc'[Drain(v)] # "none"
          /\ pc[Drain(v)] \notin {"unwinding", "dead"} => pc'[Drain(v)] \notin {"unwinding", "dead"}
  BY <1>0 DEF Goto
<1>2. CASE StartFlush(w, r)
  BY <1>1, <1>2, StaysAwake DEF StartFlush, faultVars
<1>3. CASE BeginAttempt(w, r)
  BY <1>1, <1>3, StaysAwake DEF BeginAttempt, faultVars
<1>4. CASE CommitAttempt(w, r)
  BY <1>1, <1>4, StaysAwake DEF CommitAttempt, faultVars
<1>5. CASE FailAttempt(w, r)
  BY <1>1, <1>5, StaysAwake DEF FailAttempt
<1>6. CASE MarkSucceeded(w, r) \/ MarkFailed(w, r)
  <2>1. /\ DOMAIN jobs' = DOMAIN jobs
        /\ \A j \in DOMAIN jobs : jobs'[j].owner = jobs[j].owner
        /\ \A j \in DOMAIN jobs : jobs'[j].status = "PENDING" => jobs[j].status = "PENDING"
    BY <1>6, MarksSettle
  <2>2. Goto(<<w, r>>, "attempt") /\ mode' = mode /\ abandoned' = abandoned
        /\ flushFaults' = flushFaults
    BY <1>6 DEF MarkSucceeded, MarkFailed, faultVars
  <2> QED BY <1>1, <2>1, <2>2, StaysAwake
<1> QED BY <1>2, <1>3, <1>4, <1>5, <1>6

\* The ways a thread ends: with nothing left to do, by an exception, or with its process.
LEMMA EndsKeepWakeup ==
  ASSUME Shape, Wakeup, NEW w \in Writers, NEW r \in Roles,
         DrainUntilIdle(w) \/ ThreadEnds(w) \/ FlushRaises(w, r) \/ Crash(w)
  PROVE  Wakeup'
<1>0. pc \in [Agents -> CallerPoints \cup DrainPoints] /\ Caller(w) \in Agents
      /\ \A v \in Writers : Drain(v) \in Agents /\ Drain(v) # Caller(w) /\ (v # w => Drain(v) # Drain(w))
  BY DEF Shape, Agents, Roles, Caller, Drain
<1>1. CASE DrainUntilIdle(w)
  <2>1. UNCHANGED <<jobs, mode, abandoned, flushFaults>> /\ PendingJobs' = PendingJobs
    BY <1>1 DEF DrainUntilIdle, faultVars, PendingJobs
  <2>2. CASE PendingJobs = {}
    <3>1. \A v \in Writers : pc'[Drain(v)] = IF v = w THEN "none" ELSE pc[Drain(v)]
      BY <1>0, <1>1, <2>2 DEF DrainUntilIdle, Goto
    <3> QED BY <2>1, <2>2, <3>1 DEF Wakeup, NoLostWakeup
  <2>3. CASE PendingJobs # {}
    <3>1. \A v \in Writers : pc'[Drain(v)] = IF v = w THEN "flush" ELSE pc[Drain(v)]
      BY <1>0, <1>1, <2>3 DEF DrainUntilIdle, Goto
    <3> QED BY <2>1, <3>1, StaysAwake
  <2> QED BY <2>2, <2>3
<1>2. CASE ThreadEnds(w)
  BY <1>2 DEF ThreadEnds, Wakeup, faultVars
<1>3. CASE FlushRaises(w, r)
  BY <1>3 DEF FlushRaises, Wakeup, Shape
<1>4. CASE Crash(w)
  <2>1. UNCHANGED <<jobs, mode, flushFaults>> /\ PendingJobs' = PendingJobs
    BY <1>4 DEF Crash, PendingJobs
  <2>2. \A v \in Writers : pc'[Drain(v)] = IF v = w THEN "none" ELSE pc[Drain(v)]
    BY <1>0, <1>4 DEF Crash
  <2>3. abandoned' = abandoned \cup {j \in PendingJobs : jobs[j].owner = w}
    BY <1>4 DEF Crash, Abandon
  <2>4. \A j \in PendingJobs : jobs[j].owner \in Writers
    BY OwnersAreWriters DEF PendingJobs
  <2> QED BY <2>1, <2>2, <2>3, <2>4 DEF Wakeup, NoLostWakeup, DrainIsAlive
<1> QED BY <1>1, <1>2, <1>3, <1>4

LEMMA WakeupStep == Shape /\ Wakeup /\ [Next]_vars => Wakeup'
<1> SUFFICES ASSUME Shape, Wakeup, [Next]_vars PROVE Wakeup'
  OBVIOUS
<1>1. ASSUME NEW w \in Writers, NEW wr \in FetchedWrites,
             WriteSync(w, wr) \/ WriteAsync(w, wr) \/ WriteAuto(w, wr)
      PROVE  Wakeup'
  BY <1>1, CallerKeepsWakeup
<1>2. ASSUME NEW w \in Writers,
             CallFlush(w) \/ EnqueueRaises(w) \/ ReturnSync(w) \/ ReturnFromFlush(w) \/ EnqueueLocked(w)
      PROVE  Wakeup'
  BY <1>2, CallerKeepsWakeup
<1>3. ASSUME NEW w \in Writers, NEW r \in Roles,
             \/ StartFlush(w, r) \/ BeginAttempt(w, r) \/ CommitAttempt(w, r) \/ FailAttempt(w, r)
             \/ MarkSucceeded(w, r) \/ MarkFailed(w, r)
      PROVE  Wakeup'
  BY <1>3, FlushKeepsWakeup
<1>4. ASSUME NEW w \in Writers, NEW r \in Roles,
             DrainUntilIdle(w) \/ ThreadEnds(w) \/ FlushRaises(w, r) \/ Crash(w)
      PROVE  Wakeup'
  BY <1>4, EndsKeepWakeup
<1>5. CASE Tick \/ UNCHANGED vars
  BY <1>5 DEF Tick, vars, storeVars, writerVars, faultVars, Wakeup, NoLostWakeup, PendingJobs,
              DrainIsAlive
<1> QED BY <1>1, <1>2, <1>3, <1>4, <1>5 DEF Next, Work, Roles

-----------------------------------------------------------------------------
(* The tables under the writers' transactions *)

TablesSound == SP!TypeOK /\ SP!PointerIntegrity /\ SP!OpSound

\* The payload of a write is among the versions of its key, or was refused.
Stored(wr) ==
  \E v \in DOMAIN versions : versions[v].key = wr.key /\ versions[v].checksum = wr.payload
Refused(wr) ==
  \E c \in conflicts :
    c.resolution = "REJECTED" /\ c.key = wr.key /\ c.incomingChecksum = wr.payload

\* What no step undoes: versions keep key and payload, conflicts stay.
TablesKept ==
  /\ \A v \in DOMAIN versions :
       /\ v \in DOMAIN versions'
       /\ versions'[v].key = versions[v].key
       /\ versions'[v].checksum = versions[v].checksum
  /\ conflicts \subseteq conflicts'

LEMMA StaysStored ==
  ASSUME TablesKept, NEW wr
  PROVE  (Stored(wr) => Stored(wr)') /\ (Refused(wr) => Refused(wr)')
BY DEF TablesKept, Stored, Refused

\* The store's definitions, under the names of the two instances.
LEMMA SameTables ==
  /\ Store!TypeOK <=> SP!TypeOK
  /\ Store!PointerIntegrity <=> SP!PointerIntegrity
  /\ Store!Write = SP!Write
  /\ Store!Upsert = SP!Upsert
BY DEF Store!TypeOK, SP!TypeOK, Store!PointerIntegrity, SP!PointerIntegrity, Store!Version,
       SP!Version, Store!Pointer, SP!Pointer, Store!Conflict, SP!Conflict, Store!Upsert,
       SP!Upsert, Store!Write, SP!Write

LEMMA SameBegin ==
  ASSUME NEW a, NEW wr, NEW allow
  PROVE  Store!BeginUpsert(a, wr, allow) <=> SP!BeginUpsert(a, wr, allow)
BY DEF Store!BeginUpsert, SP!BeginUpsert, Store!ValidCacheWrite, SP!ValidCacheWrite,
       Store!CurrentVersionIsValid, SP!CurrentVersionIsValid

LEMMA SameStatus == ASSUME NEW o PROVE Store!UpsertStatus(o) = SP!UpsertStatus(o)
BY DEF Store!UpsertStatus, SP!UpsertStatus

LEMMA SameCommit == ASSUME NEW a PROVE Store!CommitUpsert(a) <=> SP!CommitUpsert(a)
<1>1. ASSUME NEW o PROVE Store!UpsertStatus(o) = SP!UpsertStatus(o)
  BY SameStatus
<1> QED BY <1>1 DEF Store!CommitUpsert, SP!CommitUpsert, Store!InsertFirst, SP!InsertFirst,
             Store!Repair, SP!Repair, Store!Refresh, SP!Refresh, Store!Idempotent, SP!Idempotent,
             Store!RejectConflict, SP!RejectConflict, Store!Supersede, SP!Supersede,
             Store!NewVersion, SP!NewVersion, Store!PointTo, SP!PointTo,
             Store!RecordedConflict, SP!RecordedConflict

LEMMA Assumed == SP!StoreAssumption /\ SP!FreshnessAssumption
BY TablesAssumption DEF Store!StoreAssumption, SP!StoreAssumption, Store!FreshnessAssumption,
   SP!FreshnessAssumption, Store!Pointer, SP!Pointer, Store!Value, SP!Value, Store!Upsert,
   SP!Upsert, Store!Request, SP!Request, Store!Write, SP!Write

\* The read step of an upsert, by any agent.
LEMMA BeginKeepsTables ==
  ASSUME TablesSound, NEW a \in Agents, NEW wr \in Store!Write, NEW allow \in BOOLEAN,
         Store!BeginUpsert(a, wr, allow)
  PROVE  /\ TablesSound'
         /\ UNCHANGED <<versions, conflicts, now>>
         /\ op'[a] # NoOp /\ op'[a].write = wr
         /\ \A b \in Agents \ {a} : op'[b] = op[b]
<1>1. SP!BeginUpsert(a, wr, allow) /\ SP!TypeOK /\ SP!PointerIntegrity /\ SP!OpSound
  BY SameBegin DEF TablesSound
<1>2. wr \in SP!Write /\ wr.key \in Keys
  BY SameTables, Assumed DEF SP!Write, SP!StoreAssumption
<1>3. SP!TypeOK'
  BY <1>1, <1>2, Assumed, SP!BeginTypeOK
<1>4. SP!OpSound'
  BY <1>1, <1>2, Assumed, SP!BeginOpSound
<1>5. UNCHANGED <<versions, current, conflicts, now>>
      /\ op' = [op EXCEPT ![a] = [write |-> wr, allow |-> allow, row |-> current[wr.key],
                                  valid |-> SP!CurrentVersionIsValid(wr.key)]]
  BY <1>1 DEF SP!BeginUpsert
<1>6. SP!PointerIntegrity'
  BY <1>1, <1>5 DEF SP!PointerIntegrity
<1>7. DOMAIN op = Agents
  BY <1>1 DEF SP!TypeOK
<1>8. op'[a].write = wr /\ op'[a] \in SP!Upsert \cup {NoOp}
  BY <1>3, <1>5, <1>7 DEF SP!TypeOK
<1>9. op'[a] # NoOp
  <2>1. [write |-> wr, allow |-> allow, row |-> current[wr.key],
         valid |-> SP!CurrentVersionIsValid(wr.key)] \in SP!Upsert
    BY <1>1, <1>2 DEF SP!TypeOK, SP!Upsert, SP!CurrentVersionIsValid
  <2> QED BY <1>5, <1>7, <2>1, Assumed DEF SP!StoreAssumption
<1> QED BY <1>3, <1>4, <1>5, <1>6, <1>7, <1>8, <1>9 DEF TablesSound

\* Its commit: the tables stay sound, nothing is lost, and the payload is stored or refused.
LEMMA CommitKeepsTables ==
  ASSUME TablesSound, NEW a \in Agents, Store!CommitUpsert(a), NEW wr, op[a].write = wr
  PROVE  /\ TablesSound' /\ TablesKept
         /\ \A b \in Agents \ {a} : op'[b] = op[b]
         /\ IF Store!UpsertStatus(op[a]) = "conflict_rejected" THEN Refused(wr)' ELSE Stored(wr)'
<1>1. SP!CommitUpsert(a) /\ SP!TypeOK /\ SP!PointerIntegrity /\ SP!OpSound
  BY SameCommit DEF TablesSound
<1>2. SP!Next
  BY <1>1 DEF SP!Next
<1>3. SP!TypeOK' /\ SP!OpSound' /\ SP!PointerIntegrity'
  BY <1>1, <1>2, Assumed, SP!StepTypeOK, SP!StepOpSound, SP!StepPointerIntegrity
<1>4. SP!VersionsKept
  BY <1>1, Assumed, SP!CommitKeepsVersions
<1>5. /\ conflicts \subseteq conflicts'
      /\ IF SP!UpsertStatus(op[a]) = "conflict_rejected"
         THEN \E c \in conflicts' :
                /\ c.resolution = "REJECTED"
                /\ c.key = op[a].write.key
                /\ c.incomingChecksum = op[a].write.payload
         ELSE \E v \in DOMAIN versions' :
                /\ versions'[v].key = op[a].write.key
                /\ versions'[v].checksum = op[a].write.payload
  BY <1>1, Assumed, SP!CommitOutcome
<1>6. \A b \in Agents \ {a} : op'[b] = op[b]
  BY <1>1 DEF SP!CommitUpsert, SP!TypeOK
<1>7. Store!UpsertStatus(op[a]) = SP!UpsertStatus(op[a])
  BY SameStatus
<1>8. TablesKept
  BY <1>4, <1>5 DEF SP!VersionsKept, TablesKept
<1> QED BY <1>3, <1>5, <1>6, <1>7, <1>8 DEF TablesSound, Stored, Refused

\* An agent that loses its upsert, by a rollback or with its process.
LEMMA LossKeepsTables ==
  ASSUME TablesSound, UNCHANGED <<versions, current, conflicts, now>>,
         op' \in [Agents -> SP!Upsert \cup {NoOp}],
         \A b \in Agents : op'[b] \in {op[b], NoOp}
  PROVE  TablesSound' /\ TablesKept
<1>1. SP!TypeOK' /\ SP!PointerIntegrity'
  BY DEF TablesSound, SP!TypeOK, SP!PointerIntegrity
<1>2. SP!OpSound'
  BY DEF TablesSound, SP!OpSound
<1> QED BY <1>1, <1>2 DEF TablesSound, TablesKept

LEMMA AbortKeepsTables ==
  ASSUME TablesSound, NEW a \in Agents, Store!AbortUpsert(a)
  PROVE  TablesSound' /\ TablesKept /\ \A b \in Agents \ {a} : op'[b] = op[b]
BY LossKeepsTables DEF TablesSound, Store!AbortUpsert, SP!TypeOK

LEMMA TickKeepsTables ==
  ASSUME TablesSound, Store!Tick \/ UNCHANGED storeVars
  PROVE  TablesSound' /\ TablesKept /\ op' = op
BY DEF TablesSound, Store!Tick, storeVars, SP!TypeOK, SP!PointerIntegrity, SP!OpSound, TablesKept

-----------------------------------------------------------------------------
(* Where an agent is in its batch, and what it knows there *)

\* A non-empty set of naturals has a least element.
LEMMA LeastElement ==
  ASSUME NEW T \in SUBSET Nat, T # {}
  PROVE  \E x \in T : \A y \in T : x <= y
<1>1. PICK x \in T : \A y \in T : ~(<<y, x>> \in OpToRel(<, Nat))
  BY WFMin, NatLessThanWellFounded, Zenon
<1>2. \A y \in T : ~(y < x)
  BY <1>1, Zenon DEF OpToRel
<1> QED BY <1>2

\* The next job is one of the batch, hence a row of the table.
LEMMA NextJobIsAJob ==
  ASSUME Shape, NEW a \in Agents, batch[a] # {}
  PROVE  NextJob(a) \in batch[a] /\ NextJob(a) \in DOMAIN jobs
<1>1. batch[a] \subseteq DOMAIN jobs /\ DOMAIN jobs \subseteq Nat
  BY DEF Shape
<1>2. \E j \in batch[a] : \A i \in batch[a] : j <= i
  BY <1>1, LeastElement
<1> QED BY <1>1, <1>2 DEF NextJob

\* Between read and commit the upsert is that of the next job; a mark follows from what the
\* transactions left behind.  A failed attempt is a fault, and only so many are made.
ProgressOf(a) ==
  /\ pc[a] \in {"commit", "markSucceeded", "markFailed"} => batch[a] # {}
  /\ ~InFlush(a) => batch[a] = {}
  /\ batch[a] = {} => attempt[a] = 0
  /\ pc[a] \in {"attempt", "commit"} => attempt[a] < MaxAttempts
  /\ attempt[a] <= MaxAttempts
  /\ attempt[a] <= upsertFaults
  /\ pc[a] = "commit" => op[a] # NoOp /\ op[a].write = jobs[NextJob(a)].write
  /\ pc[a] = "markSucceeded" => Stored(jobs[NextJob(a)].write)
  /\ pc[a] = "markFailed" =>
       upsertFaults >= MaxAttempts \/ Refused(jobs[NextJob(a)].write)

Progress == \A a \in Agents : ProgressOf(a)

\* What is said of a job by its status.
Outcome ==
  \A j \in DOMAIN jobs :
    /\ jobs[j].status = "SUCCEEDED" => Stored(jobs[j].write)
    /\ jobs[j].status = "FAILED_PERMANENT" =>
         upsertFaults >= MaxAttempts \/ Refused(jobs[j].write)

\* What no step undoes of the job table and of the count of faults.
JobsKept ==
  /\ \A j \in DOMAIN jobs : j \in DOMAIN jobs' /\ jobs'[j].write = jobs[j].write
  /\ upsertFaults' \in Nat /\ upsertFaults <= upsertFaults'

\* An agent that does not move goes on knowing what it knows.
LEMMA BystanderProgress ==
  ASSUME Shape, TablesKept, JobsKept, NEW a \in Agents, ProgressOf(a), pc'[a] = pc[a],
         batch'[a] = batch[a], attempt'[a] = attempt[a], op'[a] = op[a]
  PROVE  ProgressOf(a)'
<1>1. NextJob(a)' = NextJob(a)
  BY DEF NextJob
<1>2. InFlush(a)' = InFlush(a)
  BY DEF InFlush
<1>3. batch[a] # {} => jobs'[NextJob(a)].write = jobs[NextJob(a)].write
  BY NextJobIsAJob DEF JobsKept
<1>4. ASSUME batch[a] # {}, Stored(jobs[NextJob(a)].write)
      PROVE  Stored(jobs[NextJob(a)].write)'
  BY <1>1, <1>3, <1>4 DEF Stored, TablesKept
<1>5. ASSUME batch[a] # {}, Refused(jobs[NextJob(a)].write)
      PROVE  Refused(jobs[NextJob(a)].write)'
  BY <1>1, <1>3, <1>5 DEF Refused, TablesKept
<1>6. /\ upsertFaults >= MaxAttempts => upsertFaults' >= MaxAttempts
      /\ attempt[a] <= upsertFaults => attempt[a] <= upsertFaults'
  BY WriterAssumption DEF JobsKept, Shape
<1> QED BY <1>1, <1>2, <1>3, <1>4, <1>5, <1>6 DEF ProgressOf

\* An agent that is in no flush has nothing to know.
LEMMA RestingProgress ==
  ASSUME NEW a \in Agents, pc'[a] \notin {"attempt", "commit", "markSucceeded", "markFailed"},
         batch'[a] = {}, attempt'[a] = 0, upsertFaults' \in Nat
  PROVE  ProgressOf(a)'
BY WriterAssumption DEF ProgressOf, InFlush

\* One about to look at its batch knows how often it has tried its head.
LEMMA AttemptProgress ==
  ASSUME NEW a \in Agents, pc'[a] = "attempt", attempt'[a] \in Nat, upsertFaults' \in Nat,
         attempt'[a] < MaxAttempts, attempt'[a] <= upsertFaults', batch'[a] = {} => attempt'[a] = 0
  PROVE  ProgressOf(a)'
BY WriterAssumption DEF ProgressOf, InFlush

\* Statuses that do not change, and new pending jobs, say nothing new.
LEMMA OutcomeStays ==
  ASSUME Shape, Outcome, TablesKept, JobsKept,
         \A j \in DOMAIN jobs' :
           \/ j \in DOMAIN jobs /\ jobs'[j].status = jobs[j].status
           \/ jobs'[j].status = "PENDING"
  PROVE  Outcome'
<1>1. \A wr : (Stored(wr) => Stored(wr)') /\ (Refused(wr) => Refused(wr)')
  BY StaysStored
<1>2. upsertFaults >= MaxAttempts => upsertFaults' >= MaxAttempts
  BY WriterAssumption DEF JobsKept, Shape
<1> QED BY <1>1, <1>2 DEF Outcome, JobsKept

Sound == TablesSound /\ Progress /\ Outcome

\* A step of some agents, whose progress is known.
LEMMA AgentsMove ==
  ASSUME Shape, Sound, TablesSound', TablesKept, JobsKept, Outcome', NEW S,
         \A a \in S : ProgressOf(a)',
         \A b \in Agents \ S : /\ pc'[b] = pc[b] /\ batch'[b] = batch[b]
                               /\ attempt'[b] = attempt[b] /\ op'[b] = op[b]
  PROVE  Sound'
<1>1. Progress'
  BY BystanderProgress DEF Sound, Progress
<1> QED BY <1>1 DEF Sound

\* A step of one agent that settles nothing.
LEMMA OneAgentMoves ==
  ASSUME Shape, Sound, TablesSound', TablesKept, JobsKept, NEW a \in Agents, ProgressOf(a)',
         \A b \in Agents \ {a} : /\ pc'[b] = pc[b] /\ batch'[b] = batch[b]
                                 /\ attempt'[b] = attempt[b] /\ op'[b] = op[b],
         jobs' = jobs
  PROVE  Sound'
<1>1. Outcome'
  BY OutcomeStays DEF Sound
<1>2. Progress'
  BY BystanderProgress DEF Sound, Progress
<1> QED BY <1>1, <1>2 DEF Sound

\* A step that touches no table of the cache.
LEMMA TablesUntouched ==
  ASSUME TablesSound, UNCHANGED storeVars
  PROVE  TablesSound' /\ TablesKept /\ op' = op
BY TickKeepsTables

LEMMA CallerKeepsSound ==
  ASSUME Shape, Sound, NEW w \in Writers,
         \/ \E wr \in FetchedWrites : WriteSync(w, wr) \/ WriteAuto(w, wr)
         \/ CallFlush(w) \/ ReturnSync(w) \/ ReturnFromFlush(w) \/ EnqueueRaises(w)
  PROVE  Sound'
<1> DEFINE a == Caller(w)
<1>0. a \in Agents /\ a = <<w, "caller">>
  BY DEF Agents, Roles, Caller
<1>a. \A label : Goto(a, label) => pc'[a] = label /\ \A b \in Agents \ {a} : pc'[b] = pc[b]
  BY <1>0 DEF Goto, Shape
<1>b. ProgressOf(a) /\ TablesSound
  BY <1>0 DEF Sound, Progress
<1>c. pc[a] \notin {"attempt", "commit", "markSucceeded", "markFailed"}
        => batch[a] = {} /\ attempt[a] = 0
  BY <1>b DEF ProgressOf, InFlush
<1>d. upsertFaults \in Nat /\ (UNCHANGED <<jobs, upsertFaults>> => JobsKept)
  BY DEF Shape, JobsKept
<1> HIDE DEF a
<1>1. ASSUME NEW wr \in FetchedWrites, WriteSync(w, wr) PROVE Sound'
  <2>1. Store!BeginUpsert(a, wr, Correction[w]) /\ pc[a] = "idle" /\ Goto(a, "sync")
        /\ UNCHANGED <<jobs, batch, attempt, upsertFaults>>
    BY <1>1 DEF WriteSync, faultVars, a
  <2>2. wr \in Store!Write /\ Correction[w] \in BOOLEAN
    BY <2>1, FetchedShape, WriterAssumption DEF Store!BeginUpsert
  <2>3. TablesSound' /\ TablesKept /\ \A b \in Agents \ {a} : op'[b] = op[b]
    BY <1>0, <1>b, <2>1, <2>2, BeginKeepsTables DEF TablesKept
  <2> QED BY <1>0, <1>a, <1>c, <1>d, <2>1, <2>3, RestingProgress, OneAgentMoves
<1>2. ASSUME NEW wr \in FetchedWrites, WriteAuto(w, wr) PROVE Sound'
  <2>1. UNCHANGED storeVars /\ pc[a] = "idle" /\ Goto(a, "enqueue")
        /\ UNCHANGED <<jobs, batch, attempt, upsertFaults>>
    BY <1>2 DEF WriteAuto, faultVars, a
  <2> QED BY <1>0, <1>a, <1>b, <1>c, <1>d, <2>1, TablesUntouched, RestingProgress, OneAgentMoves
<1>3. CASE CallFlush(w)
  <2>1. UNCHANGED storeVars /\ pc[a] = "idle" /\ Goto(a, "flush")
        /\ UNCHANGED <<jobs, batch, attempt, upsertFaults>>
    BY <1>3 DEF CallFlush, faultVars, a
  <2> QED BY <1>0, <1>a, <1>b, <1>c, <1>d, <2>1, TablesUntouched, RestingProgress, OneAgentMoves
<1>4. CASE ReturnSync(w)
  <2>1. Store!CommitUpsert(a) \/ Store!AbortUpsert(a)
    BY <1>4 DEF ReturnSync, a
  <2>2. /\ pc[a] = "sync" /\ Goto(a, "idle") /\ UNCHANGED <<jobs, batch, attempt>>
        /\ upsertFaults' \in {upsertFaults, upsertFaults + 1}
    BY <1>4 DEF ReturnSync, a
  <2>3. TablesSound' /\ TablesKept /\ \A b \in Agents \ {a} : op'[b] = op[b]
    BY <1>0, <1>b, <2>1, CommitKeepsTables, AbortKeepsTables
  <2>4. JobsKept
    BY <1>d, <2>2 DEF JobsKept
  <2> QED BY <1>0, <1>a, <1>c, <1>d, <2>2, <2>3, <2>4, RestingProgress, OneAgentMoves
<1>5. CASE ReturnFromFlush(w)
  <2>1. UNCHANGED storeVars /\ batch[a] = {} /\ Goto(a, "idle")
        /\ UNCHANGED <<jobs, batch, attempt, upsertFaults>>
    BY <1>5 DEF ReturnFromFlush, faultVars, a
  <2>2. attempt[a] = 0
    BY <1>b, <2>1 DEF ProgressOf
  <2> QED BY <1>0, <1>a, <1>b, <1>d, <2>1, <2>2, TablesUntouched, RestingProgress, OneAgentMoves
<1>6. CASE EnqueueRaises(w)
  <2>1. UNCHANGED storeVars /\ pc[a] = "enqueue" /\ Goto(a, "idle")
        /\ UNCHANGED <<jobs, batch, attempt>> /\ upsertFaults' = upsertFaults + 1
    BY <1>6 DEF EnqueueRaises, a
  <2>2. JobsKept
    BY <1>d, <2>1 DEF JobsKept
  <2> QED BY <1>0, <1>a, <1>b, <1>c, <1>d, <2>1, <2>2, TablesUntouched, RestingProgress, OneAgentMoves
<1> QED BY <1>1, <1>2, <1>3, <1>4, <1>5, <1>6

\* A job enters the table as pending; a thread that starts has no batch yet.
LEMMA EnqueueKeepsSound ==
  ASSUME Shape, Sound, NEW w \in Writers,
         (\E wr \in FetchedWrites : WriteAsync(w, wr)) \/ EnqueueLocked(w)
  PROVE  Sound'
<1>1. PICK wr \in Store!Write : jobs' = Append(jobs, NewJob(w, wr))
  BY FetchedShape DEF WriteAsync, EnqueueLocked, Shape
<1>2. /\ DOMAIN jobs' = DOMAIN jobs \cup {Len(jobs) + 1}
      /\ jobs'[Len(jobs) + 1].status = "PENDING"
      /\ \A j \in DOMAIN jobs : jobs'[j] = jobs[j]
  BY <1>1, NewJobShape DEF NewJob
<1>3. UNCHANGED <<storeVars, batch, attempt, upsertFaults>>
  BY DEF WriteAsync, EnqueueLocked, faultVars
<1>4. JobsKept /\ upsertFaults' \in Nat
  BY <1>2, <1>3 DEF JobsKept, Shape
<1>5. TablesSound' /\ TablesKept /\ op' = op
  BY <1>3, TablesUntouched DEF Sound
<1>6. Outcome'
  BY <1>2, <1>4, <1>5, OutcomeStays DEF Sound
<1>7. \A b \in Agents : pc'[b] = pc[b] \/ (~InFlush(b) /\ pc'[b] \in {"idle", "flush"})
  <2>1. CASE EnqueueLocked(w)
    <3>1. pc \in [Agents -> CallerPoints \cup DrainPoints] /\ Caller(w) \in Agents
          /\ Drain(w) \in Agents /\ Drain(w) # Caller(w)
      BY DEF Shape, Agents, Roles, Caller, Drain
    <3>2. pc[Caller(w)] = "enqueue" /\ pc'[Caller(w)] = "idle"
      BY <2>1, <3>1 DEF EnqueueLocked
    <3>3. pc'[Drain(w)] = IF DrainIsAlive(w) THEN pc[Drain(w)] ELSE "flush"
      BY <2>1, <3>1 DEF EnqueueLocked
    <3>4. \A b \in Agents \ {Caller(w), Drain(w)} : pc'[b] = pc[b]
      BY <2>1, <3>1 DEF EnqueueLocked
    <3> QED BY <3>2, <3>3, <3>4 DEF DrainIsAlive, InFlush
  <2>2. CASE \E x \in FetchedWrites : WriteAsync(w, x)
    BY <2>2 DEF WriteAsync
  <2> QED BY <2>1, <2>2
<1>8. \A b \in Agents : ~InFlush(b) => batch[b] = {} /\ attempt[b] = 0
  BY DEF Sound, Progress, ProgressOf
<1>9. \A b \in {b \in Agents : pc'[b] # pc[b]} : ProgressOf(b)'
  BY <1>3, <1>4, <1>7, <1>8, RestingProgress
<1> QED BY <1>3, <1>4, <1>5, <1>6, <1>9, AgentsMove

LEMMA FlushKeepsSound ==
  ASSUME Shape, Sound, NEW w \in Writers, NEW r \in Roles,
         \/ StartFlush(w, r) \/ BeginAttempt(w, r) \/ CommitAttempt(w, r) \/ FailAttempt(w, r)
  PROVE  Sound'
<1> DEFINE a == <<w, r>>
<1>0. a \in Agents
  BY DEF Agents
<1>a. \A label : Goto(a, label) => pc'[a] = label /\ \A b \in Agents \ {a} : pc'[b] = pc[b]
  BY <1>0 DEF Goto, Shape
<1>b. ProgressOf(a) /\ TablesSound
  BY <1>0 DEF Sound, Progress
<1>c. attempt[a] \in Nat /\ upsertFaults \in Nat /\ MaxAttempts \in Nat \ {0}
  BY <1>0, WriterAssumption DEF Shape
<1>d. UNCHANGED <<jobs, upsertFaults>> => JobsKept
  BY <1>c DEF JobsKept
<1> HIDE DEF a
<1>1. CASE StartFlush(w, r)
  <2>1. UNCHANGED <<storeVars, jobs, attempt, upsertFaults>> /\ pc[a] = "flush" /\ Goto(a, "attempt")
        /\ batch' = [batch EXCEPT ![a] = PendingJobs]
    BY <1>1 DEF StartFlush, faultVars, a
  <2>2. attempt[a] = 0
    BY <1>b, <2>1 DEF ProgressOf, InFlush
  <2>3. \A b \in Agents \ {a} : batch'[b] = batch[b]
    BY <2>1 DEF Shape
  <2>4. ProgressOf(a)'
    BY <1>0, <1>a, <1>c, <2>1, <2>2, AttemptProgress
  <2> QED BY <1>0, <1>a, <1>b, <1>d, <2>1, <2>3, <2>4, TablesUntouched, OneAgentMoves
<1>2. CASE BeginAttempt(w, r)
  <2> DEFINE wr == jobs[NextJob(a)].write
  <2>1. /\ pc[a] = "attempt" /\ batch[a] # {} /\ Store!BeginUpsert(a, wr, Correction[w])
        /\ Goto(a, "commit") /\ UNCHANGED <<jobs, batch, attempt, upsertFaults>>
    BY <1>2 DEF BeginAttempt, faultVars, a
  <2>2. NextJob(a) \in DOMAIN jobs /\ jobs \in [1..Len(jobs) -> Job] /\ DOMAIN jobs = 1..Len(jobs)
    BY <1>0, <2>1, NextJobIsAJob DEF Shape
  <2>3. wr \in Store!Write /\ Correction[w] \in BOOLEAN
    BY <2>2, WriterAssumption DEF Job
  <2>4. NextJob(a)' = NextJob(a)
    BY <2>1 DEF NextJob
  <2> HIDE DEF wr
  <2>5. /\ TablesSound' /\ UNCHANGED <<versions, conflicts>>
        /\ op'[a] # NoOp /\ op'[a].write = wr
        /\ \A b \in Agents \ {a} : op'[b] = op[b]
    BY <1>0, <1>b, <2>1, <2>3, BeginKeepsTables
  <2>6. TablesKept
    BY <2>5 DEF TablesKept
  <2>7. op'[a].write = jobs'[NextJob(a)'].write
    BY <2>1, <2>4, <2>5 DEF wr
  <2>8. ProgressOf(a)'
    BY <1>a, <1>b, <2>1, <2>5, <2>7 DEF ProgressOf, InFlush
  <2> QED BY <1>0, <1>a, <1>d, <2>1, <2>5, <2>6, <2>8, OneAgentMoves
<1>3. CASE CommitAttempt(w, r)
  <2> DEFINE n == NextJob(a)
             next == IF Store!UpsertStatus(op[a]) = "conflict_rejected"
                     THEN "markFailed" ELSE "markSucceeded"
  <2>1. /\ pc[a] = "commit" /\ Store!CommitUpsert(a) /\ Goto(a, next)
        /\ UNCHANGED <<jobs, batch, attempt, upsertFaults>>
    BY <1>3 DEF CommitAttempt, faultVars, a
  <2>2. batch[a] # {} /\ op[a].write = jobs[n].write
    BY <1>b, <2>1 DEF ProgressOf
  <2>3. n' = n
    BY <2>1 DEF NextJob
  <2> HIDE DEF n
  <2>4. /\ TablesSound' /\ TablesKept
        /\ \A b \in Agents \ {a} : op'[b] = op[b]
    BY <1>0, <1>b, <2>1, CommitKeepsTables
  <2>5. ASSUME NEW wr, op[a].write = wr
        PROVE  IF Store!UpsertStatus(op[a]) = "conflict_rejected" THEN Refused(wr)' ELSE Stored(wr)'
    BY <1>0, <1>b, <2>1, <2>5, CommitKeepsTables
  <2>6. IF Store!UpsertStatus(op[a]) = "conflict_rejected"
        THEN Refused(jobs[n].write)' ELSE Stored(jobs[n].write)'
    BY <2>1, <2>2, <2>3, <2>5 DEF Refused, Stored
  <2>7. ProgressOf(a)'
    BY <1>a, <1>b, <2>1, <2>2, <2>3, <2>6 DEF ProgressOf, InFlush, n
  <2> QED BY <1>0, <1>a, <1>d, <2>1, <2>4, <2>7, OneAgentMoves
<1>4. CASE FailAttempt(w, r)
  <2> DEFINE next == IF attempt[a] + 1 < MaxAttempts THEN "attempt" ELSE "markFailed"
  <2>1. /\ pc[a] = "commit" /\ Store!AbortUpsert(a) /\ Goto(a, next)
        /\ upsertFaults' = upsertFaults + 1 /\ UNCHANGED <<jobs, batch>>
        /\ attempt' = [attempt EXCEPT ![a] = attempt[a] + 1]
    BY <1>4 DEF FailAttempt, a
  <2>2. /\ TablesSound' /\ TablesKept /\ \A b \in Agents \ {a} : op'[b] = op[b]
    BY <1>0, <1>b, <2>1, AbortKeepsTables
  <2>3. batch[a] # {} /\ attempt[a] < MaxAttempts /\ attempt[a] <= upsertFaults
    BY <1>b, <2>1 DEF ProgressOf
  <2>4. attempt'[a] = attempt[a] + 1 /\ \A b \in Agents \ {a} : attempt'[b] = attempt[b]
    BY <1>0, <2>1 DEF Shape
  <2>5. ProgressOf(a)'
    BY <1>a, <1>c, <2>1, <2>3, <2>4 DEF ProgressOf, InFlush
  <2>6. JobsKept
    BY <1>c, <2>1 DEF JobsKept
  <2> QED BY <1>0, <1>a, <2>1, <2>2, <2>4, <2>5, <2>6, OneAgentMoves
<1> QED BY <1>1, <1>2, <1>3, <1>4

\* A mark gives the next job the status its transactions earned, and no other job one.
LEMMA MarksKeepSound ==
  ASSUME Shape, Sound, NEW w \in Writers, NEW r \in Roles, MarkSucceeded(w, r) \/ MarkFailed(w, r)
  PROVE  Sound'
<1> DEFINE a == <<w, r>>
           n == NextJob(a)
           status == IF pc[a] = "markSucceeded" THEN "SUCCEEDED" ELSE "FAILED_PERMANENT"
<1>0. a \in Agents
  BY DEF Agents
<1>1. /\ UNCHANGED <<storeVars, upsertFaults>> /\ Goto(a, "attempt")
      /\ batch' = [batch EXCEPT ![a] = batch[a] \ {n}]
      /\ attempt' = [attempt EXCEPT ![a] = 0]
      /\ pc[a] \in {"markSucceeded", "markFailed"}
  BY DEF MarkSucceeded, MarkFailed, NextInBatch, faultVars
<1>2. ProgressOf(a) /\ TablesSound /\ batch[a] # {}
  BY <1>0, <1>1 DEF Sound, Progress, ProgressOf
<1>3. n \in DOMAIN jobs
  BY <1>0, <1>2, NextJobIsAJob
<1>4. jobs \in [1..Len(jobs) -> Job] /\ DOMAIN jobs = 1..Len(jobs)
  BY DEF Shape
<1>5. \A j \in DOMAIN jobs : j # n => jobs'[j] = jobs[j]
  BY <1>4 DEF MarkSucceeded, MarkFailed
<1>6. jobs'[n].status = status
  <2>1. jobs[n] \in Job
    BY <1>3, <1>4
  <2>2. CASE MarkSucceeded(w, r)
    BY <1>3, <1>4, <2>1, <2>2 DEF MarkSucceeded, Job
  <2>3. CASE MarkFailed(w, r)
    <3>1. jobs' = [jobs EXCEPT ![n] = [jobs[n] EXCEPT !.status = "FAILED_PERMANENT",
                                                    !.attempts = jobs[n].attempts + 1]]
      BY <2>3 DEF MarkFailed
    <3>2. pc[a] = "markFailed"
      BY <2>3 DEF MarkFailed
    <3> QED BY <1>3, <1>4, <2>1, <3>1, <3>2 DEF Job
  <2> QED BY <2>2, <2>3
<1> HIDE DEF n
<1>7. DOMAIN jobs' = DOMAIN jobs /\ \A j \in DOMAIN jobs : jobs'[j].write = jobs[j].write
  BY MarksSettle
<1>8. JobsKept /\ upsertFaults' \in Nat /\ MaxAttempts \in Nat \ {0}
  BY <1>1, <1>7, WriterAssumption DEF JobsKept, Shape
<1>9. TablesSound' /\ TablesKept /\ op' = op
  BY <1>1, <1>2, TablesUntouched
<1>10. /\ pc'[a] = "attempt" /\ attempt'[a] = 0
       /\ \A b \in Agents \ {a} : pc'[b] = pc[b] /\ batch'[b] = batch[b] /\ attempt'[b] = attempt[b]
  BY <1>0, <1>1 DEF Goto, Shape
<1>11. ProgressOf(a)'
  BY <1>0, <1>8, <1>10, AttemptProgress
<1>12. Progress'
  BY <1>8, <1>9, <1>10, <1>11, BystanderProgress DEF Sound, Progress
<1>13. IF pc[a] = "markSucceeded" THEN Stored(jobs[n].write)
       ELSE upsertFaults >= MaxAttempts \/ Refused(jobs[n].write)
  BY <1>1, <1>2 DEF ProgressOf, n
<1>14. Outcome'
  <2> SUFFICES ASSUME NEW j \in DOMAIN jobs
               PROVE  /\ jobs'[j].status = "SUCCEEDED" => Stored(jobs[j].write)'
                      /\ jobs'[j].status = "FAILED_PERMANENT" =>
                           upsertFaults' >= MaxAttempts \/ Refused(jobs[j].write)'
    BY <1>7 DEF Outcome
  <2>1. /\ Stored(jobs[j].write) => Stored(jobs[j].write)'
        /\ Refused(jobs[j].write) => Refused(jobs[j].write)'
    BY <1>7, <1>9 DEF Stored, Refused, TablesKept
  <2>2. upsertFaults' = upsertFaults
    BY <1>1
  <2>3. CASE j = n
    BY <1>6, <1>13, <2>1, <2>2, <2>3
  <2>4. CASE j # n
    BY <1>5, <2>1, <2>2, <2>4 DEF Sound, Outcome
  <2> QED BY <2>3, <2>4
<1> QED BY <1>9, <1>12, <1>14 DEF Sound

\* The ways a flush ends without a mark.
LEMMA EndsKeepSound ==
  ASSUME Shape, Sound, NEW w \in Writers, NEW r \in Roles,
         DrainUntilIdle(w) \/ ThreadEnds(w) \/ FlushRaises(w, r) \/ Crash(w)
  PROVE  Sound'
<1>0. Drain(w) \in Agents /\ <<w, r>> \in Agents /\ Caller(w) \in Agents
  BY DEF Agents, Roles, Drain, Caller
<1>a. \A a \in Agents : ProgressOf(a)
  BY DEF Sound, Progress
<1>b. upsertFaults \in Nat /\ (UNCHANGED <<jobs, upsertFaults>> => JobsKept)
  BY DEF Shape, JobsKept
<1>c. \A a \in Agents : \A label : Goto(a, label) =>
        pc'[a] = label /\ \A b \in Agents \ {a} : pc'[b] = pc[b]
  BY DEF Goto, Shape
<1>1. CASE DrainUntilIdle(w)
  <2> DEFINE a == Drain(w)
             next == IF PendingJobs = {} THEN "none" ELSE "flush"
  <2>1. UNCHANGED <<storeVars, jobs, batch, attempt, upsertFaults>> /\ batch[a] = {} /\ Goto(a, next)
    BY <1>1 DEF DrainUntilIdle, faultVars
  <2>2. attempt[a] = 0
    BY <1>0, <1>a, <2>1 DEF ProgressOf
  <2>3. pc'[a] = next /\ \A b \in Agents \ {a} : pc'[b] = pc[b]
    BY <1>0, <1>c, <2>1
  <2> HIDE DEF a
  <2>4. ProgressOf(a)'
    BY <1>0, <1>b, <2>1, <2>2, <2>3, RestingProgress DEF a
  <2> QED BY <1>0, <1>b, <2>1, <2>3, <2>4, TablesUntouched, OneAgentMoves DEF a, Sound
<1>2. CASE ThreadEnds(w)
  <2> DEFINE a == Drain(w)
  <2>1. UNCHANGED <<storeVars, jobs, batch, attempt, upsertFaults>> /\ pc[a] = "unwinding"
        /\ Goto(a, "dead")
    BY <1>2 DEF ThreadEnds, faultVars
  <2>2. batch[a] = {} /\ attempt[a] = 0
    BY <1>0, <1>a, <2>1 DEF ProgressOf, InFlush
  <2>3. pc'[a] = "dead" /\ \A b \in Agents \ {a} : pc'[b] = pc[b]
    BY <1>0, <1>c, <2>1
  <2> HIDE DEF a
  <2>4. ProgressOf(a)'
    BY <1>0, <1>b, <2>1, <2>2, <2>3, RestingProgress DEF a
  <2> QED BY <1>0, <1>b, <2>1, <2>3, <2>4, TablesUntouched, OneAgentMoves DEF a, Sound
<1>3. CASE FlushRaises(w, r)
  <2> DEFINE a == <<w, r>>
             next == IF r = "drain" THEN "unwinding" ELSE "idle"
  <2>1. /\ UNCHANGED <<storeVars, jobs, upsertFaults>> /\ Goto(a, next)
        /\ batch' = [batch EXCEPT ![a] = {}] /\ attempt' = [attempt EXCEPT ![a] = 0]
    BY <1>3 DEF FlushRaises
  <2>2. /\ batch'[a] = {} /\ attempt'[a] = 0
        /\ \A b \in Agents \ {a} : batch'[b] = batch[b] /\ attempt'[b] = attempt[b]
    BY <1>0, <2>1 DEF Shape
  <2>3. pc'[a] = next /\ \A b \in Agents \ {a} : pc'[b] = pc[b]
    BY <1>0, <1>c, <2>1
  <2> HIDE DEF a
  <2>4. ProgressOf(a)'
    BY <1>0, <1>b, <2>1, <2>2, <2>3, RestingProgress DEF a
  <2> QED BY <1>0, <1>b, <2>1, <2>2, <2>3, <2>4, TablesUntouched, OneAgentMoves DEF a, Sound
<1>4. CASE Crash(w)
  <2> DEFINE mine == {Caller(w), Drain(w)}
  <2>1. /\ UNCHANGED <<versions, current, conflicts, now, jobs, upsertFaults>>
        /\ op' = [a \in Agents |-> IF a \in mine THEN NoOp ELSE op[a]]
        /\ batch' = [a \in Agents |-> IF a \in mine THEN {} ELSE batch[a]]
        /\ attempt' = [a \in Agents |-> IF a \in mine THEN 0 ELSE attempt[a]]
    BY <1>4 DEF Crash
  <2>2. /\ \A a \in mine : pc'[a] \in {"idle", "none"}
        /\ \A a \in Agents \ mine : pc'[a] = pc[a]
    BY <1>0, <1>4 DEF Crash, Shape
  <2>3. op' \in [Agents -> SP!Upsert \cup {NoOp}] /\ \A a \in Agents : op'[a] \in {op[a], NoOp}
    BY <2>1 DEF Sound, TablesSound, SP!TypeOK
  <2>4. TablesSound' /\ TablesKept
    BY <2>1, <2>3, LossKeepsTables DEF Sound
  <2>5. \A a \in mine : a \in Agents /\ batch'[a] = {} /\ attempt'[a] = 0
    BY <1>0, <2>1
  <2>6. \A a \in mine : ProgressOf(a)'
    BY <1>b, <2>1, <2>2, <2>5, RestingProgress
  <2>7. \A a \in Agents \ mine : /\ pc'[a] = pc[a] /\ batch'[a] = batch[a]
                                /\ attempt'[a] = attempt[a] /\ op'[a] = op[a]
    BY <2>1, <2>2
  <2>8. JobsKept
    BY <1>b, <2>1
  <2>9. Outcome'
    BY <2>1, <2>4, <2>8, OutcomeStays DEF Sound
  <2> HIDE DEF mine
  <2> QED BY <2>4, <2>6, <2>7, <2>8, <2>9, AgentsMove
<1> QED BY <1>1, <1>2, <1>3, <1>4

LEMMA SoundStep == Shape /\ Sound /\ [Next]_vars => Sound'
<1> SUFFICES ASSUME Shape, Sound, [Next]_vars PROVE Sound'
  OBVIOUS
<1>1. ASSUME NEW w \in Writers, NEW wr \in FetchedWrites,
             WriteSync(w, wr) \/ WriteAsync(w, wr) \/ WriteAuto(w, wr)
      PROVE  Sound'
  BY <1>1, CallerKeepsSound, EnqueueKeepsSound
<1>2. ASSUME NEW w \in Writers,
             CallFlush(w) \/ EnqueueRaises(w) \/ ReturnSync(w) \/ ReturnFromFlush(w) \/ EnqueueLocked(w)
      PROVE  Sound'
  BY <1>2, CallerKeepsSound, EnqueueKeepsSound
<1>3. ASSUME NEW w \in Writers, NEW r \in Roles,
             \/ StartFlush(w, r) \/ BeginAttempt(w, r) \/ CommitAttempt(w, r) \/ FailAttempt(w, r)
             \/ MarkSucceeded(w, r) \/ MarkFailed(w, r)
      PROVE  Sound'
  BY <1>3, FlushKeepsSound, MarksKeepSound
<1>4. ASSUME NEW w \in Writers, NEW r \in Roles,
             DrainUntilIdle(w) \/ ThreadEnds(w) \/ FlushRaises(w, r) \/ Crash(w)
      PROVE  Sound'
  BY <1>4, EndsKeepSound
<1>5. CASE Tick \/ UNCHANGED vars
  <2>1. (Store!Tick \/ UNCHANGED storeVars) /\ UNCHANGED writerVars
    BY <1>5 DEF Tick, vars
  <2>2. TablesSound' /\ TablesKept /\ op' = op
    BY <2>1, TickKeepsTables DEF Sound
  <2>3. JobsKept /\ UNCHANGED <<pc, batch, attempt, jobs>>
    BY <2>1 DEF writerVars, faultVars, JobsKept, Shape
  <2>4. Outcome'
    BY <2>2, <2>3, OutcomeStays DEF Sound
  <2>5. Progress'
    BY <2>2, <2>3, BystanderProgress DEF Sound, Progress
  <2> QED BY <2>2, <2>4, <2>5 DEF Sound
<1> QED BY <1>1, <1>2, <1>3, <1>4, <1>5 DEF Next, Work, Roles

LEMMA SoundBegins == Init => Sound
<1> SUFFICES ASSUME Init PROVE Sound
  OBVIOUS
<1>1. SP!Init
  BY DEF Init, Store!Init, SP!Init
<1>2. SP!TypeOK
  BY <1>1, Assumed, SP!InitTypeOK
<1>3. SP!PointerIntegrity /\ SP!OpSound
  BY <1>1 DEF SP!Init, SP!PointerIntegrity, SP!OpSound
<1>4. Progress
  BY WriterAssumption DEF Init, Progress, ProgressOf, InFlush, Agents, Roles
<1>5. Outcome
  BY DEF Init, Outcome
<1> QED BY <1>2, <1>3, <1>4, <1>5 DEF Sound, TablesSound

\* The invariant the runs check follows.
LEMMA SoundSuffices == Shape /\ FlushExclusive /\ Sound => StatusFollowsOutcome
<1> SUFFICES ASSUME Shape, FlushExclusive, Sound PROVE StatusFollowsOutcome
  OBVIOUS
<1>1. Store!TypeOK /\ Store!PointerIntegrity
  BY SameTables DEF Sound, TablesSound
<1>2. attempt \in [Agents -> 0..MaxAttempts]
  BY WriterAssumption DEF Sound, Progress, ProgressOf, Shape
<1>3. TypeOK
  BY <1>1, <1>2 DEF TypeOK, Shape
<1>4. SucceededIsMaterialised /\ NoSpuriousFailure
  BY DEF Sound, Outcome, Stored, Refused, SucceededIsMaterialised, NoSpuriousFailure
<1> QED BY <1>1, <1>3, <1>4 DEF StatusFollowsOutcome

-----------------------------------------------------------------------------

\* The caller's flush() and the daemon thread of one writer never work on the same snapshot
\* of the job table: who is between the snapshot and the end of a flush holds _flush_lock.
THEOREM MutualExclusion == Spec => []FlushExclusive
<1>1. Init => Shape /\ FlushExclusive
  BY Begins
<1>2. Shape /\ FlushExclusive /\ [Next]_vars => (Shape /\ FlushExclusive)'
  BY ShapeStep, ExclusionStep
<1> QED BY <1>1, <1>2, PTL DEF Spec

\* However enqueues, explicit flushes, failing transactions and crashes interleave, a pending
\* job of an auto-flush writer has a live thread, or was pending when its process died, as long
\* as no exception has ended a thread.
THEOREM NoJobLeftBehind == Spec => []NoLostWakeupUnlessThreadRaises
<1>1. Init => Shape /\ Wakeup
  BY Begins
<1>2. Shape /\ Wakeup /\ [Next]_vars => (Shape /\ Wakeup)'
  BY ShapeStep, WakeupStep
<1>3. Wakeup => NoLostWakeupUnlessThreadRaises
  BY DEF Wakeup, NoLostWakeupUnlessThreadRaises
<1> QED BY <1>1, <1>2, <1>3, PTL DEF Spec

\* Whatever the writers, their modes, faults and crashes: a job is marked SUCCEEDED only when
\* its payload is among the versions of its key, and FAILED_PERMANENT only when the store
\* refused it or MaxAttempts transactions failed; the tables keep their types and pointers,
\* and snapshots belong to who holds the lock.
THEOREM StatusesAreEarned == Spec => []StatusFollowsOutcome
<1>1. Init => Shape /\ FlushExclusive /\ Sound
  BY Begins, SoundBegins
<1>2. Shape /\ FlushExclusive /\ Sound /\ [Next]_vars => (Shape /\ FlushExclusive /\ Sound)'
  BY ShapeStep, ExclusionStep, SoundStep
<1>3. Shape /\ FlushExclusive /\ Sound => StatusFollowsOutcome
  BY SoundSuffices
<1> QED BY <1>1, <1>2, <1>3, PTL DEF Spec

-----------------------------------------------------------------------------
(* One writer replays its jobs in order *)

\* One client at a time, and it queues what it writes: a "sync" write makes no job, and two
\* writers take snapshots of the same table.
OneWriter == (\A v, w \in Writers : v = w) /\ (\A m \in Modes, w \in Writers : m[w] # "sync")

\* created_at puts the jobs in the order their data was fetched, and the request that waits
\* for the lock after them.
JobsInOrder ==
  /\ \A i, j \in DOMAIN jobs : i <= j => jobs[i].write.fetched <= jobs[j].write.fetched
  /\ \A j \in DOMAIN jobs : jobs[j].write.fetched <= now
  /\ \A w \in Writers : pc[Caller(w)] = "enqueue" =>
       /\ request[w].fetched <= now
       /\ \A j \in DOMAIN jobs : jobs[j].write.fetched <= request[w].fetched

\* What is left of a snapshot is still pending and precedes every other pending job.
BatchComesFirst ==
  \A a \in Agents : InFlush(a) =>
    /\ batch[a] \subseteq PendingJobs
    /\ \A i \in batch[a] : \A j \in PendingJobs \ batch[a] : i < j
    /\ pc[a] # "attempt" => batch[a] # {}

\* Nothing happens between the read and the commit of an upsert.
UpsertIsCurrent ==
  /\ \A w \in Writers : pc[Caller(w)] # "sync"
  /\ \A a \in Agents : op[a] # NoOp =>
       /\ pc[a] = "commit"
       /\ op[a].row = current[op[a].write.key]
       /\ current[op[a].write.key] # NoEntry => op[a].valid

\* Every pointer names a usable version of its own key.
PointersAreSound ==
  \A k \in Keys : current[k] # NoEntry =>
    /\ current[k].version \in DOMAIN versions
    /\ versions[current[k].version].key = k
    /\ versions[current[k].version].checksum = current[k].checksum
    /\ versions[current[k].version].intact

\* What a key serves was fetched for a job, and before what is pending.
ServedWasQueued ==
  \A k \in Keys : current[k] # NoEntry =>
    \E j \in DOMAIN jobs : jobs[j].write.fetched = current[k].fetched
ServedIsEarlier ==
  \A j \in PendingJobs : current[jobs[j].write.key] # NoEntry =>
    current[jobs[j].write.key].fetched <= jobs[j].write.fetched

\* A job has been used when it is settled, or when it is next and what it brings is served
\* already: the flush that upserted it ended before its mark.
FirstPending(j) == j \in PendingJobs /\ \A i \in PendingJobs : j <= i
Used(k) ==
  {j \in DOMAIN jobs :
     /\ jobs[j].write.key = k
     /\ \/ jobs[j].status # "PENDING"
        \/ /\ FirstPending(j)
           /\ current[k] # NoEntry
           /\ current[k].checksum = jobs[j].write.payload}
VersionsOf(k) == {v \in DOMAIN versions : versions[v].key = k}
OneVersionPerJob == \A k \in Keys : Cardinality(VersionsOf(k)) <= Cardinality(Used(k))

Replay ==
  /\ JobsInOrder /\ BatchComesFirst /\ UpsertIsCurrent /\ PointersAreSound
  /\ ServedWasQueued /\ ServedIsEarlier /\ OneVersionPerJob

\* What SettledIsFinal and FetchedNeverRegresses say of a step.
KeepsSettled ==
  \A j \in DOMAIN jobs : jobs[j].status # "PENDING" => jobs'[j].status = jobs[j].status
KeepsServing ==
  \A k \in Keys : current[k] # NoEntry =>
    current'[k] # NoEntry /\ current'[k].fetched >= current[k].fetched

\* The lock admits one agent of the one writer.
LEMMA OneAtATime ==
  ASSUME OneWriter, FlushExclusive, NEW a \in Agents, NEW b \in Agents, InFlush(a), InFlush(b)
  PROVE  a = b
BY DEF OneWriter, FlushExclusive, Agents, Roles

LEMMA NobodySyncs == ASSUME OneWriter, Shape PROVE \A w \in Writers : mode[w] # "sync"
BY DEF OneWriter, Shape

\* The job a flush is at is the first of all that are pending.
LEMMA NextIsFirst ==
  ASSUME Shape, BatchComesFirst, NEW a \in Agents, InFlush(a), batch[a] # {}
  PROVE  NextJob(a) \in batch[a] /\ FirstPending(NextJob(a))
<1>1. batch[a] \subseteq DOMAIN jobs /\ DOMAIN jobs \subseteq Nat
  BY DEF Shape
<1>2. \E j \in batch[a] : \A i \in batch[a] : j <= i
  BY <1>1, LeastElement
<1>3. NextJob(a) \in batch[a] /\ \A i \in batch[a] : NextJob(a) <= i
  BY <1>2 DEF NextJob
<1>4. PendingJobs \subseteq Nat
  BY <1>1 DEF PendingJobs
<1> HIDE DEF NextJob
<1> QED BY <1>1, <1>3, <1>4 DEF BatchComesFirst, FirstPending

\* The sets that are counted are finite.
LEMMA Counted ==
  ASSUME Shape, TablesSound, NEW k
  PROVE  /\ IsFiniteSet(VersionsOf(k)) /\ Cardinality(VersionsOf(k)) \in Nat
         /\ \A S \in SUBSET DOMAIN jobs : IsFiniteSet(S) /\ Cardinality(S) \in Nat
<1>1. DOMAIN jobs = 1..Len(jobs) /\ Len(jobs) \in Nat
  BY DEF Shape
<1>2. DOMAIN versions = 1..Len(versions) /\ Len(versions) \in Nat
  BY DEF TablesSound, SP!TypeOK
<1>3. IsFiniteSet(DOMAIN jobs) /\ IsFiniteSet(DOMAIN versions)
  BY <1>1, <1>2, FS_Interval
<1>4. \A S \in SUBSET DOMAIN jobs : IsFiniteSet(S) /\ Cardinality(S) \in Nat
  BY <1>3, FS_Subset, FS_CardinalityType
<1>5. VersionsOf(k) \in SUBSET DOMAIN versions
  BY DEF VersionsOf
<1> QED BY <1>3, <1>4, <1>5, FS_Subset, FS_CardinalityType

\* Fetch times are naturals.
LEMMA JobTimes ==
  ASSUME Shape
  PROVE  /\ now \in Nat
         /\ \A j \in DOMAIN jobs : jobs[j].write \in Store!Write
         /\ \A j \in DOMAIN jobs : jobs[j].write.fetched \in Nat
<1>1. \A j \in DOMAIN jobs : jobs[j] \in Job
  BY DEF Shape
<1>2. \A j \in DOMAIN jobs : jobs[j].write \in Store!Write
  BY <1>1 DEF Job
<1>3. \A wr \in Store!Write : wr.fetched \in Nat
  BY DEF Store!Write
<1> QED BY <1>2, <1>3 DEF Shape

-----------------------------------------------------------------------------

\* A step that changes neither tables nor jobs: the clock goes on, an agent begins or ends.
LEMMA QuietStep ==
  ASSUME Shape, Replay, UNCHANGED <<versions, current, jobs>>, now' \in Nat, now <= now',
         \A w \in Writers :
           /\ pc'[Caller(w)] # "sync"
           /\ pc'[Caller(w)] = "enqueue" =>
                \/ pc[Caller(w)] = "enqueue" /\ request'[w] = request[w]
                \/ request'[w].fetched = now,
         \A w \in Writers : pc'[Caller(w)] = "enqueue" => request'[w].fetched \in Nat,
         \A b \in Agents : InFlush(b)' =>
           \/ InFlush(b) /\ batch'[b] = batch[b] /\ (pc'[b] # "attempt" => batch[b] # {})
           \/ pc'[b] = "attempt" /\ batch'[b] = PendingJobs,
         \A b \in Agents : op'[b] # NoOp =>
           /\ pc'[b] = "commit"
           /\ op'[b].row = current[op'[b].write.key]
           /\ current[op'[b].write.key] # NoEntry => op'[b].valid
  PROVE  Replay' /\ KeepsSettled
<1>1. now \in Nat /\ \A j \in DOMAIN jobs : jobs[j].write.fetched \in Nat
  BY JobTimes
<1>2. PendingJobs' = PendingJobs
  BY DEF PendingJobs
<1>3. JobsInOrder'
  BY <1>1 DEF Replay, JobsInOrder
<1>4. BatchComesFirst'
  BY <1>2 DEF Replay, BatchComesFirst
<1>5. UpsertIsCurrent'
  BY DEF UpsertIsCurrent
<1>6. PointersAreSound' /\ ServedWasQueued'
  BY DEF Replay, PointersAreSound, ServedWasQueued
<1>7. ServedIsEarlier'
  BY <1>2 DEF Replay, ServedIsEarlier
<1>8. OneVersionPerJob'
  BY <1>2 DEF Replay, OneVersionPerJob, VersionsOf, Used, FirstPending
<1> QED BY <1>3, <1>4, <1>5, <1>6, <1>7, <1>8 DEF Replay, KeepsSettled

\* Served fetch times are naturals, so what stays serves no earlier fetch.
LEMMA SameServing ==
  ASSUME TablesSound, UNCHANGED current
  PROVE  KeepsServing
<1> SUFFICES ASSUME NEW k \in Keys, current[k] # NoEntry PROVE current[k].fetched \in Nat
  BY DEF KeepsServing
<1>1. current[k] \in SP!Pointer
  BY DEF TablesSound, SP!TypeOK
<1> QED BY <1>1 DEF SP!Pointer

\* What a caller does without the table of jobs.
LEMMA CallerKeepsReplay ==
  ASSUME OneWriter, Shape, Sound, Replay, NEW w \in Writers,
         \/ \E wr \in FetchedWrites : WriteSync(w, wr) \/ WriteAuto(w, wr)
         \/ CallFlush(w) \/ ReturnSync(w) \/ ReturnFromFlush(w) \/ EnqueueRaises(w)
  PROVE  Replay' /\ KeepsSettled /\ KeepsServing
<1> DEFINE a == Caller(w)
<1>0. a \in Agents /\ a = <<w, "caller">> /\ \A v \in Writers : Caller(v) \in Agents
  BY DEF Agents, Roles, Caller
<1>a. \A label : Goto(a, label) => pc'[a] = label /\ \A b \in Agents \ {a} : pc'[b] = pc[b]
  BY <1>0 DEF Goto, Shape
<1>b. /\ \A v \in Writers : pc[Caller(v)] # "sync" /\ mode[v] # "sync"
      /\ \A b \in Agents : op[b] # NoOp =>
           /\ pc[b] = "commit"
           /\ op[b].row = current[op[b].write.key]
           /\ current[op[b].write.key] # NoEntry => op[b].valid
      /\ \A b \in Agents : InFlush(b) /\ pc[b] # "attempt" => batch[b] # {}
  BY NobodySyncs DEF Replay, UpsertIsCurrent, BatchComesFirst
<1>c. now \in Nat /\ \A v \in Writers : request[v] \in Store!Write => request[v].fetched \in Nat
  BY DEF Shape, Store!Write
<1>d. \A v \in Writers : pc[Caller(v)] = "enqueue" => request[v] \in Store!Write
  BY DEF Shape
<1>1. CASE \E wr \in FetchedWrites : WriteSync(w, wr)
  BY <1>1, <1>b DEF WriteSync
<1>2. CASE ReturnSync(w)
  BY <1>2, <1>b DEF ReturnSync
<1> HIDE DEF a
<1>3. ASSUME NEW wr \in FetchedWrites, WriteAuto(w, wr) PROVE Replay' /\ KeepsSettled /\ KeepsServing
  <2>1. /\ UNCHANGED storeVars /\ UNCHANGED <<jobs, batch>> /\ pc[a] = "idle" /\ Goto(a, "enqueue")
        /\ request' = [request EXCEPT ![w] = wr]
    BY <1>3 DEF WriteAuto, a
  <2>2. wr.fetched = now
    BY DEF FetchedWrites
  <2>3. request'[w] = wr /\ \A v \in Writers \ {w} : request'[v] = request[v]
    BY <2>1 DEF Shape
  <2>4. \A v \in Writers \ {w} : pc'[Caller(v)] = pc[Caller(v)]
    BY <1>0, <1>a, <2>1 DEF Caller
  <2>5. \A v \in Writers :
          /\ pc'[Caller(v)] # "sync"
          /\ pc'[Caller(v)] = "enqueue" =>
               /\ request'[v].fetched \in Nat
               /\ \/ pc[Caller(v)] = "enqueue" /\ request'[v] = request[v]
                  \/ request'[v].fetched = now
    BY <1>a, <1>b, <1>c, <1>d, <2>1, <2>2, <2>3, <2>4 DEF a
  <2>6. \A b \in Agents : InFlush(b)' => InFlush(b) /\ batch'[b] = batch[b] /\ pc'[b] = pc[b]
    BY <1>a, <2>1 DEF InFlush
  <2>7. UNCHANGED <<versions, current, now, op>>
    BY <2>1 DEF storeVars
  <2>8. \A b \in Agents : op'[b] # NoOp => pc'[b] = pc[b]
    BY <1>a, <1>b, <2>1, <2>7
  <2> QED BY <1>b, <1>c, <2>1, <2>5, <2>6, <2>7, <2>8, QuietStep, SameServing DEF Sound
<1>4. CASE CallFlush(w) \/ ReturnFromFlush(w) \/ EnqueueRaises(w)
  <2>1. /\ UNCHANGED storeVars /\ UNCHANGED <<jobs, batch>>
        /\ pc[a] # "commit" /\ (Goto(a, "idle") \/ Goto(a, "flush"))
        /\ request' \in {request, [request EXCEPT ![w] = NoOp]}
    BY <1>4 DEF CallFlush, ReturnFromFlush, EnqueueRaises, a
  <2>2. \A v \in Writers \ {w} : request'[v] = request[v]
    BY <2>1 DEF Shape
  <2>3. \A v \in Writers \ {w} : pc'[Caller(v)] = pc[Caller(v)]
    BY <1>0, <1>a, <2>1 DEF Caller
  <2>4. pc'[Caller(w)] \in {"idle", "flush"}
    BY <1>a, <2>1 DEF a
  <2>5. \A v \in Writers :
          /\ pc'[Caller(v)] # "sync"
          /\ pc'[Caller(v)] = "enqueue" =>
               /\ request'[v].fetched \in Nat
               /\ pc[Caller(v)] = "enqueue" /\ request'[v] = request[v]
    BY <1>b, <1>c, <1>d, <2>2, <2>3, <2>4
  <2>6. \A b \in Agents : InFlush(b)' => InFlush(b) /\ batch'[b] = batch[b] /\ pc'[b] = pc[b]
    BY <1>a, <2>1 DEF InFlush
  <2>7. UNCHANGED <<versions, current, now, op>>
    BY <2>1 DEF storeVars
  <2>8. \A b \in Agents : op'[b] # NoOp => pc'[b] = pc[b]
    BY <1>a, <1>b, <2>1, <2>7
  <2> QED BY <1>b, <1>c, <2>1, <2>5, <2>6, <2>7, <2>8, QuietStep, SameServing DEF Sound
<1> QED BY <1>1, <1>2, <1>3, <1>4

\* The start of a flush, of an attempt, and an attempt that fails.
LEMMA AttemptKeepsReplay ==
  ASSUME OneWriter, Shape, FlushExclusive, Sound, Replay, NEW w \in Writers, NEW r \in Roles,
         StartFlush(w, r) \/ BeginAttempt(w, r) \/ FailAttempt(w, r)
  PROVE  Replay' /\ KeepsSettled /\ KeepsServing
<1> DEFINE a == <<w, r>>
<1>0. a \in Agents /\ \A v \in Writers : Caller(v) \in Agents
  BY DEF Agents, Roles, Caller
<1>a. \A label : Goto(a, label) => pc'[a] = label /\ \A b \in Agents \ {a} : pc'[b] = pc[b]
  BY <1>0 DEF Goto, Shape
<1>b. /\ \A v \in Writers : pc[Caller(v)] # "sync"
      /\ \A b \in Agents : op[b] # NoOp =>
           /\ pc[b] = "commit"
           /\ op[b].row = current[op[b].write.key]
           /\ current[op[b].write.key] # NoEntry => op[b].valid
      /\ \A b \in Agents : InFlush(b) /\ pc[b] # "attempt" => batch[b] # {}
  BY DEF Replay, UpsertIsCurrent, BatchComesFirst
<1>c. now \in Nat /\ \A v \in Writers : pc[Caller(v)] = "enqueue" => request[v].fetched \in Nat
  BY DEF Shape, Store!Write
<1>d. TablesSound /\ op \in [Agents -> SP!Upsert \cup {NoOp}]
  BY DEF Sound, TablesSound, SP!TypeOK
<1> HIDE DEF a
<1>1. CASE StartFlush(w, r)
  <2>1. /\ UNCHANGED storeVars /\ UNCHANGED <<jobs, request>>
        /\ pc[a] = "flush" /\ Goto(a, "attempt") /\ batch' = [batch EXCEPT ![a] = PendingJobs]
    BY <1>1 DEF StartFlush, a
  <2>2. batch'[a] = PendingJobs /\ \A b \in Agents \ {a} : batch'[b] = batch[b]
    BY <1>0, <2>1 DEF Shape
  <2>3. UNCHANGED <<versions, current, now, op>>
    BY <2>1 DEF storeVars
  <2>4. \A b \in Agents : op'[b] # NoOp => pc'[b] = pc[b]
    BY <1>a, <1>b, <2>1, <2>3
  <2>5. \A v \in Writers : pc'[Caller(v)] \in {pc[Caller(v)], "attempt"}
    BY <1>0, <1>a, <2>1
  <2>6. \A b \in Agents : InFlush(b)' =>
          \/ InFlush(b) /\ batch'[b] = batch[b] /\ pc'[b] = pc[b]
          \/ pc'[b] = "attempt" /\ batch'[b] = PendingJobs
    BY <1>a, <2>1, <2>2 DEF InFlush
  <2> QED BY <1>b, <1>c, <1>d, <2>1, <2>3, <2>4, <2>5, <2>6, QuietStep, SameServing
<1>2. CASE FailAttempt(w, r)
  <2>1. /\ UNCHANGED <<versions, current, now, jobs, batch, request>>
        /\ pc[a] = "commit" /\ (Goto(a, "attempt") \/ Goto(a, "markFailed"))
        /\ op' = [op EXCEPT ![a] = NoOp]
    BY <1>2 DEF FailAttempt, Store!AbortUpsert, a
  <2>2. op'[a] = NoOp /\ \A b \in Agents \ {a} : op'[b] = op[b]
    BY <1>0, <1>d, <2>1
  <2>3. batch[a] # {} /\ InFlush(a)
    BY <1>0, <1>b, <2>1 DEF InFlush
  <2>4. \A b \in Agents : op'[b] # NoOp => op'[b] = op[b] /\ pc'[b] = pc[b]
    BY <1>a, <2>1, <2>2
  <2>5. \A v \in Writers : pc'[Caller(v)] \in {pc[Caller(v)], "attempt", "markFailed"}
    BY <1>0, <1>a, <2>1
  <2>6. \A b \in Agents : InFlush(b)' =>
          InFlush(b) /\ batch'[b] = batch[b] /\ (pc'[b] # "attempt" => batch[b] # {})
    BY <1>a, <1>b, <2>1, <2>3 DEF InFlush
  <2> QED BY <1>b, <1>c, <1>d, <2>1, <2>4, <2>5, <2>6, QuietStep, SameServing
<1>3. CASE BeginAttempt(w, r)
  <2> DEFINE wr == jobs[NextJob(a)].write
             read == [write |-> wr, allow |-> Correction[w], row |-> current[wr.key],
                      valid |-> Store!CurrentVersionIsValid(wr.key)]
  <2>1. /\ UNCHANGED <<versions, current, now, jobs, batch, request>>
        /\ pc[a] = "attempt" /\ batch[a] # {} /\ Goto(a, "commit")
        /\ op' = [op EXCEPT ![a] = read]
    BY <1>3 DEF BeginAttempt, Store!BeginUpsert, a
  <2>2. op'[a] = read /\ \A b \in Agents \ {a} : op'[b] = op[b]
    BY <1>0, <1>d, <2>1
  <2>3. wr \in Store!Write
    BY <1>0, <2>1, NextJobIsAJob, JobTimes
  <2>4. wr.key \in Keys
    BY <2>3, TablesAssumption DEF Store!Write, Store!StoreAssumption
  <2>5. current[wr.key] # NoEntry => Store!CurrentVersionIsValid(wr.key)
    BY <2>4 DEF Replay, PointersAreSound, Store!CurrentVersionIsValid
  <2> HIDE DEF wr
  <2>6. /\ op'[a].row = current[op'[a].write.key]
        /\ current[op'[a].write.key] # NoEntry => op'[a].valid
    BY <2>2, <2>5
  <2>7. \A b \in Agents : op'[b] # NoOp =>
          /\ pc'[b] = "commit"
          /\ op'[b].row = current[op'[b].write.key]
          /\ current[op'[b].write.key] # NoEntry => op'[b].valid
    BY <1>a, <1>b, <2>1, <2>2, <2>6
  <2>8. \A v \in Writers : pc'[Caller(v)] \in {pc[Caller(v)], "commit"}
    BY <1>0, <1>a, <2>1
  <2>9. \A b \in Agents : InFlush(b)' =>
          InFlush(b) /\ batch'[b] = batch[b] /\ (pc'[b] # "attempt" => batch[b] # {})
    BY <1>a, <1>b, <2>1 DEF InFlush
  <2> QED BY <1>b, <1>c, <1>d, <2>1, <2>7, <2>8, <2>9, QuietStep, SameServing
<1> QED BY <1>1, <1>2, <1>3

\* The ways a flush ends without a mark: what it was at stays pending.
LEMMA EndsKeepReplay ==
  ASSUME Shape, Sound, Replay, NEW w \in Writers, NEW r \in Roles,
         DrainUntilIdle(w) \/ ThreadEnds(w) \/ FlushRaises(w, r) \/ Crash(w)
  PROVE  Replay' /\ KeepsSettled /\ KeepsServing
<1>0. /\ <<w, r>> \in Agents /\ Drain(w) \in Agents /\ Caller(w) \in Agents
      /\ \A v \in Writers : Caller(v) \in Agents /\ (v # w => Caller(v) \notin {Caller(w), Drain(w)})
  BY DEF Agents, Roles, Caller, Drain
<1>b. /\ \A v \in Writers : pc[Caller(v)] # "sync"
      /\ \A b \in Agents : op[b] # NoOp =>
           /\ pc[b] = "commit"
           /\ op[b].row = current[op[b].write.key]
           /\ current[op[b].write.key] # NoEntry => op[b].valid
      /\ \A b \in Agents : InFlush(b) /\ pc[b] # "attempt" => batch[b] # {}
  BY DEF Replay, UpsertIsCurrent, BatchComesFirst
<1>c. now \in Nat /\ \A v \in Writers : pc[Caller(v)] = "enqueue" => request[v].fetched \in Nat
  BY DEF Shape, Store!Write
<1>d. TablesSound
  BY DEF Sound
<1>1. ASSUME NEW a \in Agents, UNCHANGED <<versions, current, now, op, jobs, request>>,
             pc[a] # "commit", pc'[a] \in {"idle", "none", "flush", "unwinding", "dead"},
             \A b \in Agents \ {a} : pc'[b] = pc[b] /\ batch'[b] = batch[b]
      PROVE  Replay' /\ KeepsSettled /\ KeepsServing
  <2>1. \A b \in Agents : op'[b] # NoOp => pc'[b] = pc[b]
    BY <1>1, <1>b
  <2>2. \A v \in Writers : pc'[Caller(v)] = pc[Caller(v)]
                           \/ pc'[Caller(v)] \in {"idle", "none", "flush", "unwinding", "dead"}
    BY <1>0, <1>1
  <2>3. \A b \in Agents : InFlush(b)' => InFlush(b) /\ batch'[b] = batch[b] /\ pc'[b] = pc[b]
    BY <1>1 DEF InFlush
  <2> QED BY <1>1, <1>b, <1>c, <1>d, <2>1, <2>2, <2>3, QuietStep, SameServing
<1>2. CASE DrainUntilIdle(w)
  <2> DEFINE a == Drain(w)
  <2>1. /\ UNCHANGED storeVars /\ UNCHANGED <<jobs, request, batch>>
        /\ pc[a] = "attempt" /\ (Goto(a, "none") \/ Goto(a, "flush"))
    BY <1>2 DEF DrainUntilIdle
  <2> QED BY <1>0, <1>1, <2>1 DEF storeVars, Goto, Shape
<1>3. CASE ThreadEnds(w)
  <2> DEFINE a == Drain(w)
  <2>1. /\ UNCHANGED storeVars /\ UNCHANGED <<jobs, request, batch>>
        /\ pc[a] = "unwinding" /\ Goto(a, "dead")
    BY <1>3 DEF ThreadEnds
  <2> QED BY <1>0, <1>1, <2>1 DEF storeVars, Goto, Shape
<1>4. CASE FlushRaises(w, r)
  <2> DEFINE a == <<w, r>>
  <2>1. /\ UNCHANGED storeVars /\ UNCHANGED <<jobs, request>> /\ batch' = [batch EXCEPT ![a] = {}]
        /\ pc[a] # "commit" /\ (Goto(a, "unwinding") \/ Goto(a, "idle"))
    BY <1>4 DEF FlushRaises
  <2> QED BY <1>0, <1>1, <2>1 DEF storeVars, Goto, Shape
<1>5. CASE Crash(w)
  <2> DEFINE mine == {Caller(w), Drain(w)}
  <2>1. /\ UNCHANGED <<versions, current, now, jobs>>
        /\ op' = [a \in Agents |-> IF a \in mine THEN NoOp ELSE op[a]]
        /\ batch' = [a \in Agents |-> IF a \in mine THEN {} ELSE batch[a]]
        /\ request' = [request EXCEPT ![w] = NoOp]
    BY <1>5 DEF Crash
  <2>2. /\ \A a \in mine : pc'[a] \in {"idle", "none"}
        /\ \A a \in Agents \ mine : pc'[a] = pc[a]
    BY <1>0, <1>5 DEF Crash, Shape
  <2>3. \A b \in Agents : op'[b] # NoOp => op'[b] = op[b] /\ pc'[b] = pc[b]
    BY <2>1, <2>2
  <2>4. \A v \in Writers \ {w} : pc'[Caller(v)] = pc[Caller(v)] /\ request'[v] = request[v]
    BY <1>0, <2>1, <2>2 DEF Shape
  <2>5. pc'[Caller(w)] \in {"idle", "none"}
    BY <2>2
  <2>6. \A b \in Agents : InFlush(b)' => InFlush(b) /\ batch'[b] = batch[b] /\ pc'[b] = pc[b]
    BY <2>1, <2>2 DEF InFlush
  <2> HIDE DEF mine
  <2> QED BY <1>b, <1>c, <1>d, <2>1, <2>3, <2>4, <2>5, <2>6, QuietStep, SameServing
<1> QED BY <1>2, <1>3, <1>4, <1>5

LEMMA TickKeepsReplay ==
  ASSUME Shape, Sound, Replay, Tick \/ UNCHANGED vars
  PROVE  Replay' /\ KeepsSettled /\ KeepsServing
<1>1. /\ UNCHANGED <<versions, current, op, jobs, pc, batch, request>>
      /\ now' \in {now, now + 1}
  BY DEF Tick, Store!Tick, vars, storeVars, writerVars
<1>2. /\ \A v \in Writers : pc[Caller(v)] # "sync"
      /\ \A b \in Agents : op[b] # NoOp =>
           /\ pc[b] = "commit"
           /\ op[b].row = current[op[b].write.key]
           /\ current[op[b].write.key] # NoEntry => op[b].valid
      /\ \A b \in Agents : InFlush(b) /\ pc[b] # "attempt" => batch[b] # {}
  BY DEF Replay, UpsertIsCurrent, BatchComesFirst
<1>3. now \in Nat /\ \A v \in Writers : pc[Caller(v)] = "enqueue" => request[v].fetched \in Nat
  BY DEF Shape, Store!Write
<1>4. TablesSound /\ \A b \in Agents : InFlush(b)' <=> InFlush(b)
  BY <1>1 DEF Sound, InFlush
<1> QED BY <1>1, <1>2, <1>3, <1>4, QuietStep, SameServing

\* A new job is fetched no earlier than any other, and is not served yet.
LEMMA EnqueueKeepsReplay ==
  ASSUME OneWriter, Shape, Sound, Replay, NEW w \in Writers,
         (\E wr \in FetchedWrites : WriteAsync(w, wr)) \/ EnqueueLocked(w)
  PROVE  Replay' /\ KeepsSettled /\ KeepsServing
<1>t. now \in Nat /\ \A j \in DOMAIN jobs : jobs[j].write.fetched \in Nat
  BY JobTimes
<1>1. PICK wr \in Store!Write :
        /\ jobs' = Append(jobs, NewJob(w, wr))
        /\ wr.fetched <= now
        /\ \A j \in DOMAIN jobs : jobs[j].write.fetched <= wr.fetched
  <2>1. CASE EnqueueLocked(w)
    BY <2>1 DEF EnqueueLocked, Shape, Replay, JobsInOrder
  <2>2. ASSUME NEW wr \in FetchedWrites, WriteAsync(w, wr)
        PROVE  wr \in Store!Write /\ wr.fetched = now /\ jobs' = Append(jobs, NewJob(w, wr))
    BY <2>2, FetchedShape DEF WriteAsync, FetchedWrites
  <2> QED BY <1>t, <2>1, <2>2 DEF Replay, JobsInOrder
<1> DEFINE new == Len(jobs) + 1
<1>2. /\ DOMAIN jobs' = DOMAIN jobs \cup {new}
      /\ jobs'[new] = NewJob(w, wr)
      /\ \A j \in DOMAIN jobs : jobs'[j] = jobs[j]
  BY <1>1, NewJobShape
<1>3. jobs'[new].write = wr /\ jobs'[new].status = "PENDING" /\ wr.fetched \in Nat
  BY <1>2 DEF NewJob, Store!Write
<1>4. DOMAIN jobs \subseteq Nat /\ new \in Nat /\ new \notin DOMAIN jobs
      /\ \A j \in DOMAIN jobs : j < new
  BY DEF Shape
<1> HIDE DEF new
<1>5. UNCHANGED <<versions, current, now, op, batch>>
  BY DEF WriteAsync, EnqueueLocked, storeVars
<1>6. PendingJobs' = PendingJobs \cup {new} /\ PendingJobs \subseteq DOMAIN jobs
  BY <1>2, <1>3 DEF PendingJobs
<1>7. /\ \A b \in Agents : (InFlush(b)' \/ pc'[b] = "commit" \/ op[b] # NoOp) => pc'[b] = pc[b]
      /\ \A b \in Agents : InFlush(b)' => InFlush(b)
      /\ \A v \in Writers : pc'[Caller(v)] \notin {"sync", "enqueue"}
  <2>0. \A v \in Writers : v = w
    BY DEF OneWriter
  <2>a. \A b \in Agents : op[b] # NoOp => pc[b] = "commit"
    BY DEF Replay, UpsertIsCurrent
  <2>1. CASE EnqueueLocked(w)
    <3>1. pc \in [Agents -> CallerPoints \cup DrainPoints] /\ Caller(w) \in Agents
          /\ Drain(w) \in Agents /\ Drain(w) # Caller(w)
      BY DEF Shape, Agents, Roles, Caller, Drain
    <3>2. pc[Caller(w)] = "enqueue" /\ pc'[Caller(w)] = "idle"
      BY <2>1, <3>1 DEF EnqueueLocked
    <3>3. pc'[Drain(w)] = IF DrainIsAlive(w) THEN pc[Drain(w)] ELSE "flush"
      BY <2>1, <3>1 DEF EnqueueLocked
    <3>4. \A b \in Agents \ {Caller(w), Drain(w)} : pc'[b] = pc[b]
      BY <2>1, <3>1 DEF EnqueueLocked
    <3>5. \A b \in Agents : pc'[b] = pc[b]
                            \/ (pc[b] # "commit" /\ pc'[b] \in {"idle", "flush"})
      <4>1. pc'[Drain(w)] = pc[Drain(w)] \/ (pc[Drain(w)] # "commit" /\ pc'[Drain(w)] = "flush")
        BY <3>3 DEF DrainIsAlive
      <4> QED BY <3>2, <3>4, <4>1
    <3> QED BY <2>0, <2>a, <3>2, <3>5 DEF InFlush
  <2>2. CASE \E x \in FetchedWrites : WriteAsync(w, x)
    <3>1. UNCHANGED pc /\ pc[Caller(w)] = "idle"
      BY <2>2 DEF WriteAsync
    <3> QED BY <2>0, <3>1 DEF InFlush
  <2> QED BY <2>1, <2>2
<1>8. JobsInOrder'
  <2>1. \A i \in DOMAIN jobs' : jobs'[i].write.fetched \in Nat /\ jobs'[i].write.fetched <= wr.fetched
    BY <1>t, <1>1, <1>2, <1>3
  <2>2. ASSUME NEW i \in DOMAIN jobs', NEW j \in DOMAIN jobs', i <= j
        PROVE  jobs'[i].write.fetched <= jobs'[j].write.fetched
    <3>1. CASE j = new
      BY <1>3, <2>1, <3>1
    <3>2. CASE j # new
      <4>1. j \in DOMAIN jobs /\ i \in DOMAIN jobs
        BY <1>2, <1>4, <2>2, <3>2
      <4> QED BY <1>2, <2>2, <4>1 DEF Replay, JobsInOrder
    <3> QED BY <3>1, <3>2
  <2>3. \A i \in DOMAIN jobs' : jobs'[i].write.fetched <= now'
    BY <1>t, <1>1, <1>3, <1>5, <2>1
  <2> QED BY <1>7, <2>2, <2>3 DEF JobsInOrder
<1>9. BatchComesFirst'
  <2> SUFFICES ASSUME NEW b \in Agents, InFlush(b)'
               PROVE  /\ batch[b] \subseteq PendingJobs'
                      /\ \A i \in batch[b] : \A j \in PendingJobs' \ batch[b] : i < j
                      /\ pc'[b] # "attempt" => batch[b] # {}
    BY <1>5 DEF BatchComesFirst
  <2>1. InFlush(b) /\ pc'[b] = pc[b]
    BY <1>7
  <2>2. /\ batch[b] \subseteq PendingJobs
        /\ \A i \in batch[b] : \A j \in PendingJobs \ batch[b] : i < j
        /\ pc[b] # "attempt" => batch[b] # {}
    BY <2>1 DEF Replay, BatchComesFirst
  <2> QED BY <1>4, <1>6, <2>1, <2>2
<1>10. UpsertIsCurrent'
  BY <1>5, <1>7 DEF Replay, UpsertIsCurrent
<1>11. PointersAreSound'
  BY <1>5 DEF Replay, PointersAreSound
<1>12. ServedWasQueued'
  BY <1>2, <1>5 DEF Replay, ServedWasQueued
<1>13. ServedIsEarlier'
  <2>1. wr.key \in Keys
    BY TablesAssumption DEF Store!Write, Store!StoreAssumption
  <2>2. current[wr.key] # NoEntry => current[wr.key].fetched <= wr.fetched
    BY <1>1, <2>1 DEF Replay, ServedWasQueued
  <2>3. ASSUME NEW j \in PendingJobs', current'[jobs'[j].write.key] # NoEntry
        PROVE  current'[jobs'[j].write.key].fetched <= jobs'[j].write.fetched
    <3>1. CASE j = new
      BY <1>3, <1>5, <2>2, <2>3, <3>1
    <3>2. CASE j # new
      <4>1. j \in PendingJobs /\ jobs'[j] = jobs[j]
        BY <1>2, <1>6, <3>2
      <4> QED BY <1>5, <2>3, <4>1 DEF Replay, ServedIsEarlier
    <3> QED BY <3>1, <3>2
  <2> QED BY <2>3 DEF ServedIsEarlier
<1>14. OneVersionPerJob'
  <2> SUFFICES ASSUME NEW k \in Keys
               PROVE  Cardinality(VersionsOf(k)') <= Cardinality(Used(k)')
    BY DEF OneVersionPerJob
  <2>1. VersionsOf(k)' = VersionsOf(k)
    BY <1>5 DEF VersionsOf
  <2>2. \A j \in PendingJobs : FirstPending(j) => FirstPending(j)'
    BY <1>4, <1>6 DEF FirstPending
  <2>3. Used(k) \subseteq Used(k)'
    BY <1>2, <1>5, <2>2 DEF Used, FirstPending
  <2>4. Used(k)' \in SUBSET DOMAIN jobs'
    BY DEF Used
  <2>5. IsFiniteSet(Used(k)') /\ Cardinality(Used(k)') \in Nat
    <3>1. Len(jobs') \in Nat /\ DOMAIN jobs' = 1..Len(jobs')
      BY <1>1, NewJobShape
    <3>2. IsFiniteSet(1..Len(jobs'))
      BY <3>1, FS_Interval
    <3>3. IsFiniteSet(Used(k)')
      BY <2>4, <3>1, <3>2, FS_Subset
    <3> QED BY <3>3, FS_CardinalityType
  <2>6. Cardinality(Used(k)) <= Cardinality(Used(k)')
    BY <2>3, <2>5, FS_Subset
  <2>7. Cardinality(VersionsOf(k)) <= Cardinality(Used(k))
    BY DEF Replay, OneVersionPerJob
  <2>8. Cardinality(VersionsOf(k)) \in Nat /\ Cardinality(Used(k)) \in Nat
    BY Counted DEF Sound, Used
  <2> QED BY <2>1, <2>5, <2>6, <2>7, <2>8
<1>15. KeepsSettled /\ KeepsServing
  BY <1>2, <1>5, SameServing DEF KeepsSettled, Sound
<1> QED BY <1>8, <1>9, <1>10, <1>11, <1>12, <1>13, <1>14, <1>15 DEF Replay

\* A mark settles the first pending job, and what was used stays used.
LEMMA MarksKeepReplay ==
  ASSUME OneWriter, Shape, FlushExclusive, Sound, Replay, NEW w \in Writers, NEW r \in Roles,
         MarkSucceeded(w, r) \/ MarkFailed(w, r)
  PROVE  Replay' /\ KeepsSettled /\ KeepsServing
<1> DEFINE a == <<w, r>>
           n == NextJob(a)
<1>0. a \in Agents
  BY DEF Agents
<1>1. /\ UNCHANGED <<versions, current, now, op, request>> /\ Goto(a, "attempt")
      /\ batch' = [batch EXCEPT ![a] = batch[a] \ {n}]
      /\ pc[a] \in {"markSucceeded", "markFailed"}
  BY DEF MarkSucceeded, MarkFailed, NextInBatch, storeVars
<1>2. InFlush(a) /\ batch[a] # {}
  BY <1>0, <1>1 DEF InFlush, Replay, BatchComesFirst
<1>3. n \in batch[a] /\ FirstPending(n)
  BY <1>0, <1>2, NextIsFirst DEF Replay
<1>4. /\ DOMAIN jobs' = DOMAIN jobs
      /\ \A j \in DOMAIN jobs : jobs'[j].write = jobs[j].write
      /\ \A j \in DOMAIN jobs : jobs'[j].status = "PENDING" => jobs[j].status = "PENDING"
  BY MarksSettle
<1>5. \A j \in DOMAIN jobs : j # n => jobs'[j] = jobs[j]
  BY DEF MarkSucceeded, MarkFailed, Shape
<1>6. n \in DOMAIN jobs /\ jobs[n].status = "PENDING"
  BY <1>3 DEF FirstPending, PendingJobs
<1>7. jobs'[n].status # "PENDING"
  <2>1. jobs \in [DOMAIN jobs -> Job] /\ jobs[n] \in Job
    BY <1>6 DEF Shape
  <2>2. CASE MarkSucceeded(w, r)
    BY <1>6, <2>1, <2>2 DEF MarkSucceeded, Job
  <2>3. CASE MarkFailed(w, r)
    <3>1. jobs' = [jobs EXCEPT ![n] = [jobs[n] EXCEPT !.status = "FAILED_PERMANENT",
                                                    !.attempts = jobs[n].attempts + 1]]
      BY <2>3 DEF MarkFailed
    <3> QED BY <1>6, <2>1, <3>1 DEF Job
  <2> QED BY <2>2, <2>3
<1> HIDE DEF n
<1>8. PendingJobs' = PendingJobs \ {n}
  BY <1>4, <1>5, <1>6, <1>7 DEF PendingJobs
<1>9. /\ pc'[a] = "attempt" /\ batch'[a] = batch[a] \ {n}
      /\ \A b \in Agents \ {a} : pc'[b] = pc[b] /\ batch'[b] = batch[b]
  BY <1>0, <1>1 DEF Goto, Shape
<1>10. \A b \in Agents : InFlush(b) => b = a
  BY <1>0, <1>2, OneAtATime
<1> HIDE DEF a
<1>11. KeepsSettled
  BY <1>5, <1>6 DEF KeepsSettled
<1>12. KeepsServing
  BY <1>1, SameServing DEF Sound
<1>13. JobsInOrder'
  <2>1. \A v \in Writers : pc'[Caller(v)] = "enqueue" => pc[Caller(v)] = "enqueue"
    BY <1>9 DEF Agents, Roles, Caller
  <2> QED BY <1>1, <1>4, <2>1 DEF Replay, JobsInOrder
<1>14. BatchComesFirst'
  <2> SUFFICES ASSUME NEW b \in Agents, InFlush(b)'
               PROVE  /\ batch'[b] \subseteq PendingJobs'
                      /\ \A i \in batch'[b] : \A j \in PendingJobs' \ batch'[b] : i < j
                      /\ pc'[b] # "attempt" => batch'[b] # {}
    BY DEF BatchComesFirst
  <2>1. b = a
    BY <1>9, <1>10 DEF InFlush
  <2>2. /\ batch[a] \subseteq PendingJobs
        /\ \A i \in batch[a] : \A j \in PendingJobs \ batch[a] : i < j
    BY <1>0, <1>2 DEF Replay, BatchComesFirst
  <2> QED BY <1>8, <1>9, <2>1, <2>2
<1>15. UpsertIsCurrent'
  <2>1. \A b \in Agents : op[b] = NoOp
    BY <1>1, <1>10 DEF Replay, UpsertIsCurrent, InFlush
  <2>2. \A v \in Writers : pc'[Caller(v)] # "sync"
    BY <1>9 DEF Replay, UpsertIsCurrent, Agents, Roles, Caller
  <2> QED BY <1>1, <2>1, <2>2 DEF UpsertIsCurrent
<1>16. PointersAreSound'
  BY <1>1 DEF Replay, PointersAreSound
<1>17. ServedWasQueued'
  BY <1>1, <1>4 DEF Replay, ServedWasQueued
<1>18. ServedIsEarlier'
  <2>1. \A j \in PendingJobs' : j \in PendingJobs /\ jobs'[j].write = jobs[j].write
    BY <1>4, <1>8 DEF PendingJobs
  <2> QED BY <1>1, <2>1 DEF Replay, ServedIsEarlier
<1>19. OneVersionPerJob'
  <2> SUFFICES ASSUME NEW k \in Keys
               PROVE  Cardinality(VersionsOf(k)') <= Cardinality(Used(k)')
    BY DEF OneVersionPerJob
  <2>1. VersionsOf(k)' = VersionsOf(k)
    BY <1>1 DEF VersionsOf
  <2>2. \A j \in PendingJobs : FirstPending(j) => j = n
    <3>1. PendingJobs \subseteq Nat
      BY DEF PendingJobs, Shape
    <3> QED BY <1>3, <3>1 DEF FirstPending
  <2>3. \A j \in DOMAIN jobs : jobs[j].status # "PENDING" \/ FirstPending(j) => jobs'[j].status # "PENDING"
    BY <1>5, <1>7, <2>2 DEF FirstPending
  <2>4. Used(k) \subseteq Used(k)' /\ Used(k)' \in SUBSET DOMAIN jobs
    BY <1>4, <2>3 DEF Used
  <2>5. /\ IsFiniteSet(Used(k)') /\ Cardinality(Used(k)') \in Nat
        /\ Cardinality(Used(k)) \in Nat /\ Cardinality(VersionsOf(k)) \in Nat
    BY <2>4, Counted DEF Sound
  <2>6. Cardinality(Used(k)) <= Cardinality(Used(k)')
    BY <2>4, <2>5, FS_Subset
  <2> QED BY <2>1, <2>5, <2>6 DEF Replay, OneVersionPerJob
<1> QED BY <1>11, <1>12, <1>13, <1>14, <1>15, <1>16, <1>17, <1>18, <1>19 DEF Replay

-----------------------------------------------------------------------------

\* No version is lost or changed in what is compared.
VersionsStay ==
  \A v \in DOMAIN versions :
    /\ v \in DOMAIN versions'
    /\ versions'[v].key = versions[v].key
    /\ versions'[v].checksum = versions[v].checksum
    /\ versions'[v].intact = versions[v].intact

\* A commit that has read what is still current adds the version of a new payload and serves
\* it, or at most moves the fetch time of what it serves.
LEMMA CommitServes ==
  ASSUME TablesSound, NEW a \in Agents, Store!CommitUpsert(a), NEW wr, wr = op[a].write,
         op[a].row = current[wr.key], current[wr.key] # NoEntry => op[a].valid
  PROVE  /\ VersionsStay /\ wr.key \in Keys /\ wr.fetched \in Nat
         /\ current \in [Keys -> SP!Pointer \cup {NoEntry}]
         /\ \/ /\ DOMAIN versions' = DOMAIN versions
               /\ \/ current' = current
                  \/ /\ current[wr.key] # NoEntry
                     /\ current' = [current EXCEPT ![wr.key] =
                          [version |-> current[wr.key].version,
                           checksum |-> current[wr.key].checksum, fetched |-> wr.fetched]]
            \/ /\ DOMAIN versions' = DOMAIN versions \cup {Len(versions) + 1}
               /\ Len(versions) + 1 \notin DOMAIN versions
               /\ versions'[Len(versions) + 1].key = wr.key
               /\ versions'[Len(versions) + 1].checksum = wr.payload
               /\ versions'[Len(versions) + 1].intact
               /\ current[wr.key] # NoEntry => current[wr.key].checksum # wr.payload
               /\ current' = [current EXCEPT ![wr.key] =
                    [version |-> Len(versions) + 1, checksum |-> wr.payload,
                     fetched |-> wr.fetched]]
<1> DEFINE o == op[a]
           Added == /\ DOMAIN versions' = DOMAIN versions \cup {Len(versions) + 1}
                    /\ Len(versions) + 1 \notin DOMAIN versions
                    /\ versions'[Len(versions) + 1].key = wr.key
                    /\ versions'[Len(versions) + 1].checksum = wr.payload
                    /\ versions'[Len(versions) + 1].intact
<1>0. SP!CommitUpsert(a) /\ SP!TypeOK /\ SP!OpSound /\ o # NoOp
  BY SameCommit DEF TablesSound, SP!CommitUpsert
<1>1. wr.key \in Keys /\ wr.fetched \in Nat /\ current \in [Keys -> SP!Pointer \cup {NoEntry}]
  BY <1>0, Assumed, SP!CarriedUpsert DEF SP!TypeOK
<1>s. /\ SP!UpsertStatus(o) = "inserted" => o.row = NoEntry
      /\ SP!UpsertStatus(o) # "repaired"
      /\ SP!UpsertStatus(o) = "refreshed" => o.row # NoEntry /\ o.row.checksum = wr.payload
      /\ SP!UpsertStatus(o) = "superseded" => o.row # NoEntry /\ o.row.checksum # wr.payload
  BY DEF SP!UpsertStatus
<1>2. CASE SP!InsertFirst(o)
  <2>1. /\ o.row = NoEntry /\ versions' = Append(versions, SP!NewVersion(o.write, 0))
        /\ SP!PointTo(o.write, Len(versions) + 1)
    BY <1>2, <1>s DEF SP!InsertFirst
  <2>2. Added /\ VersionsStay
    BY <1>0, <2>1, Assumed, SP!AppendShape, SP!NewVersionFields DEF VersionsStay
  <2> QED BY <1>1, <2>1, <2>2 DEF SP!PointTo
<1>3. CASE SP!Repair(o)
  BY <1>3, <1>s DEF SP!Repair
<1>4. CASE SP!Refresh(o)
  <2>1. o.row # NoEntry /\ o.row.checksum = wr.payload /\ SP!PointTo(o.write, o.row.version)
    BY <1>4, <1>s DEF SP!Refresh
  <2>2. DOMAIN versions' = DOMAIN versions /\ VersionsStay
    BY <1>0, <1>4, Assumed, SP!RefreshShape DEF SP!SameContent, VersionsStay
  <2> QED BY <1>1, <2>1, <2>2 DEF SP!PointTo
<1>5. CASE SP!Idempotent(o) \/ SP!RejectConflict(o)
  BY <1>1, <1>5 DEF SP!Idempotent, SP!RejectConflict, VersionsStay
<1>6. CASE SP!Supersede(o)
  <2>1. o.row # NoEntry /\ o.row.checksum # wr.payload /\ SP!PointTo(o.write, Len(versions) + 1)
    BY <1>6, <1>s DEF SP!Supersede
  <2> DEFINE old == o.row.version
             new == SP!NewVersion(o.write, old)
  <2>2. /\ DOMAIN versions' = DOMAIN versions \cup {Len(versions) + 1}
        /\ Len(versions) + 1 \notin DOMAIN versions
        /\ \A i \in DOMAIN versions \ {old} : versions'[i] = versions[i]
        /\ SP!SameContent(versions'[old], versions[old])
        /\ versions'[old].intact = versions[old].intact
        /\ versions'[Len(versions) + 1] = new
    BY <1>0, <1>6, Assumed, SP!SupersedeShape
  <2>4. new.key = wr.key /\ new.checksum = wr.payload /\ new.intact
    BY DEF SP!NewVersion
  <2> HIDE DEF old, new
  <2>5. VersionsStay
    BY <2>2 DEF VersionsStay, SP!SameContent
  <2>3. Added
    BY <2>2, <2>4
  <2> QED BY <1>1, <2>1, <2>3, <2>5 DEF SP!PointTo
<1> QED BY <1>0, <1>2, <1>3, <1>4, <1>5, <1>6 DEF SP!CommitUpsert

\* The commit of the next job serves what was fetched no earlier than anything served.
LEMMA CommitKeepsReplay ==
  ASSUME OneWriter, Shape, FlushExclusive, Sound, Replay, NEW w \in Writers, NEW r \in Roles,
         CommitAttempt(w, r)
  PROVE  Replay' /\ KeepsSettled /\ KeepsServing
<1> DEFINE a == <<w, r>>
           n == NextJob(a)
           wr == jobs[n].write
           k == wr.key
           next == IF Store!UpsertStatus(op[a]) = "conflict_rejected"
                   THEN "markFailed" ELSE "markSucceeded"
           new == Len(versions) + 1
<1>0. a \in Agents
  BY DEF Agents
<1>1. /\ pc[a] = "commit" /\ Store!CommitUpsert(a) /\ Goto(a, next)
      /\ UNCHANGED <<now, jobs, batch, request>>
  BY CommitKeepsTime DEF CommitAttempt
<1>2. /\ op[a] # NoOp /\ op' = [op EXCEPT ![a] = NoOp] /\ op \in [Agents -> SP!Upsert \cup {NoOp}]
      /\ TablesSound
  BY <1>1 DEF Store!CommitUpsert, Sound, TablesSound, SP!TypeOK
<1>3. InFlush(a) /\ batch[a] # {} /\ wr = op[a].write
  BY <1>0, <1>1 DEF InFlush, Sound, Progress, ProgressOf
<1>4. FirstPending(n) /\ n \in PendingJobs /\ n \in DOMAIN jobs
  BY <1>0, <1>3, NextIsFirst DEF Replay, FirstPending, PendingJobs
<1>5. op[a].row = current[k] /\ (current[k] # NoEntry => op[a].valid)
  BY <1>0, <1>2, <1>3 DEF Replay, UpsertIsCurrent
<1>t. /\ now \in Nat /\ DOMAIN jobs \subseteq Nat /\ PendingJobs \subseteq DOMAIN jobs
      /\ \A j \in DOMAIN jobs : jobs[j].write.fetched \in Nat
      /\ \A i, j \in DOMAIN jobs : i <= j => jobs[i].write.fetched <= jobs[j].write.fetched
  BY JobTimes DEF Shape, Replay, JobsInOrder, PendingJobs
<1>6. PendingJobs' = PendingJobs
  BY <1>1 DEF PendingJobs
<1>7. /\ pc'[a] \in {"markSucceeded", "markFailed"}
      /\ \A b \in Agents \ {a} : pc'[b] = pc[b] /\ op'[b] = op[b]
      /\ op'[a] = NoOp
  BY <1>0, <1>1, <1>2 DEF Goto, Shape
<1>8. \A b \in Agents : InFlush(b) => b = a
  BY <1>0, <1>3, OneAtATime
<1> HIDE DEF next, n, wr
<1>9. /\ VersionsStay /\ k \in Keys /\ wr.fetched \in Nat
      /\ current \in [Keys -> SP!Pointer \cup {NoEntry}]
      /\ \/ /\ DOMAIN versions' = DOMAIN versions
            /\ \/ current' = current
               \/ /\ current[k] # NoEntry
                  /\ current' = [current EXCEPT ![k] =
                       [version |-> current[k].version, checksum |-> current[k].checksum,
                        fetched |-> wr.fetched]]
         \/ /\ DOMAIN versions' = DOMAIN versions \cup {new}
            /\ new \notin DOMAIN versions
            /\ versions'[new].key = k
            /\ versions'[new].checksum = wr.payload
            /\ versions'[new].intact
            /\ current[k] # NoEntry => current[k].checksum # wr.payload
            /\ current' = [current EXCEPT ![k] =
                 [version |-> new, checksum |-> wr.payload, fetched |-> wr.fetched]]
  <2>1. ASSUME NEW x, x = wr
        PROVE  /\ op[a].row = current[x.key] /\ x = op[a].write
               /\ current[x.key] # NoEntry => op[a].valid
    BY <1>3, <1>5, <2>1
  <2> HIDE DEF a
  <2> QED BY <1>0, <1>1, <1>2, <2>1, CommitServes
<1>10. wr = jobs[n].write
  BY DEF wr
<1> HIDE DEF new, k, a
<1>n. \A x \in Keys : current[x] # NoEntry =>
        current[x].fetched \in Nat
  BY <1>9 DEF SP!Pointer
<1>s. NoEntry \notin SP!Pointer
  BY Assumed DEF SP!StoreAssumption
<1>11. \A x \in Keys \ {k} : current'[x] = current[x]
  BY <1>9
<1>12. current'[k] # NoEntry => current'[k] = current[k] \/ current'[k].fetched = wr.fetched
  BY <1>9
<1>13. current[k] # NoEntry => current[k].fetched <= wr.fetched
  BY <1>4, <1>10 DEF Replay, ServedIsEarlier, k
<1>14. current[k] # NoEntry => current'[k] # NoEntry
  <2>1. ASSUME NEW v, NEW c, current[k] # NoEntry, v \in Nat \ {0}, c \in Payloads \cup {NoData},
               current' = [current EXCEPT ![k] = [version |-> v, checksum |-> c, fetched |-> wr.fetched]]
        PROVE  current'[k] # NoEntry
    <3>1. [version |-> v, checksum |-> c, fetched |-> wr.fetched] \in SP!Pointer
      BY <1>9, <2>1 DEF SP!Pointer
    <3> QED BY <1>9, <1>s, <2>1, <3>1
  <2>2. current[k] # NoEntry => current[k].version \in Nat \ {0} /\ current[k].checksum \in Payloads \cup {NoData}
    BY <1>9 DEF SP!Pointer
  <2>3. new \in Nat \ {0}
    BY <1>2 DEF new, TablesSound, SP!TypeOK
  <2>4. wr.payload \in Payloads \cup {NoData}
    <3>1. wr \in Store!Write
      BY <1>4, <1>10, JobTimes
    <3> QED BY <3>1 DEF Store!Write
  <2> QED BY <1>9, <2>1, <2>2, <2>3, <2>4
<1>15. KeepsServing
  <2> SUFFICES ASSUME NEW x \in Keys, current[x] # NoEntry
               PROVE  current'[x] # NoEntry /\ current'[x].fetched >= current[x].fetched
    BY DEF KeepsServing
  <2>1. CASE x = k
    BY <1>9, <1>n, <1>12, <1>13, <1>14, <2>1
  <2>2. CASE x # k
    BY <1>n, <1>11, <2>2
  <2> QED BY <2>1, <2>2
<1>16. KeepsSettled
  BY <1>1 DEF KeepsSettled
<1>17. JobsInOrder'
  <2>1. \A v \in Writers : pc'[Caller(v)] = "enqueue" => pc[Caller(v)] = "enqueue"
    BY <1>7 DEF Agents, Roles, Caller
  <2> QED BY <1>1, <2>1 DEF Replay, JobsInOrder
<1>18. BatchComesFirst'
  <2>1. \A b \in Agents : InFlush(b)' => b = a
    BY <1>7, <1>8 DEF InFlush
  <2> QED BY <1>0, <1>1, <1>3, <1>6, <2>1 DEF Replay, BatchComesFirst
<1>19. UpsertIsCurrent'
  <2>1. \A b \in Agents : op'[b] = NoOp
    BY <1>7, <1>8 DEF Replay, UpsertIsCurrent, InFlush
  <2>2. \A v \in Writers : pc'[Caller(v)] # "sync"
    BY <1>7 DEF Replay, UpsertIsCurrent, Agents, Roles, Caller
  <2> QED BY <2>1, <2>2 DEF UpsertIsCurrent
<1>20. PointersAreSound'
  <2> SUFFICES ASSUME NEW x \in Keys, current'[x] # NoEntry
               PROVE  /\ current'[x].version \in DOMAIN versions'
                      /\ versions'[current'[x].version].key = x
                      /\ versions'[current'[x].version].checksum = current'[x].checksum
                      /\ versions'[current'[x].version].intact
    BY DEF PointersAreSound
  <2>1. current[x] # NoEntry =>
          /\ current[x].version \in DOMAIN versions'
          /\ versions'[current[x].version].key = x
          /\ versions'[current[x].version].checksum = current[x].checksum
          /\ versions'[current[x].version].intact
    BY <1>9 DEF Replay, PointersAreSound, VersionsStay
  <2>2. CASE x # k
    BY <1>11, <2>1, <2>2
  <2>3. CASE x = k
    <3>1. CASE current' = current
      BY <2>1, <3>1
    <3>2. CASE /\ current[k] # NoEntry
               /\ current' = [current EXCEPT ![k] =
                    [version |-> current[k].version, checksum |-> current[k].checksum,
                     fetched |-> wr.fetched]]
      BY <1>9, <2>1, <2>3, <3>2
    <3>3. CASE /\ DOMAIN versions' = DOMAIN versions \cup {new}
               /\ versions'[new].key = k
               /\ versions'[new].checksum = wr.payload
               /\ versions'[new].intact
               /\ current' = [current EXCEPT ![k] =
                    [version |-> new, checksum |-> wr.payload, fetched |-> wr.fetched]]
      BY <1>9, <2>3, <3>3
    <3> QED BY <1>9, <3>1, <3>2, <3>3
  <2> QED BY <2>2, <2>3
<1>21. ServedWasQueued'
  <2> SUFFICES ASSUME NEW x \in Keys, current'[x] # NoEntry
               PROVE  \E j \in DOMAIN jobs : jobs[j].write.fetched = current'[x].fetched
    BY <1>1 DEF ServedWasQueued
  <2>1. CASE current'[x] = current[x]
    BY <2>1 DEF Replay, ServedWasQueued
  <2>2. CASE current'[x] # current[x]
    BY <1>4, <1>10, <1>11, <1>12, <2>2
  <2> QED BY <2>1, <2>2
<1>22. ServedIsEarlier'
  <2> SUFFICES ASSUME NEW j \in PendingJobs, current'[jobs[j].write.key] # NoEntry
               PROVE  current'[jobs[j].write.key].fetched <= jobs[j].write.fetched
    BY <1>1, <1>6 DEF ServedIsEarlier
  <2>1. CASE current'[jobs[j].write.key] = current[jobs[j].write.key]
    BY <2>1 DEF Replay, ServedIsEarlier
  <2>2. CASE current'[jobs[j].write.key] # current[jobs[j].write.key]
    <3>1. jobs[j].write.key \in Keys
      <4>1. jobs[j].write \in Store!Write
        BY <1>t, JobTimes
      <4> QED BY <4>1, TablesAssumption DEF Store!Write, Store!StoreAssumption
    <3>2. jobs[j].write.key = k /\ current'[k].fetched = wr.fetched
      BY <1>11, <1>12, <2>2, <3>1
    <3>3. n <= j
      BY <1>4 DEF FirstPending
    <3> QED BY <1>4, <1>10, <1>t, <3>2, <3>3
  <2> QED BY <2>1, <2>2
<1>23. OneVersionPerJob'
  <2> SUFFICES ASSUME NEW x \in Keys
               PROVE  Cardinality(VersionsOf(x)') <= Cardinality(Used(x)')
    BY DEF OneVersionPerJob
  <2>1. /\ Cardinality(VersionsOf(x)) <= Cardinality(Used(x))
        /\ IsFiniteSet(VersionsOf(x)) /\ Cardinality(VersionsOf(x)) \in Nat
        /\ IsFiniteSet(Used(x)) /\ Cardinality(Used(x)) \in Nat
    BY <1>2, Counted DEF Replay, OneVersionPerJob, Used
  <2>2. \A j \in DOMAIN jobs : FirstPending(j)' <=> j = n
    BY <1>t, <1>4, <1>6 DEF FirstPending
  <2>3. \A j \in DOMAIN jobs : FirstPending(j) <=> j = n
    BY <1>t, <1>4 DEF FirstPending
  <2>4. ASSUME DOMAIN versions' = DOMAIN versions, current'[x] # NoEntry <=> current[x] # NoEntry,
               current[x] # NoEntry => current'[x].checksum = current[x].checksum
        PROVE  VersionsOf(x)' = VersionsOf(x) /\ Used(x)' = Used(x)
    <3>1. VersionsOf(x)' = VersionsOf(x)
      BY <1>9, <2>4 DEF VersionsOf, VersionsStay
    <3>2. Used(x)' = Used(x)
      BY <1>1, <2>2, <2>3, <2>4 DEF Used
    <3> QED BY <3>1, <3>2
  <2>5. CASE DOMAIN versions' = DOMAIN versions /\ (x # k \/ current' = current)
    BY <1>11, <2>1, <2>4, <2>5
  <2>6. CASE /\ DOMAIN versions' = DOMAIN versions /\ x = k /\ current[k] # NoEntry
             /\ current' = [current EXCEPT ![k] =
                  [version |-> current[k].version, checksum |-> current[k].checksum,
                   fetched |-> wr.fetched]]
    <3>1. current'[k].checksum = current[k].checksum
      BY <1>9, <2>6
    <3> QED BY <1>14, <2>1, <2>4, <2>6, <3>1
  <2>7. CASE /\ DOMAIN versions' = DOMAIN versions \cup {new} /\ new \notin DOMAIN versions
             /\ versions'[new].key = k /\ x # k
    <3>1. VersionsOf(x)' = VersionsOf(x)
      BY <1>9, <2>7 DEF VersionsOf, VersionsStay
    <3>2. Used(x)' = Used(x)
      BY <1>1, <1>11, <2>2, <2>3, <2>7 DEF Used
    <3> QED BY <2>1, <3>1, <3>2
  <2>8. CASE /\ DOMAIN versions' = DOMAIN versions \cup {new} /\ new \notin DOMAIN versions
             /\ versions'[new].key = k /\ x = k
             /\ current[k] # NoEntry => current[k].checksum # wr.payload
             /\ current' = [current EXCEPT ![k] =
                  [version |-> new, checksum |-> wr.payload, fetched |-> wr.fetched]]
    <3>1. VersionsOf(x)' = VersionsOf(x) \cup {new} /\ new \notin VersionsOf(x)
      BY <1>9, <2>8 DEF VersionsOf, VersionsStay
    <3>2. n \notin Used(x)
      BY <1>4, <1>10, <2>8 DEF Used, PendingJobs
    <3>3. current'[x].checksum = wr.payload
      BY <1>9, <2>8
    <3>4. current'[x] # NoEntry
      <4>1. [version |-> new, checksum |-> wr.payload, fetched |-> wr.fetched] \in SP!Pointer
        <5>1. wr \in Store!Write
          BY <1>4, <1>10, JobTimes
        <5>2. wr.payload \in Payloads \cup {NoData}
          BY <5>1 DEF Store!Write
        <5>3. new \in Nat \ {0}
          BY <1>2 DEF new, TablesSound, SP!TypeOK
        <5> QED BY <1>9, <5>2, <5>3 DEF SP!Pointer
      <4> QED BY <1>9, <1>s, <2>8, <4>1
    <3>5. jobs'[n].write.key = x /\ jobs'[n].write.payload = wr.payload /\ DOMAIN jobs' = DOMAIN jobs
      BY <1>1, <1>10, <2>8 DEF k
    <3>6. Used(x)' = Used(x) \cup {n}
      BY <1>1, <1>4, <2>2, <2>3, <3>2, <3>3, <3>4, <3>5 DEF Used
    <3>7. /\ Cardinality(VersionsOf(x) \cup {new}) = Cardinality(VersionsOf(x)) + 1
          /\ Cardinality(Used(x) \cup {n}) = Cardinality(Used(x)) + 1
      BY <2>1, <3>1, <3>2, FS_AddElement
    <3> QED BY <2>1, <3>1, <3>6, <3>7
  <2> QED BY <1>9, <2>5, <2>6, <2>7, <2>8
<1> QED BY <1>15, <1>16, <1>17, <1>18, <1>19, <1>20, <1>21, <1>22, <1>23 DEF Replay

LEMMA ReplayStep ==
  ASSUME OneWriter
  PROVE  Shape /\ FlushExclusive /\ Sound /\ Replay /\ [Next]_vars
           => Replay' /\ KeepsSettled /\ KeepsServing
<1> SUFFICES ASSUME Shape, FlushExclusive, Sound, Replay, [Next]_vars
             PROVE  Replay' /\ KeepsSettled /\ KeepsServing
  OBVIOUS
<1>1. ASSUME NEW w \in Writers, NEW wr \in FetchedWrites,
             WriteSync(w, wr) \/ WriteAsync(w, wr) \/ WriteAuto(w, wr)
      PROVE  Replay' /\ KeepsSettled /\ KeepsServing
  BY <1>1, CallerKeepsReplay, EnqueueKeepsReplay
<1>2. ASSUME NEW w \in Writers,
             CallFlush(w) \/ EnqueueRaises(w) \/ ReturnSync(w) \/ ReturnFromFlush(w) \/ EnqueueLocked(w)
      PROVE  Replay' /\ KeepsSettled /\ KeepsServing
  BY <1>2, CallerKeepsReplay, EnqueueKeepsReplay
<1>3. ASSUME NEW w \in Writers, NEW r \in Roles,
             \/ StartFlush(w, r) \/ BeginAttempt(w, r) \/ CommitAttempt(w, r) \/ FailAttempt(w, r)
             \/ MarkSucceeded(w, r) \/ MarkFailed(w, r)
      PROVE  Replay' /\ KeepsSettled /\ KeepsServing
  BY <1>3, AttemptKeepsReplay, CommitKeepsReplay, MarksKeepReplay
<1>4. ASSUME NEW w \in Writers, NEW r \in Roles,
             DrainUntilIdle(w) \/ ThreadEnds(w) \/ FlushRaises(w, r) \/ Crash(w)
      PROVE  Replay' /\ KeepsSettled /\ KeepsServing
  BY <1>4, EndsKeepReplay
<1>5. CASE Tick \/ UNCHANGED vars
  BY <1>5, TickKeepsReplay
<1> QED BY <1>1, <1>2, <1>3, <1>4, <1>5 DEF Next, Work, Roles

LEMMA ReplayBegins == Init => Replay
<1> SUFFICES ASSUME Init PROVE Replay
  OBVIOUS
<1>1. /\ versions = << >> /\ jobs = << >> /\ DOMAIN jobs = {} /\ DOMAIN versions = {}
      /\ \A k \in Keys : current[k] = NoEntry
      /\ \A a \in Agents : op[a] = NoOp /\ pc[a] \in {"idle", "none"}
      /\ \A w \in Writers : Caller(w) \in Agents
  BY DEF Init, Store!Init, Agents, Roles, Caller
<1>2. \A k \in Keys : VersionsOf(k) = {} /\ Used(k) = {}
  BY <1>1 DEF VersionsOf, Used
<1>3. OneVersionPerJob
  BY <1>2, FS_EmptySet DEF OneVersionPerJob
<1> QED BY <1>1, <1>3 DEF Replay, JobsInOrder, BatchComesFirst, UpsertIsCurrent, PointersAreSound,
                          ServedWasQueued, ServedIsEarlier, PendingJobs, InFlush

\* No more versions than used jobs is no more than jobs.
LEMMA ReplaySuffices == Shape /\ Sound /\ Replay => ReplayCreatesNoDuplicate
<1> SUFFICES ASSUME Shape, Sound, Replay, NEW k \in Keys
             PROVE  Cardinality(VersionsOf(k)) <= Cardinality({j \in DOMAIN jobs : jobs[j].write.key = k})
  BY DEF ReplayCreatesNoDuplicate, VersionsOf
<1> DEFINE J == {j \in DOMAIN jobs : jobs[j].write.key = k}
<1>1. /\ Cardinality(VersionsOf(k)) <= Cardinality(Used(k))
      /\ Cardinality(VersionsOf(k)) \in Nat /\ Cardinality(Used(k)) \in Nat
      /\ IsFiniteSet(J) /\ Cardinality(J) \in Nat
  BY Counted DEF Sound, Replay, OneVersionPerJob, Used
<1>2. Used(k) \in SUBSET J
  BY DEF Used
<1> HIDE DEF J
<1>3. Cardinality(Used(k)) <= Cardinality(J)
  BY <1>1, <1>2, FS_Subset
<1> QED BY <1>1, <1>3 DEF J

\* With one writer that queues its writes, whatever transactions fail, exceptions end threads
\* and crashes lose batches: what is replayed leaves no trace.  A key has no more versions than
\* jobs, a settled job is never settled again, and no key goes back to an earlier fetch.
THEOREM ReplayLeavesNoTrace == ASSUME OneWriter PROVE Spec => ReplayIsHarmless
<1> DEFINE Inv == Shape /\ FlushExclusive /\ Sound /\ Replay
<1>1. Init => Inv
  BY Begins, SoundBegins, ReplayBegins
<1>2. Inv /\ [Next]_vars => Inv'
  BY ShapeStep, ExclusionStep, SoundStep, ReplayStep
<1>3. Inv => ReplayCreatesNoDuplicate
  BY ReplaySuffices
<1>4. Inv /\ [Next]_vars =>
        [\A j \in DOMAIN jobs : jobs[j].status # "PENDING" => jobs'[j].status = jobs[j].status]_vars
  BY ReplayStep DEF KeepsSettled
<1>5. Inv /\ [Next]_vars =>
        [\A k \in Keys : current[k] # NoEntry =>
           /\ current'[k] # NoEntry
           /\ current'[k].fetched >= current[k].fetched]_vars
  BY ReplayStep DEF KeepsServing
<1> HIDE DEF Inv
<1>6. Spec => []ReplayCreatesNoDuplicate
  BY <1>1, <1>2, <1>3, PTL DEF Spec
<1>7. Spec => SettledIsFinal
  BY <1>1, <1>2, <1>4, PTL DEF Spec, SettledIsFinal
<1>8. Spec => FetchedNeverRegresses
  BY <1>1, <1>2, <1>5, PTL DEF Spec, FetchedNeverRegresses
<1> QED BY <1>6, <1>7, <1>8, PTL DEF ReplayIsHarmless
=============================================================================
