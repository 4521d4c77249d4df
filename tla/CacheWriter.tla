----------------------------- MODULE CacheWriter -----------------------------
(***************************************************************************)
(* Write-behind persistence of fetched market data: CacheWriter            *)
(* (backend/app/data/cache_writer.py) over the job table cache_write_jobs  *)
(* of MarketCacheStore.                                                    *)
(*                                                                         *)
(* Every client that build_market_data_client makes has a writer of its    *)
(* own, with its own lock, on the same database: one per HTTP request, one *)
(* per batch script.  A writer has two threads of control, the "caller"    *)
(* that serves the request and the "drain", the daemon thread that         *)
(* _schedule_flush_locked starts.  Each uses its own connections, so the   *)
(* agents of the store are the pairs <<writer, role>>.                     *)
(***************************************************************************)
EXTENDS Integers, Sequences, FiniteSets

CONSTANTS
  Keys, Payloads, NoData, NoDataKeys, EntryDay, NoEntry, NoOp, MaxTime,
  TicksPerDay, RecentDays, NoDataTTL,
  Writers,         \* CacheWriter objects
  Modes,           \* the assignments of modes to writers that are considered
  Correction,      \* Correction[w]: allow_provider_correction
  MaxAttempts,     \* max_attempts
  MaxJobs,         \* bound on the jobs enqueued
  MaxSyncWrites,   \* bound on the upserts of "sync" writers
  MaxUpsertFaults, \* bound on transactions that raise inside an attempt
  MaxFlushFaults,  \* bound on database calls that raise outside the try block
  MaxCrashes       \* bound on process crashes

Roles == {"caller", "drain"}
Agents == Writers \X Roles

VARIABLES
  versions, current, conflicts, op, now,   \* the store
  mode,        \* mode[w]: "sync", "async" or "auto" (async with auto_flush)
  jobs,        \* cache_write_jobs, in the order of created_at
  lock,        \* lock[w]: who holds _flush_lock
  pc,          \* where each agent is
  batch,       \* the jobs of the agent's snapshot it has not settled yet
  attempt,     \* failed attempts at the head of the batch
  request,     \* the write a caller waits to enqueue
  syncs,       \* upserts started by "sync" writers
  upsertFaults, flushFaults, crashes,   \* faults so far
  abandoned    \* history: jobs that were PENDING when a thread of their writer died

storeVars == <<versions, current, conflicts, op, now>>
faultVars == <<upsertFaults, flushFaults, crashes>>
writerVars == <<mode, jobs, lock, pc, batch, attempt, request, syncs, faultVars, abandoned>>
vars == <<storeVars, writerVars>>

\* MaxVersions and MaxDamage bound Store!Next, which is not used here: a bounded
\* number of jobs, faults and crashes bounds the versions, and no row is damaged.
Store == INSTANCE MarketCacheStore WITH MaxVersions <- 0, MaxDamage <- 0

ASSUME TablesAssumption == Store!StoreAssumption /\ Store!FreshnessAssumption

ASSUME WriterAssumption ==
  /\ Modes \subseteq [Writers -> {"sync", "async", "auto"}]
  /\ Correction \in [Writers -> BOOLEAN]
  /\ MaxAttempts \in Nat \ {0}
  /\ {MaxJobs, MaxSyncWrites, MaxUpsertFaults, MaxFlushFaults, MaxCrashes} \subseteq Nat

Job == [write: Store!Write, owner: Writers,
        status: {"PENDING", "SUCCEEDED", "FAILED_PERMANENT"}, attempts: Nat]

CallerPoints ==
  {"idle", "sync", "enqueue", "flush", "attempt", "commit", "markSucceeded", "markFailed"}

\* "none": _flush_thread is None.  "unwinding": an exception left the with block
\* and the thread is on its way out, is_alive() still true.  "dead": the object
\* still refers to a thread that has ended.
DrainPoints ==
  {"none", "unwinding", "dead", "flush", "attempt", "commit", "markSucceeded", "markFailed"}

Caller(w) == <<w, "caller">>
Drain(w) == <<w, "drain">>

PendingJobs == {j \in DOMAIN jobs : jobs[j].status = "PENDING"}
DrainIsAlive(w) == pc[Drain(w)] \notin {"none", "dead"}
InFlush(a) == pc[a] \in {"attempt", "commit", "markSucceeded", "markFailed"}
\* Mutant: ORDER BY created_at DESC.
LastJob(a) == CHOOSE j \in batch[a] : \A i \in batch[a] : j >= i
NextJob(a) == CHOOSE j \in batch[a] : \A i \in batch[a] : j <= i
Goto(a, label) == pc' = [pc EXCEPT ![a] = label]

-----------------------------------------------------------------------------
(* write() *)

NewJob(w, wr) == [write |-> wr, owner |-> w, status |-> "PENDING", attempts |-> 0]

\* Writes on their way to the job table count against MaxJobs.
JobRoom ==
  Len(jobs) + Cardinality({w \in Writers : pc[Caller(w)] = "enqueue"}) < MaxJobs

\* Mode sync: the caller upserts itself, without the lock.
WriteSync(w, wr) ==
  /\ mode[w] = "sync"
  /\ pc[Caller(w)] = "idle"
  /\ syncs < MaxSyncWrites
  /\ Store!BeginUpsert(Caller(w), wr, Correction[w])
  /\ Goto(Caller(w), "sync")
  /\ syncs' = syncs + 1
  /\ UNCHANGED <<jobs, lock, batch, attempt, request, faultVars, abandoned, mode>>

\* The upsert returns, or raises to the caller.
ReturnSync(w) ==
  /\ pc[Caller(w)] = "sync"
  /\ \/ Store!CommitUpsert(Caller(w)) /\ UNCHANGED upsertFaults
     \/ /\ upsertFaults < MaxUpsertFaults
        /\ Store!AbortUpsert(Caller(w))
        /\ upsertFaults' = upsertFaults + 1
  /\ Goto(Caller(w), "idle")
  /\ UNCHANGED <<jobs, lock, batch, attempt, request, syncs, flushFaults, crashes, abandoned, mode>>

\* Mode async without auto_flush: enqueue and return, no lock.
WriteAsync(w, wr) ==
  /\ mode[w] = "async"
  /\ pc[Caller(w)] = "idle"
  /\ JobRoom
  /\ Store!ValidCacheWrite(wr)
  /\ jobs' = Append(jobs, NewJob(w, wr))
  /\ UNCHANGED <<storeVars, lock, pc, batch, attempt, request, syncs, faultVars, abandoned, mode>>

\* Mode async with auto_flush: the caller first asks for the lock.
WriteAuto(w, wr) ==
  /\ mode[w] = "auto"
  /\ pc[Caller(w)] = "idle"
  /\ JobRoom
  /\ Store!ValidCacheWrite(wr)
  /\ request' = [request EXCEPT ![w] = wr]
  /\ Goto(Caller(w), "enqueue")
  /\ UNCHANGED <<storeVars, jobs, lock, batch, attempt, syncs, faultVars, abandoned, mode>>

\* Mutant: the job is inserted but no thread is started.
EnqueueUnscheduled(w) ==
  /\ pc[Caller(w)] = "enqueue"
  /\ lock[w] = "free"
  /\ jobs' = Append(jobs, NewJob(w, request[w]))
  /\ Goto(Caller(w), "idle")
  /\ request' = [request EXCEPT ![w] = NoOp]
  /\ UNCHANGED <<storeVars, lock, batch, attempt, syncs, faultVars, abandoned, mode>>

\* With the lock: insert the job, then _schedule_flush_locked.  Only the caller
\* touches what the lock protects, so the two are one step.
EnqueueLocked(w) ==
  /\ pc[Caller(w)] = "enqueue"
  /\ lock[w] = "free"
  /\ jobs' = Append(jobs, NewJob(w, request[w]))
  /\ pc' = [pc EXCEPT ![Caller(w)] = "idle",
                      ![Drain(w)] = IF DrainIsAlive(w) THEN @ ELSE "flush"]
  /\ request' = [request EXCEPT ![w] = NoOp]
  /\ UNCHANGED <<storeVars, lock, batch, attempt, syncs, faultVars, abandoned, mode>>

\* The INSERT of the job raises to the caller; nothing was stored.
EnqueueRaises(w) ==
  /\ pc[Caller(w)] = "enqueue"
  /\ lock[w] = "free"
  /\ upsertFaults < MaxUpsertFaults
  /\ upsertFaults' = upsertFaults + 1
  /\ Goto(Caller(w), "idle")
  /\ request' = [request EXCEPT ![w] = NoOp]
  /\ UNCHANGED <<storeVars, jobs, lock, batch, attempt, syncs, flushFaults, crashes, abandoned, mode>>

-----------------------------------------------------------------------------
(* flush(), _flush_until_idle and _flush_pending_jobs_unlocked *)

CallFlush(w) ==
  /\ pc[Caller(w)] = "idle"
  /\ Goto(Caller(w), "flush")
  /\ UNCHANGED <<storeVars, jobs, lock, batch, attempt, request, syncs, faultVars, abandoned, mode>>

\* Mutant: the snapshot is taken without the lock.
StartFlushUnlocked(w, r) ==
  /\ pc[<<w, r>>] = "flush"
  /\ lock' = [lock EXCEPT ![w] = r]
  /\ batch' = [batch EXCEPT ![<<w, r>>] = PendingJobs]
  /\ Goto(<<w, r>>, "attempt")
  /\ UNCHANGED <<storeVars, jobs, attempt, request, syncs, faultVars, abandoned, mode>>

\* Mutant: jobs that were given up are picked up again.
StartFlushRetriesFailed(w, r) ==
  /\ pc[<<w, r>>] = "flush"
  /\ lock[w] = "free"
  /\ lock' = [lock EXCEPT ![w] = r]
  /\ batch' = [batch EXCEPT ![<<w, r>>] = {j \in DOMAIN jobs : jobs[j].status # "SUCCEEDED"}]
  /\ Goto(<<w, r>>, "attempt")
  /\ UNCHANGED <<storeVars, jobs, attempt, request, syncs, faultVars, abandoned, mode>>

\* Take the lock and a snapshot of the pending jobs, whoever enqueued them.
StartFlush(w, r) ==
  /\ pc[<<w, r>>] = "flush"
  /\ lock[w] = "free"
  /\ lock' = [lock EXCEPT ![w] = r]
  /\ batch' = [batch EXCEPT ![<<w, r>>] = PendingJobs]
  /\ Goto(<<w, r>>, "attempt")
  /\ UNCHANGED <<storeVars, jobs, attempt, request, syncs, faultVars, abandoned, mode>>

BeginAttempt(w, r) ==
  LET a == <<w, r>> IN
  /\ pc[a] = "attempt"
  /\ batch[a] # {}
  /\ Store!BeginUpsert(a, jobs[NextJob(a)].write, Correction[w])
  /\ Goto(a, "commit")
  /\ UNCHANGED <<jobs, lock, batch, attempt, request, syncs, faultVars, abandoned, mode>>

CommitAttempt(w, r) ==
  LET a == <<w, r>> IN
  /\ pc[a] = "commit"
  /\ Store!CommitUpsert(a)
  /\ Goto(a, IF Store!UpsertStatus(op[a]) = "conflict_rejected"
             THEN "markFailed" ELSE "markSucceeded")
  /\ UNCHANGED <<jobs, lock, batch, attempt, request, syncs, faultVars, abandoned, mode>>

\* Mutant: leaving the loop counts as success.
FailAttemptSucceeds(w, r) ==
  LET a == <<w, r>> IN
  /\ pc[a] = "commit"
  /\ upsertFaults < MaxUpsertFaults
  /\ upsertFaults' = upsertFaults + 1
  /\ Store!AbortUpsert(a)
  /\ attempt' = [attempt EXCEPT ![a] = @ + 1]
  /\ Goto(a, IF attempt[a] + 1 < MaxAttempts THEN "attempt" ELSE "markSucceeded")
  /\ UNCHANGED <<jobs, lock, batch, request, syncs, flushFaults, crashes, abandoned, mode>>

\* upsert raises inside the try block: try again, or give the job up.
FailAttempt(w, r) ==
  LET a == <<w, r>> IN
  /\ pc[a] = "commit"
  /\ upsertFaults < MaxUpsertFaults
  /\ upsertFaults' = upsertFaults + 1
  /\ Store!AbortUpsert(a)
  /\ attempt' = [attempt EXCEPT ![a] = @ + 1]
  /\ Goto(a, IF attempt[a] + 1 < MaxAttempts THEN "attempt" ELSE "markFailed")
  /\ UNCHANGED <<jobs, lock, batch, request, syncs, flushFaults, crashes, abandoned, mode>>

NextInBatch(a) ==
  /\ batch' = [batch EXCEPT ![a] = @ \ {NextJob(a)}]
  /\ attempt' = [attempt EXCEPT ![a] = 0]

\* Mutant: the error of an earlier attempt is not forgotten.
MarkSucceededThenFailed(w, r) ==
  LET a == <<w, r>> IN
  /\ pc[a] = "markSucceeded"
  /\ jobs' = [jobs EXCEPT ![NextJob(a)].status = "SUCCEEDED"]
  /\ IF attempt[a] > 0
     THEN Goto(a, "markFailed") /\ UNCHANGED <<batch, attempt>>
     ELSE Goto(a, "attempt") /\ NextInBatch(a)
  /\ UNCHANGED <<storeVars, lock, request, syncs, faultVars, abandoned, mode>>

\* mark_job_succeeded: the UPDATE does not look at the status it replaces.
MarkSucceeded(w, r) ==
  LET a == <<w, r>> IN
  /\ pc[a] = "markSucceeded"
  /\ jobs' = [jobs EXCEPT ![NextJob(a)].status = "SUCCEEDED"]
  /\ NextInBatch(a)
  /\ Goto(a, "attempt")
  /\ UNCHANGED <<storeVars, lock, request, syncs, faultVars, abandoned, mode>>

\* mark_job_failed
MarkFailed(w, r) ==
  LET a == <<w, r>> IN
  /\ pc[a] = "markFailed"
  /\ jobs' = [jobs EXCEPT ![NextJob(a)].status = "FAILED_PERMANENT",
                          ![NextJob(a)].attempts = @ + 1]
  /\ NextInBatch(a)
  /\ Goto(a, "attempt")
  /\ UNCHANGED <<storeVars, lock, request, syncs, faultVars, abandoned, mode>>

\* flush() returns the counts of its batch.
ReturnFromFlush(w) ==
  LET a == Caller(w) IN
  /\ pc[a] = "attempt"
  /\ batch[a] = {}
  /\ lock' = [lock EXCEPT ![w] = "free"]
  /\ Goto(a, "idle")
  /\ UNCHANGED <<storeVars, jobs, batch, attempt, request, syncs, faultVars, abandoned, mode>>

\* Mutant: the thread returns without setting _flush_thread to None first.
DrainStaysListed(w) ==
  LET a == Drain(w) IN
  /\ pc[a] = "attempt"
  /\ batch[a] = {}
  /\ lock' = [lock EXCEPT ![w] = "free"]
  /\ Goto(a, IF PendingJobs = {} THEN "unwinding" ELSE "flush")
  /\ UNCHANGED <<storeVars, jobs, batch, attempt, request, syncs, faultVars, abandoned, mode>>

\* The drain ends only when it sees no pending job under the lock; otherwise it
\* gives the lock up and starts over.
DrainUntilIdle(w) ==
  LET a == Drain(w) IN
  /\ pc[a] = "attempt"
  /\ batch[a] = {}
  /\ lock' = [lock EXCEPT ![w] = "free"]
  /\ Goto(a, IF PendingJobs = {} THEN "none" ELSE "flush")
  /\ UNCHANGED <<storeVars, jobs, batch, attempt, request, syncs, faultVars, abandoned, mode>>

\* Nobody resumes the jobs of a thread that died until the next write or flush.
Abandon(w) == abandoned' = abandoned \cup {j \in PendingJobs : jobs[j].owner = w}

\* A database call outside the try block raises: marking a job, or reading the
\* pending jobs.  The with block releases the lock; the exception reaches the
\* caller of flush(), or ends the daemon thread.
FlushRaises(w, r) ==
  LET a == <<w, r>> IN
  /\ flushFaults < MaxFlushFaults
  /\ \/ pc[a] \in {"markSucceeded", "markFailed"}
     \/ pc[a] = "flush" /\ lock[w] = "free"
     \/ r = "drain" /\ pc[a] = "attempt" /\ batch[a] = {}
  /\ flushFaults' = flushFaults + 1
  /\ lock' = [lock EXCEPT ![w] = "free"]
  /\ batch' = [batch EXCEPT ![a] = {}]
  /\ attempt' = [attempt EXCEPT ![a] = 0]
  /\ Goto(a, IF r = "drain" THEN "unwinding" ELSE "idle")
  /\ IF r = "drain" THEN Abandon(w) ELSE UNCHANGED abandoned
  /\ UNCHANGED <<storeVars, jobs, request, syncs, upsertFaults, crashes, mode>>

\* The interpreter finishes the thread: is_alive() becomes false.
ThreadEnds(w) ==
  /\ pc[Drain(w)] = "unwinding"
  /\ Goto(Drain(w), "dead")
  /\ UNCHANGED <<storeVars, jobs, lock, batch, attempt, request, syncs, faultVars, abandoned, mode>>

-----------------------------------------------------------------------------
(* The process dies and a new writer takes this one's place.  Tables survive, *)
(* the open transaction and everything in memory do not.                      *)
Crash(w) ==
  LET mine == {Caller(w), Drain(w)} IN
  /\ crashes < MaxCrashes
  /\ crashes' = crashes + 1
  /\ pc' = [pc EXCEPT ![Caller(w)] = "idle", ![Drain(w)] = "none"]
  /\ lock' = [lock EXCEPT ![w] = "free"]
  /\ batch' = [a \in Agents |-> IF a \in mine THEN {} ELSE batch[a]]
  /\ attempt' = [a \in Agents |-> IF a \in mine THEN 0 ELSE attempt[a]]
  /\ op' = [a \in Agents |-> IF a \in mine THEN NoOp ELSE op[a]]
  /\ request' = [request EXCEPT ![w] = NoOp]
  /\ Abandon(w)
  /\ UNCHANGED <<versions, current, conflicts, now, jobs, syncs, upsertFaults, flushFaults,
                 mode>>

Tick == Store!Tick /\ UNCHANGED writerVars

-----------------------------------------------------------------------------

Init ==
  /\ Store!Init
  /\ mode \in Modes
  /\ jobs = << >>
  /\ lock = [w \in Writers |-> "free"]
  /\ pc = [a \in Agents |-> IF a[2] = "caller" THEN "idle" ELSE "none"]
  /\ batch = [a \in Agents |-> {}]
  /\ attempt = [a \in Agents |-> 0]
  /\ request = [w \in Writers |-> NoOp]
  /\ syncs = 0
  /\ upsertFaults = 0 /\ flushFaults = 0 /\ crashes = 0
  /\ abandoned = {}

\* What a client writes is what it has just fetched.
FetchedWrites ==
  [key: Keys, kind: {"ROWS"}, payload: Payloads, fetched: {now}]
    \cup [key: Keys, kind: {"PROVISIONAL_NO_DATA"}, payload: {NoData}, fetched: {now}]

\* The steps a thread takes by itself once it has been called or started.
Work(w, r) ==
  \/ StartFlush(w, r)
  \/ BeginAttempt(w, r)
  \/ CommitAttempt(w, r)
  \/ MarkSucceeded(w, r)
  \/ MarkFailed(w, r)
  \/ r = "caller" /\ (ReturnFromFlush(w) \/ EnqueueLocked(w) \/ ReturnSync(w))
  \/ r = "drain" /\ (DrainUntilIdle(w) \/ ThreadEnds(w))

Next ==
  \/ \E w \in Writers :
       \/ \E wr \in FetchedWrites : WriteSync(w, wr) \/ WriteAsync(w, wr) \/ WriteAuto(w, wr)
       \/ CallFlush(w)
       \/ \E r \in Roles : Work(w, r) \/ FailAttempt(w, r) \/ FlushRaises(w, r)
       \/ EnqueueRaises(w)
       \/ Crash(w)
  \/ Tick

\* Threads are scheduled: one that can take a step of its own takes it.  Nothing
\* is assumed of callers, faults or time.
Fairness == \A w \in Writers, r \in Roles : WF_vars(Work(w, r))

Spec == Init /\ [][Next]_vars /\ Fairness

-----------------------------------------------------------------------------
(* Properties *)

\* Every variable ranges over the rows, requests and program points above.
TypeOK ==
  /\ Store!TypeOK
  /\ mode \in Modes
  /\ jobs \in Seq(Job)
  /\ lock \in [Writers -> Roles \cup {"free"}]
  /\ pc \in [Agents -> CallerPoints \cup DrainPoints]
  /\ \A w \in Writers : pc[Caller(w)] \in CallerPoints /\ pc[Drain(w)] \in DrainPoints
  /\ batch \in [Agents -> SUBSET DOMAIN jobs]
  /\ attempt \in [Agents -> 0..MaxAttempts]
  /\ request \in [Writers -> Store!Write \cup {NoOp}]
  /\ {syncs, upsertFaults, flushFaults, crashes} \subseteq Nat
  /\ abandoned \subseteq DOMAIN jobs

\* An agent is between the snapshot and the end of its flush exactly while it
\* holds its writer's lock: the caller's flush() and the daemon thread of one
\* writer never work on the same snapshot.
FlushExclusive ==
  \A w \in Writers, r \in Roles : InFlush(<<w, r>>) <=> lock[w] = r

\* A job marked SUCCEEDED has its payload among the versions of its key, across
\* crashes, retries and other writers' flushes.
SucceededIsMaterialised ==
  \A j \in DOMAIN jobs : jobs[j].status = "SUCCEEDED" =>
    \E v \in DOMAIN versions :
      /\ versions[v].key = jobs[j].write.key
      /\ versions[v].checksum = jobs[j].write.payload

\* A pending job of an auto-flush writer has a live thread to materialise it,
\* unless it was already pending when such a thread died
\* (backend/tests/test_cache_writer.py:98).
NoLostWakeup ==
  \A j \in PendingJobs :
    mode[jobs[j].owner] = "auto" =>
      DrainIsAlive(jobs[j].owner) \/ j \in abandoned

\* The same as long as no exception has ended a thread: neither the race between
\* an enqueue and the end of an idle thread nor a crash loses a job.
NoLostWakeupUnlessThreadRaises == flushFaults = 0 => NoLostWakeup

\* A job is given up only for a rejected conflict or after MaxAttempts failed
\* transactions, not for a failure a later attempt made good.
NoSpuriousFailure ==
  \A j \in DOMAIN jobs : jobs[j].status = "FAILED_PERMANENT" =>
    \/ upsertFaults >= MaxAttempts
    \/ \E c \in conflicts :
         /\ c.resolution = "REJECTED"
         /\ c.key = jobs[j].write.key
         /\ c.incomingChecksum = jobs[j].write.payload

\* Whichever writers work on the tables, what they leave is sound: locks and snapshots belong
\* together, SUCCEEDED means stored, FAILED_PERMANENT refused or given up, and pointers hold.
StatusFollowsOutcome ==
  TypeOK /\ FlushExclusive /\ SucceededIsMaterialised /\ NoSpuriousFailure /\ Store!PointerIntegrity

\* With one writer, a settled job is never settled again.
SettledIsFinal ==
  [][\A j \in DOMAIN jobs : jobs[j].status # "PENDING" =>
        jobs'[j].status = jobs[j].status]_vars

\* With one writer, what a key serves never moves back to an earlier fetch, also
\* when a crash makes the flush replay jobs it had already upserted.
FetchedNeverRegresses ==
  [][\A k \in Keys : current[k] # NoEntry =>
        /\ current'[k] # NoEntry
        /\ current'[k].fetched >= current[k].fetched]_vars

\* With one writer, replaying a job creates no second version of it: a key has
\* no more versions than jobs.
ReplayCreatesNoDuplicate ==
  \A k \in Keys :
    Cardinality({v \in DOMAIN versions : versions[v].key = k})
      <= Cardinality({j \in DOMAIN jobs : jobs[j].write.key = k})

\* With one writer, what is replayed after a crash leaves no trace: no second
\* version, no second settlement, no way back to an earlier fetch.
ReplayIsHarmless == []ReplayCreatesNoDuplicate /\ SettledIsFinal /\ FetchedNeverRegresses

\* Every durably enqueued job is materialised or given up in the end, unless a
\* thread or the process dies.
EveryJobSettles ==
  \A j \in 1..MaxJobs :
    (j \in PendingJobs) ~>
      (j \in DOMAIN jobs \ PendingJobs \/ flushFaults + crashes > 0)

=============================================================================
