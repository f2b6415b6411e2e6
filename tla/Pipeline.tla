------------------------------ MODULE Pipeline ------------------------------
(***************************************************************************)
(* The life of a URL check across the API, the BullMQ queue and the        *)
(* workers, on top of the tables of BatchStore:                            *)
(*   - an API request commits rows, then enqueues one job per URL;         *)
(*   - a worker takes a job, claims the URL, checks it, and either writes  *)
(*     the result or releases the URL and lets BullMQ redeliver;           *)
(*   - the sweep reclaims URLs stuck in PROCESSING and enqueues every      *)
(*     PENDING URL again.                                                  *)
(* Every point where another process can act is a step boundary.  BullMQ   *)
(* itself is external: its operations are modelled from their use here.    *)
(*                                                                         *)
(* Bounds: MaxTransient (how often targets fail transiently: an assumption *)
(* on the targets, not on the code) and MaxFaults (crashes, infrastructure *)
(* errors and lost job locks).                                             *)
(***************************************************************************)
EXTENDS BatchStore

CONSTANTS
  Worker,       \* concurrent job processors, of any worker process
  Sweeper,      \* sweeps that may overlap, of any API instance's timer
  MaxAttempts,  \* MAX_RETRIES + 1: job attempts, and the worker's cap
  MaxTransient, \* bound: transient failures of targets
  MaxFaults,    \* bound: crashes, infrastructure errors, lost locks
  SlowChecks,   \* may a check in flight outlive STUCK_PROCESSING_MS?
  LockLoss,     \* may a running job lose its BullMQ lock?
  NoUrl, NoWorker

ASSUME PipelineAssumption ==
  /\ MaxAttempts \in Nat \ {0} /\ MaxTransient \in Nat /\ MaxFaults \in Nat
  /\ SlowChecks \in BOOLEAN /\ LockLoss \in BOOLEAN
  /\ NoUrl \notin Url /\ NoWorker \notin Worker /\ Client \cap Sweeper = {}

Handler == Client \cup Sweeper

VARIABLES
  job,       \* job[u]: the BullMQ job with id u
  wk,        \* wk[w]: where processor w is, in url-check.ts
  todo,      \* todo[h]: URLs handler h still has to enqueue
  adding,    \* adding[h]: URL whose old job h has removed and not yet re-added
  finding,   \* sweepers between recoverStuck and findReconcilableJobs
  attempts,  \* attempt_count of the current round, up to MaxAttempts + 1
  flakes,    \* transient failures so far
  faults     \* faults so far

vars == <<storeVars, job, wk, todo, adding, finding, attempts, flakes, faults>>

NoJob  == [state |-> "none", made |-> 0, owner |-> NoWorker]
NewJob == [NoJob EXCEPT !.state = "waiting"]
Idle   == [pc |-> "idle", url |-> NoUrl, made |-> 0, outcome |-> "none"]

Removable == {"waiting", "delayed", "completed", "failed"}

At(w, pc) == wk[w].pc = pc
Goto(w, pc, outcome) == wk' = [wk EXCEPT ![w].pc = pc, ![w].outcome = outcome]
Free(h) == todo[h] = {} /\ adding[h] = NoUrl /\ h \notin finding
Fault == faults < MaxFaults /\ faults' = faults + 1

queueVars   == <<job, wk>>
handlerVars == <<todo, adding, finding>>
countVars   == <<attempts, flakes, faults>>

PipelineInit ==
  /\ Init
  /\ job      = [u \in Url |-> NoJob]
  /\ wk       = [w \in Worker |-> Idle]
  /\ todo     = [h \in Handler |-> {}]
  /\ adding   = [h \in Handler |-> NoUrl]
  /\ finding  = {}
  /\ attempts = [u \in Url |-> 0]
  /\ flakes   = 0
  /\ faults   = 0

-----------------------------------------------------------------------------
(* API requests *)

CreateBatch(c, b) ==
  /\ Free(c) /\ retryTx[c] = NoBatch
  /\ CreateWithUrls(b)
  /\ todo' = [todo EXCEPT ![c] = RowsOf(b)]
  /\ UNCHANGED <<queueVars, adding, finding, countVars>>

\* The queue is left alone: jobs of a cancelled URL find nothing to claim.
CancelBatch(b) ==
  /\ Cancel(b)
  /\ UNCHANGED <<queueVars, handlerVars, countVars>>

RetryFailedRead(c, b) ==
  /\ Free(c)
  /\ RetryRead(c, b)
  /\ UNCHANGED <<queueVars, handlerVars, countVars>>

RetryFailedWrite(c, S) ==
  /\ RetryWrite(c, S)
  /\ todo' = [todo EXCEPT ![c] = S]
  /\ attempts' = [u \in Url |-> IF u \in S THEN 0 ELSE attempts[u]]
  /\ UNCHANGED <<queueVars, adding, finding, flakes, faults>>

-----------------------------------------------------------------------------
(* The reconciliation sweep *)

\* The code only looks at the row's age; a live check is only this old when
\* checks may be slow.
InFlight(u) == \E w \in Worker : wk[w].url = u /\ wk[w].pc \in {"check", "report"}
MayBeStuck  == {u \in Url : Recoverable(u) /\ (SlowChecks \/ ~InFlight(u))}

SweepRecover(s, S) ==
  /\ Free(s)
  /\ S \subseteq MayBeStuck
  /\ IF S = {} THEN UNCHANGED storeVars ELSE RecoverStuck(S)
  /\ finding' = finding \cup {s}
  /\ UNCHANGED <<queueVars, todo, adding, countVars>>

\* Overlooks the batches already started.
BadReconcilable == {u \in Url : urls[u] = "PENDING" /\ batches[BatchOf[u]].status = "PENDING"}

Reconcilable == {u \in Url : urls[u] = "PENDING" /\ batches[BatchOf[u]].status \in Active}

SweepFind(s) ==
  /\ s \in finding
  /\ finding' = finding \ {s}
  /\ todo' = [todo EXCEPT ![s] = Reconcilable]
  /\ UNCHANGED <<storeVars, queueVars, adding, countVars>>

-----------------------------------------------------------------------------
(* Enqueueing: queue.remove, then queue.add, both keyed by the URL id *)

\* Removes a job that a worker is running.
BadRemoveActive(h, u) ==
  /\ adding[h] = NoUrl /\ u \in todo[h]
  /\ job' = [job EXCEPT ![u] = NoJob]
  /\ todo' = [todo EXCEPT ![h] = @ \ {u}]
  /\ adding' = [adding EXCEPT ![h] = u]
  /\ UNCHANGED <<storeVars, wk, finding, countVars>>

\* Relies on the add alone, without removing the finished job.
BadKeepOldJob(h, u) ==
  /\ adding[h] = NoUrl /\ u \in todo[h]
  /\ todo' = [todo EXCEPT ![h] = @ \ {u}]
  /\ adding' = [adding EXCEPT ![h] = u]
  /\ UNCHANGED <<storeVars, queueVars, finding, countVars>>

\* Removing an active job fails, and so does any removal when Redis is down:
\* the error is swallowed.
EnqueueRemove(h, u) ==
  /\ adding[h] = NoUrl /\ u \in todo[h]
  /\ \/ job' = [job EXCEPT ![u] = IF @.state \in Removable THEN NoJob ELSE @] /\ UNCHANGED faults
     \/ Fault /\ UNCHANGED job
  /\ todo' = [todo EXCEPT ![h] = @ \ {u}]
  /\ adding' = [adding EXCEPT ![h] = u]
  /\ UNCHANGED <<storeVars, wk, finding, attempts, flakes>>

\* Adding under an id that exists, in whatever state, is a silent no-op.
EnqueueAdd(h) ==
  /\ adding[h] # NoUrl
  /\ job' = [job EXCEPT ![adding[h]] = IF @ = NoJob THEN NewJob ELSE @]
  /\ adding' = [adding EXCEPT ![h] = NoUrl]
  /\ UNCHANGED <<storeVars, wk, todo, finding, countVars>>

\* queue.add throws: logged, and the URL is left to the sweep.
EnqueueFails(h) ==
  /\ Fault
  /\ adding[h] # NoUrl
  /\ adding' = [adding EXCEPT ![h] = NoUrl]
  /\ UNCHANGED <<storeVars, queueVars, todo, finding, attempts, flakes>>

\* The process of handler h dies: what it had not enqueued is forgotten, an
\* uncommitted transaction rolls back.
ApiCrash(h) ==
  /\ Fault
  /\ ~Free(h) \/ (h \in Client /\ retryTx[h] # NoBatch)
  /\ todo' = [todo EXCEPT ![h] = {}]
  /\ adding' = [adding EXCEPT ![h] = NoUrl]
  /\ finding' = finding \ {h}
  /\ retryTx' = [c \in Client |-> IF c = h THEN NoBatch ELSE retryTx[c]]
  /\ UNCHANGED <<urls, batches, queueVars, attempts, flakes>>

-----------------------------------------------------------------------------
(* BullMQ (external) *)

Pick(w, u) ==
  /\ At(w, "idle") /\ job[u].state = "waiting"
  /\ job' = [job EXCEPT ![u].state = "active", ![u].owner = w]
  /\ wk' = [wk EXCEPT ![w] = [pc |-> "claim", url |-> u, made |-> job[u].made, outcome |-> "none"]]
  /\ UNCHANGED <<storeVars, handlerVars, countVars>>

\* The backoff delay of a failed attempt is over.
Promote(u) ==
  /\ job[u].state = "delayed"
  /\ job' = [job EXCEPT ![u].state = "waiting"]
  /\ UNCHANGED <<storeVars, wk, handlerVars, countVars>>

\* The lock of an active job ran out: it is redelivered, or failed when that
\* happened before.
Stalled(u) ==
  LET w == job[u].owner IN
  /\ job[u].state = "active"
  /\ wk[w].url # u
  /\ \E s \in {"waiting", "failed"} : job' = [job EXCEPT ![u].state = s, ![u].owner = NoWorker]
  /\ UNCHANGED <<storeVars, wk, handlerVars, countVars>>

\* The same while its processor is still running it.
LoseLock(u) ==
  /\ LockLoss /\ Fault
  /\ job[u].state = "active"
  /\ job' = [job EXCEPT ![u].state = "waiting", ![u].owner = NoWorker]
  /\ UNCHANGED <<storeVars, wk, handlerVars, attempts, flakes>>

\* Finished jobs are trimmed (removeOnComplete, removeOnFail).
Trim(u) ==
  /\ job[u].state \in {"completed", "failed"}
  /\ job' = [job EXCEPT ![u] = NoJob]
  /\ UNCHANGED <<storeVars, wk, handlerVars, countVars>>

AfterThrow(j) ==
  [state |-> IF j.made + 1 < MaxAttempts THEN "delayed" ELSE "failed",
   made |-> j.made + 1, owner |-> NoWorker]

\* The processor returned ("ok") or threw; without the lock BullMQ ignores it.
EndJob(w) ==
  LET u == wk[w].url IN
  /\ At(w, "end")
  /\ job' = IF job[u].owner # w THEN job
            ELSE IF wk[w].outcome = "throw" THEN [job EXCEPT ![u] = AfterThrow(@)]
            ELSE [job EXCEPT ![u].state = "completed", ![u].owner = NoWorker]
  /\ wk' = [wk EXCEPT ![w] = Idle]
  /\ UNCHANGED <<storeVars, handlerVars, countVars>>

-----------------------------------------------------------------------------
(* The processor, url-check.ts *)

ClaimUrl(w) ==
  LET u == wk[w].url IN
  /\ At(w, "claim")
  /\ Claim(u)
  /\ attempts' = [attempts EXCEPT ![u] = IF @ > MaxAttempts THEN @ ELSE @ + 1]
  /\ Goto(w, "check", "none")
  /\ UNCHANGED <<job, handlerVars, flakes, faults>>

\* Owned by another worker, finished, or cancelled: return without work.
NotClaimable(w) ==
  /\ At(w, "claim") /\ urls[wk[w].url] # "PENDING"
  /\ Goto(w, "end", "ok")
  /\ UNCHANGED <<storeVars, job, handlerVars, countVars>>

\* Acquire a slot and run checkUrl: a result, retryable or not.
Check(w, outcome) ==
  /\ At(w, "check")
  /\ IF outcome = "TRANSIENT" THEN flakes < MaxTransient /\ flakes' = flakes + 1
                               ELSE UNCHANGED flakes
  /\ Goto(w, "report", outcome)
  /\ UNCHANGED <<storeVars, job, handlerVars, attempts, faults>>

BadWillRetry(w) == wk[w].outcome = "TRANSIENT" /\ wk[w].made < MaxAttempts - 2

WillRetry(w) == wk[w].outcome = "TRANSIENT" /\ wk[w].made < MaxAttempts - 1

\* A transient failure with attempts left: release and rethrow, unless the
\* URL is no longer PROCESSING.
ReportRetry(w) ==
  LET u == wk[w].url IN
  /\ At(w, "report") /\ WillRetry(w)
  /\ IF urls[u] = "PROCESSING" THEN ReleaseForRetry(u) /\ Goto(w, "end", "throw")
                               ELSE UNCHANGED storeVars /\ Goto(w, "end", "ok")
  /\ UNCHANGED <<job, handlerVars, countVars>>

\* Any other result is final; it is dropped if the URL is not PROCESSING.
ReportFinal(w) ==
  LET u == wk[w].url IN
  /\ At(w, "report") /\ ~WillRetry(w)
  /\ IF urls[u] = "PROCESSING"
     THEN PersistResult(u, IF wk[w].outcome = "SUCCESS" THEN "SUCCESS" ELSE "FAILED")
     ELSE UNCHANGED storeVars
  /\ Goto(w, "end", "ok")
  /\ UNCHANGED <<job, handlerVars, countVars>>

\* An infrastructure error during the claim: the processor throws.
ClaimThrows(w) ==
  /\ Fault
  /\ At(w, "claim")
  /\ Goto(w, "end", "throw")
  /\ UNCHANGED <<storeVars, job, handlerVars, attempts, flakes>>

\* An infrastructure error after the claim: release the URL, if the database
\* lets us, and rethrow.
ProcessorThrows(w) ==
  LET u == wk[w].url IN
  /\ Fault
  /\ wk[w].pc \in {"check", "report"}
  /\ \/ ReleaseForRetry(u)
     \/ UNCHANGED storeVars
  /\ Goto(w, "end", "throw")
  /\ UNCHANGED <<job, handlerVars, attempts, flakes>>

WorkerCrash(w) ==
  /\ Fault
  /\ ~At(w, "idle")
  /\ wk' = [wk EXCEPT ![w] = Idle]
  /\ UNCHANGED <<storeVars, job, handlerVars, attempts, flakes>>

-----------------------------------------------------------------------------

Work(w) ==
  \/ ClaimUrl(w) \/ NotClaimable(w)
  \/ \E outcome \in {"SUCCESS", "FAILED", "TRANSIENT"} : Check(w, outcome)
  \/ ReportRetry(w) \/ ReportFinal(w) \/ EndJob(w)

Enqueue(h) == EnqueueAdd(h) \/ \E u \in Url : EnqueueRemove(h, u)

PipelineNext ==
  \/ \E b \in Batch : CancelBatch(b) \/ \E c \in Client : CreateBatch(c, b) \/ RetryFailedRead(c, b)
  \/ \E c \in Client, S \in SUBSET Url : RetryFailedWrite(c, S)
  \/ \E s \in Sweeper : SweepFind(s) \/ \E S \in SUBSET Url : SweepRecover(s, S)
  \/ \E h \in Handler : Enqueue(h) \/ EnqueueFails(h) \/ ApiCrash(h)
  \/ \E u \in Url : Promote(u) \/ Stalled(u) \/ LoseLock(u) \/ Trim(u) \/ \E w \in Worker : Pick(w, u)
  \/ \E w \in Worker : Work(w) \/ ClaimThrows(w) \/ ProcessorThrows(w) \/ WorkerCrash(w)

PipelineSpec == PipelineInit /\ [][PipelineNext]_vars

\* Running processes go on; BullMQ promotes, redelivers and hands out jobs,
\* even if the sweep keeps re-adding them; the timer keeps sweeping, and a row
\* that nobody checks gets old enough.  Faults, requests, trimming and the
\* reclaim of a live check are never owed.
Fairness ==
  /\ \A w \in Worker : WF_vars(Work(w))
  /\ \A h \in Handler : WF_vars(Enqueue(h))
  /\ \A s \in Sweeper : WF_vars(SweepFind(s)) /\ WF_vars(\E S \in SUBSET Url : SweepRecover(s, S))
  /\ \A u \in Url : /\ WF_vars(Promote(u)) /\ WF_vars(Stalled(u))
                    /\ SF_vars(\E w \in Worker : Pick(w, u))
                    /\ SF_vars(\E s \in Sweeper, S \in SUBSET Url :
                                u \in S /\ ~InFlight(u) /\ SweepRecover(s, S))

FairSpec == PipelineSpec /\ Fairness

-----------------------------------------------------------------------------
(* Properties *)

\* queue.ts:41: no second concurrent run of a check, although the sweep
\* reclaims URLs that are still in flight and re-adds their jobs.
SingleChecker ==
  \A w1, w2 \in Worker :
    wk[w1].pc \in {"check", "report"} /\ wk[w2].pc \in {"check", "report"} /\ wk[w1].url = wk[w2].url
      => w1 = w2

\* A transient failure becomes final only after MaxAttempts claims of the
\* round: the cap compares BullMQ's attemptsMade, the promise is about
\* attempt_count, and requests, sweeps and cancellations move them apart.
NoEarlyGiveUp ==
  \A w \in Worker :
    At(w, "report") /\ wk[w].outcome = "TRANSIENT" /\ ~WillRetry(w) /\ urls[wk[w].url] = "PROCESSING"
      => attempts[wk[w].url] >= MaxAttempts

\* INV-5: at most MaxAttempts attempts per round.  The code violates it: the
\* sweep replaces a job waiting out its backoff by a new one with no attempts
\* made.
AttemptsPerRound == \A u \in Url : attempts[u] <= MaxAttempts

\* The sweep takes a row away from a check that is still running.
ReclaimsLive == \E s \in Sweeper, S \in SUBSET Url : SweepRecover(s, S) /\ \E u \in S : InFlight(u)

\* A row that is taken from every check of it before the result is in, and put
\* back every time, never settles: the rows are older than a check may get
\* only so often.
ChecksGetFaster == <>[][~ReclaimsLive]_vars

\* Every URL gets an outcome, however requests, crashes, lost jobs and the
\* sweep interleave, and however often the sweep took a running check for a
\* dead one, as long as it does not do so for ever.
EveryUrlSettles ==
  ChecksGetFaster =>
    \A u \in Url : urls[u] = "PENDING" ~> urls[u] \in {"SUCCESS", "FAILED", "CANCELLED"}

\* Every batch comes to a terminal status, under the same condition and unless
\* somebody keeps retrying its failed URLs for ever: no lost job or missed
\* finalization keeps it active.
EveryBatchEnds ==
  ChecksGetFaster =>
    \A b \in Batch : <>[](batches[b].status \in Active) => []<>(\E c \in Client : retryTx[c] = b)
=============================================================================
