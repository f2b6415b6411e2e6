--------------------------- MODULE PipelineProofs ---------------------------
(***************************************************************************)
(* The pipeline of API, queue and workers touches the tables only through  *)
(* the transactions of BatchStore, so all that BatchStoreProofs shows of   *)
(* the tables holds in it; a job id keeps the checks of a URL apart; and   *)
(* the attempts of a round are neither too few nor too many but for the    *)
(* causes named here.                                                      *)
(***************************************************************************)
EXTENDS Pipeline, BatchStoreProofs

-----------------------------------------------------------------------------
(* The pipeline implements the store *)

\* The store's view of a crash of the API: at most it ends an open retry.
LEMMA CrashIsStoreStep ==
  ASSUME TypeOK, NEW h \in Handler, ApiCrash(h)
  PROVE  [Next]_storeVars
  <1>1. urls' = urls /\ batches' = batches /\ urls = [u \in Url |-> urls[u]]
    BY DEF ApiCrash, TypeOK
  <1>2. CASE h \in Client /\ retryTx[h] # NoBatch
    <2>1. retryTx' = [retryTx EXCEPT ![h] = NoBatch]
      BY <1>2 DEF ApiCrash, TypeOK
    <2>2. RetryWrite(h, {})
      BY <1>1, <1>2, <2>1 DEF RetryWrite, SetRows
    <2>. QED
      BY <1>2, <2>2 DEF Next
  <1>3. CASE ~(h \in Client /\ retryTx[h] # NoBatch)
    <2>1. retryTx' = retryTx
      BY <1>3 DEF ApiCrash, TypeOK
    <2>. QED
      BY <1>1, <2>1 DEF storeVars
  <1>. QED
    BY <1>2, <1>3

\* Every other step of a worker is a transaction of the store or leaves it.
LEMMA WorkerIsStoreStep ==
  ASSUME NEW w \in Worker, wk[w].pc # "idle" => wk[w].url \in Url,
         Work(w) \/ ClaimThrows(w) \/ ProcessorThrows(w) \/ WorkerCrash(w)
  PROVE  [Next]_storeVars
  <1>. DEFINE u == wk[w].url
  <1>1. CASE ClaimUrl(w)
    <2>1. u \in Url /\ Claim(u)
      BY <1>1 DEF ClaimUrl, At
    <2>. QED
      BY <2>1 DEF Next
  <1>2. CASE ReportRetry(w)
    <2>1. u \in Url /\ (ReleaseForRetry(u) \/ UNCHANGED storeVars)
      BY <1>2 DEF ReportRetry, At
    <2>. QED
      BY <2>1 DEF Next
  <1>3. CASE ReportFinal(w)
    <2>1. u \in Url /\ (PersistResult(u, "SUCCESS") \/ PersistResult(u, "FAILED") \/ UNCHANGED storeVars)
      BY <1>3 DEF ReportFinal, At
    <2>. QED
      BY <2>1 DEF Next
  <1>4. CASE ProcessorThrows(w)
    <2>1. u \in Url /\ (ReleaseForRetry(u) \/ UNCHANGED storeVars)
      BY <1>4 DEF ProcessorThrows
    <2>. QED
      BY <2>1 DEF Next
  <1>5. CASE \/ NotClaimable(w) \/ EndJob(w) \/ ClaimThrows(w) \/ WorkerCrash(w)
             \/ \E outcome \in {"SUCCESS", "FAILED", "TRANSIENT"} : Check(w, outcome)
    BY <1>5 DEF NotClaimable, EndJob, ClaimThrows, WorkerCrash, Check
  <1>. QED
    BY <1>1, <1>2, <1>3, <1>4, <1>5 DEF Work

-----------------------------------------------------------------------------
(* The types of the queue *)

Pc       == {"idle", "claim", "check", "report", "end"}
JobState == {"none", "waiting", "delayed", "active", "completed", "failed"}
Outcome  == {"none", "ok", "throw", "SUCCESS", "FAILED", "TRANSIENT"}
Job      == [state : JobState, made : Nat, owner : Worker \cup {NoWorker}]
Process  == [pc : Pc, url : Url \cup {NoUrl}, made : Nat, outcome : Outcome]

QueueTypeOK ==
  /\ job \in [Url -> Job]
  /\ wk \in [Worker -> Process]
  /\ \A w \in Worker : ~At(w, "idle") => wk[w].url \in Url
  /\ todo \in [Handler -> SUBSET Url]
  /\ adding \in [Handler -> Url \cup {NoUrl}]
  /\ attempts \in [Url -> Nat]

LEMMA InitQueueType == PipelineInit => QueueTypeOK
  BY DEF PipelineInit, QueueTypeOK, Job, Process, Pc, JobState, Outcome, NoJob, Idle, At

\* Requests, the sweep and crashes of the API.
LEMMA HandlerQueueType ==
  ASSUME QueueTypeOK,
         \/ \E b \in Batch : CancelBatch(b) \/ \E c \in Client : CreateBatch(c, b) \/ RetryFailedRead(c, b)
         \/ \E c \in Client, S \in SUBSET Url : RetryFailedWrite(c, S)
         \/ \E s \in Sweeper : SweepFind(s) \/ \E S \in SUBSET Url : SweepRecover(s, S)
         \/ \E h \in Handler : EnqueueFails(h) \/ ApiCrash(h)
  PROVE  QueueTypeOK' /\ job' = job /\ wk' = wk
  <1>1. job' = job /\ wk' = wk
    BY DEF CancelBatch, CreateBatch, RetryFailedRead, RetryFailedWrite, SweepFind, SweepRecover,
           EnqueueFails, ApiCrash, queueVars
  <1>2. adding' \in [Handler -> Url \cup {NoUrl}]
    BY DEF CancelBatch, CreateBatch, RetryFailedRead, RetryFailedWrite, SweepFind, SweepRecover,
           EnqueueFails, ApiCrash, handlerVars, QueueTypeOK
  <1>3. todo' \in [Handler -> SUBSET Url]
    BY DEF CancelBatch, CreateBatch, RetryFailedRead, RetryFailedWrite, SweepFind, SweepRecover,
           EnqueueFails, ApiCrash, handlerVars, QueueTypeOK, RowsOf, Reconcilable
  <1>4. attempts' \in [Url -> Nat]
    BY DEF CancelBatch, CreateBatch, RetryFailedRead, RetryFailedWrite, SweepFind, SweepRecover,
           EnqueueFails, ApiCrash, countVars, QueueTypeOK
  <1>. QED
    BY <1>1, <1>2, <1>3, <1>4 DEF QueueTypeOK, At

\* What BullMQ does to a job: only Pick, below, makes one active.
LEMMA QueueSteps ==
  ASSUME QueueTypeOK, NEW u \in Url, Promote(u) \/ Stalled(u) \/ LoseLock(u) \/ Trim(u)
  PROVE  /\ QueueTypeOK'
         /\ job'[u].state # "active"
         /\ \/ job[u].state \in {"delayed", "active"} /\ job'[u].made = job[u].made
            \/ job'[u] = NoJob /\ job[u].state # "active"
         /\ \A v \in Url \ {u} : job'[v] = job[v]
         /\ UNCHANGED <<storeVars, wk, handlerVars, attempts>>
  <1>1. job \in [Url -> Job] /\ job[u] \in Job
    BY DEF QueueTypeOK
  <1>2. UNCHANGED <<storeVars, wk, handlerVars, attempts>>
    BY DEF Promote, Stalled, LoseLock, Trim, countVars
  <1>3. /\ job' \in [Url -> Job] /\ job'[u].state # "active"
        /\ \/ job[u].state \in {"delayed", "active"} /\ job'[u].made = job[u].made
           \/ job'[u] = NoJob /\ job[u].state # "active"
        /\ \A v \in Url \ {u} : job'[v] = job[v]
    <2>1. CASE Promote(u)
      <3>. DEFINE j == [job[u] EXCEPT !.state = "waiting"]
      <3>1. j \in Job /\ j.state = "waiting" /\ j.made = job[u].made
        BY <1>1 DEF Job, JobState
      <3>2. job' = [job EXCEPT ![u] = j] /\ job[u].state = "delayed"
        BY <2>1 DEF Promote
      <3>. HIDE DEF j
      <3>. QED
        BY <1>1, <3>1, <3>2
    <2>2. CASE Stalled(u) \/ LoseLock(u)
      <3>1. PICK s \in {"waiting", "failed"} : job' = [job EXCEPT ![u].state = s, ![u].owner = NoWorker]
        BY <2>2 DEF Stalled, LoseLock
      <3>. DEFINE j == [job[u] EXCEPT !.state = s, !.owner = NoWorker]
      <3>2. j \in Job /\ j.state = s /\ j.made = job[u].made
        BY <1>1 DEF Job, JobState
      <3>3. job' = [job EXCEPT ![u] = j]
        BY <1>1, <3>1
      <3>4. job[u].state = "active"
        BY <2>2 DEF Stalled, LoseLock
      <3>. HIDE DEF j
      <3>. QED
        BY <1>1, <3>2, <3>3, <3>4
    <2>3. CASE Trim(u)
      BY <1>1, <2>3 DEF Trim, NoJob, Job, JobState
    <2>. QED
      BY <2>1, <2>2, <2>3
  <1>. QED
    BY <1>2, <1>3 DEF QueueTypeOK, At, handlerVars

\* Enqueueing removes no active job and adds none that is not fresh.
LEMMA EnqueueSteps ==
  ASSUME QueueTypeOK, NEW h \in Handler, Enqueue(h)
  PROVE  /\ QueueTypeOK'
         /\ \A u \in Url : \/ job'[u] = job[u]
                           \/ job'[u] = NoJob /\ job[u].state # "active"
                           \/ job'[u] = NewJob /\ job[u].state = "none"
         /\ UNCHANGED <<storeVars, wk, attempts>>
  <1>1. NoJob \in Job /\ NewJob \in Job /\ NoJob.state = "none" /\ job \in [Url -> Job]
    BY DEF NoJob, NewJob, Job, JobState, QueueTypeOK
  <1>2. UNCHANGED <<storeVars, wk, attempts>>
    BY DEF Enqueue, EnqueueRemove, EnqueueAdd, countVars
  <1>3. todo' \in [Handler -> SUBSET Url] /\ adding' \in [Handler -> Url \cup {NoUrl}]
    BY DEF Enqueue, EnqueueRemove, EnqueueAdd, QueueTypeOK
  <1>4. /\ job' \in [Url -> Job]
        /\ \A u \in Url : \/ job'[u] = job[u]
                          \/ job'[u] = NoJob /\ job[u].state # "active"
                          \/ job'[u] = NewJob /\ job[u].state = "none"
    <2>1. ASSUME NEW u \in Url, EnqueueRemove(h, u)
          PROVE  \/ job' = job
                 \/ job' = [job EXCEPT ![u] = NoJob] /\ job[u].state # "active"
      BY <1>1, <2>1 DEF EnqueueRemove, Removable
    <2>2. ASSUME EnqueueAdd(h)
          PROVE  \/ job' = job
                 \/ \E u \in Url : job' = [job EXCEPT ![u] = NewJob] /\ job[u].state = "none"
      BY <1>1, <2>2 DEF EnqueueAdd, QueueTypeOK
    <2>3. ASSUME NEW u \in Url, NEW j \in Job, job' = [job EXCEPT ![u] = j]
          PROVE  /\ job' \in [Url -> Job] /\ job'[u] = j
                 /\ \A v \in Url \ {u} : job'[v] = job[v]
      BY <1>1, <2>3
    <2>. QED
      BY <1>1, <2>1, <2>2, <2>3 DEF Enqueue
  <1>. QED
    BY <1>2, <1>3, <1>4 DEF QueueTypeOK, At

\* Where a processor is, field by field, when it moves on without its job.
LEMMA GotoMoves ==
  ASSUME QueueTypeOK, NEW w \in Worker, NEW pc \in Pc, NEW outcome \in Outcome, Goto(w, pc, outcome)
  PROVE  /\ wk' \in [Worker -> Process]
         /\ wk'[w].pc = pc /\ wk'[w].outcome = outcome
         /\ wk'[w].url = wk[w].url /\ wk'[w].made = wk[w].made
         /\ \A v \in Worker \ {w} : wk'[v] = wk[v]
  <1>1. wk \in [Worker -> Process] /\ wk[w] \in Process
    BY DEF QueueTypeOK
  <1>. DEFINE p == [wk[w] EXCEPT !.pc = pc, !.outcome = outcome]
  <1>2. p \in Process /\ p.pc = pc /\ p.outcome = outcome /\ p.url = wk[w].url /\ p.made = wk[w].made
    BY <1>1 DEF Process
  <1>3. wk' = [wk EXCEPT ![w] = p]
    BY <1>1 DEF Goto
  <1>. HIDE DEF p
  <1>. QED
    BY <1>1, <1>2, <1>3

\* A processor between taking a job and ending it.
LEMMA ProcessorSteps ==
  ASSUME QueueTypeOK, NEW w \in Worker,
         \/ ClaimUrl(w) \/ NotClaimable(w) \/ ReportRetry(w) \/ ReportFinal(w)
         \/ \E outcome \in {"SUCCESS", "FAILED", "TRANSIENT"} : Check(w, outcome)
         \/ ClaimThrows(w) \/ ProcessorThrows(w)
  PROVE  /\ wk[w].pc \in {"claim", "check", "report"}
         /\ \E pc \in Pc \ {"idle"}, outcome \in Outcome : Goto(w, pc, outcome)
         /\ QueueTypeOK'
         /\ job' = job
  <1>1. wk[w].pc \in {"claim", "check", "report"} /\ job' = job
    BY DEF ClaimUrl, NotClaimable, ReportRetry, ReportFinal, Check, ClaimThrows, ProcessorThrows, At
  <1>2. \E pc \in Pc \ {"idle"}, outcome \in Outcome : Goto(w, pc, outcome)
    BY DEF ClaimUrl, NotClaimable, ReportRetry, ReportFinal, Check, ClaimThrows, ProcessorThrows, Pc, Outcome
  <1>3. attempts' \in [Url -> Nat]
    BY DEF ClaimUrl, NotClaimable, ReportRetry, ReportFinal, Check, ClaimThrows, ProcessorThrows,
           QueueTypeOK, countVars
  <1>4. todo' = todo /\ adding' = adding
    BY DEF ClaimUrl, NotClaimable, ReportRetry, ReportFinal, Check, ClaimThrows, ProcessorThrows, handlerVars
  <1>5. PICK pc \in Pc \ {"idle"}, outcome \in Outcome : Goto(w, pc, outcome)
    BY <1>2
  <1>6. /\ wk' \in [Worker -> Process] /\ wk'[w].url = wk[w].url
        /\ \A v \in Worker \ {w} : wk'[v] = wk[v]
    BY <1>5, GotoMoves
  <1>7. \A v \in Worker : ~At(v, "idle")' => wk'[v].url \in Url
    BY <1>1, <1>6 DEF QueueTypeOK, At
  <1>. QED
    BY <1>1, <1>2, <1>3, <1>4, <1>6, <1>7 DEF QueueTypeOK

LEMMA PickSteps ==
  ASSUME QueueTypeOK, NEW w \in Worker, NEW u \in Url, Pick(w, u)
  PROVE  /\ QueueTypeOK'
         /\ job'[u].state = "active" /\ job'[u].owner = w /\ job'[u].made = job[u].made
         /\ \A v \in Url \ {u} : job'[v] = job[v]
         /\ wk'[w].pc = "claim" /\ wk'[w].url = u /\ wk'[w].made = job[u].made
         /\ \A v \in Worker \ {w} : wk'[v] = wk[v]
  <1>1. /\ job \in [Url -> Job] /\ job[u] \in Job /\ wk \in [Worker -> Process]
    BY DEF QueueTypeOK
  <1>. DEFINE j == [job[u] EXCEPT !.state = "active", !.owner = w]
              p == [pc |-> "claim", url |-> u, made |-> job[u].made, outcome |-> "none"]
  <1>2. j \in Job /\ j.state = "active" /\ j.owner = w /\ j.made = job[u].made
    BY <1>1 DEF Job, JobState
  <1>3. p \in Process
    BY <1>1 DEF Process, Job, Pc, Outcome
  <1>4. job' = [job EXCEPT ![u] = j] /\ wk' = [wk EXCEPT ![w] = p]
    BY <1>1 DEF Pick
  <1>5. todo' = todo /\ adding' = adding /\ attempts' = attempts
    BY DEF Pick, handlerVars, countVars
  <1>6. \A v \in Worker : ~At(v, "idle")' => wk'[v].url \in Url
    BY <1>1, <1>4 DEF QueueTypeOK, At
  <1>. HIDE DEF j
  <1>. QED
    BY <1>1, <1>2, <1>3, <1>4, <1>5, <1>6 DEF QueueTypeOK

LEMMA EndSteps ==
  ASSUME QueueTypeOK, NEW w \in Worker, EndJob(w)
  PROVE  /\ QueueTypeOK'
         /\ wk'[w] = Idle
         /\ \A v \in Worker \ {w} : wk'[v] = wk[v]
         /\ \A u \in Url : u # wk[w].url \/ job[u].owner # w => job'[u] = job[u]
         /\ \A u \in Url : u = wk[w].url /\ job[u].owner = w =>
              \/ job'[u].state = "completed"
              \/ wk[w].outcome = "throw" /\ job'[u] = AfterThrow(job[u])
  <1>1. /\ job \in [Url -> Job] /\ wk \in [Worker -> Process] /\ Idle \in Process
    BY DEF QueueTypeOK, Idle, Process, Pc, Outcome
  <1>2. wk' = [wk EXCEPT ![w] = Idle] /\ ~At(w, "idle")
    BY DEF EndJob, At
  <1>3. wk' \in [Worker -> Process] /\ \A v \in Worker : ~At(v, "idle")' => wk'[v].url \in Url
    BY <1>1, <1>2 DEF QueueTypeOK, At, Idle
  <1>4. todo' = todo /\ adding' = adding /\ attempts' = attempts
    BY DEF EndJob, handlerVars, countVars
  <1>. DEFINE u == wk[w].url
              done == [job[u] EXCEPT !.state = "completed", !.owner = NoWorker]
  <1>5. u \in Url /\ job[u] \in Job
    BY <1>1, <1>2 DEF QueueTypeOK
  <1>6. AfterThrow(job[u]) \in Job
    <2>1. job[u].made + 1 \in Nat
      BY <1>5 DEF Job
    <2>. QED
      BY <2>1 DEF AfterThrow, Job, JobState
  <1>7. done \in Job /\ done.state = "completed"
    BY <1>5 DEF Job, JobState
  <1>8. \/ job[u].owner # w /\ job' = job
        \/ job[u].owner = w /\ wk[w].outcome = "throw" /\ job' = [job EXCEPT ![u] = AfterThrow(job[u])]
        \/ job[u].owner = w /\ job' = [job EXCEPT ![u] = done]
    BY <1>1, <1>5 DEF EndJob
  <1>. HIDE DEF done, u
  <1>9. /\ job' \in [Url -> Job]
        /\ \A x \in Url : x # u \/ job[x].owner # w => job'[x] = job[x]
        /\ \A x \in Url : x = u /\ job[x].owner = w =>
             \/ job'[x].state = "completed"
             \/ wk[w].outcome = "throw" /\ job'[x] = AfterThrow(job[x])
    BY <1>1, <1>5, <1>6, <1>7, <1>8
  <1>. QED
    BY <1>1, <1>2, <1>3, <1>4, <1>9 DEF QueueTypeOK, u

LEMMA CrashSteps ==
  ASSUME QueueTypeOK, NEW w \in Worker, WorkerCrash(w)
  PROVE  QueueTypeOK' /\ job' = job /\ wk'[w] = Idle /\ \A v \in Worker \ {w} : wk'[v] = wk[v]
  BY DEF WorkerCrash, QueueTypeOK, Idle, Process, Pc, Outcome, At, handlerVars

LEMMA StepKeepsQueueType == QueueTypeOK /\ [PipelineNext]_vars => QueueTypeOK'
  <1>. SUFFICES ASSUME QueueTypeOK, [PipelineNext]_vars PROVE QueueTypeOK'
    OBVIOUS
  <1>1. CASE \/ \E b \in Batch : CancelBatch(b) \/ \E c \in Client : CreateBatch(c, b) \/ RetryFailedRead(c, b)
             \/ \E c \in Client, S \in SUBSET Url : RetryFailedWrite(c, S)
             \/ \E s \in Sweeper : SweepFind(s) \/ \E S \in SUBSET Url : SweepRecover(s, S)
             \/ \E h \in Handler : EnqueueFails(h) \/ ApiCrash(h)
    BY <1>1, HandlerQueueType
  <1>2. ASSUME NEW h \in Handler, Enqueue(h) PROVE QueueTypeOK'
    BY <1>2, EnqueueSteps
  <1>3. ASSUME NEW u \in Url, Promote(u) \/ Stalled(u) \/ LoseLock(u) \/ Trim(u) PROVE QueueTypeOK'
    BY <1>3, QueueSteps
  <1>4. ASSUME NEW u \in Url, NEW w \in Worker, Pick(w, u) PROVE QueueTypeOK'
    BY <1>4, PickSteps
  <1>5. ASSUME NEW w \in Worker, Work(w) \/ ClaimThrows(w) \/ ProcessorThrows(w) \/ WorkerCrash(w) PROVE QueueTypeOK'
    <2>1. CASE EndJob(w) \/ WorkerCrash(w)
      BY <2>1, EndSteps, CrashSteps
    <2>2. CASE ~EndJob(w) /\ ~WorkerCrash(w)
      <3>1. \/ ClaimUrl(w) \/ NotClaimable(w) \/ ReportRetry(w) \/ ReportFinal(w)
            \/ \E outcome \in {"SUCCESS", "FAILED", "TRANSIENT"} : Check(w, outcome)
            \/ ClaimThrows(w) \/ ProcessorThrows(w)
        BY <1>5, <2>2 DEF Work
      <3>. QED
        BY <3>1, ProcessorSteps
    <2>. QED
      BY <2>1, <2>2
  <1>6. CASE UNCHANGED vars
    BY <1>6 DEF vars, QueueTypeOK, At
  <1>. QED
    BY <1>1, <1>2, <1>3, <1>4, <1>5, <1>6 DEF PipelineNext

-----------------------------------------------------------------------------
(* Every step of the pipeline is a step of the store *)

LEMMA StepIsStoreStep == TypeOK /\ QueueTypeOK /\ [PipelineNext]_vars => [Next]_storeVars
  <1>. SUFFICES ASSUME TypeOK, QueueTypeOK, [PipelineNext]_vars PROVE [Next]_storeVars
    OBVIOUS
  <1>1. ASSUME NEW b \in Batch,
               CancelBatch(b) \/ \E c \in Client : CreateBatch(c, b) \/ RetryFailedRead(c, b)
        PROVE  [Next]_storeVars
    BY <1>1 DEF CancelBatch, CreateBatch, RetryFailedRead, Next
  <1>2. ASSUME NEW c \in Client, NEW S \in SUBSET Url, RetryFailedWrite(c, S) PROVE [Next]_storeVars
    BY <1>2 DEF RetryFailedWrite, Next
  <1>3. ASSUME NEW s \in Sweeper, SweepFind(s) PROVE [Next]_storeVars
    BY <1>3 DEF SweepFind
  <1>4. ASSUME NEW s \in Sweeper, NEW S \in SUBSET Url, SweepRecover(s, S) PROVE [Next]_storeVars
    BY <1>4 DEF SweepRecover, Next
  <1>5. ASSUME NEW h \in Handler, Enqueue(h) \/ EnqueueFails(h) PROVE [Next]_storeVars
    BY <1>5 DEF Enqueue, EnqueueRemove, EnqueueAdd, EnqueueFails
  <1>6. ASSUME NEW h \in Handler, ApiCrash(h) PROVE [Next]_storeVars
    BY <1>6, CrashIsStoreStep
  <1>7. ASSUME NEW u \in Url,
               Promote(u) \/ Stalled(u) \/ LoseLock(u) \/ Trim(u) \/ \E w \in Worker : Pick(w, u)
        PROVE  [Next]_storeVars
    BY <1>7 DEF Promote, Stalled, LoseLock, Trim, Pick
  <1>8. ASSUME NEW w \in Worker, Work(w) \/ ClaimThrows(w) \/ ProcessorThrows(w) \/ WorkerCrash(w)
        PROVE  [Next]_storeVars
    BY <1>8, WorkerIsStoreStep DEF QueueTypeOK, At
  <1>9. CASE UNCHANGED vars
    BY <1>9 DEF vars
  <1>. QED
    BY <1>1, <1>2, <1>3, <1>4, <1>5, <1>6, <1>7, <1>8, <1>9 DEF PipelineNext

\* The invariant of the composition: the tables' own and the queue's types.
LEMMA PipelineTypes == PipelineSpec => [](IndInv /\ QueueTypeOK)
  <1>1. PipelineInit => IndInv /\ QueueTypeOK
    BY InitSound, InitQueueType DEF PipelineInit
  <1>2. IndInv /\ QueueTypeOK /\ [PipelineNext]_vars => (IndInv /\ QueueTypeOK)'
    <2>1. IndInv => TypeOK
      BY DEF IndInv
    <2>. QED
      BY <2>1, StepIsStoreStep, StepKeepsIndInv, StepKeepsQueueType
  <1>. QED
    BY <1>1, <1>2, PTL DEF PipelineSpec

\* The pipeline implements BatchStore: whatever handlers, queue, workers and
\* sweeps do, crashes and lost locks included, each step is one transaction of
\* the tables or leaves them alone.
THEOREM PipelineImplementsStore == PipelineSpec => Spec
  <1>1. PipelineInit => Init
    BY DEF PipelineInit
  <1>2. IndInv /\ QueueTypeOK /\ [PipelineNext]_vars => [Next]_storeVars
    <2>1. IndInv => TypeOK
      BY DEF IndInv
    <2>. QED
      BY <2>1, StepIsStoreStep
  <1>. QED
    BY <1>1, <1>2, PipelineTypes, PTL DEF PipelineSpec, Spec

\* So the bookkeeping of the batches is exact in the pipeline too.
THEOREM PipelineBookkeeping == PipelineSpec => []IndInv
  <1>. QED
    BY PipelineTypes, PTL

-----------------------------------------------------------------------------
(* One checker per URL *)

\* A busy processor owns the active job of its URL, unless a lock was lost.
Owns(w) ==
  IF At(w, "idle") THEN wk[w] = Idle
  ELSE job[wk[w].url].state = "active" /\ job[wk[w].url].owner = w

Ownership == \A w \in Worker : Owns(w)

\* A step that keeps the place of w and the active jobs keeps its ownership.
LEMMA OwnsFrame ==
  ASSUME QueueTypeOK, NEW w \in Worker, Owns(w), wk'[w] = wk[w],
         ~At(w, "idle") => job'[wk[w].url] = job[wk[w].url]
  PROVE  Owns(w)'
  BY DEF Owns, At

\* No running job loses its BullMQ lock.
LocksKept == \A u \in Url : ~LoseLock(u)

LEMMA StepKeepsOwnership ==
  ASSUME LocksKept, QueueTypeOK, Ownership, [PipelineNext]_vars
  PROVE  Ownership'
  <1>. SUFFICES ASSUME NEW w \in Worker PROVE Owns(w)'
    BY DEF Ownership
  <1>0. Owns(w) /\ (~At(w, "idle") => wk[w].url \in Url)
    BY DEF Ownership, QueueTypeOK
  <1>1. CASE \/ \E b \in Batch : CancelBatch(b) \/ \E c \in Client : CreateBatch(c, b) \/ RetryFailedRead(c, b)
             \/ \E c \in Client, S \in SUBSET Url : RetryFailedWrite(c, S)
             \/ \E s \in Sweeper : SweepFind(s) \/ \E S \in SUBSET Url : SweepRecover(s, S)
             \/ \E h \in Handler : EnqueueFails(h) \/ ApiCrash(h)
    BY <1>0, <1>1, HandlerQueueType, OwnsFrame
  <1>2. ASSUME NEW h \in Handler, Enqueue(h) PROVE Owns(w)'
    <2>1. ~At(w, "idle") => job'[wk[w].url] = job[wk[w].url]
      BY <1>0, <1>2, EnqueueSteps DEF Owns
    <2>. QED
      BY <1>0, <1>2, <2>1, EnqueueSteps, OwnsFrame
  <1>3. ASSUME NEW u \in Url, Promote(u) \/ Stalled(u) \/ LoseLock(u) \/ Trim(u) PROVE Owns(w)'
    <2>1. ~At(w, "idle") => wk[w].url # u
      BY <1>0, <1>3 DEF Promote, Stalled, LocksKept, Trim, Owns
    <2>2. ~At(w, "idle") => job'[wk[w].url] = job[wk[w].url]
      BY <1>0, <1>3, <2>1, QueueSteps
    <2>. QED
      BY <1>0, <1>3, <2>2, QueueSteps, OwnsFrame
  <1>4. ASSUME NEW u \in Url, NEW v \in Worker, Pick(v, u) PROVE Owns(w)'
    <2>1. /\ job'[u].state = "active" /\ job'[u].owner = v
          /\ \A x \in Url \ {u} : job'[x] = job[x]
          /\ wk'[v].pc = "claim" /\ wk'[v].url = u
          /\ \A x \in Worker \ {v} : wk'[x] = wk[x]
      BY <1>4, PickSteps
    <2>2. CASE w = v
      BY <2>1, <2>2 DEF Owns, At
    <2>3. CASE w # v
      <3>1. ~At(w, "idle") => wk[w].url # u
        BY <1>0, <1>4 DEF Pick, Owns
      <3>2. ~At(w, "idle") => job'[wk[w].url] = job[wk[w].url]
        BY <1>0, <2>1, <3>1
      <3>. QED
        BY <1>0, <2>1, <2>3, <3>2, OwnsFrame
    <2>. QED
      BY <2>2, <2>3
  <1>5. ASSUME NEW v \in Worker, EndJob(v) \/ WorkerCrash(v) PROVE Owns(w)'
    <2>1. CASE w = v
      BY <1>5, <2>1, EndSteps, CrashSteps DEF Owns, At, Idle
    <2>2. CASE w # v
      <3>1. ~At(w, "idle") => job'[wk[w].url] = job[wk[w].url]
        BY <1>0, <1>5, <2>2, EndSteps, CrashSteps DEF Owns
      <3>. QED
        BY <1>0, <1>5, <2>2, <3>1, EndSteps, CrashSteps, OwnsFrame
    <2>. QED
      BY <2>1, <2>2
  <1>6. ASSUME NEW v \in Worker,
               \/ ClaimUrl(v) \/ NotClaimable(v) \/ ReportRetry(v) \/ ReportFinal(v)
               \/ \E outcome \in {"SUCCESS", "FAILED", "TRANSIENT"} : Check(v, outcome)
               \/ ClaimThrows(v) \/ ProcessorThrows(v)
        PROVE Owns(w)'
    <2>1. /\ wk[v].pc \in {"claim", "check", "report"} /\ job' = job
          /\ \E pc \in Pc \ {"idle"}, outcome \in Outcome : Goto(v, pc, outcome)
      BY <1>6, ProcessorSteps
    <2>2. PICK pc \in Pc \ {"idle"}, outcome \in Outcome : Goto(v, pc, outcome)
      BY <2>1
    <2>3. /\ wk'[v].pc = pc /\ wk'[v].url = wk[v].url
          /\ \A x \in Worker \ {v} : wk'[x] = wk[x]
      BY <2>2, GotoMoves
    <2>4. CASE w = v
      BY <1>0, <2>1, <2>3, <2>4 DEF Owns, At
    <2>5. CASE w # v
      BY <1>0, <2>1, <2>3, <2>5, OwnsFrame
    <2>. QED
      BY <2>4, <2>5
  <1>7. CASE UNCHANGED vars
    BY <1>0, <1>7, OwnsFrame DEF vars
  <1>. QED
    BY <1>1, <1>2, <1>3, <1>4, <1>5, <1>6, <1>7 DEF PipelineNext, Work

LEMMA OwnershipHolds == PipelineSpec /\ [][LocksKept]_vars => []Ownership
  <1>1. PipelineInit => Ownership
    BY DEF PipelineInit, Ownership, Owns, At, Idle
  <1>2. QueueTypeOK /\ Ownership /\ [PipelineNext]_vars /\ [LocksKept]_vars => Ownership'
    <2>1. ASSUME QueueTypeOK, Ownership, UNCHANGED vars PROVE Ownership'
      BY <2>1 DEF vars, Ownership, Owns, At
    <2>. QED
      BY <2>1, StepKeepsOwnership
  <1>. QED
    BY <1>1, <1>2, PipelineTypes, PTL DEF PipelineSpec

\* queue.ts:41, no second concurrent run of a check: for any number of workers,
\* sweepers and crashes, as long as running jobs keep their BullMQ lock.
THEOREM OneCheckerPerUrl == PipelineSpec /\ [][LocksKept]_vars => []SingleChecker
  <1>1. Ownership => SingleChecker
    BY DEF Ownership, Owns, At, SingleChecker
  <1>. QED
    BY <1>1, OwnershipHolds, PTL

-----------------------------------------------------------------------------
(* The cap on attempts *)

\* The faults after which BullMQ's count of attempts is no longer one of claims:
\* an error of the claim itself, a running job that loses its lock, and a crash
\* between the transaction that settles the URL and the end of the job.
CountGoesWrong ==
  \/ \E u \in Url : LoseLock(u)
  \/ \E w \in Worker : ClaimThrows(w) \/ (WorkerCrash(w) /\ At(w, "end") /\ wk[w].outcome # "throw")

NotFailed(u) == urls[u] # "FAILED"

\* n job attempts are behind u, each of them a claim of the current round.
Due(u, n)   == n < MaxAttempts /\ n <= attempts[u] /\ (n > 0 => NotFailed(u))
\* The attempt that follows n others is running.
Begun(u, n) == n < MaxAttempts /\ n + 1 <= attempts[u] /\ NotFailed(u)

\* The processor that took the job is gone, and BullMQ has not noticed.
Orphan(u)   == job[u].state = "active" /\ wk[job[u].owner].url # u
Waits(u)    == job[u].state \in {"waiting", "delayed"} \/ Orphan(u) => Due(u, job[u].made)
HasOwner(u) == job[u].state = "active" => job[u].owner \in Worker
Stage(w) ==
  /\ ~At(w, "idle") => wk[w].made = job[wk[w].url].made
  /\ At(w, "claim") => Due(wk[w].url, wk[w].made)
  /\ wk[w].pc \in {"check", "report"} => Begun(wk[w].url, wk[w].made)
  /\ At(w, "end") /\ wk[w].outcome = "throw" => Begun(wk[w].url, wk[w].made)

Rounds ==
  /\ \A u \in Url : Waits(u) /\ HasOwner(u)
  /\ \A w \in Worker : Stage(w)

\* The row of u is not given a failure, and its round is only ended by a retry
\* of a FAILED row.
Calm(u) ==
  /\ NotFailed(u) => NotFailed(u)'
  /\ attempts'[u] = attempts[u] \/ (attempts'[u] = 0 /\ urls[u] = "FAILED")

LEMMA HandlersAreCalm ==
  ASSUME TypeOK, QueueTypeOK,
         \/ \E b \in Batch : CancelBatch(b) \/ \E c \in Client : CreateBatch(c, b) \/ RetryFailedRead(c, b)
         \/ \E c \in Client, S \in SUBSET Url : RetryFailedWrite(c, S)
         \/ \E s \in Sweeper : SweepFind(s) \/ \E S \in SUBSET Url : SweepRecover(s, S)
         \/ \E h \in Handler : EnqueueFails(h) \/ ApiCrash(h)
  PROVE  \A u \in Url : Calm(u)
  <1>1. CASE \/ \E b \in Batch : CancelBatch(b) \/ \E c \in Client : CreateBatch(c, b) \/ RetryFailedRead(c, b)
    BY <1>1 DEF CancelBatch, CreateBatch, RetryFailedRead, Cancel, CreateWithUrls, RetryRead, SetRows,
                countVars, Calm, NotFailed
  <1>2. ASSUME NEW c \in Client, NEW S \in SUBSET Url, RetryFailedWrite(c, S) PROVE \A u \in Url : Calm(u)
    BY <1>2 DEF RetryFailedWrite, RetryWrite, SetRows, RowsWith, Calm, NotFailed
  <1>3. CASE \E s \in Sweeper : SweepFind(s) \/ \E S \in SUBSET Url : SweepRecover(s, S)
    BY <1>3 DEF SweepFind, SweepRecover, RecoverStuck, SetRows, storeVars, countVars, Calm, NotFailed
  <1>4. CASE \E h \in Handler : EnqueueFails(h) \/ ApiCrash(h)
    BY <1>4 DEF EnqueueFails, ApiCrash, storeVars, Calm, NotFailed
  <1>. QED
    BY <1>1, <1>2, <1>3, <1>4

LEMMA CalmKeeps ==
  ASSUME QueueTypeOK, NEW u \in Url, Calm(u), NEW n \in Nat
  PROVE  (Due(u, n) => Due(u, n)') /\ (Begun(u, n) => Begun(u, n)')
  BY DEF QueueTypeOK, Due, Begun, Calm, NotFailed

\* Where nothing happens to the job of u, nor to its owner, Rounds stays.
LEMMA RoundsFrame ==
  ASSUME QueueTypeOK, NEW u \in Url, Waits(u), HasOwner(u), Calm(u), job'[u] = job[u],
         Orphan(u)' => Orphan(u)
  PROVE  Waits(u)' /\ HasOwner(u)'
  <1>1. job[u].made \in Nat
    BY DEF QueueTypeOK, Job
  <1>2. Due(u, job[u].made) => Due(u, job[u].made)'
    BY <1>1, CalmKeeps
  <1>3. HasOwner(u)'
    BY DEF HasOwner
  <1>4. Waits(u)'
    BY <1>2 DEF Waits, Due, NotFailed
  <1>. QED
    BY <1>3, <1>4

LEMMA StageFrame ==
  ASSUME QueueTypeOK, NEW w \in Worker, Stage(w), wk'[w] = wk[w],
         ~At(w, "idle") => Calm(wk[w].url) /\ job'[wk[w].url].made = job[wk[w].url].made
  PROVE  Stage(w)'
  <1>1. CASE At(w, "idle")
    BY <1>1 DEF Stage, At
  <1>2. CASE ~At(w, "idle")
    <2>1. wk[w].url \in Url /\ wk[w].made \in Nat
      BY <1>2 DEF QueueTypeOK, Process
    <2>2. /\ Due(wk[w].url, wk[w].made) => Due(wk[w].url, wk[w].made)'
          /\ Begun(wk[w].url, wk[w].made) => Begun(wk[w].url, wk[w].made)'
      BY <1>2, <2>1, CalmKeeps
    <2>. QED
      BY <1>2, <2>2 DEF Stage, At, Due, Begun, NotFailed
  <1>. QED
    BY <1>1, <1>2

\* A processor between taking a job and ending it, whose claim does not fail.
LEMMA ProcessorKeepsRounds ==
  ASSUME TypeOK, QueueTypeOK, Ownership, Rounds, NEW v \in Worker,
         \/ ClaimUrl(v) \/ NotClaimable(v) \/ ReportRetry(v) \/ ReportFinal(v) \/ ProcessorThrows(v)
         \/ \E outcome \in {"SUCCESS", "FAILED", "TRANSIENT"} : Check(v, outcome)
  PROVE  (\A u \in Url : Waits(u) /\ HasOwner(u))' /\ (\A w \in Worker : Stage(w))'
  <1>. DEFINE x == wk[v].url
  <1>1. /\ wk[v].pc \in {"claim", "check", "report"} /\ job' = job
        /\ \E pc \in Pc \ {"idle"}, outcome \in Outcome : Goto(v, pc, outcome)
    BY ProcessorSteps
  <1>2. /\ x \in Url /\ job[x].state = "active" /\ job[x].owner = v
        /\ wk[v].made \in Nat /\ attempts[x] \in Nat /\ attempts \in [Url -> Nat]
    BY <1>1 DEF Ownership, Owns, QueueTypeOK, Process, At
  <1>3. \A u \in Url \ {x} : urls'[u] = urls[u] /\ attempts'[u] = attempts[u]
    BY <1>2 DEF ClaimUrl, NotClaimable, ReportRetry, ReportFinal, ProcessorThrows, Check, Claim,
                ReleaseForRetry, PersistResult, SetRows, storeVars, countVars
  <1>4. \A u \in Url \ {x} : Calm(u)
    BY <1>3 DEF Calm, NotFailed
  <1>5. PICK pc \in Pc \ {"idle"}, outcome \in Outcome : Goto(v, pc, outcome)
    BY <1>1
  <1>6. /\ wk'[v].pc = pc /\ wk'[v].outcome = outcome
        /\ wk'[v].url = x /\ wk'[v].made = wk[v].made
        /\ \A w \in Worker \ {v} : wk'[w] = wk[w]
    BY <1>5, GotoMoves
  <1>7. ASSUME NEW u \in Url PROVE (Waits(u) /\ HasOwner(u))'
    <2>1. CASE u = x
      BY <1>1, <1>2, <1>6, <2>1 DEF Waits, HasOwner, Orphan
    <2>2. CASE u # x
      <3>1. Waits(u) /\ HasOwner(u)
        BY DEF Rounds
      <3>2. job[u].state = "active" => wk'[job[u].owner].url = wk[job[u].owner].url
        BY <1>6, <3>1 DEF HasOwner
      <3>3. Orphan(u)' => Orphan(u)
        BY <1>1, <3>2 DEF Orphan
      <3>. QED
        BY <1>1, <1>4, <2>2, <3>1, <3>3, RoundsFrame
    <2>. QED
      BY <2>1, <2>2
  <1>8. ASSUME NEW w \in Worker, w # v PROVE Stage(w)'
    <2>1. ~At(w, "idle") => wk[w].url \in Url \ {x}
      BY <1>2, <1>8 DEF Ownership, Owns, QueueTypeOK
    <2>. QED
      BY <1>1, <1>4, <1>6, <1>8, <2>1, StageFrame DEF Rounds
  <1>9. Stage(v)'
    <2>1. wk'[v].made = job'[wk'[v].url].made
      BY <1>1, <1>6 DEF Rounds, Stage, At
    <2>2. CASE ClaimUrl(v)
      <3>1. wk'[v].pc = "check" /\ urls'[x] = "PROCESSING" /\ Due(x, wk[v].made)
        BY <1>2, <2>2 DEF ClaimUrl, Claim, SetRows, Goto, Rounds, Stage, At, QueueTypeOK
      <3>2. attempts'[x] = IF attempts[x] > MaxAttempts THEN attempts[x] ELSE attempts[x] + 1
        BY <1>2, <2>2 DEF ClaimUrl
      <3>3. Begun(x, wk[v].made)'
        BY <1>2, <1>6, <3>1, <3>2, PipelineAssumption DEF Begun, Due, NotFailed
      <3>. QED
        BY <1>6, <2>1, <3>1, <3>3 DEF Stage, At, Begun, NotFailed
    <2>3. CASE \E o \in {"SUCCESS", "FAILED", "TRANSIENT"} : Check(v, o)
      <3>1. wk'[v].pc = "report" /\ Begun(x, wk[v].made) /\ urls' = urls /\ attempts' = attempts
        BY <1>2, <2>3 DEF Check, Goto, Rounds, Stage, At, QueueTypeOK, storeVars
      <3>. QED
        BY <1>6, <2>1, <3>1 DEF Stage, At, Begun, NotFailed
    <2>4. CASE NotClaimable(v) \/ ReportFinal(v)
      <3>1. wk'[v].pc = "end" /\ wk'[v].outcome = "ok"
        BY <2>4 DEF NotClaimable, ReportFinal, Goto, QueueTypeOK, Process
      <3>. QED
        BY <2>1, <3>1 DEF Stage, At
    <2>5. CASE ReportRetry(v) \/ ProcessorThrows(v)
      <3>1. /\ Begun(x, wk[v].made) /\ attempts' = attempts
            /\ urls'[x] = "PENDING" \/ urls'[x] = urls[x]
            /\ Goto(v, "end", "throw") \/ Goto(v, "end", "ok")
        BY <1>2, <2>5 DEF ReportRetry, ProcessorThrows, ReleaseForRetry, SetRows, Rounds, Stage, At,
                          countVars, storeVars
      <3>2. wk'[v].pc = "end"
        BY <3>1, GotoMoves DEF Pc, Outcome
      <3>. QED
        BY <1>6, <2>1, <3>1, <3>2 DEF Stage, At, Begun, NotFailed
    <2>. QED
      BY <2>2, <2>3, <2>4, <2>5
  <1>. QED
    BY <1>7, <1>8, <1>9

LEMMA StepKeepsRounds ==
  ASSUME ~CountGoesWrong, TypeOK, QueueTypeOK, Ownership, Rounds, [PipelineNext]_vars
  PROVE  Rounds'
  <1>0. /\ \A w \in Worker : Owns(w) /\ Stage(w) /\ (~At(w, "idle") => wk[w].url \in Url)
        /\ \A u \in Url : Waits(u) /\ HasOwner(u)
    BY DEF Rounds, Ownership, QueueTypeOK
  <1>1. CASE \/ \E b \in Batch : CancelBatch(b) \/ \E c \in Client : CreateBatch(c, b) \/ RetryFailedRead(c, b)
             \/ \E c \in Client, S \in SUBSET Url : RetryFailedWrite(c, S)
             \/ \E s \in Sweeper : SweepFind(s) \/ \E S \in SUBSET Url : SweepRecover(s, S)
             \/ \E h \in Handler : EnqueueFails(h) \/ ApiCrash(h)
    <2>1. job' = job /\ wk' = wk /\ \A u \in Url : Calm(u)
      BY <1>1, HandlerQueueType, HandlersAreCalm
    <2>2. \A u \in Url : (Waits(u) /\ HasOwner(u))'
      BY <1>0, <2>1, RoundsFrame DEF Orphan
    <2>3. \A w \in Worker : Stage(w)'
      BY <1>0, <2>1, StageFrame
    <2>. QED
      BY <2>2, <2>3 DEF Rounds
  <1>2. ASSUME NEW h \in Handler, Enqueue(h) PROVE Rounds'
    <2>1. /\ urls' = urls /\ attempts' = attempts /\ wk' = wk
          /\ \A u \in Url : \/ job'[u] = job[u]
                            \/ job'[u] = NoJob /\ job[u].state # "active"
                            \/ job'[u] = NewJob /\ job[u].state = "none"
      BY <1>2, EnqueueSteps DEF storeVars
    <2>2. \A u \in Url : Calm(u)
      BY <2>1 DEF Calm, NotFailed
    <2>3. ASSUME NEW u \in Url PROVE (Waits(u) /\ HasOwner(u))'
      <3>1. CASE job'[u] = job[u]
        BY <1>0, <2>1, <2>2, <3>1, RoundsFrame DEF Orphan
      <3>2. CASE job'[u] \in {NoJob, NewJob}
        <4>1. attempts'[u] \in Nat
          BY <2>1 DEF QueueTypeOK
        <4>2. job'[u].made = 0 /\ job'[u].state # "active"
          BY <3>2 DEF NoJob, NewJob
        <4>. QED
          BY <4>1, <4>2, PipelineAssumption DEF Waits, HasOwner, Due, Orphan
      <3>. QED
        BY <2>1, <3>1, <3>2
    <2>4. ASSUME NEW w \in Worker PROVE Stage(w)'
      <3>1. ~At(w, "idle") => job'[wk[w].url] = job[wk[w].url]
        BY <1>0, <2>1 DEF Owns
      <3>. QED
        BY <1>0, <2>1, <2>2, <3>1, StageFrame
    <2>. QED
      BY <2>3, <2>4 DEF Rounds
  <1>3. ASSUME NEW u \in Url, Promote(u) \/ Stalled(u) \/ LoseLock(u) \/ Trim(u) PROVE Rounds'
    <2>1. /\ urls' = urls /\ attempts' = attempts /\ wk' = wk
          /\ job'[u].state # "active"
          /\ job'[u] = NoJob \/ (job[u].state \in {"delayed", "active"} /\ job'[u].made = job[u].made)
          /\ \A v \in Url \ {u} : job'[v] = job[v]
      BY <1>3, QueueSteps DEF storeVars
    <2>2. \A v \in Url : Calm(v)
      BY <2>1 DEF Calm, NotFailed
    <2>3. job[u].state = "active" => Orphan(u)
      BY <1>3 DEF Promote, Stalled, CountGoesWrong, Trim, Orphan
    <2>4. Waits(u)' /\ HasOwner(u)'
      <3>1. CASE job'[u] = NoJob
        BY <2>1, <3>1 DEF NoJob, Waits, HasOwner, Orphan
      <3>2. CASE job[u].state \in {"delayed", "active"} /\ job'[u].made = job[u].made
        <4>1. Due(u, job[u].made)
          BY <1>0, <2>3, <3>2 DEF Waits
        <4>. QED
          BY <2>1, <3>2, <4>1 DEF Waits, HasOwner, Due, NotFailed
      <3>. QED
        BY <2>1, <3>1, <3>2
    <2>5. ASSUME NEW v \in Url PROVE (Waits(v) /\ HasOwner(v))'
      <3>1. CASE v = u
        BY <2>4, <3>1
      <3>2. CASE v # u
        BY <1>0, <2>1, <2>2, <3>2, RoundsFrame DEF Orphan
      <3>. QED
        BY <3>1, <3>2
    <2>6. ASSUME NEW w \in Worker PROVE Stage(w)'
      <3>1. ~At(w, "idle") => wk[w].url # u
        BY <1>0, <1>3, <2>3 DEF Owns, Orphan, Promote, Stalled, Trim, CountGoesWrong
      <3>2. ~At(w, "idle") => job'[wk[w].url] = job[wk[w].url]
        BY <1>0, <2>1, <3>1
      <3>. QED
        BY <1>0, <2>1, <2>2, <3>2, StageFrame
    <2>. QED
      BY <2>5, <2>6 DEF Rounds
  <1>4. ASSUME NEW u \in Url, NEW v \in Worker, Pick(v, u) PROVE Rounds'
    <2>1. /\ job'[u].state = "active" /\ job'[u].owner = v /\ job'[u].made = job[u].made
          /\ \A x \in Url \ {u} : job'[x] = job[x]
          /\ wk'[v].pc = "claim" /\ wk'[v].url = u /\ wk'[v].made = job[u].made
          /\ \A x \in Worker \ {v} : wk'[x] = wk[x]
      BY <1>4, PickSteps
    <2>2. urls' = urls /\ attempts' = attempts /\ At(v, "idle") /\ job[u].state = "waiting"
      BY <1>4 DEF Pick, storeVars, countVars
    <2>3. \A x \in Url : Calm(x)
      BY <2>2 DEF Calm, NotFailed
    <2>4. ASSUME NEW x \in Url PROVE (Waits(x) /\ HasOwner(x))'
      <3>1. CASE x = u
        BY <2>1, <3>1 DEF Waits, HasOwner, Orphan
      <3>2. CASE x # u
        <4>1. wk[v].url # x
          BY <1>0, <2>2, PipelineAssumption DEF Owns, Idle
        <4>2. Orphan(x)' => Orphan(x)
          BY <1>0, <2>1, <3>2, <4>1 DEF HasOwner, Orphan
        <4>. QED
          BY <1>0, <2>1, <2>3, <3>2, <4>2, RoundsFrame
      <3>. QED
        BY <3>1, <3>2
    <2>5. ASSUME NEW w \in Worker PROVE Stage(w)'
      <3>1. CASE w = v
        BY <1>0, <2>1, <2>2, <3>1 DEF Waits, Stage, At, Due, NotFailed
      <3>2. CASE w # v
        <4>1. ~At(w, "idle") => job'[wk[w].url].made = job[wk[w].url].made
          BY <1>0, <2>1
        <4>. QED
          BY <1>0, <2>1, <2>3, <3>2, <4>1, StageFrame
      <3>. QED
        BY <3>1, <3>2
    <2>. QED
      BY <2>4, <2>5 DEF Rounds
  <1>5. ASSUME NEW v \in Worker, EndJob(v) PROVE Rounds'
    <2>. DEFINE x == wk[v].url
    <2>1. /\ wk'[v] = Idle /\ \A w \in Worker \ {v} : wk'[w] = wk[w]
          /\ \A u \in Url : u # x \/ job[u].owner # v => job'[u] = job[u]
          /\ \A u \in Url : u = x /\ job[u].owner = v =>
               \/ job'[u].state = "completed"
               \/ wk[v].outcome = "throw" /\ job'[u] = AfterThrow(job[u])
      BY <1>5, EndSteps
    <2>2. /\ At(v, "end") /\ x \in Url /\ job[x].state = "active" /\ job[x].owner = v
          /\ job[x].made \in Nat /\ attempts[x] \in Nat
      BY <1>0, <1>5 DEF EndJob, Owns, At, QueueTypeOK, Job
    <2>3. urls' = urls /\ attempts' = attempts
      BY <1>5 DEF EndJob, storeVars, countVars
    <2>4. \A u \in Url : Calm(u)
      BY <2>3 DEF Calm, NotFailed
    <2>5. ASSUME NEW u \in Url PROVE (Waits(u) /\ HasOwner(u))'
      <3>1. CASE u = x /\ job'[x].state = "completed"
        BY <3>1 DEF Waits, HasOwner, Orphan
      <3>2. CASE u = x /\ wk[v].outcome = "throw" /\ job'[x] = AfterThrow(job[x])
        <4>1. Begun(x, job[x].made)
          BY <1>0, <2>2, <3>2 DEF Stage, At
        <4>2. /\ job'[x].made = job[x].made + 1
              /\ job'[x].state = IF job[x].made + 1 < MaxAttempts THEN "delayed" ELSE "failed"
          BY <3>2 DEF AfterThrow
        <4>. QED
          BY <2>2, <2>3, <3>2, <4>1, <4>2 DEF Waits, HasOwner, Orphan, Begun, Due, NotFailed
      <3>3. CASE u # x
        <4>1. job'[u] = job[u]
          BY <2>1, <3>3
        <4>2. Orphan(u)' => Orphan(u)
          BY <1>0, <2>1, <3>3, <4>1 DEF HasOwner, Orphan
        <4>. QED
          BY <1>0, <2>4, <4>1, <4>2, RoundsFrame
      <3>. QED
        BY <2>1, <2>2, <3>1, <3>2, <3>3
    <2>6. ASSUME NEW w \in Worker PROVE Stage(w)'
      <3>1. CASE w = v
        BY <2>1, <3>1 DEF Stage, At, Idle
      <3>2. CASE w # v
        <4>1. ~At(w, "idle") => job'[wk[w].url] = job[wk[w].url]
          BY <1>0, <2>1, <2>2, <3>2 DEF Owns
        <4>. QED
          BY <1>0, <2>1, <2>4, <3>2, <4>1, StageFrame
      <3>. QED
        BY <3>1, <3>2
    <2>. QED
      BY <2>5, <2>6 DEF Rounds
  <1>6. ASSUME NEW v \in Worker,
               \/ ClaimUrl(v) \/ NotClaimable(v) \/ ReportRetry(v) \/ ReportFinal(v) \/ ProcessorThrows(v)
               \/ \E outcome \in {"SUCCESS", "FAILED", "TRANSIENT"} : Check(v, outcome)
        PROVE  Rounds'
    BY <1>6, ProcessorKeepsRounds DEF Rounds
  <1>7. ASSUME NEW v \in Worker, WorkerCrash(v) PROVE Rounds'
    <2>. DEFINE x == wk[v].url
    <2>1. job' = job /\ wk'[v] = Idle /\ \A w \in Worker \ {v} : wk'[w] = wk[w]
      BY <1>7, CrashSteps
    <2>2. /\ ~At(v, "idle") /\ x \in Url /\ job[x].state = "active" /\ job[x].owner = v
          /\ job[x].made \in Nat /\ attempts[x] \in Nat /\ wk[v].pc \in Pc
      BY <1>0, <1>7 DEF WorkerCrash, Owns, QueueTypeOK, Job, Process
    <2>3. urls' = urls /\ attempts' = attempts
      BY <1>7 DEF WorkerCrash, storeVars
    <2>4. \A u \in Url : Calm(u)
      BY <2>3 DEF Calm, NotFailed
    <2>5. Due(x, job[x].made)
      <3>1. At(v, "end") => wk[v].outcome = "throw"
        BY <1>7 DEF CountGoesWrong
      <3>2. wk[v].made = job[x].made /\ (Begun(x, job[x].made) \/ Due(x, job[x].made))
        BY <1>0, <2>2, <3>1 DEF Stage, At, Pc
      <3>. QED
        BY <2>2, <3>2 DEF Begun, Due
    <2>6. ASSUME NEW u \in Url PROVE (Waits(u) /\ HasOwner(u))'
      <3>1. CASE u = x
        BY <1>0, <2>1, <2>2, <2>3, <2>5, <3>1 DEF Waits, HasOwner, Due, NotFailed
      <3>2. CASE u # x
        <4>1. Orphan(u)' => Orphan(u)
          BY <1>0, <2>1, <3>2 DEF HasOwner, Orphan
        <4>. QED
          BY <1>0, <2>1, <2>4, <4>1, RoundsFrame
      <3>. QED
        BY <3>1, <3>2
    <2>7. ASSUME NEW w \in Worker PROVE Stage(w)'
      <3>1. CASE w = v
        BY <2>1, <3>1 DEF Stage, At, Idle
      <3>2. CASE w # v
        BY <1>0, <2>1, <2>4, <3>2, StageFrame
      <3>. QED
        BY <3>1, <3>2
    <2>. QED
      BY <2>6, <2>7 DEF Rounds
  <1>8. CASE UNCHANGED vars
    BY <1>8 DEF vars, storeVars, Rounds, Waits, HasOwner, Orphan, Stage, At, Due, Begun, NotFailed
  <1>9. ASSUME NEW v \in Worker, ClaimThrows(v) PROVE FALSE
    BY <1>9 DEF CountGoesWrong
  <1>. QED
    BY <1>1, <1>2, <1>3, <1>4, <1>5, <1>6, <1>7, <1>8, <1>9 DEF PipelineNext, Work

\* A transient failure is final only at the MaxAttempts-th claim of its round
\* or later, for any number of workers, sweepers and clients: however often the
\* sweep reclaims checks that still run, handlers and most processors crash and
\* the database or the queue fail.  Only the faults CountGoesWrong names can cut
\* a round short.
THEOREM EveryAttemptIsMade == PipelineSpec /\ [][~CountGoesWrong]_vars => []NoEarlyGiveUp
  <1>1. PipelineInit => Rounds
    BY PipelineAssumption DEF PipelineInit, Rounds, Waits, HasOwner, Orphan, Stage, At, NoJob, Idle
  <1>2. IndInv /\ QueueTypeOK /\ Ownership /\ Rounds /\ [PipelineNext]_vars /\ [~CountGoesWrong]_vars => Rounds'
    <2>1. IndInv => TypeOK
      BY DEF IndInv
    <2>2. ASSUME Rounds, UNCHANGED vars PROVE Rounds'
      BY <2>2 DEF vars, storeVars, Rounds, Waits, HasOwner, Orphan, Stage, At, Due, Begun, NotFailed
    <2>. QED
      BY <2>1, <2>2, StepKeepsRounds
  <1>3. IndInv /\ QueueTypeOK /\ Rounds => NoEarlyGiveUp
    <2>. SUFFICES ASSUME QueueTypeOK, Rounds, NEW w \in Worker, At(w, "report"),
                         wk[w].outcome = "TRANSIENT", ~WillRetry(w)
                  PROVE  attempts[wk[w].url] >= MaxAttempts
      BY DEF NoEarlyGiveUp
    <2>1. Begun(wk[w].url, wk[w].made) /\ wk[w].made >= MaxAttempts - 1
      BY PipelineAssumption DEF Rounds, Stage, At, WillRetry, QueueTypeOK, Process
    <2>2. attempts[wk[w].url] \in Nat /\ wk[w].made \in Nat
      BY DEF QueueTypeOK, Process, At
    <2>. QED
      BY <2>1, <2>2, PipelineAssumption DEF Begun
  <1>4. [~CountGoesWrong]_vars => [LocksKept]_vars
    BY DEF CountGoesWrong, LocksKept
  <1>. QED
    BY <1>1, <1>2, <1>3, <1>4, PipelineTypes, OwnershipHolds, PTL DEF PipelineSpec

-----------------------------------------------------------------------------
(* INV-5, the cap on the attempts of a round *)

\* The steps after which a round may take more than MaxAttempts claims: those
\* of a sweep, a running job that loses its lock, and a crash between the
\* transaction that settles or releases the URL and the end of the job.
ReopensRound ==
  \/ \E u \in Url : LoseLock(u)
  \/ \E w \in Worker : WorkerCrash(w) /\ At(w, "end")
  \/ \E s \in Sweeper : SweepFind(s) \/ \E S \in SUBSET Url : SweepRecover(s, S)

\* Handler h is about to enqueue u.
InHand(h, u) == u \in todo[h] \/ adding[h] = u

\* Where the processor that owns the active job of u stands.
Stands(u, pcs) ==
  job[u].state = "active" /\ wk[job[u].owner].url = u /\ wk[job[u].owner].pc \in pcs

\* The job of u has its next claim before it, is past it, or has thrown.
Ahead(u)   == job[u].state \in {"waiting", "delayed"} \/ Orphan(u) \/ Stands(u, {"claim"})
Checked(u) == Stands(u, {"check", "report"})
Thrown(u)  == Stands(u, {"end"}) /\ wk[job[u].owner].outcome = "throw"
Live(u)    == Ahead(u) \/ Checked(u) \/ Thrown(u)

\* A URL is in the hand of one handler, or of one live job, never of both: a
\* live job has made as many attempts as the round, or one less.
Capped(u) ==
  /\ attempts[u] <= MaxAttempts
  /\ HasOwner(u)
  /\ urls[u] = "ABSENT" => attempts[u] = 0
  /\ Live(u) => /\ job[u].made < MaxAttempts /\ attempts[u] <= job[u].made + 1
                /\ urls[u] \notin {"ABSENT", "FAILED"}
                /\ \A h \in Handler : ~InHand(h, u)
  /\ Ahead(u) /\ urls[u] = "PENDING" => attempts[u] <= job[u].made
  /\ Checked(u) => urls[u] # "PENDING"
  /\ \A h \in Handler : InHand(h, u) =>
       /\ attempts[u] = 0 /\ urls[u] \notin {"ABSENT", "FAILED"}
       /\ ~(u \in todo[h] /\ adding[h] = u)
       /\ \A g \in Handler \ {h} : ~InHand(g, u)

\* A step that leaves the job of u and its processor alone, takes u in no
\* hand and at most cancels its row.
LEMMA CappedFrame ==
  ASSUME NEW u \in Url, Capped(u), job'[u] = job[u], attempts'[u] = attempts[u],
         urls'[u] = urls[u] \/ urls'[u] = "CANCELLED",
         \A h \in Handler : (u \in todo'[h] => u \in todo[h]) /\ (adding'[h] = u => adding[h] = u),
         job[u].state = "active" =>
           \/ wk'[job[u].owner] = wk[job[u].owner]
           \/ wk[job[u].owner].url # u /\ wk'[job[u].owner].url # u
  PROVE  Capped(u)'
  <1>1. \A h \in Handler : InHand(h, u)' => InHand(h, u)
    BY DEF InHand
  <1>2. (Ahead(u)' => Ahead(u)) /\ (Checked(u)' => Checked(u)) /\ (Thrown(u)' => Thrown(u))
    BY DEF Ahead, Checked, Thrown, Stands, Orphan
  <1>3. (Live(u)' => Live(u)) /\ HasOwner(u)'
    BY <1>2 DEF Live, Capped, HasOwner
  <1>. QED
    BY <1>1, <1>2, <1>3 DEF Capped

\* Rows that become PENDING, of which no job is live and no handler has one,
\* and that the handler of the request takes in hand for a first attempt.
LEMMA CappedStart ==
  ASSUME NEW u \in Url, Capped(u), urls[u] \in {"ABSENT", "FAILED"}, NEW c \in Handler,
         job' = job, wk' = wk, adding' = adding,
         urls'[u] = "PENDING", attempts'[u] = 0,
         \A h \in Handler \ {c} : todo'[h] = todo[h]
  PROVE  Capped(u)'
  <1>1. ~Live(u) /\ \A h \in Handler : ~InHand(h, u)
    BY DEF Capped
  <1>2. ~Live(u)'
    BY <1>1 DEF Live, Ahead, Checked, Thrown, Stands, Orphan
  <1>3. \A h \in Handler : adding'[h] # u /\ (h # c => ~InHand(h, u)')
    BY <1>1 DEF InHand
  <1>4. HasOwner(u)' /\ 0 <= MaxAttempts
    BY PipelineAssumption DEF Capped, HasOwner
  <1>. QED
    BY <1>2, <1>3, <1>4 DEF Capped, InHand, Live

LEMMA HandlersKeepCapped ==
  ASSUME IndInv, QueueTypeOK, \A u \in Url : Capped(u),
         \/ \E b \in Batch : CancelBatch(b) \/ \E c \in Client : CreateBatch(c, b) \/ RetryFailedRead(c, b)
         \/ \E c \in Client, S \in SUBSET Url : RetryFailedWrite(c, S)
         \/ \E h \in Handler : EnqueueFails(h) \/ ApiCrash(h)
  PROVE  \A u \in Url : Capped(u)'
  <1>. SUFFICES ASSUME NEW u \in Url PROVE Capped(u)'
    OBVIOUS
  <1>0. /\ job' = job /\ wk' = wk /\ Capped(u) /\ Client \subseteq Handler
        /\ todo \in [Handler -> SUBSET Url] /\ adding \in [Handler -> Url \cup {NoUrl}]
    BY HandlerQueueType DEF Handler, QueueTypeOK
  <1>1. ASSUME NEW b \in Batch, CancelBatch(b) PROVE Capped(u)'
    <2>1. urls'[u] = urls[u] \/ urls'[u] = "CANCELLED"
      BY <1>1 DEF CancelBatch, Cancel, SetRows
    <2>2. attempts' = attempts /\ todo' = todo /\ adding' = adding
      BY <1>1 DEF CancelBatch, countVars, handlerVars
    <2>. QED
      BY <1>0, <2>1, <2>2, CappedFrame
  <1>2. ASSUME NEW b \in Batch, NEW c \in Client, CreateBatch(c, b) PROVE Capped(u)'
    <2>1. /\ attempts' = attempts /\ adding' = adding /\ batches[b].status = "ABSENT"
          /\ todo' = [todo EXCEPT ![c] = RowsOf(b)]
          /\ urls'[u] = IF u \in RowsOf(b) THEN "PENDING" ELSE urls[u]
      BY <1>2 DEF CreateBatch, CreateWithUrls, SetRows, countVars
    <2>2. CASE u \in RowsOf(b)
      <3>1. urls[u] = "ABSENT"
        BY <2>1, <2>2 DEF IndInv, Untouched
      <3>2. attempts'[u] = 0
        BY <1>0, <2>1, <3>1 DEF Capped
      <3>. QED
        BY <1>0, <2>1, <2>2, <3>1, <3>2, CappedStart
    <2>3. CASE u \notin RowsOf(b)
      <3>1. \A h \in Handler : u \in todo'[h] => u \in todo[h]
        BY <1>0, <2>1, <2>3
      <3>. QED
        BY <1>0, <2>1, <2>3, <3>1, CappedFrame
    <2>. QED
      BY <2>2, <2>3
  <1>3. ASSUME NEW b \in Batch, NEW c \in Client, RetryFailedRead(c, b) PROVE Capped(u)'
    <2>1. urls' = urls /\ attempts' = attempts /\ todo' = todo /\ adding' = adding
      BY <1>3 DEF RetryFailedRead, RetryRead, countVars, handlerVars
    <2>. QED
      BY <1>0, <2>1, CappedFrame
  <1>4. ASSUME NEW c \in Client, NEW S \in SUBSET Url, RetryFailedWrite(c, S) PROVE Capped(u)'
    <2>1. /\ adding' = adding /\ todo' = [todo EXCEPT ![c] = S]
          /\ attempts'[u] = IF u \in S THEN 0 ELSE attempts[u]
          /\ urls'[u] = IF u \in S THEN "PENDING" ELSE urls[u]
          /\ u \in S => urls[u] = "FAILED"
      BY <1>4 DEF RetryFailedWrite, RetryWrite, SetRows, RowsWith
    <2>2. CASE u \in S
      BY <1>0, <2>1, <2>2, CappedStart
    <2>3. CASE u \notin S
      <3>1. \A h \in Handler : u \in todo'[h] => u \in todo[h]
        BY <1>0, <2>1, <2>3
      <3>. QED
        BY <1>0, <2>1, <2>3, <3>1, CappedFrame
    <2>. QED
      BY <2>2, <2>3
  <1>5. ASSUME NEW h \in Handler, EnqueueFails(h) \/ ApiCrash(h) PROVE Capped(u)'
    <2>1. urls' = urls /\ attempts' = attempts
      BY <1>5 DEF EnqueueFails, ApiCrash, storeVars
    <2>2. \A g \in Handler : (u \in todo'[g] => u \in todo[g]) /\ (adding'[g] = u => adding[g] = u)
      BY <1>0, <1>5, PipelineAssumption DEF EnqueueFails, ApiCrash
    <2>. QED
      BY <1>0, <2>1, <2>2, CappedFrame
  <1>. QED
    BY <1>1, <1>2, <1>3, <1>4, <1>5

LEMMA EnqueueKeepsCapped ==
  ASSUME QueueTypeOK, \A u \in Url : Capped(u), NEW h \in Handler, Enqueue(h)
  PROVE  \A u \in Url : Capped(u)'
  <1>. SUFFICES ASSUME NEW u \in Url PROVE Capped(u)'
    OBVIOUS
  <1>0. /\ urls' = urls /\ wk' = wk /\ attempts' = attempts /\ Capped(u) /\ attempts[u] \in Nat
        /\ todo \in [Handler -> SUBSET Url] /\ adding \in [Handler -> Url \cup {NoUrl}]
        /\ job \in [Url -> Job]
    BY EnqueueSteps DEF QueueTypeOK, storeVars
  <1>1. ASSUME NEW x \in Url, EnqueueRemove(h, x) PROVE Capped(u)'
    <2>1. /\ adding[h] = NoUrl /\ x \in todo[h]
          /\ todo' = [todo EXCEPT ![h] = @ \ {x}] /\ adding' = [adding EXCEPT ![h] = x]
          /\ job'[x] = NoJob \/ job'[x] = job[x]
          /\ u # x => job'[u] = job[u]
      BY <1>0, <1>1 DEF EnqueueRemove
    <2>2. CASE u # x
      <3>1. \A g \in Handler : (u \in todo'[g] => u \in todo[g]) /\ (adding'[g] = u => adding[g] = u)
        BY <1>0, <2>1, <2>2
      <3>. QED
        BY <1>0, <2>1, <2>2, <3>1, CappedFrame
    <2>3. CASE u = x
      <3>1. InHand(h, u)
        BY <2>1, <2>3 DEF InHand
      <3>2. ~Live(u) /\ \A g \in Handler \ {h} : ~InHand(g, u)
        BY <1>0, <3>1 DEF Capped
      <3>3. ~Live(u)' /\ HasOwner(u)'
        BY <1>0, <2>1, <2>3, <3>2
           DEF NoJob, Live, Ahead, Checked, Thrown, Stands, Orphan, Capped, HasOwner
      <3>4. /\ u \notin todo'[h]
            /\ \A g \in Handler \ {h} : ~InHand(g, u)'
        BY <1>0, <2>1, <2>3, <3>2 DEF InHand
      <3>. QED
        BY <1>0, <3>1, <3>3, <3>4 DEF Capped, Live
    <2>. QED
      BY <2>2, <2>3
  <1>2. ASSUME EnqueueAdd(h) PROVE Capped(u)'
    <2>. DEFINE x == adding[h]
    <2>1. /\ x \in Url /\ todo' = todo /\ adding' = [adding EXCEPT ![h] = NoUrl]
          /\ job'[x] = NewJob \/ (job'[x] = job[x] /\ job[x] # NoJob)
          /\ u # x => job'[u] = job[u]
      BY <1>0, <1>2 DEF EnqueueAdd
    <2>2. CASE u # x
      <3>1. \A g \in Handler : adding'[g] = u => adding[g] = u
        BY <1>0, <2>1, PipelineAssumption
      <3>. QED
        BY <1>0, <2>1, <2>2, <3>1, CappedFrame
    <2>3. CASE u = x
      <3>1. InHand(h, u)
        BY <2>3 DEF InHand
      <3>2. /\ ~Live(u) /\ attempts[u] = 0 /\ urls[u] \notin {"ABSENT", "FAILED"}
            /\ u \notin todo[h] /\ \A g \in Handler \ {h} : ~InHand(g, u)
        BY <1>0, <2>3, <3>1 DEF Capped
      <3>3. \A g \in Handler : ~InHand(g, u)'
        BY <1>0, <2>1, <2>3, <3>2, PipelineAssumption DEF InHand
      <3>4. CASE job'[u] = job[u]
        <4>1. ~Live(u)' /\ HasOwner(u)'
          BY <1>0, <3>2, <3>4 DEF Live, Ahead, Checked, Thrown, Stands, Orphan, Capped, HasOwner
        <4>. QED
          BY <1>0, <3>2, <3>3, <4>1 DEF Capped, Live
      <3>5. CASE job'[u] = NewJob
        <4>1. job'[u].state = "waiting" /\ job'[u].made = 0
          BY <3>5 DEF NewJob, NoJob
        <4>2. HasOwner(u)' /\ ~Checked(u)' /\ ~Thrown(u)'
          BY <4>1 DEF HasOwner, Checked, Thrown, Stands
        <4>. QED
          BY <1>0, <3>2, <3>3, <4>1, <4>2, PipelineAssumption DEF Capped
      <3>. QED
        BY <2>1, <2>3, <3>4, <3>5
    <2>. QED
      BY <2>2, <2>3
  <1>. QED
    BY <1>1, <1>2 DEF Enqueue

LEMMA QueueKeepsCapped ==
  ASSUME QueueTypeOK, \A u \in Url : Capped(u), NEW x \in Url, Promote(x) \/ Stalled(x) \/ Trim(x)
  PROVE  \A u \in Url : Capped(u)'
  <1>. SUFFICES ASSUME NEW u \in Url PROVE Capped(u)'
    OBVIOUS
  <1>0. /\ job'[x].state # "active"
        /\ \/ job[x].state \in {"delayed", "active"} /\ job'[x].made = job[x].made
           \/ job'[x] = NoJob /\ job[x].state # "active"
        /\ \A v \in Url \ {x} : job'[v] = job[v]
        /\ urls' = urls /\ wk' = wk /\ attempts' = attempts /\ todo' = todo /\ adding' = adding
        /\ Capped(u)
    BY QueueSteps DEF storeVars, handlerVars
  <1>1. CASE u # x
    BY <1>0, <1>1, CappedFrame
  <1>2. CASE u = x
    <2>1. HasOwner(u)' /\ ~Checked(u)' /\ ~Thrown(u)'
      BY <1>0, <1>2 DEF HasOwner, Checked, Thrown, Stands
    <2>2. Ahead(u)' => Ahead(u) /\ job'[u].made = job[u].made
      BY <1>0, <1>2 DEF Ahead, Orphan, Stands, NoJob, Promote, Stalled, Trim
    <2>3. \A h \in Handler : InHand(h, u)' = InHand(h, u)
      BY <1>0 DEF InHand
    <2>. QED
      BY <1>0, <2>1, <2>2, <2>3 DEF Capped, Live
  <1>. QED
    BY <1>1, <1>2

LEMMA PickKeepsCapped ==
  ASSUME QueueTypeOK, Ownership, \A u \in Url : Capped(u), NEW v \in Worker, NEW x \in Url, Pick(v, x)
  PROVE  \A u \in Url : Capped(u)'
  <1>. SUFFICES ASSUME NEW u \in Url PROVE Capped(u)'
    OBVIOUS
  <1>0. /\ job'[x].state = "active" /\ job'[x].owner = v /\ job'[x].made = job[x].made
        /\ \A y \in Url \ {x} : job'[y] = job[y]
        /\ wk'[v].pc = "claim" /\ wk'[v].url = x
        /\ \A y \in Worker \ {v} : wk'[y] = wk[y]
    BY PickSteps
  <1>1. /\ urls' = urls /\ attempts' = attempts /\ todo' = todo /\ adding' = adding
        /\ job[x].state = "waiting" /\ Capped(u) /\ wk[v].url \notin Url
    BY PipelineAssumption DEF Pick, storeVars, handlerVars, countVars, Ownership, Owns, Idle
  <1>2. CASE u # x
    <2>1. job[u].state = "active" => job[u].owner \in Worker
      BY <1>1 DEF Capped, HasOwner
    <2>. QED
      BY <1>0, <1>1, <1>2, <2>1, CappedFrame
  <1>3. CASE u = x
    <2>1. Ahead(u) /\ HasOwner(u)' /\ ~Checked(u)' /\ ~Thrown(u)'
      BY <1>0, <1>1, <1>3 DEF Ahead, HasOwner, Checked, Thrown, Stands
    <2>2. \A h \in Handler : InHand(h, u)' = InHand(h, u)
      BY <1>1 DEF InHand
    <2>. QED
      BY <1>0, <1>1, <1>3, <2>1, <2>2 DEF Capped, Live
  <1>. QED
    BY <1>2, <1>3

\* The URLs that the processor v is not at, when v moves on or stops.
LEMMA CappedElsewhere ==
  ASSUME QueueTypeOK, NEW v \in Worker, NEW u \in Url, u # wk[v].url, Capped(u),
         job'[u] = job[u], urls'[u] = urls[u], attempts'[u] = attempts[u],
         todo' = todo, adding' = adding, wk'[v].url \in {wk[v].url, NoUrl},
         \A w \in Worker \ {v} : wk'[w] = wk[w]
  PROVE  Capped(u)'
  <1>1. job[u].state = "active" => job[u].owner \in Worker
    BY DEF Capped, HasOwner
  <1>2. wk'[v].url # u
    BY PipelineAssumption
  <1>. QED
    BY <1>1, <1>2, CappedFrame

LEMMA ProcessorKeepsCapped ==
  ASSUME QueueTypeOK, Ownership, \A u \in Url : Capped(u), NEW v \in Worker,
         \/ ClaimUrl(v) \/ NotClaimable(v) \/ ReportRetry(v) \/ ReportFinal(v)
         \/ \E outcome \in {"SUCCESS", "FAILED", "TRANSIENT"} : Check(v, outcome)
         \/ ClaimThrows(v) \/ ProcessorThrows(v)
  PROVE  \A u \in Url : Capped(u)'
  <1>1. /\ wk[v].pc \in {"claim", "check", "report"} /\ job' = job
        /\ \E pc \in Pc \ {"idle"}, outcome \in Outcome : Goto(v, pc, outcome)
    BY ProcessorSteps
  <1>0. PICK x \in Url : x = wk[v].url
    BY <1>1 DEF QueueTypeOK, At
  <1>2. /\ x \in Url /\ job[x].state = "active" /\ job[x].owner = v
        /\ job[x].made \in Nat /\ attempts[x] \in Nat /\ attempts \in [Url -> Nat]
    BY <1>0, <1>1 DEF Ownership, Owns, QueueTypeOK, Job, At
  <1>3. /\ \A u \in Url \ {x} : urls'[u] = urls[u] /\ attempts'[u] = attempts[u]
        /\ todo' = todo /\ adding' = adding
    BY <1>0, <1>2 DEF ClaimUrl, NotClaimable, ReportRetry, ReportFinal, ProcessorThrows, ClaimThrows, Check, Claim,
                ReleaseForRetry, PersistResult, SetRows, storeVars, countVars, handlerVars
  <1>4. PICK pc \in Pc \ {"idle"}, outcome \in Outcome : Goto(v, pc, outcome)
    BY <1>1
  <1>5. /\ wk'[v].pc = pc /\ wk'[v].outcome = outcome /\ wk'[v].url = x
        /\ \A w \in Worker \ {v} : wk'[w] = wk[w]
    BY <1>0, <1>4, GotoMoves
  <1>6. ASSUME NEW u \in Url, u # x PROVE Capped(u)'
    BY <1>0, <1>1, <1>3, <1>5, <1>6, CappedElsewhere
  <1>7. /\ Live(x) /\ (At(v, "claim") => Ahead(x)) /\ (wk[v].pc \in {"check", "report"} => Checked(x))
        /\ Capped(x) /\ HasOwner(x)' /\ \A h \in Handler : ~InHand(h, x)'
    <2>1. (At(v, "claim") => Ahead(x)) /\ (wk[v].pc \in {"check", "report"} => Checked(x))
      BY <1>0, <1>2 DEF Ahead, Checked, Stands, At
    <2>2. Live(x) /\ Capped(x)
      BY <1>1, <1>2, <2>1 DEF Live, At
    <2>3. \A h \in Handler : ~InHand(h, x)'
      BY <1>3, <2>2 DEF Capped, InHand
    <2>. QED
      BY <1>1, <1>2, <2>1, <2>2, <2>3 DEF HasOwner
  <1>8. /\ job[x].made < MaxAttempts /\ attempts[x] <= job[x].made + 1
        /\ urls[x] \notin {"ABSENT", "FAILED"} /\ attempts[x] <= MaxAttempts
    BY <1>7 DEF Capped
  <1>9. ~Ahead(x)' \/ pc = "claim"
    BY <1>1, <1>2, <1>5 DEF Ahead, Orphan, Stands
  <1>10. /\ Checked(x)' => pc \in {"check", "report"}
         /\ Thrown(x)' => pc = "end" /\ outcome = "throw"
    BY <1>1, <1>2, <1>5 DEF Checked, Thrown, Stands
  <1>11. CASE ClaimUrl(v)
    <2>1. /\ urls[x] = "PENDING" /\ At(v, "claim") /\ urls'[x] = "PROCESSING"
          /\ attempts'[x] = IF attempts[x] > MaxAttempts THEN attempts[x] ELSE attempts[x] + 1
          /\ wk'[v].pc = "check"
      BY <1>0, <1>2, <1>11 DEF ClaimUrl, Claim, SetRows, Goto, QueueTypeOK
    <2>2. attempts[x] <= job[x].made
      BY <1>7, <2>1 DEF Capped
    <2>3. attempts'[x] <= job[x].made + 1 /\ attempts'[x] <= MaxAttempts
      BY <1>2, <1>8, <2>1, <2>2, PipelineAssumption
    <2>4. Capped(x)'
      BY <1>1, <1>5, <1>7, <1>8, <1>9, <1>10, <2>1, <2>3 DEF Capped
    <2>. QED
      BY <1>6, <2>4
  <1>12. CASE \E o \in {"SUCCESS", "FAILED", "TRANSIENT"} : Check(v, o)
    <2>1. urls' = urls /\ attempts' = attempts /\ At(v, "check") /\ wk'[v].pc = "report"
      BY <1>12 DEF Check, Goto, QueueTypeOK, storeVars
    <2>2. Checked(x) /\ urls[x] # "PENDING"
      BY <1>7, <2>1 DEF Capped, At
    <2>3. Capped(x)'
      BY <1>1, <1>5, <1>7, <1>8, <1>9, <1>10, <2>1, <2>2 DEF Capped
    <2>. QED
      BY <1>6, <2>3
  <1>13. CASE NotClaimable(v) \/ ReportFinal(v)
    <2>1. /\ attempts' = attempts /\ wk'[v].pc = "end" /\ wk'[v].outcome = "ok"
          /\ urls'[x] = urls[x] \/ urls'[x] \in {"SUCCESS", "FAILED"}
      BY <1>0, <1>2, <1>13 DEF NotClaimable, ReportFinal, PersistResult, SetRows, Goto, QueueTypeOK,
                               Process, storeVars, countVars
    <2>2. ~Live(x)' /\ ~Ahead(x)' /\ ~Checked(x)'
      BY <1>5, <1>9, <1>10, <2>1 DEF Live
    <2>3. Capped(x)'
      BY <1>7, <1>8, <2>1, <2>2 DEF Capped
    <2>. QED
      BY <1>6, <2>3
  <1>14. CASE ReportRetry(v) \/ ClaimThrows(v) \/ ProcessorThrows(v)
    <2>1. /\ attempts' = attempts
          /\ urls'[x] = urls[x] \/ urls'[x] = "PENDING"
          /\ Goto(v, "end", "throw") \/ Goto(v, "end", "ok")
      BY <1>0, <1>2, <1>14 DEF ReportRetry, ClaimThrows, ProcessorThrows, ReleaseForRetry, SetRows,
                               storeVars, countVars
    <2>2. wk'[v].pc = "end"
      BY <2>1, GotoMoves DEF Pc, Outcome
    <2>3. ~Ahead(x)' /\ ~Checked(x)'
      BY <1>5, <1>9, <1>10, <2>2
    <2>4. Capped(x)'
      BY <1>1, <1>7, <1>8, <2>1, <2>3 DEF Capped
    <2>. QED
      BY <1>6, <2>4
  <1>. QED
    BY <1>11, <1>12, <1>13, <1>14

\* The job ends, or its processor dies before it does.
LEMMA EndKeepsCapped ==
  ASSUME QueueTypeOK, Ownership, \A u \in Url : Capped(u), NEW v \in Worker,
         EndJob(v) \/ (WorkerCrash(v) /\ ~At(v, "end"))
  PROVE  \A u \in Url : Capped(u)'
  <1>0. PICK x \in Url : x = wk[v].url /\ ~At(v, "idle")
    BY DEF EndJob, WorkerCrash, QueueTypeOK, At
  <1>1. /\ wk'[v] = Idle /\ \A w \in Worker \ {v} : wk'[w] = wk[w]
        /\ \A u \in Url : u # x => job'[u] = job[u]
    BY <1>0, EndSteps, CrashSteps
  <1>2. /\ urls' = urls /\ attempts' = attempts /\ todo' = todo /\ adding' = adding
    BY DEF EndJob, WorkerCrash, storeVars, handlerVars, countVars
  <1>3. /\ job[x].state = "active" /\ job[x].owner = v
        /\ job[x].made \in Nat /\ attempts[x] \in Nat /\ wk[v].pc \in Pc
    BY <1>0 DEF Ownership, Owns, QueueTypeOK, Job, Process
  <1>4. ASSUME NEW u \in Url, u # x PROVE Capped(u)'
    BY <1>0, <1>1, <1>2, <1>4, CappedElsewhere DEF Idle
  <1>5. Capped(x) /\ \A h \in Handler : InHand(h, x)' = InHand(h, x)
    BY <1>2, <1>3 DEF InHand
  <1>6. CASE EndJob(v) /\ wk[v].outcome = "throw" /\ job'[x] = AfterThrow(job[x])
    <2>1. Live(x)
      BY <1>0, <1>3, <1>6 DEF EndJob, Live, Thrown, Stands, At
    <2>2. /\ job'[x].made = job[x].made + 1
          /\ job'[x].state = IF job[x].made + 1 < MaxAttempts THEN "delayed" ELSE "failed"
      BY <1>6 DEF AfterThrow
    <2>3. HasOwner(x)' /\ ~Checked(x)' /\ ~Thrown(x)' /\ (Ahead(x)' => job'[x].made < MaxAttempts)
      BY <2>2 DEF HasOwner, Checked, Thrown, Ahead, Orphan, Stands
    <2>4. Capped(x)'
      BY <1>2, <1>3, <1>5, <2>1, <2>2, <2>3 DEF Capped, Live
    <2>. QED
      BY <1>4, <2>4
  <1>7. CASE EndJob(v) /\ job'[x].state = "completed"
    <2>1. HasOwner(x)' /\ ~Live(x)' /\ ~Checked(x)' /\ ~Ahead(x)'
      BY <1>7 DEF HasOwner, Live, Checked, Thrown, Ahead, Orphan, Stands
    <2>2. Capped(x)'
      BY <1>2, <1>5, <2>1 DEF Capped
    <2>. QED
      BY <1>4, <2>2
  <1>8. CASE WorkerCrash(v) /\ ~At(v, "end")
    <2>1. job' = job /\ wk'[v].url # x
      BY <1>1, <1>3, <1>8, CrashSteps, PipelineAssumption DEF Idle
    <2>2. Ahead(x)' /\ HasOwner(x)' /\ ~Checked(x)' /\ ~Thrown(x)'
      BY <1>3, <2>1 DEF Ahead, Orphan, HasOwner, Checked, Thrown, Stands
    <2>3. Live(x) /\ (Ahead(x) \/ Checked(x))
      BY <1>0, <1>3, <1>8 DEF Live, Ahead, Checked, Stands, At, Pc
    <2>4. Capped(x)'
      BY <1>2, <1>5, <2>1, <2>2, <2>3 DEF Capped
    <2>. QED
      BY <1>4, <2>4
  <1>. QED
    BY <1>0, <1>3, <1>6, <1>7, <1>8, EndSteps

\* INV-5 holds without the sweep, and whatever else happens but a lost lock or
\* a crash between a settled URL and the end of its job: requests, retries,
\* cancellations, other crashes and errors of the queue and of the database
\* give no round more than MaxAttempts claims.
THEOREM RoundsAreCapped == PipelineSpec /\ [][~ReopensRound]_vars => []AttemptsPerRound
  <1>. DEFINE AllCapped == \A u \in Url : Capped(u)
  <1>1. PipelineInit => AllCapped
    <2>. SUFFICES ASSUME PipelineInit, NEW u \in Url PROVE Capped(u)
      OBVIOUS
    <2>1. /\ job[u] = NoJob /\ attempts[u] = 0
          /\ \A h \in Handler : todo[h] = {} /\ adding[h] = NoUrl
      BY DEF PipelineInit
    <2>2. HasOwner(u) /\ ~Live(u) /\ ~Ahead(u) /\ ~Checked(u)
      BY <2>1 DEF NoJob, HasOwner, Live, Ahead, Checked, Thrown, Orphan, Stands
    <2>3. \A h \in Handler : ~InHand(h, u)
      BY <2>1, PipelineAssumption DEF InHand
    <2>. QED
      BY <2>1, <2>2, <2>3, PipelineAssumption DEF Capped
  <1>2. IndInv /\ QueueTypeOK /\ Ownership /\ AllCapped /\ [PipelineNext]_vars /\ [~ReopensRound]_vars
          => AllCapped'
    <2>1. ASSUME AllCapped, UNCHANGED vars PROVE AllCapped'
      BY <2>1, CappedFrame DEF vars, storeVars
    <2>. SUFFICES ASSUME IndInv, QueueTypeOK, Ownership, AllCapped, PipelineNext, ~ReopensRound
                  PROVE  AllCapped'
      BY <2>1
    <2>2. ASSUME NEW w \in Worker, Work(w) \/ ClaimThrows(w) \/ ProcessorThrows(w) \/ WorkerCrash(w)
          PROVE  AllCapped'
      BY <2>2, ProcessorKeepsCapped, EndKeepsCapped DEF Work, ReopensRound
    <2>3. ASSUME NEW u \in Url, Promote(u) \/ Stalled(u) \/ LoseLock(u) \/ Trim(u) PROVE AllCapped'
      BY <2>3, QueueKeepsCapped DEF ReopensRound
    <2>4. CASE \/ \E b \in Batch : CancelBatch(b) \/ \E c \in Client : CreateBatch(c, b) \/ RetryFailedRead(c, b)
               \/ \E c \in Client, S \in SUBSET Url : RetryFailedWrite(c, S)
               \/ \E h \in Handler : EnqueueFails(h) \/ ApiCrash(h)
      BY <2>4, HandlersKeepCapped
    <2>5. CASE \E s \in Sweeper : SweepFind(s) \/ \E S \in SUBSET Url : SweepRecover(s, S)
      BY <2>5 DEF ReopensRound
    <2>. QED
      BY <2>2, <2>3, <2>4, <2>5, EnqueueKeepsCapped, PickKeepsCapped DEF PipelineNext
  <1>3. AllCapped => AttemptsPerRound
    BY DEF Capped, AttemptsPerRound
  <1>4. [~ReopensRound]_vars => [LocksKept]_vars
    BY DEF ReopensRound, LocksKept
  <1>. QED
    BY <1>1, <1>2, <1>3, <1>4, PipelineTypes, OwnershipHolds, PTL DEF PipelineSpec

-----------------------------------------------------------------------------
(* What the sweep finds *)

\* Every PENDING row is one that findReconcilableJobs returns, every PROCESSING
\* row one that recoverStuck releases once it is old enough.
SweepSees ==
  \A u \in Url : /\ urls[u] = "PENDING" => u \in Reconcilable
                 /\ urls[u] = "PROCESSING" => Recoverable(u)

\* The joins of the two queries with the batch status hide no URL from the
\* sweep, whatever requests, workers and crashes leave behind.  That every URL
\* settles, which is only model-checked, rests on this.
THEOREM SweepMissesNoUrl == PipelineSpec => []SweepSees
  <1>1. IndInv => SweepSees
    <2>. SUFFICES ASSUME IndInv, NEW u \in Url, urls[u] \in Active
                  PROVE  /\ urls[u] = "PENDING" => u \in Reconcilable
                         /\ urls[u] = "PROCESSING" => Recoverable(u)
      BY DEF SweepSees, Active
    <2>. DEFINE b == BatchOf[u]
    <2>1. b \in Batch /\ u \in RowsOf(b) /\ u \in ActiveRows(b)
      BY BatchStoreAssumption DEF BatchStoreAssumption, RowsOf, ActiveRows
    <2>2. batches[b].status \in BatchStatus
      BY <2>1 DEF IndInv, TypeOK, BatchRow
    <2>3. batches[b].status \notin Terminal /\ Untouched(b)
      BY <2>1 DEF IndInv, TerminalIsSettled
    <2>4. batches[b].status \in Active /\ (urls[u] # "PENDING" => batches[b].status = "PROCESSING")
      BY <2>1, <2>2, <2>3 DEF Untouched, BatchStatus, Terminal, Active
    <2>. QED
      BY <2>4 DEF Reconcilable, Recoverable
  <1>. QED
    BY <1>1, PipelineBookkeeping, PTL
=============================================================================
