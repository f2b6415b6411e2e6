# A TLA+ verification of URLPulse

URLPulse takes a list of URLs from a signed-in user, checks each of them over
HTTP from a pool of workers, and shows the progress of the batch live. This
directory holds TLA+ models of the parts of it where several processes share
state, TLC configurations that check them on small instances, and TLAPS proofs
of the most important invariants for instances of every size.

Paths below are relative to `src/`. `INV-n` and `ADR-n` are the invariants and
decisions of `docs/02-architecture/decisions.md` and
`docs/07-implementation/implementation-plan.md`.

## 1. Inventory

| Part | State | Operations | Talks to |
|---|---|---|---|
| Batch and URL tables: `apps/api/src/repositories/batches.ts`, `apps/worker/src/repositories/urls.ts`, migrations 0001, 0003 | `batches` (status, total and three counters), `urls` (status, attempt count, result) | createWithUrls, cancel, retryFailed, claim, persistResult, releaseForRetry, recoverStuck, findReconcilableJobs, getById, list | called by the service and by the workers |
| Batch service: `apps/api/src/services/batches.ts`, timer in `server.ts` | none of its own; what a request still has to enqueue | createBatch, cancelBatch, retryFailed, listBatches, reconcile | tables, queue, cache, event channel |
| Queue: `apps/api/src/lib/queue.ts`, BullMQ | one job per URL id: waiting, active, delayed, completed, failed; attempts made | remove, add, take, retry with backoff, stalled check, trimming | service, workers |
| Worker job: `apps/worker/src/jobs/url-check.ts`, `worker.ts` | progress of one job | claim, check, release for retry, persist, infrastructure failure | everything |
| Concurrency limiter: `apps/worker/src/lib/concurrency.ts` | Redis ZSET of leases | acquire, release, expiry | worker job |
| Rate limiter: `packages/outbound/src/rate-limiter.ts` | Redis ZSET of permits of the last window | acquire (polls until a permit is free) | HTTP checker, demo route |
| HTTP checker: `apps/worker/src/lib/http-checker.ts`, target policy `packages/outbound/src/ssrf.ts` | one request, its redirects and abort timer | checkUrl | rate limiter, target, DNS |
| List cache: `apps/api/src/lib/cache.ts` | version counter and pages in Redis | get, set, invalidate | service, workers |
| Live updates: `apps/api/src/lib/events.ts`, `routes/batches.ts`, `apps/web/features/batches/...` | SSE clients per batch; the page's snapshot, stream, GET and command | publish, subscribe, clean up; open, refetch, cancel, retry | service and workers publish, the page refetches |
| Alerts: `apps/worker/src/lib/alerts.ts`, `repositories/alerts.ts`, `services/alerts.ts`, migration 0005 | `alerts` rows, one open per URL and type | derive and insert in persistResult, resolve on recovery, set status | worker, user |
| Alerts in the browser: `apps/web/features/alerts/hooks/useAlertsStore.ts` | list and optimistic changes | refresh, set status, roll back | alerts API |
| Demo checks: `apps/api/src/routes/demo.ts` | a counter per client in Redis | INCR, EXPIRE, check | rate limiter, checker |
| Accounts: `apps/api/src/lib/auth.ts`, Better Auth, `lib/email.ts`, the sign-in, reset and verification pages | user row with two counters and a lock, mailed links, sessions | sign up, verify, sign in, sign out, reset | PostgreSQL, e-mail |
| CSV import: `apps/api/src/lib/csv.ts` | none | parse, find the URL column | createBatch |
| Migrations: `apps/api/src/migrate.ts` | `schema_migrations` | apply pending files | PostgreSQL; run by the launcher |
| Launcher: `scripts/start.mjs` | its stage and its child processes | check, migrate, start, shut down | all services |
| Web pages: `apps/web/features/marketing`, `batches`, `history` | form, stash of the landing panel, lists and their page numbers | submit, demo, page through, filter | batches API, demo route |
| Configuration, types, logging, health, presentational components, deployment scripts | none that changes over time | | |

How they interact: a request commits rows and only then enqueues, one BullMQ
job per URL. A worker takes the job, claims the URL in a transaction, waits
for a slot and for rate permits, requests the target, and either persists the
result or releases the URL and throws so that BullMQ delivers the job again
after a backoff. Every commit that changes what a user sees is followed by a
PUBLISH and by an INCR of the list version; both are best effort. A timer in
the API reclaims URLs that stay PROCESSING too long and enqueues every PENDING
URL of an active batch again.

Hard behaviours, and what makes each part correct:

* **Tables.** Cancel, retry, claim, result and recovery of one batch interleave
  under READ COMMITTED. Counters must equal the rows, a batch must finish
  exactly when nothing is left to do, and finished rows must stay.
* **Pipeline.** Commit and enqueue are not atomic; jobs are delivered twice, or
  lost with their worker; the sweep cannot tell a slow check from a dead one
  nor a URL in backoff from a forgotten one. Every URL must end, with one
  check at a time and the promised number of attempts.
* **List cache.** A slow reader, an invalidation and a commit race; Redis fails
  at any call. No answer may be older than a change already invalidated.
* **Live updates.** Notifications, reconnects, refetches and the page's own
  commands arrive in any order. The page must hold one stream while the batch
  is active, and show its end.
* **Concurrency limiter.** Answers and releases are lost, workers die. Never
  more than the limit, and no slot lost for ever.
* **Outbound requests.** A permit is recorded before its request leaves, a
  check waits for DNS and permits while it holds a slot and while its abort timer
  has long fired, demo checks give up and leave their `acquire()` behind. The
  rate must hold, every check must end, and a check that its timers could still
  end must have its slot.
* **Alerts.** The worker derives and resolves alerts while the user changes
  their status; in the browser optimistic changes, refreshes and polls cross.
* **Accounts.** Counters are read in one statement and written in another, a
  lock is tested before the password is, a reset revokes sessions that a sign-in
  in progress is about to create.
* **Launcher and migrations.** Several launchers and runners work on one database
  and one host, any of which may be killed, its detached services with it or not; a
  service is two processes.
* **Pages.** A click, an answer, a time-out and a change of page come in any order.
* **CSV.** One loop with a look-ahead handles quotes, line breaks and blank rows.

`PROJECT.json` lists the hazards line by line with the properties that cover
them.

## 2. Modules

| Module | Models | Built on |
|---|---|---|
| `BatchStore` | the transactions on `batches` and `urls`, each one action | |
| `BatchStoreProofs` | theorems about it | `BatchStore` |
| `BatchTx`, `BatchTxProofs` | the same transactions statement by statement, with row locks | instantiates `BatchStore` (and its proofs) |
| `Pipeline`, `PipelineProofs` | API handlers, queue, workers, sweep | extends `BatchStore` (and its proofs) |
| `ListCache`, `ListCacheProofs` | the batch list cache, its readers and writers; the proofs also of `Pages` | |
| `LiveUpdates`, `LiveUpdatesProofs` | event channel, SSE route, batch page | |
| `ConcurrencySlots`, `ConcurrencySlotsProofs` | the slot limiter; the proofs also of `Outbound` | |
| `Outbound` | `checkUrl`, the demo route and the rate limiter | instantiates `ConcurrencySlots` |
| `Alerts` | alert rows, routes, Alerts page and bell | |
| `Accounts` | sign-up, sign-in, lockout, grace period, reset, sessions | |
| `TablesProofs` | theorems about accounts and alerts | `Accounts`, `Alerts` |
| `Launcher`, `LauncherProofs` | `start.mjs`, the migration runner, the services; the proofs also of `Csv` | |
| `Pages` | landing panel, create form and the three lists of one browser tab | |
| `Csv` | the CSV parser as a state machine, fed by a writer | |
| `MCBatchStore`, `MCPipeline` | values of `BatchOf` and symmetry sets for TLC | `BatchStore`, `Pipeline` |
| `MCTables` | one run of what the database holds | `MCBatchStore`, `Alerts`, `Accounts` |
| `MCLimits` | one run of the two limiters | `ConcurrencySlots`, `Outbound` |
| `MCParts` | one run of four small parts | `BatchTx`, `Launcher`, `Pages`, `Csv` |

`MCTables`, `MCLimits` and `MCParts` put parts side by side that share no
variable. Each has a variable, fixed in the initial state, that says which part
a behaviour runs; the others keep their initial values. So the states of such a
run are the sum of the parts' states, and each property is checked on exactly
the behaviours of its own part.

In each component module a definition named `Bad...` stands before the
operation it distorts. It is a mistake the code could have made; it is not
part of the model, and replacing the operation by it breaks the property
listed for it under `mutants` in `PROJECT.json`.

### BatchStore

`urls[u]` and `batches[b]` are the rows, `ABSENT` before their insert. There is
one action per transaction (`CreateWithUrls`, `Cancel`, `Claim`,
`PersistResult`, `ReleaseForRetry`, `RecoverStuck`), placed at its commit; a
guard that fails is the no-op or "skipped" path of the code. `retryFailed`
reads the batch status with a plain SELECT and acts on it later, so it is two
actions, `RetryRead` and `RetryWrite`, with `retryTx` in between. `RetryWrite`
may claim any subset of the rows FAILED at its commit, because a row that
fails after the UPDATE took its snapshot is missed. `attempt_count`, result columns,
timestamps and ownership guard nothing here and are left out; `recoverStuck`'s
age test is a free choice of rows.

### BatchTx

The justification of the above. A transaction takes its locks one row at a
time, works on the rows its statement's snapshot found, and tests its WHERE
clause again on the row it locks. It writes at the commit and may be rolled
back at any time. `RetryOf` maps the open retries to `retryTx`, and
`ImplementsStore` (`Store!Spec`, where `Store` is the instance of `BatchStore`)
says every step is one of `BatchStore`'s or a stutter. `Blockers` and
`Deadlocked` describe who waits for whom.

### Pipeline

Adds the BullMQ job of each URL (`job`), each processor's place in
`url-check.ts` (`wk`), and what each API handler still has to enqueue (`todo`,
`adding`, `finding`). The handlers' steps are cut where another process can
act: between commit and enqueue, between `remove` and `add`, between
`recoverStuck` and `findReconcilableJobs`. BullMQ's own operations (`Pick`,
`Promote`, `Stalled`, `LoseLock`, `Trim`, `EndJob`) are modelled from how the
source uses them. A worker crash frees the processor and leaves job and row as
they were. `attempts` is `attempt_count`, kept here for the properties.

### ListCache

A page is the number of commits it reflects. Writers commit and then INCR, or
lose the INCR; readers read the version, look up, query, store under the version
they saw, and answer; `since` remembers the last change that had been
invalidated when the call began. Redis may fail at every call.

### LiveUpdates

The batch is a revision number and whether it has ended. A connection has one
`phase` for both ends, and the notifications on their way to the browser. The
page has a snapshot, an EventSource, at most one GET in flight (the coalescing of
`useBatchDetail.ts:26-31`) and two commands, cancel and retry, at most one of each
kind at a time, which may overlap (`busy` is one value, cleared by whichever
ends first). `unheard` records that some change
since the last GET will not be announced to the page again: it was never published
(claims, releases, the sweep), its message or response was lost, it was
coalesced into a GET that had already read the row, or an older response was
shown over a newer one.

### ConcurrencySlots

A lease is the time it has left. `Tick` is Redis server time. `GrantLost` is an
`EVAL` whose answer does not arrive, after which `acquire` throws or the client
sends the script again; `Release` may fail; `Crash` leaves the lease behind. Nothing
bounds the time a check holds its slot, so it may go on after its lease has been
dropped and somebody else has been admitted; `age` is how long it has held it.

### Outbound

`call[u]` is the place of one check in `checkUrl` (worker) or `checkOne` (demo):
target policy, permit, request, redirect, body, certificate, verdict, with the hops,
the abort timer and the time it has waited. `log[p]` is the time permit `p` stays in
the limiter's ZSET, `sent[p]` the same for the request that left on it, in a window
shortened by `Lag`; an admitted check carries its permit. `Permit` is a bound: one
name more than the rate is enough, as the proofs show, because a name is free again
when its permit leaves the window. `Due` names the steps that cannot be overtaken by
time because a timer has fired or nothing is waited for; DNS, the permit queue and
the target are not among them, nor is the release of the slot, which waits until the
result is stored, published and the lists are invalidated (`url-check.ts:103-131`).
The demo's quota is the INCR/EXPIRE counter of one client: the answer to INCR may be
lost, and ioredis sends it again, which counts twice and starts no window; EXPIRE
may be refused; the API may die in between. `cut` records that one of these
happened. `orphans` are `acquire()` calls whose caller gave up. The slot is
`ConcurrencySlots` with its lease time; its ages are not needed here.

### Alerts

The rows are one URL's alerts, with the partial unique index "one open alert per
URL and type" as the meaning of `ON CONFLICT DO NOTHING` and as an error for a
status change. `persistResult` reads whether a failure was open in one statement
(`PersistReads`), closes the failures in the next (`PersistCloses`) and inserts
and commits after that (`PersistCommits`); until then `check.closing` are the rows
it has locked, which a status change of the user waits for, while an already
resolved failure can be opened again beside them (`check.reopened`). A `flow` is
one click of the user with its POST, the refresh and the bell's request that
follow it, each answered on its own. The browser gives a POST up after 15 s
(`PostAborts`), and the API may still apply it (`late`). `mess` records that an
answer was overtaken by a younger one, a GET failed, or a change was applied so
late that the refresh after it had already read.

### Accounts

Passwords are numbered by reset: `user.pw` is 0 until `ChangePassword` and
1 after it. A sign-in is cut at every statement of the hooks in `lib/auth.ts`:
`Before` (lock), `CheckPassword`, `ReadGrace`, `CountGrace`, `CreateSession`,
`ReadLock`, `WriteLock`. Mails are links that may or may not arrive (`Mail`):
without a provider nothing is sent, and delivery errors are swallowed.
`tally` is a ghost: the failures and sessions there really were, and whether
checked sign-ins overlapped, which the two-statement counters do not survive.

### Launcher

Several people run `start.mjs` on one host against one database. A service is its
wrapper (whose exit the launcher sees) and its server (which holds the port and is
told by SIGTERM to the process group). `Interrupt` is Ctrl+C or SIGTERM, which the
launcher handles once its services run; `Killed` is every other end of it, a closed
terminal, SIGKILL or a crash, of which the detached services hear nothing. The
migration runner reads the applied list once and then applies file by file, one
transaction each.

### Pages

One mounted page at a time; mounting resets its state, requests go on. `post`
follows each POST /batches from click to answer, `lost` records that an answer
did not arrive or its page had been left. `recent`, `history` and `results`
keep the page number a list names and the page whose rows it has. The landing
panel stashes its text unvalidated, so a form may come back invalid or too long.

### Csv

The parser's loop is a state machine that turns once per character and looks one
character ahead (`reader`, `Turned`). A writer produces the file as the loop reads
it: it puts down one character, or the end of the file, and the loop turns on the
character before, whose successor is then known. Seven classes of characters are
told apart. The writer writes a table (`sheet`) by RFC 4180, with any cell quoted
or not and with LF, CRLF or CR, or any text at all; it chooses each character
late, so a state stands for all files that begin alike. A row of nothing but white
space outside quotes is no row to the parser, nor is a last line of one empty
quoted cell without a line break, and `sheet` leaves them out for that reason.

## 3. Runs

Passing runs. Deadlock is checked in the `pipeline` runs, `list_cache` and `limits`,
and switched off where everything may legitimately be over.

| Run | Instance | Shows |
|---|---|---|
| `tables` | two batches with 2 and 1 URLs and two retrying clients; two alerts and two clicks; one account in two browsers, three sign-ins | **Batches:** counters equal rows (`CountersMatchRows`); a batch is terminal exactly when it has no active URL (`TerminalIsSettled`, `ProcessingHasWork`); the verdict agrees with the rows; settled rows stay; a COMPLETED batch is never reopened; and the invariant of the proofs (`IndInv`). **Alerts:** after a success no failure alert is open unless the user opened it again after the closing UPDATE looked (`OpenFailureHasCause`); when all is answered or given up, page and bell show the user's changes and nothing optimistic, but for the recorded causes (`Reconciled`). **Accounts:** the failures on record are the consecutive ones (`FailuresAddUp`), an unverified user gets no more than the allowed sessions (`GraceHolds`), both if no two sign-ins overlap; a lock stops every sign-in that has not passed it (`LockStopsSignIns`); a reset ends every session with the old password (`SessionsFollowPassword`). |
| `parts` | one batch of two URLs and three open transactions; two launchers, two services, two migration files; two submissions, three list pages; CSV tables of up to two rows of two cells of at most one character, and all texts of up to four | **Transactions:** under READ COMMITTED the statements have the effect of `BatchStore`'s atomic transactions (`ImplementsStore`). Workers never deadlock among themselves and cancel never with retry: every cycle needs a bulk statement against a claim or a result, or two bulk statements. **Launcher:** each migration takes effect once, in order, with its record, before any service (`SchemaFirst`); no service is left behind untold unless a spawn failed, its wrapper was killed alone or the launcher was killed (`StraysHaveCause`). **Pages:** one list becomes one batch unless an answer was lost (`OneBatch`); lists show the rows of the page they name (`ListsShowTheirPage`). **CSV:** parsing gives back the table the text was written from (`CsvKeepsTable`). |
| `pipeline_safety` | two URLs, two processors, a client, a sweeper; no faults; checks may outlive the stuck threshold | `SingleChecker`: two processors never check one URL at once. `NoEarlyGiveUp`: a transient failure is final only after `MaxAttempts` claims in the round, although the cap is compared with another counter. |
| `pipeline_live` | one URL, two processors, two faults of any kind including a lost job lock; checks may outlive the stuck threshold | If the sweep does not reclaim running checks for ever (`ChecksGetFaster`), `EveryUrlSettles`: a URL that is PENDING gets an outcome; and `EveryBatchEnds`: a batch ends unless someone retries it for ever. |
| `list_cache` | two writers, two readers, two commits | `ResponseFresh` (INV-13) and `CacheFresh`; `EventuallyListed`: a lost INCR is outlived by the TTL (ADR-012); the proofs' `IndInv`. |
| `live_updates` | two connections, two revisions, overlapping commands, one fault | `OneStream`; `StaleHasCause`: when everything has arrived, a page that is stale has one of the causes named above; `EndShown`: otherwise the end of the batch is shown. |
| `limits` | three checks, two slots, leases of two ticks; one worker check and one demo check that share two permits per two ticks | **Slots:** `AtMostLimit` (INV-3 for the checks within their lease), `PoolNeverStuck`: slots of dead checks come back; the proofs' `IndInv`. **Outbound:** `RateHolds` (INV-4, over the window shortened by the longest delay between permit and request), `SlotLossHasCause` (ADR-022): a check has its slot until its verdict unless DNS or the permit queue held it past its own timer; `QuotaExpires`: a demo client is forgotten again unless Redis or the API failed at the first request of its window; `EveryCheckEnds`: no target holds a check for ever. |

Runs that find a disagreement between the code and what the repository says of it:

| Run | Property | What happens |
|---|---|---|
| `retry_cancel_race` | `CancelledIsFinal` | `retryFailed` reads PROCESSING or FAILED without a lock, a cancellation commits, and the retry sets PROCESSING where `id` only (`batches.ts:175-195`). `docs/03-backend/cancellation.md:53`: "`CANCELLED` is terminal for that execution of the batch". A new URL round runs in a batch the user was told is cancelled; counters stay right (they are proved to). |
| `pipeline_attempts` | `AttemptsPerRound` | The sweep also finds a URL that waits out its backoff, removes the delayed job and adds a fresh one with no attempts made. `implementation-plan.md:30` promises at most four attempts per round. |
| `live_updates_stale` | `NeverStale` | The last notification is coalesced into a GET the server has already answered with the older row; the page shows PROCESSING on a live stream. The comment at `useBatchDetail.ts:13-15` excludes this. |
| `live_updates_leak` | `NoLeakedClient` | A browser closes the stream during the route's `await service.getBatch`; the close handler is attached afterwards and never fires. The comment at `routes/batches.ts:145` says it never leaks. |
| `recent_batches` | `RecentShowsPage` | Going to page 2 of the dashboard's list and back to page 1 fetches nothing (`RecentBatches.tsx:44`), and the rows of page 2 stay under a pagination that says 1. The comment at `RecentBatches.tsx:30-31`: "page and page-size changes refetch from GET /api/batches". |

### Bounds, and why they are enough

* Two URLs in one batch are the smallest case where a last result races another
  transaction; the second batch shows that batches do not disturb each other.
  The theorems cover the other sizes.
* Three transactions allow every pair of conflicting transactions beside a third
  that changes the rows under them. Two URLs are the fewest for a cycle between
  bulk statements.
* `MaxAttempts = 2` has a first and a last attempt; faults that consume attempts use
  them up in `pipeline_live`, two transient failures do in `pipeline_safety`. In
  `pipeline_live` targets do not fail transiently (`MaxTransient = 0`): a job whose
  processor throws is released, waits out its backoff and is delivered again in the
  same way, and that is one of the faults. `pipeline_attempts` uses the production
  value 4. `MaxTransient` bounds failures of targets, not of the system: without it
  a target may fail for ever, which the attempt cap turns into FAILED only if the
  sweep does not keep replacing the job.
* Checks are slow in both passing pipeline runs (`SlowChecks`). The sweep may then
  reclaim a URL whose job is still active; adding a job for it does nothing, the
  result of the active job is skipped, and the next sweep adds a job whose check
  may be reclaimed like the one before. If every check of a URL is slower than
  `STUCK_PROCESSING_MS` this goes on for ever and the URL never settles;
  `ChecksGetFaster` excludes exactly that and nothing else, and one reclaim or any finite
  number of them is in the run.
* `MaxFaults = 2`: one fault and one during its recovery. `LockLoss` is off in
  `pipeline_safety`: a processor that loses its BullMQ lock while it checks, and
  whose URL is then reclaimed, does check beside a second one, so
  `SingleChecker` is a claim about runs in which BullMQ keeps its lock.
  `NoEarlyGiveUp` is checked without faults, because an infrastructure error of
  the claim consumes one of BullMQ's attempts; the theorem says which faults
  matter.
* Two commits in `list_cache` distinguish an old, a newer and the newest page.
* Two connections in `live_updates`: the current one and one being cleaned up
  or opened; two revisions: one change and one that makes it stale.
* Leases of two ticks tell a fresh lease from one that is about to end, and holds
  are not bounded; three checks for two slots fill the pool with live and dead
  leases while a check whose lease is gone, or one that waits, is beside them.
* In the outbound half of `limits` a worker check, a demo check and an abandoned
  `acquire()` compete for `Rate = 2` permits out of three names. `Window = 2` and
  `Lag = 1` tell a permit's tick from its request's. One redirect is a second hop
  and one past the limit. `Timeout + CertTimeout = 3 < SlotTtl = 4` is the relation
  the configuration asks for, with no slack.
* Two alert rows are a failure and its recovery, a failure reopened beside a later
  one, or failures of two types; of the types that are neither a failure nor
  `RECOVERED` one stands for all. Two clicks let a refresh of one cross the POST of
  the other.
* Three sign-ins with `MaxFailed = MaxUnverified = 2` reach each limit and one
  step past it; two browsers are the fewest for sign-ins that overlap and for a
  reset that signs another browser out.
* Two launchers and two files let one runner stand between two files while the
  other applies the second; one service binds a port and one does not.
* Three pages let two answers that are both unwanted cross; two submissions are
  the double click, or the retry after an answer that was lost.
* Cells of at most one character suffice for the parser: what it does next
  depends on its state and two characters. All texts up to length 4 are parsed
  as well, so each turn of the loop is met in each state; the proof covers every
  length.

### Fairness

Only what the code or its platform owes is fair:

* `Pipeline`: weak fairness for running processors and handlers (Node keeps
  running them), for the sweep timer, and for BullMQ's promotion and stalled
  check. Strong fairness for handing out a waiting job, since the sweep may
  remove and add it again and again while a processor is free (the queue is
  FIFO), and for reclaiming a given stuck row that nobody checks any more, since one
  UPDATE reclaims all old rows. Reclaiming a running check is not owed, nor are
  requests, faults and trimming.
* `ListCache`: a request in progress goes on and a page meets its TTL. INCR may
  fail every time, so writers are not fair.
* `LiveUpdates`: what was sent is delivered unless it is lost by a fault;
  handlers and callbacks run. Changing the batch, Refresh and reconnecting are
  not fair.
* `ConcurrencySlots`: time passes. No check need ever end.
* `Outbound`: DNS answers or times out, timers fire, handlers run; time passes
  whatever else happens, and the limiter's polls find room if there is room again
  and again (strong fairness, as callers compete). Targets are not fair: they
  need never answer. Nor is the release of a slot after the verdict, nor the answer to
  a demo request.

## 4. Proofs

Every invariant that a passing run checks is also a theorem; so are the two action
properties and the refinement. Where a property is false in general, the theorem
names the steps that break it as a hypothesis on the behaviour
(`[][~Cause]_vars`).

| Module | Theorem | Says, for all constants |
|---|---|---|
| `BatchStoreProofs` | `Bookkeeping`, `TypeCorrect` | `IndInv` always holds; the tables keep their types, no counter is negative |
| | `CountersExact`, `VerdictCorrect` | `CountersMatchRows`, `VerdictMatchesRows` |
| | `NeverFinishedEarly`, `NeverWedged` | `TerminalIsSettled`, `ProcessingHasWork` |
| | `SettledRows`, `CompletedStays` | `SettledRowsStay`, `CompletedIsFinal` |
| `PipelineProofs` | `PipelineImplementsStore`, `PipelineBookkeeping` | the pipeline implements `BatchStore`, so all of the above holds in it; in particular `IndInv` |
| | `OneCheckerPerUrl` | `SingleChecker`, as long as no running job loses its lock (`LocksKept`) |
| | `EveryAttemptIsMade` | `NoEarlyGiveUp`, but for the three faults of `CountGoesWrong` |
| | `RoundsAreCapped` | `AttemptsPerRound` (INV-5), but for the sweep and two faults (`ReopensRound`) |
| | `SweepMissesNoUrl` | every PENDING URL is `Reconcilable`, every PROCESSING one `Recoverable` |
| `BatchTxProofs` | `TransactionBookkeeping`, `TransactionsAreAtomic` | the invariant of locks; `ImplementsStore` |
| | `WorkersWaitInOrder`, `CancelAndRetryDoNotDeadlock` | `WorkersNeverDeadlock`, `CancelRetryNoDeadlock` |
| `ListCacheProofs` | `CacheInvariant`, `CacheIsFresh`, `ResponsesAreFresh` | `IndInv`, `CacheFresh`, `ResponseFresh` |
| | `OneBatchPerList`, `ListsShowTheRightPage` | of `Pages`: `OneBatch`, `ListsShowTheirPage` |
| `LiveUpdatesProofs` | `LiveBookkeeping`, `PageKeepsOneStream`, `StalePageHasCause` | `LiveInv`, `OneStream`, `StaleHasCause` |
| `ConcurrencySlotsProofs` | `LeaseInvariant`, `LimitRespected` | `IndInv`, `AtMostLimit` |
| | `LeaseCoversCheck`, `SlotLossExplained`, `RateIsGlobal`, `ClientsAreForgotten` | of `Outbound`: its invariant, `SlotLossHasCause`, `RateHolds`, `QuotaExpires` |
| | `PoolFits` | at most `MaxSlots` checks are on their way to a verdict without having been kept past their abort timer |
| `TablesProofs` | `AccountsBookkeeping`, `LockHolds`, `ResetRevokes`, `FailuresAreCounted`, `GraceIsFinite` | of `Accounts`: its invariant, `LockStopsSignIns`, `SessionsFollowPassword`, `FailuresAddUp`, `GraceHolds` |
| | `AlertsBookkeeping`, `SuccessClosesFailures`, `PageIsReconciled` | of `Alerts`: its invariant, `OpenFailureHasCause`, `Reconciled` |
| `LauncherProofs` | `LaunchesInvariant`, `SchemaComesFirst`, `NoStrayServices` | `LauncherIInv`, `SchemaFirst`, `StraysHaveCause` |
| | `ParserKeepsTables` | of `Csv`: `CsvKeepsTable`, for tables and texts of any size |

**BatchStore.** Assumes that the set of URLs is finite, that each belongs to one
batch and each batch has at least one (`urls` has `min(1)` in the request
schema). No single invariant is inductive: `TerminalIsSettled` needs that counters
are exact, because the code finishes a batch by comparing counters, and exact
counters need that rows appear with their batch. `IndInv` joins them with
`Untouched` (a batch nobody has claimed from has only PENDING rows), without
which a claim that does not lift its batch could not be excluded. The heart is
`AccountedIff`: given exact counters, `completed + failed + cancelled >= total`
holds exactly when no row is active. The lemmas speak of one batch row and any
table state, so that each applies before and after a step (`Sound`,
`OneBatchStep`), and there is one lemma per action. `CompletedStays` holds
although `retryFailed` checks no more than CANCELLED: a COMPLETED batch has no
FAILED row to claim.

**ListCache.** `acked` moves only together with the version. So readers of one
version are entitled to the same changes, and a page stored under a version
was read by one of them; `IndInv` says this for pages, for readers on the way to
storing one, and for pairs of readers.

**ConcurrencySlots.** Assumes that limit and lease time are positive, and nothing of
how long a check holds its slot. `left + age = LeaseTtl` for every check that holds
a slot, with its age counted up to the lease time. So a check within its lease is
among the leases the script counts, which are at most `Limit`. Checks beyond their
lease are not bounded by anything: the waits for rate permits
(`http-checker.ts:105`) and the writes after the verdict (`url-check.ts:103-131`)
happen while the slot is held. `config/src/index.ts:46-48` asks for a lease longer
than the longest check; what follows from that is the subject of **Outbound** below.

**Launcher.** Assumes that there is a migration file and that what binds a
port is a service. `SchemaFirst` is not inductive: that a runner which ended well
leaves a whole schema depends on what it read before others applied files.
`Prefix` says that the recorded files are an initial segment in the order they
took effect, `Runners` that a runner has seen a shorter one, so its next file is
either the next of the table or recorded already, and then its transaction
fails. `Tended` says of every server that its launcher still looks after it, that it has
been told to stop, or that there is a cause: its wrapper was killed alone, a spawn
failed, or the launcher was killed. It holds before the start because nothing runs,
and `Shutdown` tells exactly the servers whose wrapper it can still reach.

**Csv.** `CsvKeepsTable` speaks of the end of the file, so the invariant speaks of
every character. `Now` is what the loop holds once it has turned on the last
character as if the file ended there. `Ahead` shows that what follows matters
for two pairs of characters alone, a quote after a quote within quotes and LF after
CR outside them; for these the writer knows that it is half-way (`pen` is "double"
or "feed"), and for every other `Now` is already right. Then `Read`: the loop holds the
rows, the row and the cell written so far, is within quotes exactly when the
writer is, and has seen content exactly when the row is one to keep. For an
arbitrary text the parity of the quotes is enough: `Now` is within quotes if and
only if it is odd.

**Pipeline.** Each action of the pipeline is one transaction of `BatchStore` or
leaves the tables alone, whatever the queue does; a crash of the API inside a
retry is one that claims no row. So the
pipeline implements the store, and its theorems are cited instead of proved
again. `SingleChecker` needs `Ownership`: a processor past its start holds the
active job of its URL, and a job has one owner. A lost lock breaks it: BullMQ
hands the job to a second processor while the first still runs.

For `NoEarlyGiveUp`, `Rounds` compares BullMQ's attempt count with the claims of
the round at every place a job may be (waiting, delayed, each step of a processor,
and active although its processor is gone, `Orphan`), because the cap is tested on
the first and the promise is about the second: what is behind a job are claims
(`Due`), and the attempt that is running is one more (`Begun`). Three faults, and
no others, spoil the comparison (`CountGoesWrong`): a claim that throws counts an
attempt without a claim; a running job that loses its lock is handed out beside its
processor; and a worker that dies between the transaction that settles its URL and
the end of its job leaves a job with attempts made, which the next round of a
retried URL inherits. With the specification restricted to one of the three, TLC
finds `NoEarlyGiveUp` violated each time, so the hypothesis cannot be dropped in part.

The converse, INV-5, is what `pipeline_attempts` finds violated. `Capped` says that
a URL is in the hand of one handler or of one live job, never of both, and that a
live job has made as many attempts as its round, or one less while a check runs.
Whatever creates a second job or lets a job forget an attempt breaks it, and that
is what `ReopensRound` lists: either query of the sweep, a lost lock, and a crash
of a worker that is about to end its job. Restricted to one of them, the
specification violates INV-5 each time (TLC, one URL, `MaxAttempts = 2`, one fault);
with none, every other crash, error, retry and cancellation is harmless.

**BatchTx.** The theorems of `BatchStoreProofs` are instantiated (`SP`), with the
open transactions for the retrying clients. The invariant `TxInv` says of each
transaction which locks it has at each of its statements (`Shape`), that every row
it locked still matches its WHERE clause (`Locked`), and that nobody else has the
lock (`UrlLocks`, `BatchLocks`). A commit then changes exactly the rows an atomic
transaction would, and the number it adds to a counter is right although its
snapshot was old. From the store's own invariant it takes that a PROCESSING URL has
a PROCESSING batch and that rows appear together with their batch. In a circle of
transactions on one URL each, everybody would wait at the URL or at the batch and
nobody could hold a batch, which is taken last; so whoever waits for a batch waits
for somebody outside.

**LiveUpdates.** Assumes that there is a connection and that the two marks of "no
stream" are not connections. `StaleHasCause` speaks of the moment when everything
has arrived and is not inductive; `NewsOnTheWay` names what may still be under way
(a notification, a GET that has not read yet or has read the present row, a
stream that is not open). `Snapshots` says that whatever the page has, or will
get, is an old state of the row or the present one, which is why an answer with
the present revision is the row.

**Accounts.** Assumes that limits and the lock time are positive. `LockInv`
records that whoever is past the lock check was there when the lock was set. In
`SessionInv` a sign-in that has passed its password check has the password that
works, or a reset overtook it (`crossed`). `CountInv` and `GraceInv` say what the
one checked sign-in under way, if no two overlap, has read and is about to
write; with an overlap they say nothing, as the code promises nothing.

**Alerts.** Assumes that the alert types are finitely many and that `Failure`,
`Extra` and `RECOVERED` share none. `CheckInv` makes `OpenFailureHasCause`
inductive: until a success commits, every open failure is one its UPDATE has
locked, or one opened again since. Identifiers are places in the table (`IdInv`).
`PageInv` and `BellInv` say that a page or a bell which lacks the user's own change
is waiting for an answer that will bring it, or the `mess` that lost it is on
record. The rows one transaction inserts are at most one per type of a finite set,
so the table stays a sequence.

**Pages.** Assumes that there is a page. A request that may have made a batch is the
only one and its form is busy, unless an answer was lost (`OnePostInv`); of the
pages a list asked for, only the answer to the one it names counts (`ListsInv`).

**Outbound.** Assumes what the configuration requires (`Timeout + CertTimeout <
SlotTtl`), that the certificate's limit is no longer than the check's
(`http-checker.ts:225`), and that a permit is used before it leaves the window
(`Lag < Window`). `Covers` relates the lease of a slot to the clock of its
check until the verdict: until the clock stands at a limit they add up to the lease
time, and DNS or the limiter can only let it pass that point by making the check
`late`. With it, `PoolFits` shows INV-3 from the configured limits: of the checks
without a verdict, the ones beyond `MaxSlots` are late ones. After the verdict
nothing is claimed. `RateInv` keeps
each permit apart: an admitted check that has not sent yet owns one of its own,
recorded no longer ago than the check waits, so when the request leaves its
permit is still in the window, and the script's count bounds the requests.

What stays with TLC is all liveness (`PoolNeverStuck`, `EveryCheckEnds`,
`EveryUrlSettles`, `EveryBatchEnds`, `EventuallyListed`, `EndShown`): fairness and
ENABLED are out of the provers' reach. Of the liveness of the pipeline,
`SweepMissesNoUrl` and `NeverWedged` are the safety half: whatever has happened, an
unfinished URL is one the sweep will pick up.

## 5. What the models leave out

* `BatchStore`, `BatchTx`: ownership, result columns, alerts rows, foreign-key
  share locks. `getById`'s two reads are not a transaction; a response can mix
  two states, of which the page acts on the status only.
* `Pipeline`: priorities, several jobs per processor pool, and the wait for slot
  and permits, whose only effect here is that a check may be slow.
* `ListCache`: keys of other users and pages (independent), the end of the
  version key itself (it has no TTL).
* `LiveUpdates`: heartbeats, leaving the page, torn reads. A React effect
  runs with the state change that triggers it.
* `ConcurrencySlots`: two checks with the same token, steps of the server clock.
* `Outbound`: the table of private address ranges, the parsing of bodies and
  certificates, and which status is which verdict beyond success, permanent and
  transient. The certificate probe's idle time-out is taken as a limit of its
  total time, and a DNS lookup as answered some time.
* `Alerts`: other URLs (the index and all statements are per URL), the severity
  of a type, paging beyond the first hundred.
* `Accounts`: errors of the hooks' own queries (a lockout that cannot be cleared
  is in the model, as the code catches it), the CSRF and session guards of single
  requests, the wording of mails, cookie caches. Better Auth is modelled from the
  options and hooks the code passes it.
* `Launcher`: reading and writing `.env`, the wait for PostgreSQL as a loop, the
  output of the children. `with-env.mjs` only starts one command.
* `Pages`: charts, toasts, themes, static pages; the validation of a URL is the
  classes valid, invalid and too many.
* `Csv`: characters beyond the seven classes; the URL validation after it.
* Not modelled at all: configuration, shared types, logging, health routes,
  connection set-up and the deployment shell scripts, none of which keeps state
  while the system runs. `PROJECT.json` says so per component.

## 6. Plan

Done: all modules above, and a proof of every safety property the passing runs
check. What is left:

1. Hazards without a property: tokens of two containers that collide, of slots
   and of permits, and `getById`'s torn reads in the batch page.
2. How many attempts a round may take at most with the sweep, in terms of the number of
   sweeps during it.
