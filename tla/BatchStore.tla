----------------------------- MODULE BatchStore -----------------------------
(***************************************************************************)
(* The PostgreSQL tables `batches' and `urls' and every transaction that   *)
(* the API and the workers run on their status and counter columns.        *)
(*                                                                         *)
(* Each transaction is one action, placed at its commit: BatchTx breaks    *)
(* the transactions into statements with row locks and shows that they     *)
(* implement this module.  The one exception is retryFailed, which reads   *)
(* the batch status without a lock and writes later, so it is two actions. *)
(*                                                                         *)
(* Left out: ownership (user_id), timestamps, the result columns and       *)
(* attempt_count, which no guard of these transactions reads; the age      *)
(* that recoverStuck compares is a free choice.                            *)
(***************************************************************************)
EXTENDS Integers, FiniteSets

CONSTANTS
  Batch,      \* batches that may be submitted
  Url,        \* URL rows
  BatchOf,    \* the batch a URL row belongs to (foreign key batch_id)
  Client,     \* concurrent retryFailed requests
  NoBatch     \* a client without a retry in progress

BatchStoreAssumption ==
  /\ IsFiniteSet(Url)
  /\ BatchOf \in [Url -> Batch]
  /\ \A b \in Batch : \E u \in Url : BatchOf[u] = b   \* urls: min(1)
  /\ NoBatch \notin Batch

ASSUME BatchStoreAssumption

VARIABLES
  urls,       \* urls[u]: the status of the row, "ABSENT" before its insert
  batches,    \* batches[b]: status and the four counters
  retryTx     \* retryTx[c]: batch whose status client c's retryFailed has read

storeVars == <<urls, batches, retryTx>>

UrlStatus   == {"ABSENT", "PENDING", "PROCESSING", "SUCCESS", "FAILED", "CANCELLED"}
BatchStatus == {"ABSENT", "PENDING", "PROCESSING", "COMPLETED", "FAILED", "CANCELLED"}
Active      == {"PENDING", "PROCESSING"}
Terminal    == {"COMPLETED", "FAILED", "CANCELLED"}

BatchRow == [status : BatchStatus,
             total : Nat, completed : Nat, failed : Nat, cancelled : Nat]

NoRow == [status |-> "ABSENT", total |-> 0, completed |-> 0, failed |-> 0, cancelled |-> 0]

NewRow(n) == [status |-> "PENDING", total |-> n, completed |-> 0, failed |-> 0, cancelled |-> 0]

WithStatus(row, s)     == [row EXCEPT !.status = s]
PlusCompleted(row, n)  == [row EXCEPT !.completed = @ + n]
PlusFailed(row, n)     == [row EXCEPT !.failed = @ + n]
PlusCancelled(row, n)  == [row EXCEPT !.cancelled = @ + n]

RowsOf(b)      == {u \in Url : BatchOf[u] = b}
RowsWith(b, s) == {u \in RowsOf(b) : urls[u] = s}
ActiveRows(b)  == {u \in RowsOf(b) : urls[u] \in Active}

SetRows(S, s) == urls' = [u \in Url |-> IF u \in S THEN s ELSE urls[u]]

Init ==
  /\ urls    = [u \in Url |-> "ABSENT"]
  /\ batches = [b \in Batch |-> NoRow]
  /\ retryTx = [c \in Client |-> NoBatch]

-----------------------------------------------------------------------------
(* API transactions.  A definition Bad... is a mistake this code could have  *)
(* made in the operation that follows it; the properties reject each one.    *)

\* Insert the batch and all of its URL rows, or nothing.
CreateWithUrls(b) ==
  /\ batches[b].status = "ABSENT"
  /\ batches' = [batches EXCEPT ![b] = NewRow(Cardinality(RowsOf(b)))]
  /\ SetRows(RowsOf(b), "PENDING")
  /\ UNCHANGED retryTx

\* Cancels the queued URLs and forgets those a worker holds.
BadCancel(b) ==
  /\ batches[b].status \in Active
  /\ batches' = [batches EXCEPT ![b] =
       WithStatus(PlusCancelled(@, Cardinality(RowsWith(b, "PENDING"))), "CANCELLED")]
  /\ SetRows(RowsWith(b, "PENDING"), "CANCELLED")
  /\ UNCHANGED retryTx

\* Cancel an active batch and its unfinished URLs; otherwise a no-op.
Cancel(b) ==
  /\ batches[b].status \in Active
  /\ batches' = [batches EXCEPT ![b] =
       WithStatus(PlusCancelled(@, Cardinality(ActiveRows(b))), "CANCELLED")]
  /\ SetRows(ActiveRows(b), "CANCELLED")
  /\ UNCHANGED retryTx

\* retryFailed reads the status with a plain SELECT: no row lock is taken, so
\* whatever it saw may have changed by the time RetryWrite commits.
RetryRead(c, b) ==
  /\ retryTx[c] = NoBatch
  /\ batches[b].status \notin {"ABSENT", "CANCELLED"}
  /\ retryTx' = [retryTx EXCEPT ![c] = b]
  /\ UNCHANGED <<urls, batches>>

\* Reactivates the batch even when no row was claimed.
BadRetryReopens(c, S) ==
  LET b == retryTx[c] IN
  /\ b # NoBatch
  /\ S \subseteq RowsWith(b, "FAILED")
  /\ SetRows(S, "PENDING")
  /\ batches' = [batches EXCEPT ![b] = WithStatus(PlusFailed(@, -Cardinality(S)), "PROCESSING")]
  /\ retryTx' = [retryTx EXCEPT ![c] = NoBatch]

\* Reset the FAILED rows its UPDATE claimed and reactivate the batch.  A row
\* that fails after the UPDATE took its snapshot is not claimed, so S may be
\* any set of rows that are FAILED at the commit; none claimed, none written.
RetryWrite(c, S) ==
  LET b == retryTx[c] IN
  /\ b # NoBatch
  /\ S \subseteq RowsWith(b, "FAILED")
  /\ SetRows(S, "PENDING")
  /\ batches' = IF S = {} THEN batches
                ELSE [batches EXCEPT ![b] = WithStatus(PlusFailed(@, -Cardinality(S)), "PROCESSING")]
  /\ retryTx' = [retryTx EXCEPT ![c] = NoBatch]

-----------------------------------------------------------------------------
(* Worker transactions *)

\* Forgets to lift the batch.
BadClaim(u) ==
  /\ urls[u] = "PENDING"
  /\ SetRows({u}, "PROCESSING")
  /\ UNCHANGED <<batches, retryTx>>

\* PENDING -> PROCESSING for the URL, and for its batch on the first claim.
Claim(u) ==
  /\ urls[u] = "PENDING"
  /\ SetRows({u}, "PROCESSING")
  /\ batches' = [batches EXCEPT ![BatchOf[u]] =
       IF @.status = "PENDING" THEN WithStatus(@, "PROCESSING") ELSE @]
  /\ UNCHANGED retryTx

Counted(row, result) ==
  IF result = "SUCCESS" THEN PlusCompleted(row, 1) ELSE PlusFailed(row, 1)

BadAccounted(row) == row.completed + row.failed + row.cancelled > row.total

Accounted(row) == row.completed + row.failed + row.cancelled >= row.total

\* Lets one success outweigh the failures.
BadFinalized(row) ==
  IF row.status = "PROCESSING" /\ Accounted(row)
  THEN WithStatus(row, IF row.completed > 0 THEN "COMPLETED" ELSE "FAILED")
  ELSE row

Finalized(row) ==
  IF row.status = "PROCESSING" /\ Accounted(row)
  THEN WithStatus(row, IF row.failed > 0 THEN "FAILED" ELSE "COMPLETED")
  ELSE row

\* Writes whatever the state of the row.
BadPersist(u, result) ==
  /\ urls[u] # "ABSENT"
  /\ SetRows({u}, result)
  /\ batches' = [batches EXCEPT ![BatchOf[u]] = Finalized(Counted(@, result))]
  /\ UNCHANGED retryTx

\* Write a result, count it and, when every URL is accounted for, finish the
\* batch.  Skipped (no change) when the row is no longer PROCESSING.
PersistResult(u, result) ==
  /\ urls[u] = "PROCESSING"
  /\ SetRows({u}, result)
  /\ batches' = [batches EXCEPT ![BatchOf[u]] = Finalized(Counted(@, result))]
  /\ UNCHANGED retryTx

\* Releases whatever the state of the row.
BadRelease(u) ==
  /\ urls[u] # "ABSENT"
  /\ SetRows({u}, "PENDING")
  /\ UNCHANGED <<batches, retryTx>>

ReleaseForRetry(u) ==
  /\ urls[u] = "PROCESSING"
  /\ SetRows({u}, "PENDING")
  /\ UNCHANGED <<batches, retryTx>>

Recoverable(u) == urls[u] = "PROCESSING" /\ batches[BatchOf[u]].status = "PROCESSING"

\* The sweep of the API (and its copy in the worker): the rows S that have
\* been PROCESSING for too long go back to PENDING in one statement.
RecoverStuck(S) ==
  /\ S # {} /\ \A u \in S : Recoverable(u)
  /\ SetRows(S, "PENDING")
  /\ UNCHANGED <<batches, retryTx>>

-----------------------------------------------------------------------------

Next ==
  \/ \E b \in Batch : CreateWithUrls(b) \/ Cancel(b)
  \/ \E c \in Client : \/ \E b \in Batch : RetryRead(c, b)
                       \/ \E S \in SUBSET Url : RetryWrite(c, S)
  \/ \E u \in Url : \/ Claim(u) \/ ReleaseForRetry(u)
                    \/ \E result \in {"SUCCESS", "FAILED"} : PersistResult(u, result)
  \/ \E S \in SUBSET Url : RecoverStuck(S)

Spec == Init /\ [][Next]_storeVars

-----------------------------------------------------------------------------
(* Properties *)

\* The type invariant of the tables and of the open retry transactions.
TypeOK ==
  /\ urls \in [Url -> UrlStatus]
  /\ batches \in [Batch -> BatchRow]
  /\ retryTx \in [Client -> Batch \cup {NoBatch}]

\* The counters of a batch are exactly the number of its URL rows in the
\* matching state (INV-7: duplicates, stale jobs, cancellation and retries
\* never count a URL twice or lose one), hence the CHECK of 0001_init.sql.
CountersMatchRows ==
  \A b \in Batch : batches[b].status # "ABSENT" =>
    /\ batches[b].total     = Cardinality(RowsOf(b))
    /\ batches[b].completed = Cardinality(RowsWith(b, "SUCCESS"))
    /\ batches[b].failed    = Cardinality(RowsWith(b, "FAILED"))
    /\ batches[b].cancelled = Cardinality(RowsWith(b, "CANCELLED"))

\* A batch that reports a terminal status has no URL left to process: no
\* ordering of cancel, persist, retry and recovery strands a URL that no
\* worker may count any more (ADR-025, cancellation.md).
TerminalIsSettled ==
  \A b \in Batch : batches[b].status \in Terminal => ActiveRows(b) = {}

\* A PROCESSING batch still has a URL to process: the last result always
\* finishes the batch, also after a retry reopened it, so it is never wedged.
ProcessingHasWork ==
  \A b \in Batch : batches[b].status \in Active => ActiveRows(b) # {}

\* COMPLETED and FAILED say whether some URL failed (ADR-025), whatever
\* retries and cancellations came before.
VerdictMatchesRows ==
  \A b \in Batch :
    /\ batches[b].status = "COMPLETED" => RowsWith(b, "FAILED") = {}
    /\ batches[b].status = "FAILED" => RowsWith(b, "FAILED") # {}

\* The invariant that the proofs show inductive: the four above, and what they
\* need of the batches not yet started (rows appear with their batch, and a
\* batch nobody claimed from has only PENDING rows; counters start at zero).
Untouched(b) ==
  /\ \A u \in RowsOf(b) : urls[u] = "ABSENT" <=> batches[b].status = "ABSENT"
  /\ batches[b].status = "PENDING" => \A u \in RowsOf(b) : urls[u] = "PENDING"
  /\ batches[b].status = "ABSENT" => batches[b] = NoRow

IndInv ==
  /\ TypeOK
  /\ CountersMatchRows
  /\ TerminalIsSettled
  /\ ProcessingHasWork
  /\ VerdictMatchesRows
  /\ \A b \in Batch : Untouched(b)

\* SUCCESS and CANCELLED rows are never written again, and a FAILED row only
\* goes back to PENDING (INV-8 for URLs, INV-9: retry touches FAILED only).
SettledRowsStay ==
  [][\A u \in Url : /\ urls[u] \in {"SUCCESS", "CANCELLED"} => urls'[u] = urls[u]
                    /\ urls[u] = "FAILED" => urls'[u] \in {"FAILED", "PENDING"}]_storeVars

\* A COMPLETED batch is never reopened, although retryFailed guards its write
\* by nothing but the rows it claimed.
CompletedIsFinal ==
  [][\A b \in Batch : batches[b].status = "COMPLETED" => batches'[b].status = "COMPLETED"]_storeVars

\* cancellation.md and INV-8: a CANCELLED batch stays CANCELLED.  The code
\* violates it: retryFailed sets PROCESSING after an unlocked status check.
CancelledIsFinal ==
  [][\A b \in Batch : batches[b].status = "CANCELLED" => batches'[b].status = "CANCELLED"]_storeVars
=============================================================================
