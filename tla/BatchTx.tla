------------------------------ MODULE BatchTx ------------------------------
(***************************************************************************)
(* The transactions of BatchStore, statement by statement, as PostgreSQL   *)
(* runs them under READ COMMITTED: a statement sees what is committed when *)
(* it starts, locks the rows it changes one by one, waits for a row that   *)
(* another transaction has locked, and tests its WHERE clause again on the *)
(* row it finally locks.  Locks last until the transaction ends.           *)
(*                                                                         *)
(* A transaction may be rolled back at any time: a lost connection, a      *)
(* process crash, a statement timeout, or PostgreSQL ending a wait cycle.  *)
(* The module shows that each transaction takes effect as the single       *)
(* action that BatchStore makes of it.                                     *)
(*                                                                         *)
(* Left out: alerts rows (no lock of theirs is waited for while a status   *)
(* or counter is undecided), and foreign-key share locks, which do not     *)
(* conflict with these updates.                                            *)
(***************************************************************************)
EXTENDS Integers, FiniteSets

CONSTANTS Batch, Url, BatchOf, NoBatch,
  Tx          \* database connections, one open transaction each

VARIABLES
  urls, batches,   \* the committed rows, as in BatchStore
  tx               \* tx[t]: the transaction open on connection t

vars == <<urls, batches, tx>>

\* The retries that have read their batch's status and not yet ended.
RetryOf == [t \in Tx |-> IF tx[t].kind = "retry" THEN tx[t].batch ELSE NoBatch]

Store == INSTANCE BatchStore WITH Client <- Tx, retryTx <- RetryOf

ASSUME BatchTxAssumption == Store!BatchStoreAssumption

Bulk   == {"cancel", "retry", "recover"}       \* change many URL rows
Single == {"claim", "persist", "release"}      \* change one, run by workers

\* todo: rows the running UPDATE has yet to lock; rows: URL rows locked and
\* changed; row: the new batch row once it is locked, NoRow before.
Opened(kind, b, result, step, todo) ==
  [kind |-> kind, batch |-> b, result |-> result, step |-> step,
   todo |-> todo, rows |-> {}, row |-> Store!NoRow]

None == Opened("none", NoBatch, "FAILED", "none", {})

Open(t) == tx[t] # None
UrlFree(u)   == \A s \in Tx : u \notin tx[s].rows
BatchFree(b) == \A s \in Tx : tx[s].row # Store!NoRow => tx[s].batch # b

\* A retry that also claims the rows a worker holds.
BadWhere(kind) ==
  CASE kind = "cancel" -> Store!Active
    [] kind = "retry"  -> {"FAILED", "PROCESSING"}
    [] kind = "claim"  -> {"PENDING"}
    [] OTHER           -> {"PROCESSING"}

\* The WHERE clause on urls.status of each kind of transaction, and the
\* status it writes.
Where(kind) ==
  CASE kind = "cancel" -> Store!Active
    [] kind = "retry"  -> {"FAILED"}
    [] kind = "claim"  -> {"PENDING"}
    [] OTHER           -> {"PROCESSING"}

Written(x) ==
  CASE x.kind = "cancel"  -> "CANCELLED"
    [] x.kind = "claim"   -> "PROCESSING"
    [] x.kind = "persist" -> x.result
    [] OTHER              -> "PENDING"

Init ==
  /\ urls = [u \in Url |-> "ABSENT"]
  /\ batches = [b \in Batch |-> Store!NoRow]
  /\ tx = [t \in Tx |-> None]

-----------------------------------------------------------------------------
(* Opening a transaction *)

Begin(t, x) ==
  /\ tx[t] = None
  /\ tx' = [tx EXCEPT ![t] = x]
  /\ UNCHANGED <<urls, batches>>

\* Inserted rows are invisible, and cannot be locked, before the commit.
CreateWithUrls(b) == UNCHANGED tx /\ Store!CreateWithUrls(b)

BeginCancel(t, b) ==
  /\ batches[b].status # "ABSENT"
  /\ Begin(t, Opened("cancel", b, "FAILED", "batch", {}))

\* The plain SELECT of the status, which locks nothing.
BeginRetry(t, b) ==
  /\ batches[b].status \notin {"ABSENT", "CANCELLED"}
  /\ Begin(t, Opened("retry", b, "FAILED", "scan", {}))

BeginRecover(t) == Begin(t, Opened("recover", NoBatch, "FAILED", "scan", {}))

\* A failure locks its batch before its URL.
BadBeginSingle(t, u, kind, result) ==
  LET b == BatchOf[u] x == Opened(kind, b, result, "rows", {u}) IN
  /\ urls[u] \in Where(kind)
  /\ IF kind = "persist" /\ result = "FAILED"
     THEN BatchFree(b) /\ Begin(t, [x EXCEPT !.row = batches[b]])
     ELSE Begin(t, x)

\* claim, persistResult and releaseForRetry start with a statement on one
\* row; it does nothing, and waits for nobody, when its snapshot has no match.
BeginSingle(t, u, kind, result) ==
  /\ urls[u] \in Where(kind)
  /\ Begin(t, Opened(kind, BatchOf[u], result, "rows", {u}))

-----------------------------------------------------------------------------
(* Statements *)

\* Cancel takes the batch first; the update of a batch that is no longer
\* active matches nothing and ends the transaction.
CancelBatch(t) ==
  LET b == tx[t].batch IN
  /\ tx[t].kind = "cancel" /\ tx[t].step = "batch"
  /\ \/ /\ batches[b].status \in Store!Active
        /\ BatchFree(b)
        /\ tx' = [tx EXCEPT ![t].row = Store!WithStatus(batches[b], "CANCELLED"),
                            ![t].step = "scan"]
     \/ /\ batches[b].status \notin Store!Active
        /\ tx' = [tx EXCEPT ![t] = None]
  /\ UNCHANGED <<urls, batches>>

\* The rows that an UPDATE of many rows finds in its snapshot.  recoverStuck
\* takes those that are old enough, which may be any.
Scan(t) ==
  /\ tx[t].step = "scan"
  /\ \E S \in SUBSET Url :
       /\ IF tx[t].kind = "recover"
          THEN \A u \in S : Store!Recoverable(u)
          ELSE S = {u \in Store!RowsOf(tx[t].batch) : urls[u] \in Where(tx[t].kind)}
       /\ tx' = [tx EXCEPT ![t].todo = S, ![t].step = "rows"]
  /\ UNCHANGED <<urls, batches>>

\* Locks the row found by the snapshot without testing it again.
BadLockRow(t, u) ==
  /\ u \in tx[t].todo /\ UrlFree(u)
  /\ tx' = [tx EXCEPT ![t].todo = @ \ {u}, ![t].rows = @ \cup {u}]
  /\ UNCHANGED <<urls, batches>>

\* Lock one row of the snapshot, and change it if it still matches.  A row
\* that was claimed anew is too young for recoverStuck.
LockRow(t, u) ==
  /\ u \in tx[t].todo /\ UrlFree(u)
  /\ \/ /\ urls[u] \in Where(tx[t].kind)
        /\ tx' = [tx EXCEPT ![t].todo = @ \ {u}, ![t].rows = @ \cup {u}]
     \/ /\ urls[u] \notin Where(tx[t].kind) \/ tx[t].kind = "recover"
        /\ tx' = [tx EXCEPT ![t].todo = @ \ {u}]
  /\ UNCHANGED <<urls, batches>>

UrlsDone(t) == tx[t].step = "rows" /\ tx[t].todo = {}

\* The batch update that follows the URL rows: claim lifts a PENDING batch,
\* persistResult counts and finalizes, retryFailed uncounts and reopens.
BatchRowOf(x, row) ==
  CASE x.kind = "claim"   -> Store!WithStatus(row, "PROCESSING")
    [] x.kind = "persist" -> Store!Finalized(Store!Counted(row, x.result))
    [] x.kind = "retry"   ->
         Store!WithStatus(Store!PlusFailed(row, -Cardinality(x.rows)), "PROCESSING")

UpdateBatch(t) ==
  LET b == tx[t].batch IN
  /\ UrlsDone(t) /\ tx[t].rows # {}
  /\ tx[t].kind \in {"claim", "persist", "retry"}
  /\ IF tx[t].kind = "claim" /\ batches[b].status # "PENDING"
     THEN tx' = [tx EXCEPT ![t].step = "commit"]
     ELSE /\ BatchFree(b)
          /\ tx' = [tx EXCEPT ![t].row = BatchRowOf(tx[t], batches[b]), ![t].step = "commit"]
  /\ UNCHANGED <<urls, batches>>

\* Everything is written: by the batch update, or because there is none.
Finished(t) ==
  \/ tx[t].step = "commit"
  \/ UrlsDone(t) /\ (tx[t].rows = {} \/ tx[t].kind \in {"cancel", "release", "recover"})

\* Commits what the transaction wrote; cancel's last statement adds the
\* number of rows it changed to the batch row it holds.
Commit(t) ==
  LET x == tx[t] IN
  /\ Finished(t)
  /\ Store!SetRows(x.rows, Written(x))
  /\ batches' = IF x.row = Store!NoRow THEN batches
                ELSE [batches EXCEPT ![x.batch] =
                        IF x.kind = "cancel"
                        THEN Store!PlusCancelled(x.row, Cardinality(x.rows)) ELSE x.row]
  /\ tx' = [tx EXCEPT ![t] = None]

Rollback(t) ==
  /\ Open(t)
  /\ tx' = [tx EXCEPT ![t] = None]
  /\ UNCHANGED <<urls, batches>>

-----------------------------------------------------------------------------

Statement(t) ==
  \/ CancelBatch(t) \/ Scan(t) \/ UpdateBatch(t) \/ Commit(t)
  \/ \E u \in Url : LockRow(t, u)

Next ==
  \/ \E b \in Batch : CreateWithUrls(b)
  \/ \E t \in Tx :
       \/ \E b \in Batch : BeginCancel(t, b) \/ BeginRetry(t, b)
       \/ BeginRecover(t)
       \/ \E u \in Url, kind \in {"claim", "release"} : BeginSingle(t, u, kind, "FAILED")
       \/ \E u \in Url, result \in {"SUCCESS", "FAILED"} : BeginSingle(t, u, "persist", result)
       \/ Statement(t) \/ Rollback(t)

Spec == Init /\ [][Next]_vars

-----------------------------------------------------------------------------
(* Waiting *)

\* The transactions that hold what the running statement of t needs next.
Blockers(t) ==
  LET b == tx[t].batch
      holdBatch == {s \in Tx \ {t} : tx[s].row # Store!NoRow /\ tx[s].batch = b}
  IN CASE tx[t].step = "batch" /\ batches[b].status \in Store!Active -> holdBatch
       [] tx[t].step = "rows" /\ tx[t].todo # {} ->
            {s \in Tx \ {t} : tx[s].rows \cap tx[t].todo # {}}
       [] UrlsDone(t) /\ ~Finished(t)
            /\ (tx[t].kind = "claim" => batches[b].status = "PENDING") -> holdBatch
       [] OTHER -> {}

\* Each transaction of C waits for one of C: C holds a wait cycle.
Deadlocked(C) == C # {} /\ \A t \in C : Blockers(t) \cap C # {}

-----------------------------------------------------------------------------
(* Properties *)

\* Every interleaving of the statements has the effect of BatchStore's
\* transactions, run one after the other in the order of their commits.
ImplementsStore == Store!Spec

\* claim, persistResult and releaseForRetry lock the URL before its batch, so
\* workers never deadlock among themselves: every cycle has a cancel, a
\* retryFailed or a recoverStuck in it.
WorkersNeverDeadlock ==
  \A C \in SUBSET Tx : Deadlocked(C) => \E t \in C : tx[t].kind \in Bulk

\* A cancellation and a retry alone never wait for each other: a retry holds
\* FAILED rows, which cancel does not ask for.
CancelRetryNoDeadlock ==
  \A C \in SUBSET Tx :
    Deadlocked(C) /\ (\A t \in C : tx[t].kind \in {"cancel", "retry"}) =>
      \A t \in C : tx[t].kind = "retry"
=============================================================================
