---------------------------- MODULE BatchTxProofs ----------------------------
(***************************************************************************)
(* The transactions of BatchTx, cut into statements that lock row by row   *)
(* and may be rolled back between any two, implement the atomic ones of    *)
(* BatchStore; and the order in which they lock keeps workers from waiting *)
(* for each other in a circle.                                             *)
(***************************************************************************)
EXTENDS BatchTx, FiniteSetTheorems, TLAPS

-----------------------------------------------------------------------------
(* What BatchStoreProofs shows of the tables, for the store of BatchTx *)

SP == INSTANCE BatchStoreProofs WITH Client <- Tx, retryTx <- RetryOf

\* The two instances of the store are the same module.
LEMMA SameFiniteSets ==
  \A S : /\ Store!IsFiniteSet(S) = IsFiniteSet(S) /\ SP!IsFiniteSet(S) = IsFiniteSet(S)
         /\ Store!Cardinality(S) = Cardinality(S) /\ SP!Cardinality(S) = Cardinality(S)
  <1>1. \A S : Store!IsFiniteSet(S) = IsFiniteSet(S)
    BY DEF Store!IsFiniteSet, IsFiniteSet
  <1>2. \A S : SP!IsFiniteSet(S) = IsFiniteSet(S)
    BY DEF SP!IsFiniteSet, IsFiniteSet
  <1>3. \A S : Store!Cardinality(S) = Cardinality(S)
    BY DEF Store!Cardinality, Cardinality
  <1>4. \A S : SP!Cardinality(S) = Cardinality(S)
    BY DEF SP!Cardinality, Cardinality
  <1>. QED
    BY <1>1, <1>2, <1>3, <1>4

LEMMA SameConstants == SP!BatchStoreAssumption
  BY BatchTxAssumption, SameFiniteSets DEF Store!BatchStoreAssumption, SP!BatchStoreAssumption

LEMMA SameRows ==
  /\ Store!NoRow = SP!NoRow /\ Store!Active = SP!Active
  /\ \A b : Store!RowsOf(b) = SP!RowsOf(b)
  /\ \A b : Store!ActiveRows(b) = SP!ActiveRows(b)
  /\ \A b, s : Store!RowsWith(b, s) = SP!RowsWith(b, s)
  /\ \A S, s : Store!SetRows(S, s) <=> SP!SetRows(S, s)
  /\ \A r, s : Store!WithStatus(r, s) = SP!WithStatus(r, s)
  /\ \A r, n : /\ Store!PlusCompleted(r, n) = SP!PlusCompleted(r, n)
               /\ Store!PlusFailed(r, n) = SP!PlusFailed(r, n)
               /\ Store!PlusCancelled(r, n) = SP!PlusCancelled(r, n)
  <1>1. Store!NoRow = SP!NoRow /\ Store!Active = SP!Active
    BY DEF Store!NoRow, SP!NoRow, Store!Active, SP!Active
  <1>2. \A b : Store!RowsOf(b) = SP!RowsOf(b)
    BY DEF Store!RowsOf, SP!RowsOf
  <1>3. \A b : Store!ActiveRows(b) = SP!ActiveRows(b)
    BY <1>1, <1>2 DEF Store!ActiveRows, SP!ActiveRows
  <1>4. \A b, s : Store!RowsWith(b, s) = SP!RowsWith(b, s)
    BY <1>2 DEF Store!RowsWith, SP!RowsWith
  <1>5. \A S, s : Store!SetRows(S, s) <=> SP!SetRows(S, s)
    BY DEF Store!SetRows, SP!SetRows
  <1>6. \A r, s : Store!WithStatus(r, s) = SP!WithStatus(r, s)
    BY DEF Store!WithStatus, SP!WithStatus
  <1>7. \A r, n : /\ Store!PlusCompleted(r, n) = SP!PlusCompleted(r, n)
                  /\ Store!PlusFailed(r, n) = SP!PlusFailed(r, n)
                  /\ Store!PlusCancelled(r, n) = SP!PlusCancelled(r, n)
    BY DEF Store!PlusCompleted, SP!PlusCompleted, Store!PlusFailed, SP!PlusFailed,
           Store!PlusCancelled, SP!PlusCancelled
  <1>. QED
    BY <1>1, <1>2, <1>3, <1>4, <1>5, <1>6, <1>7

LEMMA SameNext == [Store!Next]_(Store!storeVars) => [SP!Next]_(SP!storeVars)
  <1>1. Store!storeVars = SP!storeVars /\ Store!storeVars' = SP!storeVars'
    BY DEF Store!storeVars, SP!storeVars
  <1>2. \A b : Store!CreateWithUrls(b) => SP!CreateWithUrls(b)
    BY SameRows, SameFiniteSets DEF Store!CreateWithUrls, SP!CreateWithUrls, Store!NewRow, SP!NewRow
  <1>3. \A b : Store!Cancel(b) => SP!Cancel(b)
    BY SameRows, SameFiniteSets DEF Store!Cancel, SP!Cancel
  <1>4. \A c, b : Store!RetryRead(c, b) => SP!RetryRead(c, b)
    BY DEF Store!RetryRead, SP!RetryRead
  <1>5. \A c, S : Store!RetryWrite(c, S) => SP!RetryWrite(c, S)
    BY SameRows, SameFiniteSets DEF Store!RetryWrite, SP!RetryWrite
  <1>6. \A u : Store!Claim(u) => SP!Claim(u)
    BY SameRows DEF Store!Claim, SP!Claim
  <1>7. \A u, r : Store!PersistResult(u, r) => SP!PersistResult(u, r)
    <2>1. \A row : Store!Finalized(row) = SP!Finalized(row)
      BY SameRows DEF Store!Finalized, SP!Finalized, Store!Accounted, SP!Accounted
    <2>2. \A row, r : Store!Counted(row, r) = SP!Counted(row, r)
      BY SameRows DEF Store!Counted, SP!Counted
    <2>. QED
      BY SameRows, <2>1, <2>2 DEF Store!PersistResult, SP!PersistResult
  <1>8. \A u : Store!ReleaseForRetry(u) => SP!ReleaseForRetry(u)
    BY SameRows DEF Store!ReleaseForRetry, SP!ReleaseForRetry
  <1>9. \A S : Store!RecoverStuck(S) => SP!RecoverStuck(S)
    BY SameRows DEF Store!RecoverStuck, SP!RecoverStuck, Store!Recoverable, SP!Recoverable
  <1>. QED
    BY <1>1, <1>2, <1>3, <1>4, <1>5, <1>6, <1>7, <1>8, <1>9 DEF Store!Next, SP!Next

\* The bookkeeping of the tables, as BatchStoreProofs proves it inductive.
LEMMA StoreStep == SP!IndInv /\ [Store!Next]_(Store!storeVars) => SP!IndInv'
  BY SameNext, SameConstants, SP!StepKeepsIndInv

LEMMA StoreInit == Store!Init => SP!IndInv
  <1>1. Store!Init => SP!Init
    BY SameRows DEF Store!Init, SP!Init
  <1>. QED
    BY <1>1, SameConstants, SP!InitSound

\* What the proofs below use of it.
StoreFacts ==
  /\ urls \in [Url -> Store!UrlStatus]
  /\ batches \in [Batch -> Store!BatchRow]
  /\ \A u \in Url : urls[u] = "PROCESSING" => batches[BatchOf[u]].status = "PROCESSING"
  /\ \A u \in Url : urls[u] = "ABSENT" <=> batches[BatchOf[u]].status = "ABSENT"

LEMMA FactsOfStore == SP!IndInv => StoreFacts
  <1>. SUFFICES ASSUME SP!IndInv PROVE StoreFacts
    OBVIOUS
  <1>1. urls \in [Url -> Store!UrlStatus] /\ batches \in [Batch -> Store!BatchRow]
    BY DEF SP!IndInv, SP!TypeOK, SP!UrlStatus, Store!UrlStatus, SP!BatchRow, Store!BatchRow,
           SP!BatchStatus, Store!BatchStatus, SP!Nat, Store!Nat
  <1>2. ASSUME NEW u \in Url, urls[u] = "PROCESSING" PROVE batches[BatchOf[u]].status = "PROCESSING"
    BY <1>2, SameConstants, SP!ProcessingRow
  <1>3. ASSUME NEW u \in Url PROVE urls[u] = "ABSENT" <=> batches[BatchOf[u]].status = "ABSENT"
    <2>1. BatchOf[u] \in Batch /\ u \in SP!RowsOf(BatchOf[u])
      BY SameConstants DEF SP!BatchStoreAssumption, SP!RowsOf
    <2>. QED
      BY <2>1 DEF SP!IndInv, SP!Untouched
  <1>. QED
    BY <1>1, <1>2, <1>3 DEF StoreFacts

-----------------------------------------------------------------------------
(* The invariant of the transactions *)

NoRow == Store!NoRow

Kind == {"none"} \cup Bulk \cup Single
Step == {"none", "batch", "scan", "rows", "commit"}
Row  == [status : Store!BatchStatus, total : Int, completed : Int, failed : Int, cancelled : Int]

Transaction ==
  [kind : Kind, batch : Batch \cup {NoBatch}, result : {"SUCCESS", "FAILED"}, step : Step,
   todo : SUBSET Url, rows : SUBSET Url, row : Row]

Holds(t) == tx[t].row # NoRow

\* A cancellation holds its batch row from the first statement on, so the rows
\* it has found and those it has locked stay the active rows of the batch.
CancelShape(t) ==
  LET b == tx[t].batch IN
  /\ tx[t].step \in {"batch", "scan", "rows"}
  /\ tx[t].step # "rows" => tx[t].todo = {} /\ tx[t].rows = {}
  /\ tx[t].step = "batch" => tx[t].row = NoRow
  /\ tx[t].step # "batch" =>
       batches[b].status \in Store!Active /\ tx[t].row = Store!WithStatus(batches[b], "CANCELLED")
  /\ tx[t].step = "rows" => tx[t].todo \cup tx[t].rows = Store!ActiveRows(b)

\* A retry takes the batch row last, after some FAILED rows.
RetryShape(t) ==
  LET b == tx[t].batch IN
  /\ tx[t].step \in {"scan", "rows", "commit"}
  /\ tx[t].step # "rows" => tx[t].todo = {}
  /\ tx[t].step = "scan" => tx[t].rows = {}
  /\ tx[t].todo \subseteq Store!RowsOf(b)
  /\ tx[t].step # "commit" => tx[t].row = NoRow
  /\ tx[t].step = "commit" => tx[t].rows # {} /\ Holds(t) /\ tx[t].row = BatchRowOf(tx[t], batches[b])

RecoverShape(t) ==
  /\ tx[t].step \in {"scan", "rows"} /\ tx[t].row = NoRow
  /\ tx[t].step = "scan" => tx[t].todo = {} /\ tx[t].rows = {}

\* A worker's transaction takes one URL row, then the batch row; a claim that
\* finds its batch started leaves the batch row alone, and nothing stops it.
SingleShape(t) ==
  LET b == tx[t].batch IN
  /\ tx[t].step \in {"rows", "commit"}
  /\ \E u \in Store!RowsOf(b) : tx[t].todo \cup tx[t].rows \subseteq {u}
  /\ tx[t].rows # {} => tx[t].todo = {}
  /\ tx[t].step = "rows" => tx[t].row = NoRow
  /\ tx[t].step = "commit" =>
       /\ tx[t].kind # "release" /\ tx[t].rows # {}
       /\ ~Holds(t) => tx[t].kind = "claim" /\ batches[b].status # "PENDING"
       /\ Holds(t) => /\ tx[t].row = BatchRowOf(tx[t], batches[b])
                      /\ tx[t].kind = "claim" => batches[b].status = "PENDING"

Shape(t) ==
  /\ tx[t].kind = "none" => tx[t] = None
  /\ tx[t].kind \notin {"none", "recover"} => tx[t].batch \in Batch
  /\ tx[t].kind = "cancel" => CancelShape(t)
  /\ tx[t].kind = "retry" => RetryShape(t)
  /\ tx[t].kind = "recover" => RecoverShape(t)
  /\ tx[t].kind \in Single => SingleShape(t)

\* A locked row still satisfies the WHERE clause it was locked for.
Locked(t) ==
  \A u \in tx[t].rows : /\ urls[u] \in Where(tx[t].kind)
                        /\ tx[t].kind # "recover" => BatchOf[u] = tx[t].batch

UrlLocks   == \A s, t \in Tx : s # t => tx[s].rows \cap tx[t].rows = {}
BatchLocks == \A s, t \in Tx : s # t /\ Holds(s) /\ Holds(t) => tx[s].batch # tx[t].batch

TxInv ==
  /\ tx \in [Tx -> Transaction]
  /\ \A t \in Tx : Shape(t) /\ Locked(t)
  /\ UrlLocks
  /\ BatchLocks

LEMMA InitTx == Init => TxInv
  <1>. SUFFICES ASSUME Init PROVE TxInv
    OBVIOUS
  <1>1. None \in Transaction /\ None.kind = "none" /\ None.rows = {} /\ None.row = NoRow
    BY DEF None, Opened, Transaction, Kind, Step, Row, NoRow, Store!NoRow, Store!BatchStatus
  <1>2. tx = [t \in Tx |-> None]
    BY DEF Init
  <1>. QED
    BY <1>1, <1>2 DEF TxInv, Shape, Locked, UrlLocks, BatchLocks, Holds, Single

-----------------------------------------------------------------------------
(* Frames *)

\* The transaction s is left alone by a step that writes no table.
LEMMA Still ==
  ASSUME NEW s \in Tx, Shape(s), Locked(s), tx'[s] = tx[s], urls' = urls, batches' = batches
  PROVE  Shape(s)' /\ Locked(s)'
  BY DEF Shape, Locked, CancelShape, RetryShape, RecoverShape, SingleShape, Holds,
         Store!ActiveRows, Store!RowsOf

\* A step of t that writes no table and takes only free locks.
LEMMA TxStep ==
  ASSUME TxInv, NEW t \in Tx, urls' = urls, batches' = batches,
         tx' \in [Tx -> Transaction], \A s \in Tx \ {t} : tx'[s] = tx[s],
         Shape(t)', Locked(t)',
         \A s \in Tx \ {t} : tx'[t].rows \cap tx[s].rows = {},
         \A s \in Tx \ {t} : Holds(t)' /\ Holds(s) => tx[s].batch # tx'[t].batch
  PROVE  TxInv'
  <1>1. \A s \in Tx : Shape(s)' /\ Locked(s)'
    BY Still DEF TxInv
  <1>2. UrlLocks'
    BY DEF TxInv, UrlLocks
  <1>3. BatchLocks'
    BY DEF TxInv, BatchLocks, Holds
  <1>. QED
    BY <1>1, <1>2, <1>3 DEF TxInv

\* Ending a transaction without writing releases its locks.
LEMMA EndStep ==
  ASSUME TxInv, NEW t \in Tx, urls' = urls, batches' = batches, tx' = [tx EXCEPT ![t] = None]
  PROVE  TxInv'
  <1>1. None \in Transaction /\ None.kind = "none" /\ None.rows = {} /\ None.row = NoRow
    BY DEF None, Opened, Transaction, Kind, Step, Row, NoRow, Store!NoRow, Store!BatchStatus
  <1>2. tx' \in [Tx -> Transaction] /\ tx'[t] = None /\ \A s \in Tx \ {t} : tx'[s] = tx[s]
    BY <1>1 DEF TxInv
  <1>3. Shape(t)' /\ Locked(t)'
    BY <1>1, <1>2 DEF Shape, Locked, Single
  <1>. QED
    BY <1>1, <1>2, <1>3, TxStep DEF Holds

-----------------------------------------------------------------------------
(* The statements that write no table *)

LEMMA BeginKeeps ==
  ASSUME TxInv, NEW t \in Tx, NEW x \in Transaction, Begin(t, x), x.rows = {}, x.row = NoRow,
         tx'[t] = x => Shape(t)'
  PROVE  TxInv'
  <1>1. tx' \in [Tx -> Transaction] /\ tx'[t] = x /\ \A s \in Tx \ {t} : tx'[s] = tx[s]
    BY DEF Begin, TxInv
  <1>2. Locked(t)'
    BY <1>1 DEF Locked
  <1>. QED
    BY <1>1, <1>2, TxStep DEF Begin, Holds

LEMMA OpenedFields ==
  ASSUME NEW kind \in Kind, NEW b \in Batch \cup {NoBatch}, NEW result \in {"SUCCESS", "FAILED"},
         NEW step \in Step, NEW S \in SUBSET Url
  PROVE  LET x == Opened(kind, b, result, step, S) IN
         /\ x \in Transaction /\ x.kind = kind /\ x.batch = b /\ x.result = result /\ x.step = step
         /\ x.todo = S /\ x.rows = {} /\ x.row = NoRow
  <1>1. NoRow \in Row
    BY DEF NoRow, Row, Store!NoRow, Store!BatchStatus
  <1>. QED
    BY <1>1 DEF Opened, Transaction, NoRow

LEMMA BeginCancelStep == ASSUME TxInv, NEW t \in Tx, NEW b \in Batch, BeginCancel(t, b) PROVE TxInv'
  <1>. DEFINE x == Opened("cancel", b, "FAILED", "batch", {})
  <1>1. /\ x \in Transaction /\ x.kind = "cancel" /\ x.batch = b /\ x.step = "batch"
        /\ x.todo = {} /\ x.rows = {} /\ x.row = NoRow
    BY OpenedFields DEF Kind, Bulk, Step
  <1>2. Begin(t, x)
    BY DEF BeginCancel
  <1>. HIDE DEF x
  <1>3. tx'[t] = x => Shape(t)'
    BY <1>1 DEF Shape, CancelShape, Single
  <1>. QED
    BY <1>1, <1>2, <1>3, BeginKeeps

LEMMA BeginRetryStep == ASSUME TxInv, NEW t \in Tx, NEW b \in Batch, BeginRetry(t, b) PROVE TxInv'
  <1>. DEFINE x == Opened("retry", b, "FAILED", "scan", {})
  <1>1. /\ x \in Transaction /\ x.kind = "retry" /\ x.batch = b /\ x.step = "scan"
        /\ x.todo = {} /\ x.rows = {} /\ x.row = NoRow
    BY OpenedFields DEF Kind, Bulk, Step
  <1>2. Begin(t, x)
    BY DEF BeginRetry
  <1>. HIDE DEF x
  <1>3. tx'[t] = x => Shape(t)'
    BY <1>1 DEF Shape, RetryShape, Single
  <1>. QED
    BY <1>1, <1>2, <1>3, BeginKeeps

LEMMA BeginRecoverStep == ASSUME TxInv, NEW t \in Tx, BeginRecover(t) PROVE TxInv'
  <1>. DEFINE x == Opened("recover", NoBatch, "FAILED", "scan", {})
  <1>1. /\ x \in Transaction /\ x.kind = "recover" /\ x.step = "scan"
        /\ x.todo = {} /\ x.rows = {} /\ x.row = NoRow
    BY OpenedFields DEF Kind, Bulk, Step
  <1>2. Begin(t, x)
    BY DEF BeginRecover
  <1>. HIDE DEF x
  <1>3. tx'[t] = x => Shape(t)'
    BY <1>1 DEF Shape, RecoverShape, Single
  <1>. QED
    BY <1>1, <1>2, <1>3, BeginKeeps

LEMMA BeginSingleStep ==
  ASSUME TxInv, NEW t \in Tx, NEW u \in Url, NEW kind \in Single, NEW result \in {"SUCCESS", "FAILED"},
         BeginSingle(t, u, kind, result)
  PROVE  TxInv'
  <1>. DEFINE b == BatchOf[u]
              x == Opened(kind, b, result, "rows", {u})
  <1>0. b \in Batch /\ u \in Store!RowsOf(b)
    BY BatchTxAssumption DEF Store!BatchStoreAssumption, Store!RowsOf
  <1>1. /\ x \in Transaction /\ x.kind = kind /\ x.batch = b /\ x.step = "rows"
        /\ x.todo = {u} /\ x.rows = {} /\ x.row = NoRow
    <2>1. kind \in Kind /\ "rows" \in Step /\ {u} \in SUBSET Url /\ b \in Batch \cup {NoBatch}
      BY <1>0 DEF Kind, Step
    <2>. HIDE DEF b
    <2>. QED
      BY <2>1, OpenedFields
  <1>2. Begin(t, x)
    BY DEF BeginSingle
  <1>. HIDE DEF x, b
  <1>3. tx'[t] = x => Shape(t)'
    BY <1>0, <1>1 DEF Shape, SingleShape, Single, Store!RowsOf
  <1>. QED
    BY <1>1, <1>2, <1>3, BeginKeeps

\* A statement rewrites the transaction it belongs to, but not its identity.
Rewritten(x, step, todo, rows, row) ==
  [kind |-> x.kind, batch |-> x.batch, result |-> x.result, step |-> step,
   todo |-> todo, rows |-> rows, row |-> row]

Rewrite(t, step, todo, rows, row) == tx' = [tx EXCEPT ![t] = Rewritten(tx[t], step, todo, rows, row)]

LEMMA Rewrites ==
  ASSUME TxInv, NEW t \in Tx, NEW step \in Step, NEW todo \in SUBSET Url, NEW rows \in SUBSET Url,
         NEW row \in Row, Rewrite(t, step, todo, rows, row)
  PROVE  /\ tx' \in [Tx -> Transaction]
         /\ tx'[t].kind = tx[t].kind /\ tx'[t].batch = tx[t].batch /\ tx'[t].result = tx[t].result
         /\ tx'[t].step = step /\ tx'[t].todo = todo /\ tx'[t].rows = rows /\ tx'[t].row = row
         /\ \A s \in Tx \ {t} : tx'[s] = tx[s]
  BY DEF TxInv, Transaction, Rewritten, Rewrite

LEMMA RowForms ==
  ASSUME NEW r \in Store!BatchRow, NEW s \in Store!BatchStatus, s # "ABSENT", NEW n \in Int
  PROVE  /\ Store!WithStatus(r, s) \in Row /\ Store!WithStatus(r, s).status = s
         /\ Store!PlusFailed(r, n) \in Row /\ Store!PlusFailed(r, n).status = r.status
         /\ Store!PlusCompleted(r, n) \in Row /\ Store!PlusCompleted(r, n).status = r.status
  BY DEF Store!BatchRow, Row, Store!WithStatus, Store!PlusFailed, Store!PlusCompleted, Store!BatchStatus,
         Store!Nat

LEMMA CancelBatchStep == ASSUME TxInv, StoreFacts, NEW t \in Tx, CancelBatch(t) PROVE TxInv'
  <1>. DEFINE b == tx[t].batch
  <1>1. /\ tx[t] \in Transaction /\ tx[t].kind = "cancel" /\ tx[t].step = "batch" /\ b \in Batch
        /\ tx[t].todo = {} /\ tx[t].rows = {}
    BY DEF CancelBatch, TxInv, Shape, CancelShape
  <1>2. urls' = urls /\ batches' = batches
    BY DEF CancelBatch
  <1>3. CASE /\ batches[b].status \in Store!Active /\ BatchFree(b)
             /\ tx' = [tx EXCEPT ![t].row = Store!WithStatus(batches[b], "CANCELLED"), ![t].step = "scan"]
    <2>0. Store!WithStatus(batches[b], "CANCELLED") \in Row /\ Store!WithStatus(batches[b], "CANCELLED") # NoRow
      <3>1. batches[b] \in Store!BatchRow /\ "CANCELLED" \in Store!BatchStatus
        BY <1>1 DEF StoreFacts, Store!BatchStatus
      <3>. QED
        BY <3>1, RowForms DEF NoRow, Store!NoRow, Store!WithStatus, Store!BatchRow
    <2>1. PICK new \in Row : new = Store!WithStatus(batches[b], "CANCELLED") /\ new # NoRow
      BY <2>0
    <2>2. Rewrite(t, "scan", {}, {}, new)
      BY <1>1, <1>3, <2>1 DEF Rewrite, Rewritten, Transaction, TxInv
    <2>3. "scan" \in Step /\ {} \in SUBSET Url
      BY DEF Step
    <2>4. /\ tx' \in [Tx -> Transaction]
          /\ tx'[t].kind = tx[t].kind /\ tx'[t].batch = tx[t].batch /\ tx'[t].result = tx[t].result
          /\ tx'[t].step = "scan" /\ tx'[t].todo = {} /\ tx'[t].rows = {}
          /\ tx'[t].row = new
          /\ \A s \in Tx \ {t} : tx'[s] = tx[s]
      BY <2>2, <2>3, Rewrites
    <2>5. Shape(t)' /\ Locked(t)'
      BY <1>1, <1>2, <1>3, <2>1, <2>4 DEF Shape, CancelShape, Locked, Single
    <2>6. \A s \in Tx \ {t} : Holds(t)' /\ Holds(s) => tx[s].batch # tx'[t].batch
      BY <1>3, <2>4 DEF BatchFree, Holds, NoRow
    <2>. QED
      BY <1>1, <1>2, <2>4, <2>5, <2>6, TxStep
  <1>4. CASE tx' = [tx EXCEPT ![t] = None]
    BY <1>2, <1>4, EndStep
  <1>. QED
    BY <1>3, <1>4 DEF CancelBatch

LEMMA ScanStep == ASSUME TxInv, NEW t \in Tx, Scan(t) PROVE TxInv'
  <1>. DEFINE b == tx[t].batch
  <1>1. /\ tx[t] \in Transaction /\ tx[t].step = "scan" /\ Shape(t) /\ Locked(t)
        /\ tx[t].kind \in Bulk
    BY DEF Scan, TxInv, Shape, SingleShape, None, Opened, Transaction, Kind, Bulk
  <1>2. PICK S \in SUBSET Url :
          /\ tx[t].kind # "recover" => S = {u \in Store!RowsOf(b) : urls[u] \in Where(tx[t].kind)}
          /\ Rewrite(t, "rows", S, tx[t].rows, tx[t].row)
    BY <1>1 DEF Scan, Rewrite, Rewritten, Transaction, TxInv
  <1>3. "rows" \in Step /\ tx[t].rows \in SUBSET Url /\ tx[t].row \in Row
    BY <1>1 DEF Step, Transaction
  <1>4. /\ tx' \in [Tx -> Transaction]
        /\ tx'[t].kind = tx[t].kind /\ tx'[t].batch = tx[t].batch /\ tx'[t].result = tx[t].result
        /\ tx'[t].step = "rows" /\ tx'[t].todo = S /\ tx'[t].rows = tx[t].rows /\ tx'[t].row = tx[t].row
        /\ \A s \in Tx \ {t} : tx'[s] = tx[s]
    BY <1>2, <1>3, Rewrites
  <1>5. urls' = urls /\ batches' = batches
    BY DEF Scan
  <1>6. Locked(t)'
    BY <1>1, <1>4, <1>5 DEF Locked
  <1>7. Shape(t)'
    <2>1. CASE tx[t].kind = "cancel"
      <3>1. S = Store!ActiveRows(b) /\ tx[t].rows = {}
        BY <1>1, <1>2, <2>1 DEF Where, Store!ActiveRows, Shape, CancelShape
      <3>2. Store!ActiveRows(b)' = Store!ActiveRows(b)
        BY <1>4, <1>5 DEF Store!ActiveRows, Store!RowsOf
      <3>3. /\ batches[b].status \in Store!Active
            /\ tx[t].row = Store!WithStatus(batches[b], "CANCELLED") /\ b \in Batch
        BY <1>1, <2>1 DEF Shape, CancelShape
      <3>4. CancelShape(t)'
        BY <1>4, <1>5, <3>1, <3>2, <3>3 DEF CancelShape
      <3>. QED
        BY <1>4, <2>1, <3>3, <3>4 DEF Shape, Single
    <2>2. CASE tx[t].kind = "retry"
      BY <1>1, <1>2, <1>4, <1>5, <2>2 DEF Shape, RetryShape, Single, Holds, Store!RowsOf
    <2>3. CASE tx[t].kind = "recover"
      BY <1>1, <1>4, <1>5, <2>3 DEF Shape, RecoverShape, Single
    <2>. QED
      BY <1>1, <2>1, <2>2, <2>3 DEF Bulk
  <1>8. \A s \in Tx \ {t} : tx'[t].rows \cap tx[s].rows = {}
    BY <1>4 DEF TxInv, UrlLocks
  <1>9. \A s \in Tx \ {t} : Holds(t)' /\ Holds(s) => tx[s].batch # tx'[t].batch
    BY <1>4 DEF TxInv, BatchLocks, Holds
  <1>. QED
    BY <1>4, <1>5, <1>6, <1>7, <1>8, <1>9, TxStep

LEMMA LockRowStep == ASSUME TxInv, NEW t \in Tx, NEW u \in Url, LockRow(t, u) PROVE TxInv'
  <1>. DEFINE b == tx[t].batch
  <1>0. /\ tx[t] \in Transaction /\ Shape(t) /\ Locked(t) /\ u \in tx[t].todo
        /\ tx[t].kind \in Bulk \cup Single
    BY DEF LockRow, TxInv, Shape, None, Opened, Transaction, Kind
  <1>1. /\ tx[t] \in Transaction /\ Shape(t) /\ Locked(t) /\ u \in tx[t].todo
        /\ tx[t].step = "rows" /\ tx[t].kind \in Bulk \cup Single
    BY <1>0 DEF Shape, CancelShape, RetryShape, RecoverShape, SingleShape, Bulk, Single
  <1>2. urls' = urls /\ batches' = batches /\ UrlFree(u)
    BY DEF LockRow
  <1>3. PICK rows \in SUBSET Url :
          /\ rows \in {tx[t].rows, tx[t].rows \cup {u}}
          /\ u \in rows \ tx[t].rows => urls[u] \in Where(tx[t].kind)
          /\ rows = tx[t].rows => urls[u] \notin Where(tx[t].kind) \/ tx[t].kind = "recover" \/ u \in rows
          /\ Rewrite(t, "rows", tx[t].todo \ {u}, rows, tx[t].row)
    <2>1. \/ /\ urls[u] \in Where(tx[t].kind)
             /\ Rewrite(t, "rows", tx[t].todo \ {u}, tx[t].rows \cup {u}, tx[t].row)
          \/ /\ urls[u] \notin Where(tx[t].kind) \/ tx[t].kind = "recover"
             /\ Rewrite(t, "rows", tx[t].todo \ {u}, tx[t].rows, tx[t].row)
      BY <1>1 DEF LockRow, Rewrite, Rewritten, Transaction, TxInv
    <2>2. tx[t].rows \in SUBSET Url /\ tx[t].rows \cup {u} \in SUBSET Url
      BY <1>1 DEF Transaction
    <2>. QED
      BY <2>1, <2>2
  <1>4. PICK left \in SUBSET Url : left = tx[t].todo \ {u}
    <2>1. tx[t].todo \ {u} \in SUBSET Url
      BY <1>1 DEF Transaction
    <2>. QED
      BY <2>1
  <1>5. /\ tx' \in [Tx -> Transaction]
        /\ tx'[t].kind = tx[t].kind /\ tx'[t].batch = tx[t].batch /\ tx'[t].result = tx[t].result
        /\ tx'[t].step = "rows" /\ tx'[t].todo = left /\ tx'[t].rows = rows /\ tx'[t].row = tx[t].row
        /\ \A s \in Tx \ {t} : tx'[s] = tx[s]
    <2>1. Rewrite(t, "rows", left, rows, tx[t].row)
      BY <1>3, <1>4
    <2>2. tx[t].row \in Row /\ "rows" \in Step
      BY <1>1 DEF Transaction, Step
    <2>. QED
      BY <2>1, <2>2, Rewrites
  <1>6. tx[t].kind # "recover" => BatchOf[u] = b
    BY <1>1 DEF Shape, CancelShape, RetryShape, SingleShape, Store!ActiveRows, Store!RowsOf, Bulk, Single
  <1>7. Locked(t)'
    BY <1>1, <1>2, <1>3, <1>5, <1>6 DEF Locked
  <1>8. Shape(t)'
    <2>1. CASE tx[t].kind = "cancel"
      <3>1. u \in Store!ActiveRows(b) /\ urls[u] \in Where("cancel")
        BY <1>1, <2>1 DEF Shape, CancelShape, Store!ActiveRows, Where
      <3>2. left \cup rows = tx[t].todo \cup tx[t].rows
        BY <1>1, <1>3, <1>4, <2>1, <3>1
      <3>. QED
        BY <1>1, <1>2, <1>5, <2>1, <3>2 DEF Shape, CancelShape, Single, Store!ActiveRows, Store!RowsOf
    <2>2. CASE tx[t].kind = "retry"
      BY <1>1, <1>2, <1>4, <1>5, <2>2 DEF Shape, RetryShape, Single, Holds
    <2>3. CASE tx[t].kind = "recover"
      BY <1>1, <1>5, <1>2, <2>3 DEF Shape, RecoverShape, Single
    <2>4. CASE tx[t].kind \in Single
      <3>1. PICK v \in Store!RowsOf(b) : tx[t].todo \cup tx[t].rows \subseteq {v}
        BY <1>1, <2>4 DEF Shape, SingleShape
      <3>2. left = {} /\ left \cup rows \subseteq {v}
        BY <1>1, <1>3, <1>4, <3>1
      <3>3. SingleShape(t)'
        BY <1>1, <1>2, <1>5, <2>4, <3>1, <3>2 DEF Shape, SingleShape, Store!RowsOf
      <3>. QED
        BY <1>1, <1>5, <2>4, <3>3 DEF Shape, Single
    <2>. QED
      BY <1>1, <2>1, <2>2, <2>3, <2>4 DEF Bulk
  <1>9. \A s \in Tx \ {t} : tx'[t].rows \cap tx[s].rows = {}
    BY <1>2, <1>3, <1>5 DEF TxInv, UrlLocks, UrlFree
  <1>10. \A s \in Tx \ {t} : Holds(t)' /\ Holds(s) => tx[s].batch # tx'[t].batch
    BY <1>5 DEF TxInv, BatchLocks, Holds
  <1>. QED
    BY <1>2, <1>5, <1>7, <1>8, <1>9, <1>10, TxStep

LEMMA FiniteRows ==
  ASSUME NEW S \in SUBSET Url
  PROVE  IsFiniteSet(S) /\ Cardinality(S) \in Nat /\ (S = {} <=> Cardinality(S) = 0)
  <1>1. IsFiniteSet(Url)
    BY BatchTxAssumption, SameFiniteSets DEF Store!BatchStoreAssumption
  <1>2. IsFiniteSet(S)
    BY <1>1, FS_Subset
  <1>. QED
    BY <1>2, FS_CardinalityType, FS_EmptySet

\* The batch row a transaction writes is never an absent one.
LEMMA BatchRows ==
  ASSUME NEW x \in Transaction, NEW r \in Store!BatchRow, x.kind \in {"claim", "persist", "retry"},
         x.kind = "persist" => r.status # "ABSENT"
  PROVE  /\ BatchRowOf(x, r) \in Row /\ BatchRowOf(x, r).status # "ABSENT"
         /\ BatchRowOf(x, r) # NoRow
  <1>1. BatchRowOf(x, r) \in Row /\ BatchRowOf(x, r).status # "ABSENT"
    <2>1. "PROCESSING" \in Store!BatchStatus
      BY DEF Store!BatchStatus
    <2>2. CASE x.kind = "claim"
      BY <2>1, <2>2, RowForms DEF BatchRowOf
    <2>3. CASE x.kind = "retry"
      <3>1. x.rows \in SUBSET Url
        BY DEF Transaction
      <3>2. -Cardinality(x.rows) \in Int
        BY <3>1, FiniteRows
      <3>3. PICK f \in Row : f = Store!PlusFailed(r, -Cardinality(x.rows))
        BY <2>1, <3>2, RowForms
      <3>4. Store!WithStatus(f, "PROCESSING") \in Row /\ Store!WithStatus(f, "PROCESSING").status = "PROCESSING"
        BY <2>1 DEF Row, Store!WithStatus
      <3>. QED
        BY <2>3, <3>3, <3>4 DEF BatchRowOf
    <2>4. CASE x.kind = "persist"
      <3>1. PICK c \in Row : c = Store!Counted(r, x.result) /\ c.status # "ABSENT"
        BY <2>1, <2>4, RowForms DEF Store!Counted
      <3>2. Store!Finalized(c) \in Row /\ Store!Finalized(c).status # "ABSENT"
        BY <3>1 DEF Row, Store!Finalized, Store!WithStatus, Store!BatchStatus
      <3>. QED
        BY <2>4, <3>1, <3>2 DEF BatchRowOf
    <2>. QED
      BY <2>2, <2>3, <2>4
  <1>. QED
    BY <1>1 DEF NoRow, Store!NoRow

LEMMA UpdateBatchStep == ASSUME TxInv, StoreFacts, NEW t \in Tx, UpdateBatch(t) PROVE TxInv'
  <1>. DEFINE b == tx[t].batch
  <1>1. /\ tx[t] \in Transaction /\ Shape(t) /\ Locked(t)
        /\ tx[t].kind \in {"claim", "persist", "retry"} /\ tx[t].step = "rows"
        /\ tx[t].todo = {} /\ tx[t].rows # {} /\ b \in Batch
    BY DEF UpdateBatch, UrlsDone, TxInv, Shape
  <1>2. /\ urls' = urls /\ batches' = batches /\ batches[b] \in Store!BatchRow
        /\ tx[t].row = NoRow /\ ~Holds(t)
    BY <1>1 DEF UpdateBatch, StoreFacts, Shape, RetryShape, SingleShape, Single, Holds
  <1>3. "commit" \in Step /\ {} \in SUBSET Url
    BY DEF Step
  <1>4. PICK rows \in SUBSET Url : rows = tx[t].rows
    BY <1>1 DEF Transaction
  <1>5. PICK row \in Row :
          /\ Rewrite(t, "commit", {}, rows, row)
          /\ \/ /\ tx[t].kind = "claim" /\ batches[b].status # "PENDING" /\ row = NoRow
             \/ /\ tx[t].kind = "claim" => batches[b].status = "PENDING"
                /\ BatchFree(b) /\ row # NoRow /\ row = BatchRowOf(tx[t], batches[b])
    <2>1. CASE tx[t].kind = "claim" /\ batches[b].status # "PENDING"
      <3>1. NoRow \in Row
        BY DEF NoRow, Row, Store!NoRow, Store!BatchStatus
      <3>2. Rewrite(t, "commit", {}, rows, NoRow)
        BY <1>1, <1>2, <1>4, <2>1 DEF UpdateBatch, Rewrite, Rewritten, Transaction, TxInv
      <3>. QED
        BY <2>1, <3>1, <3>2
    <2>2. CASE ~(tx[t].kind = "claim" /\ batches[b].status # "PENDING")
      <3>1. tx[t].kind = "persist" => batches[b].status # "ABSENT"
        BY <1>1 DEF Locked, Where, StoreFacts, Transaction
      <3>2. PICK row \in Row : row = BatchRowOf(tx[t], batches[b]) /\ row # NoRow
        BY <1>1, <1>2, <3>1, BatchRows
      <3>3. BatchFree(b)
        BY <2>2 DEF UpdateBatch
      <3>4. tx' = [tx EXCEPT ![t].row = row, ![t].step = "commit"]
        BY <2>2, <3>2 DEF UpdateBatch
      <3>5. Rewrite(t, "commit", {}, rows, row)
        BY <1>1, <1>4, <3>4 DEF Rewrite, Rewritten, Transaction, TxInv
      <3>. QED
        BY <2>2, <3>2, <3>3, <3>5
    <2>. QED
      BY <2>1, <2>2
  <1>6. /\ tx' \in [Tx -> Transaction]
        /\ tx'[t].kind = tx[t].kind /\ tx'[t].batch = tx[t].batch /\ tx'[t].result = tx[t].result
        /\ tx'[t].step = "commit" /\ tx'[t].todo = {} /\ tx'[t].rows = rows /\ tx'[t].row = row
        /\ \A s \in Tx \ {t} : tx'[s] = tx[s]
    BY <1>3, <1>5, Rewrites
  <1>7. Locked(t)'
    BY <1>1, <1>2, <1>4, <1>6 DEF Locked
  <1>8. Shape(t)'
    <2>1. BatchRowOf(tx'[t], batches[b]) = BatchRowOf(tx[t], batches[b])
      BY <1>1, <1>4, <1>6 DEF BatchRowOf
    <2>2. CASE tx[t].kind = "retry"
      <3>1. RetryShape(t)'
        BY <1>1, <1>2, <1>4, <1>5, <1>6, <2>1, <2>2 DEF RetryShape, Holds
      <3>. QED
        BY <1>1, <1>6, <2>2, <3>1 DEF Shape, Single
    <2>3. CASE tx[t].kind # "retry"
      <3>1. tx[t].kind \in Single
        BY <1>1, <2>3 DEF Single
      <3>2. PICK u \in Store!RowsOf(b) : rows \subseteq {u}
        BY <1>1, <1>4, <3>1 DEF Shape, SingleShape
      <3>3. SingleShape(t)'
        BY <1>1, <1>2, <1>4, <1>5, <1>6, <2>1, <2>3, <3>2 DEF SingleShape, Holds, Store!RowsOf
      <3>. QED
        BY <1>1, <1>6, <3>1, <3>3 DEF Shape, Single
    <2>. QED
      BY <2>2, <2>3
  <1>9. \A s \in Tx \ {t} : tx'[t].rows \cap tx[s].rows = {}
    BY <1>4, <1>6 DEF TxInv, UrlLocks
  <1>10. \A s \in Tx \ {t} : Holds(t)' /\ Holds(s) => tx[s].batch # tx'[t].batch
    BY <1>5, <1>6 DEF BatchFree, Holds, NoRow
  <1>. QED
    BY <1>2, <1>6, <1>7, <1>8, <1>9, <1>10, TxStep

-----------------------------------------------------------------------------
(* The steps that write the tables *)

\* What the transaction s needs of the tables while another one commits.
LEMMA Elsewhere ==
  ASSUME NEW s \in Tx, Shape(s), Locked(s), tx'[s] = tx[s],
         \A u \in tx[s].rows : urls'[u] = urls[u],
         Holds(s) => batches'[tx[s].batch] = batches[tx[s].batch],
         tx[s].kind = "claim" /\ tx[s].step = "commit" /\ ~Holds(s) =>
           batches'[tx[s].batch].status # "PENDING",
         tx[s].kind = "cancel" /\ Holds(s) =>
           \A u \in Store!RowsOf(tx[s].batch) : urls'[u] \in Store!Active <=> urls[u] \in Store!Active
  PROVE  Shape(s)' /\ Locked(s)'
  <1>1. Locked(s)'
    BY DEF Locked
  <1>2. ASSUME tx[s].kind = "cancel" PROVE CancelShape(s)'
    <2>1. CancelShape(s)
      BY <1>2 DEF Shape
    <2>2. CASE tx[s].step = "batch"
      BY <2>1, <2>2 DEF CancelShape
    <2>3. CASE tx[s].step # "batch"
      <3>1. Holds(s)
        BY <2>1, <2>3 DEF CancelShape, Holds, NoRow, Store!NoRow, Store!WithStatus
      <3>2. Store!ActiveRows(tx[s].batch)' = Store!ActiveRows(tx[s].batch)
        BY <1>2, <3>1 DEF Store!ActiveRows, Store!RowsOf
      <3>. QED
        BY <2>1, <2>3, <3>1, <3>2 DEF CancelShape
    <2>. QED
      BY <2>2, <2>3
  <1>3. ASSUME tx[s].kind = "retry" PROVE RetryShape(s)'
    BY <1>3 DEF Shape, RetryShape, Holds, Store!RowsOf
  <1>4. ASSUME tx[s].kind \in Single PROVE SingleShape(s)'
    BY <1>4 DEF Shape, SingleShape, Holds, Store!RowsOf
  <1>5. ASSUME tx[s].kind = "recover" PROVE RecoverShape(s)'
    BY <1>5 DEF Shape, RecoverShape
  <1>. QED
    BY <1>1, <1>2, <1>3, <1>4, <1>5 DEF Shape

LEMMA CreateStep ==
  ASSUME TxInv, StoreFacts, NEW b \in Batch, CreateWithUrls(b)
  PROVE  TxInv'
  <1>1. /\ tx' = tx /\ batches[b].status = "ABSENT"
        /\ \A c \in Batch \ {b} : batches'[c] = batches[c]
        /\ \A u \in Url : BatchOf[u] # b => urls'[u] = urls[u]
    BY DEF CreateWithUrls, Store!CreateWithUrls, Store!SetRows, Store!RowsOf, StoreFacts
  <1>2. ASSUME NEW s \in Tx PROVE Shape(s)' /\ Locked(s)'
    <2>1. tx[s] \in Transaction /\ Shape(s) /\ Locked(s)
      BY DEF TxInv
    <2>2. ASSUME NEW u \in tx[s].rows PROVE u \in Url /\ BatchOf[u] # b /\ urls'[u] = urls[u]
      <3>1. urls[u] \in Where(tx[s].kind) /\ u \in Url
        BY <2>1 DEF Locked, Transaction
      <3>. QED
        BY <1>1, <3>1 DEF Where, Store!Active, StoreFacts
    <2>3. ASSUME tx[s].rows # {}, tx[s].kind \notin {"none", "recover"}
          PROVE  tx[s].batch \in Batch \ {b}
      BY <2>1, <2>2, <2>3 DEF Locked, Shape
    <2>4. ASSUME Holds(s) PROVE tx[s].batch \in Batch \ {b}
      <3>1. CASE tx[s].kind = "cancel"
        BY <1>1, <2>1, <2>4, <3>1 DEF Shape, CancelShape, Holds, Store!Active
      <3>2. CASE tx[s].kind # "cancel"
        BY <2>1, <2>3, <2>4, <3>2 DEF Shape, RetryShape, RecoverShape, SingleShape, Holds, None, Opened,
                                      NoRow, Transaction, Kind, Bulk
      <3>. QED
        BY <3>1, <3>2
    <2>5. ASSUME tx[s].kind = "claim", tx[s].step = "commit", ~Holds(s)
          PROVE  batches'[tx[s].batch].status # "PENDING"
      BY <1>1, <2>1, <2>3, <2>5 DEF Shape, SingleShape, Single
    <2>. QED
      BY <1>1, <2>1, <2>2, <2>4, <2>5, Elsewhere DEF Store!RowsOf
  <1>. QED
    BY <1>1, <1>2 DEF TxInv, UrlLocks, BatchLocks, Holds

\* A transaction that may commit holds every row it changes.
LEMMA Ready ==
  ASSUME TxInv, NEW t \in Tx, Finished(t)
  PROVE  /\ tx[t] \in Transaction /\ Shape(t) /\ Locked(t) /\ tx[t].todo = {}
         /\ tx[t].kind \in {"cancel", "persist", "retry"} /\ tx[t].rows # {} => Holds(t)
         /\ Holds(t) => tx[t].batch \in Batch /\ tx[t].kind \in {"cancel", "claim", "persist", "retry"}
         /\ tx[t].kind \in Bulk \cup Single
  <1>1. tx[t] \in Transaction /\ Shape(t) /\ Locked(t) /\ tx[t].step \in {"rows", "commit"}
    BY DEF TxInv, Finished, UrlsDone
  <1>2. tx[t].kind \in Bulk \cup Single
    BY <1>1 DEF Shape, None, Opened, Transaction, Kind
  <1>3. tx[t].todo = {}
    BY <1>1, <1>2 DEF Finished, UrlsDone, Shape, CancelShape, RetryShape, RecoverShape, SingleShape, Bulk, Single
  <1>4. ASSUME tx[t].kind \in {"cancel", "persist", "retry"}, tx[t].rows # {} PROVE Holds(t)
    <2>1. CASE tx[t].kind = "cancel"
      BY <1>1, <2>1 DEF Shape, CancelShape, Holds, NoRow, Store!NoRow, Store!WithStatus
    <2>2. CASE tx[t].kind # "cancel"
      <3>1. tx[t].step = "commit"
        BY <1>4, <2>2 DEF Finished
      <3>. QED
        BY <1>1, <1>4, <2>2, <3>1 DEF Shape, RetryShape, SingleShape, Single
    <2>. QED
      BY <2>1, <2>2
  <1>5. ASSUME Holds(t)
        PROVE  tx[t].batch \in Batch /\ tx[t].kind \in {"cancel", "claim", "persist", "retry"}
    <2>1. tx[t].kind \notin {"recover", "release", "none"}
      BY <1>1, <1>2, <1>5 DEF Shape, RecoverShape, SingleShape, Single, Holds, Bulk
    <2>. QED
      BY <1>1, <1>2, <2>1 DEF Shape, Bulk, Single
  <1>. QED
    BY <1>1, <1>2, <1>3, <1>4, <1>5

\* The batch row that a commit writes.
NewRowOf(x) ==
  IF x.kind = "cancel" THEN Store!PlusCancelled(x.row, Cardinality(x.rows)) ELSE x.row

LEMMA Committed ==
  ASSUME TxInv, StoreFacts, NEW t \in Tx, Commit(t)
  PROVE  /\ tx'[t] = None /\ \A s \in Tx \ {t} : tx'[s] = tx[s]
         /\ tx' \in [Tx -> Transaction]
         /\ \A u \in Url : urls'[u] = IF u \in tx[t].rows THEN Written(tx[t]) ELSE urls[u]
         /\ \A c \in Batch : ~Holds(t) \/ c # tx[t].batch => batches'[c] = batches[c]
         /\ Holds(t) => batches'[tx[t].batch] = NewRowOf(tx[t])
  <1>1. None \in Transaction
    BY DEF None, Opened, Transaction, Kind, Step, Row, NoRow, Store!NoRow, Store!BatchStatus
  <1>2. tx'[t] = None /\ (\A s \in Tx \ {t} : tx'[s] = tx[s]) /\ tx' \in [Tx -> Transaction]
    BY <1>1 DEF Commit, TxInv
  <1>3. \A u \in Url : urls'[u] = IF u \in tx[t].rows THEN Written(tx[t]) ELSE urls[u]
    BY DEF Commit, Store!SetRows
  <1>4. batches' = IF Holds(t) THEN [batches EXCEPT ![tx[t].batch] = NewRowOf(tx[t])] ELSE batches
    BY DEF Commit, NewRowOf, Holds, NoRow
  <1>5. Holds(t) => tx[t].batch \in Batch
    BY Ready DEF Commit
  <1>. QED
    BY <1>2, <1>3, <1>4, <1>5 DEF StoreFacts

\* No commit brings a batch back to PENDING.
LEMMA NewRowStarted ==
  ASSUME TxInv, StoreFacts, NEW t \in Tx, Finished(t), Holds(t)
  PROVE  NewRowOf(tx[t]).status # "PENDING"
  <1>. DEFINE b == tx[t].batch
  <1>1. /\ tx[t] \in Transaction /\ Shape(t) /\ Locked(t) /\ b \in Batch
        /\ tx[t].kind \in {"cancel", "claim", "persist", "retry"} /\ batches[b] \in Store!BatchRow
    BY Ready DEF StoreFacts
  <1>2. CASE tx[t].kind = "cancel"
    BY <1>1, <1>2 DEF Shape, CancelShape, Holds, NewRowOf, Store!PlusCancelled, Store!WithStatus, Store!BatchRow
  <1>3. CASE tx[t].kind # "cancel"
    <2>1. tx[t].step = "commit" /\ tx[t].row = BatchRowOf(tx[t], batches[b]) /\ tx[t].rows # {}
      BY <1>1, <1>3 DEF Shape, RetryShape, SingleShape, Single, Holds
    <2>2. CASE tx[t].kind \in {"claim", "retry"}
      BY <1>1, <1>3, <2>1, <2>2 DEF NewRowOf, BatchRowOf, Store!WithStatus, Store!PlusFailed, Store!BatchRow
    <2>3. CASE tx[t].kind = "persist"
      <3>1. batches[b].status = "PROCESSING"
        BY <1>1, <2>1, <2>3 DEF Locked, Where, StoreFacts, Transaction
      <3>2. PICK c : c = Store!Counted(batches[b], tx[t].result)
        OBVIOUS
      <3>3. c.status = "PROCESSING" /\ c \in Row
        BY <1>1, <3>1, <3>2 DEF Store!Counted, Store!PlusCompleted, Store!PlusFailed, Store!BatchRow, Row, Store!Nat
      <3>4. Store!Finalized(c).status # "PENDING"
        BY <3>3 DEF Store!Finalized, Store!WithStatus, Row
      <3>. QED
        BY <1>3, <2>1, <2>3, <3>2, <3>4 DEF NewRowOf, BatchRowOf
    <2>. QED
      BY <1>1, <1>3, <2>2, <2>3
  <1>. QED
    BY <1>2, <1>3

LEMMA CommitStep == ASSUME TxInv, StoreFacts, NEW t \in Tx, Commit(t) PROVE TxInv'
  <1>1. /\ tx'[t] = None /\ \A s \in Tx \ {t} : tx'[s] = tx[s]
        /\ tx' \in [Tx -> Transaction]
        /\ \A u \in Url : urls'[u] = IF u \in tx[t].rows THEN Written(tx[t]) ELSE urls[u]
        /\ \A c \in Batch : ~Holds(t) \/ c # tx[t].batch => batches'[c] = batches[c]
        /\ Holds(t) => batches'[tx[t].batch] = NewRowOf(tx[t])
    BY Committed
  <1>2. /\ Finished(t) /\ tx[t] \in Transaction /\ Locked(t) /\ tx[t].kind \in Bulk \cup Single
        /\ tx[t].kind \in {"cancel", "persist", "retry"} /\ tx[t].rows # {} => Holds(t)
    BY Ready DEF Commit
  <1>3. None.kind = "none" /\ None.rows = {} /\ None.row = NoRow
    BY DEF None, Opened, NoRow
  <1>4. Shape(t)' /\ Locked(t)'
    BY <1>1, <1>3 DEF Shape, Locked, Single
  <1>5. ASSUME NEW s \in Tx \ {t} PROVE Shape(s)' /\ Locked(s)'
    <2>. DEFINE b == tx[s].batch
    <2>1. tx[s] \in Transaction /\ Shape(s) /\ Locked(s) /\ tx'[s] = tx[s] /\ tx[s].rows \cap tx[t].rows = {}
      BY <1>1 DEF TxInv, UrlLocks
    <2>2. \A u \in tx[s].rows : urls'[u] = urls[u]
      BY <1>1, <2>1 DEF Transaction
    <2>3. ASSUME Holds(s) PROVE b \in Batch /\ batches'[b] = batches[b] /\ ~(Holds(t) /\ tx[t].batch = b)
      <3>1. ~(Holds(t) /\ tx[t].batch = b)
        BY <2>3 DEF TxInv, BatchLocks
      <3>2. b \in Batch
        BY <2>1, <2>3 DEF Shape, RecoverShape, Holds, None, Opened, NoRow
      <3>. QED
        BY <1>1, <3>1, <3>2
    <2>4. ASSUME tx[s].kind = "claim", tx[s].step = "commit", ~Holds(s)
          PROVE  batches'[b].status # "PENDING"
      <3>1. b \in Batch /\ batches[b].status # "PENDING"
        BY <2>1, <2>4 DEF Shape, SingleShape, Single
      <3>2. Holds(t) => NewRowOf(tx[t]).status # "PENDING"
        BY <1>2, NewRowStarted
      <3>. QED
        BY <1>1, <3>1, <3>2
    <2>5. ASSUME tx[s].kind = "cancel", Holds(s), NEW u \in Store!RowsOf(b)
          PROVE  urls'[u] \in Store!Active <=> urls[u] \in Store!Active
      <3>1. u \in Url /\ BatchOf[u] = b
        BY DEF Store!RowsOf
      <3>2. CASE u \notin tx[t].rows
        BY <1>1, <3>1, <3>2
      <3>3. CASE u \in tx[t].rows
        <4>1. urls[u] \in Where(tx[t].kind) /\ (tx[t].kind # "recover" => tx[t].batch = b)
          BY <1>2, <3>1, <3>3 DEF Locked
        <4>2. tx[t].kind \in {"recover", "claim", "release"}
          BY <1>2, <2>3, <2>5, <3>3, <4>1 DEF Bulk, Single
        <4>3. urls[u] \in Store!Active /\ Written(tx[t]) \in Store!Active
          BY <4>1, <4>2 DEF Where, Written, Store!Active
        <4>. QED
          BY <1>1, <3>1, <3>3, <4>3
      <3>. QED
        BY <3>2, <3>3
    <2>. QED
      BY <2>1, <2>2, <2>3, <2>4, <2>5, Elsewhere
  <1>6. UrlLocks' /\ BatchLocks'
    BY <1>1, <1>3 DEF TxInv, UrlLocks, BatchLocks, Holds
  <1>. QED
    BY <1>1, <1>4, <1>5, <1>6 DEF TxInv

\* The bookkeeping of the transactions is inductive, given that of the tables.
LEMMA StepKeepsTxInv == ASSUME TxInv, StoreFacts, [Next]_vars PROVE TxInv'
  <1>1. ASSUME NEW t \in Tx, Rollback(t) PROVE TxInv'
    BY <1>1, EndStep DEF Rollback
  <1>2. ASSUME NEW t \in Tx, NEW u \in Url, NEW kind \in {"claim", "release"},
               BeginSingle(t, u, kind, "FAILED")
        PROVE  TxInv'
    BY <1>2, BeginSingleStep DEF Single
  <1>3. ASSUME NEW t \in Tx, NEW u \in Url, NEW result \in {"SUCCESS", "FAILED"},
               BeginSingle(t, u, "persist", result)
        PROVE  TxInv'
    BY <1>3, BeginSingleStep DEF Single
  <1>4. CASE UNCHANGED vars
    BY <1>4, Still DEF vars, TxInv, UrlLocks, BatchLocks, Holds
  <1>. QED
    BY <1>1, <1>2, <1>3, <1>4, CreateStep, BeginCancelStep, BeginRetryStep, BeginRecoverStep, CancelBatchStep,
       ScanStep, LockRowStep, UpdateBatchStep, CommitStep DEF Next, Statement

-----------------------------------------------------------------------------
(* Every step is a step of BatchStore, or leaves its tables alone *)

\* Only opening and ending a retry changes the retries that BatchStore sees.
LEMMA Unseen ==
  ASSUME NEW t \in Tx, \A s \in Tx \ {t} : tx'[s] = tx[s],
         tx'[t].kind = "retry" <=> tx[t].kind = "retry",
         tx[t].kind = "retry" => tx'[t].batch = tx[t].batch
  PROVE  RetryOf' = RetryOf
  BY DEF RetryOf

LEMMA RetryEnds ==
  ASSUME TxInv, NEW t \in Tx, tx[t].kind = "retry", tx'[t] = None, \A s \in Tx \ {t} : tx'[s] = tx[s]
  PROVE  /\ RetryOf[t] = tx[t].batch /\ RetryOf[t] # NoBatch
         /\ RetryOf' = [RetryOf EXCEPT ![t] = NoBatch]
  <1>1. tx[t].batch \in Batch /\ NoBatch \notin Batch
    BY BatchTxAssumption DEF TxInv, Shape, Store!BatchStoreAssumption
  <1>2. None.kind = "none"
    BY DEF None, Opened
  <1>. QED
    BY <1>1, <1>2 DEF RetryOf

LEMMA BeginMaps ==
  ASSUME TxInv, NEW t \in Tx, NEW x, x.kind # "retry", Begin(t, x)
  PROVE  UNCHANGED Store!storeVars
  <1>1. tx'[t] = x /\ tx[t].kind = "none" /\ \A s \in Tx \ {t} : tx'[s] = tx[s]
    BY DEF Begin, TxInv, None, Opened
  <1>. QED
    BY <1>1, Unseen DEF Begin, Store!storeVars

LEMMA BeginRetryMaps ==
  ASSUME TxInv, NEW t \in Tx, NEW b \in Batch, BeginRetry(t, b)
  PROVE  Store!RetryRead(t, b)
  <1>1. tx[t].kind = "none" /\ tx'[t].kind = "retry" /\ tx'[t].batch = b /\ \A s \in Tx \ {t} : tx'[s] = tx[s]
    BY DEF BeginRetry, Begin, TxInv, None, Opened
  <1>2. RetryOf[t] = NoBatch /\ RetryOf' = [RetryOf EXCEPT ![t] = b]
    BY <1>1 DEF RetryOf
  <1>. QED
    BY <1>2 DEF BeginRetry, Begin, Store!RetryRead

LEMMA StatementMaps ==
  ASSUME TxInv, NEW t \in Tx, CancelBatch(t) \/ Scan(t) \/ UpdateBatch(t) \/ \E u \in Url : LockRow(t, u)
  PROVE  UNCHANGED Store!storeVars
  <1>1. tx[t] \in Transaction /\ urls' = urls /\ batches' = batches
    BY DEF TxInv, CancelBatch, Scan, UpdateBatch, LockRow
  <1>2. \A s \in Tx \ {t} : tx'[s] = tx[s]
    BY DEF TxInv, CancelBatch, Scan, UpdateBatch, LockRow
  <1>3. \/ tx[t].kind = "cancel" /\ tx'[t].kind \in {"none", "cancel"}
        \/ tx'[t].kind = tx[t].kind /\ tx'[t].batch = tx[t].batch
    <2>1. CASE CancelBatch(t)
      BY <1>1, <2>1 DEF CancelBatch, TxInv, Transaction, None, Opened
    <2>2. CASE Scan(t)
      BY <1>1, <2>2 DEF Scan, TxInv, Transaction
    <2>3. CASE UpdateBatch(t)
      BY <1>1, <2>3 DEF UpdateBatch, TxInv, Transaction
    <2>4. CASE \E u \in Url : LockRow(t, u)
      BY <1>1, <2>4 DEF LockRow, TxInv, Transaction
    <2>. QED
      BY <2>1, <2>2, <2>3, <2>4
  <1>. QED
    BY <1>1, <1>2, <1>3, Unseen DEF Store!storeVars

\* A rolled back retry is one that found no row to claim.
LEMMA RollbackMaps ==
  ASSUME TxInv, StoreFacts, NEW t \in Tx, Rollback(t)
  PROVE  Store!RetryWrite(t, {}) \/ UNCHANGED Store!storeVars
  <1>1. /\ tx'[t] = None /\ urls' = urls /\ batches' = batches /\ None.kind = "none"
        /\ \A s \in Tx \ {t} : tx'[s] = tx[s]
    BY DEF Rollback, TxInv, None, Opened
  <1>2. CASE tx[t].kind = "retry"
    <2>1. /\ RetryOf[t] = tx[t].batch /\ RetryOf[t] # NoBatch
          /\ RetryOf' = [RetryOf EXCEPT ![t] = NoBatch]
      BY <1>1, <1>2, RetryEnds
    <2>2. Store!SetRows({}, "PENDING")
      BY <1>1 DEF Store!SetRows, StoreFacts
    <2>. QED
      BY <1>1, <2>1, <2>2 DEF Store!RetryWrite
  <1>3. CASE tx[t].kind # "retry"
    BY <1>1, <1>3, Unseen DEF Store!storeVars
  <1>. QED
    BY <1>2, <1>3

\* What a commit does, in the terms of BatchStore.
LEMMA CommitFields ==
  ASSUME TxInv, StoreFacts, NEW t \in Tx, Commit(t)
  PROVE  /\ Store!SetRows(tx[t].rows, Written(tx[t]))
         /\ batches' = IF Holds(t) THEN [batches EXCEPT ![tx[t].batch] = NewRowOf(tx[t])] ELSE batches
         /\ tx[t].kind # "retry" => RetryOf' = RetryOf
         /\ tx[t].kind = "retry" => /\ RetryOf[t] = tx[t].batch /\ RetryOf[t] # NoBatch
                                    /\ RetryOf' = [RetryOf EXCEPT ![t] = NoBatch]
         /\ tx[t].rows = {} => urls' = urls
  <1>1. tx'[t] = None /\ None.kind = "none" /\ \A s \in Tx \ {t} : tx'[s] = tx[s]
    BY Committed DEF None, Opened
  <1>2. Store!SetRows(tx[t].rows, Written(tx[t]))
    BY DEF Commit
  <1>3. batches' = IF Holds(t) THEN [batches EXCEPT ![tx[t].batch] = NewRowOf(tx[t])] ELSE batches
    BY DEF Commit, NewRowOf, Holds, NoRow
  <1>4. tx[t].kind # "retry" => RetryOf' = RetryOf
    BY <1>1, Unseen
  <1>5. tx[t].kind = "retry" => /\ RetryOf[t] = tx[t].batch /\ RetryOf[t] # NoBatch
                                /\ RetryOf' = [RetryOf EXCEPT ![t] = NoBatch]
    BY <1>1, RetryEnds
  <1>6. tx[t].rows = {} => urls' = urls
    BY <1>2 DEF Store!SetRows, StoreFacts
  <1>. QED
    BY <1>2, <1>3, <1>4, <1>5, <1>6

LEMMA CommitCancelMaps ==
  ASSUME TxInv, StoreFacts, NEW t \in Tx, Commit(t), tx[t].kind = "cancel"
  PROVE  Store!Cancel(tx[t].batch)
  <1>. DEFINE b == tx[t].batch
  <1>1. /\ b \in Batch /\ batches[b].status \in Store!Active /\ tx[t].rows = Store!ActiveRows(b)
        /\ tx[t].row = Store!WithStatus(batches[b], "CANCELLED") /\ Holds(t)
    <2>1. Finished(t) /\ tx[t].step = "rows" /\ Shape(t) /\ tx[t].todo = {}
      BY Ready DEF Commit, Finished, UrlsDone, Shape, CancelShape
    <2>2. CancelShape(t)
      BY <2>1 DEF Shape
    <2>3. Holds(t)
      BY <2>1, <2>2 DEF CancelShape, Holds, NoRow, Store!NoRow, Store!WithStatus
    <2>. QED
      BY <2>1, <2>2, <2>3 DEF CancelShape, Shape
  <1>2. /\ Store!SetRows(Store!ActiveRows(b), "CANCELLED") /\ RetryOf' = RetryOf
        /\ batches' = [batches EXCEPT ![b] = NewRowOf(tx[t])]
    BY <1>1, CommitFields DEF Written
  <1>3. NewRowOf(tx[t]) =
          Store!WithStatus(Store!PlusCancelled(batches[b], Store!Cardinality(Store!ActiveRows(b))), "CANCELLED")
    <2>1. batches[b] \in Store!BatchRow
      BY <1>1 DEF StoreFacts
    <2>2. \A n : Store!PlusCancelled(Store!WithStatus(batches[b], "CANCELLED"), n)
                   = Store!WithStatus(Store!PlusCancelled(batches[b], n), "CANCELLED")
      BY <2>1 DEF Store!PlusCancelled, Store!WithStatus, Store!BatchRow
    <2>. QED
      BY <1>1, <2>2, SameFiniteSets DEF NewRowOf
  <1>. QED
    BY <1>1, <1>2, <1>3 DEF Store!Cancel

LEMMA CommitRetryMaps ==
  ASSUME TxInv, StoreFacts, NEW t \in Tx, Commit(t), tx[t].kind = "retry"
  PROVE  Store!RetryWrite(t, tx[t].rows)
  <1>. DEFINE b == tx[t].batch
  <1>1. /\ Store!SetRows(tx[t].rows, "PENDING") /\ RetryOf[t] = b /\ RetryOf[t] # NoBatch
        /\ RetryOf' = [RetryOf EXCEPT ![t] = NoBatch]
        /\ batches' = IF Holds(t) THEN [batches EXCEPT ![b] = NewRowOf(tx[t])] ELSE batches
    BY CommitFields DEF Written
  <1>2. tx[t].rows \subseteq Store!RowsWith(b, "FAILED")
    <2>1. tx[t] \in Transaction /\ Locked(t)
      BY DEF TxInv
    <2>. QED
      BY <2>1 DEF Locked, Where, Transaction, Store!RowsWith, Store!RowsOf
  <1>3. Holds(t) <=> tx[t].rows # {}
    BY Ready DEF Commit, Shape, RetryShape, Holds
  <1>4. Holds(t) => NewRowOf(tx[t]) =
          Store!WithStatus(Store!PlusFailed(batches[b], -Store!Cardinality(tx[t].rows)), "PROCESSING")
    BY Ready, SameFiniteSets DEF Commit, Shape, RetryShape, Holds, NewRowOf, BatchRowOf
  <1>. QED
    BY <1>1, <1>2, <1>3, <1>4 DEF Store!RetryWrite

LEMMA CommitSingleMaps ==
  ASSUME TxInv, StoreFacts, NEW t \in Tx, Commit(t), tx[t].kind \in Single, tx[t].rows # {}
  PROVE  \E u \in Url :
           \/ Store!Claim(u) \/ Store!ReleaseForRetry(u)
           \/ \E result \in {"SUCCESS", "FAILED"} : Store!PersistResult(u, result)
  <1>. DEFINE b == tx[t].batch
  <1>1. /\ Finished(t) /\ tx[t] \in Transaction /\ SingleShape(t) /\ Locked(t) /\ b \in Batch
        /\ tx[t].kind = "persist" => Holds(t)
        /\ Holds(t) => tx[t].kind \in {"claim", "persist"}
    BY Ready DEF Commit, Shape, Single
  <1>2. PICK u \in Url : /\ tx[t].rows = {u} /\ BatchOf[u] = b
                         /\ urls[u] \in Where(tx[t].kind)
    <2>1. PICK u \in Store!RowsOf(b) : tx[t].rows \subseteq {u}
      BY <1>1 DEF SingleShape
    <2>2. u \in Url /\ BatchOf[u] = b /\ tx[t].rows = {u}
      BY <2>1 DEF Store!RowsOf
    <2>. QED
      BY <1>1, <2>2 DEF Locked
  <1>3. /\ Store!SetRows({u}, Written(tx[t])) /\ RetryOf' = RetryOf
        /\ batches' = IF Holds(t) THEN [batches EXCEPT ![b] = tx[t].row] ELSE batches
    BY <1>2, CommitFields DEF Single, NewRowOf
  <1>4. batches[b] \in Store!BatchRow /\ batches \in [Batch -> Store!BatchRow]
    BY <1>1 DEF StoreFacts
  <1>5. Holds(t) => tx[t].row = BatchRowOf(tx[t], batches[b])
    BY <1>1 DEF SingleShape, Holds
  <1>6. CASE tx[t].kind = "claim"
    <2>1. /\ tx[t].step = "commit"
          /\ Holds(t) <=> batches[b].status = "PENDING"
      BY <1>1, <1>2, <1>6 DEF SingleShape, Finished
    <2>2. batches' = [batches EXCEPT ![b] =
            IF batches[b].status = "PENDING" THEN Store!WithStatus(batches[b], "PROCESSING") ELSE batches[b]]
      BY <1>3, <1>4, <1>5, <1>6, <2>1 DEF BatchRowOf
    <2>3. Store!Claim(u)
      BY <1>2, <1>3, <1>6, <2>2 DEF Store!Claim, Where, Written
    <2>. QED
      BY <2>3
  <1>7. CASE tx[t].kind = "persist"
    <2>1. Store!PersistResult(u, tx[t].result)
      BY <1>1, <1>2, <1>3, <1>5, <1>7 DEF Store!PersistResult, BatchRowOf, Where, Written
    <2>. QED
      BY <1>1, <2>1 DEF Transaction
  <1>8. CASE tx[t].kind = "release"
    <2>1. Store!ReleaseForRetry(u)
      BY <1>1, <1>2, <1>3, <1>8 DEF Store!ReleaseForRetry, Where, Written
    <2>. QED
      BY <2>1
  <1>. QED
    BY <1>6, <1>7, <1>8 DEF Single

LEMMA CommitRecoverMaps ==
  ASSUME TxInv, StoreFacts, NEW t \in Tx, Commit(t), tx[t].kind = "recover", tx[t].rows # {}
  PROVE  Store!RecoverStuck(tx[t].rows)
  <1>1. tx[t] \in Transaction /\ Locked(t) /\ ~Holds(t)
    BY DEF TxInv, Shape, RecoverShape, Holds
  <1>2. Store!SetRows(tx[t].rows, "PENDING") /\ RetryOf' = RetryOf /\ batches' = batches
    BY <1>1, CommitFields DEF Written
  <1>3. \A u \in tx[t].rows : Store!Recoverable(u)
    BY <1>1 DEF Locked, Where, Transaction, StoreFacts, Store!Recoverable
  <1>. QED
    BY <1>2, <1>3 DEF Store!RecoverStuck

LEMMA CommitMaps ==
  ASSUME TxInv, StoreFacts, NEW t \in Tx, Commit(t)
  PROVE  [Store!Next]_(Store!storeVars)
  <1>1. tx[t] \in Transaction /\ Shape(t) /\ tx[t].kind \in Bulk \cup Single /\ Finished(t)
    BY Ready DEF Commit
  <1>2. CASE tx[t].kind = "cancel"
    <2>1. tx[t].batch \in Batch /\ Store!Cancel(tx[t].batch)
      BY <1>1, <1>2, CommitCancelMaps DEF Shape
    <2>. QED
      BY <2>1 DEF Store!Next
  <1>3. CASE tx[t].kind = "retry"
    <2>1. tx[t].rows \in SUBSET Url /\ Store!RetryWrite(t, tx[t].rows)
      BY <1>1, <1>3, CommitRetryMaps DEF Transaction
    <2>. QED
      BY <2>1 DEF Store!Next
  <1>4. CASE tx[t].kind \in Single \cup {"recover"} /\ tx[t].rows = {}
    <2>1. ~Holds(t)
      BY <1>1, <1>4 DEF Shape, SingleShape, RecoverShape, Holds, Single
    <2>. QED
      BY <1>4, <2>1, CommitFields DEF Store!storeVars, Single
  <1>5. CASE tx[t].kind \in Single /\ tx[t].rows # {}
    BY <1>5, CommitSingleMaps DEF Store!Next
  <1>6. CASE tx[t].kind = "recover" /\ tx[t].rows # {}
    <2>1. tx[t].rows \in SUBSET Url /\ Store!RecoverStuck(tx[t].rows)
      BY <1>1, <1>6, CommitRecoverMaps DEF Transaction
    <2>. QED
      BY <2>1 DEF Store!Next
  <1>. QED
    BY <1>1, <1>2, <1>3, <1>4, <1>5, <1>6 DEF Bulk

LEMMA StepMaps ==
  ASSUME TxInv, StoreFacts, [Next]_vars
  PROVE  [Store!Next]_(Store!storeVars)
  <1>1. ASSUME NEW b \in Batch, CreateWithUrls(b) PROVE Store!Next
    BY <1>1 DEF CreateWithUrls, Store!Next
  <1>2. ASSUME NEW t \in Tx, NEW b \in Batch, BeginRetry(t, b) PROVE Store!Next
    BY <1>2, BeginRetryMaps DEF Store!Next
  <1>3. ASSUME NEW t \in Tx,
               \/ \E b \in Batch : BeginCancel(t, b)
               \/ BeginRecover(t)
               \/ \E u \in Url, kind \in {"claim", "release", "persist"}, result \in {"SUCCESS", "FAILED"} :
                    BeginSingle(t, u, kind, result)
        PROVE  UNCHANGED Store!storeVars
    BY <1>3, BeginMaps DEF BeginCancel, BeginRecover, BeginSingle, Opened
  <1>4. ASSUME NEW t \in Tx, Rollback(t) PROVE [Store!Next]_(Store!storeVars)
    <2>1. Store!RetryWrite(t, {}) \/ UNCHANGED Store!storeVars
      BY <1>4, RollbackMaps
    <2>2. {} \in SUBSET Url
      OBVIOUS
    <2>. QED
      BY <2>1, <2>2 DEF Store!Next
  <1>5. CASE UNCHANGED vars
    BY <1>5 DEF vars, RetryOf, Store!storeVars
  <1>. QED
    BY <1>1, <1>2, <1>3, <1>4, <1>5, StatementMaps, CommitMaps DEF Next, Statement

-----------------------------------------------------------------------------
(* The theorems *)

\* The tables keep BatchStore's invariant and the transactions their own.
Bookkeeping == SP!IndInv /\ TxInv

THEOREM TransactionBookkeeping == Spec => []Bookkeeping
  <1>1. Init => Bookkeeping
    <2>. SUFFICES ASSUME Init PROVE Bookkeeping
      OBVIOUS
    <2>1. Store!Init
      BY DEF Init, Store!Init, RetryOf, None, Opened
    <2>. QED
      BY <2>1, StoreInit, InitTx DEF Bookkeeping
  <1>2. Bookkeeping /\ [Next]_vars => Bookkeeping'
    BY FactsOfStore, StepMaps, StoreStep, StepKeepsTxInv DEF Bookkeeping
  <1>. QED
    BY <1>1, <1>2, PTL DEF Spec

\* Statement by statement, with row locks that are taken one at a time and a
\* rollback possible at any point, each transaction of the repositories takes
\* effect as the one action that BatchStore makes of it.
THEOREM TransactionsAreAtomic == Spec => ImplementsStore
  <1>1. Init => Store!Init
    BY DEF Init, Store!Init, RetryOf, None, Opened
  <1>2. Bookkeeping /\ [Next]_vars => [Store!Next]_(Store!storeVars)
    BY FactsOfStore, StepMaps DEF Bookkeeping
  <1>. QED
    BY <1>1, <1>2, TransactionBookkeeping, PTL DEF Spec, ImplementsStore, Store!Spec

\* Who can block a transaction, and at which statement.
LEMMA BlockedBy ==
  ASSUME NEW t \in Tx, NEW s \in Blockers(t)
  PROVE  /\ s \in Tx \ {t}
         /\ \/ tx[t].step = "batch" /\ Holds(s) /\ tx[s].batch = tx[t].batch
            \/ tx[t].step = "rows" /\ tx[t].todo # {} /\ tx[s].rows \cap tx[t].todo # {}
            \/ tx[t].step = "rows" /\ ~Finished(t) /\ Holds(s) /\ tx[s].batch = tx[t].batch
  BY DEF Blockers, UrlsDone, Holds, NoRow

\* A worker that waits for a URL row waits for one that waits for the batch
\* row, and whoever has taken the batch row waits for nobody.
THEOREM WorkersWaitInOrder == Spec => []WorkersNeverDeadlock
  <1>1. TxInv => WorkersNeverDeadlock
    <2>. SUFFICES ASSUME TxInv, NEW C \in SUBSET Tx, Deadlocked(C), \A t \in C : tx[t].kind \notin Bulk
                  PROVE  FALSE
      BY DEF WorkersNeverDeadlock
    <2>1. ASSUME NEW t \in C PROVE SingleShape(t) /\ tx[t].step = "rows" /\ ~Holds(t)
      <3>1. PICK s \in C : s \in Blockers(t)
        BY DEF Deadlocked
      <3>2. tx[t].step \in {"batch", "rows"} /\ tx[t] \in Transaction /\ Shape(t)
        BY <3>1, BlockedBy DEF TxInv
      <3>3. tx[t].kind \in Single
        BY <3>2 DEF Shape, None, Opened, Transaction, Kind
      <3>. QED
        BY <3>2, <3>3 DEF Shape, SingleShape, Holds
    <2>2. PICK t \in C : TRUE
      BY DEF Deadlocked
    <2>3. PICK s \in C : s \in Blockers(t)
      BY DEF Deadlocked
    <2>4. tx[s].rows # {}
      BY <2>1, <2>3, BlockedBy
    <2>5. tx[s].todo = {}
      BY <2>1, <2>4 DEF SingleShape
    <2>6. PICK r \in C : r \in Blockers(s)
      BY DEF Deadlocked
    <2>7. Holds(r)
      BY <2>1, <2>5, <2>6, BlockedBy
    <2>. QED
      BY <2>1, <2>7
  <1>. QED
    BY <1>1, TransactionBookkeeping, PTL DEF Bookkeeping

\* Cancel asks for active rows and retryFailed holds FAILED ones; two
\* cancellations of one batch queue at the batch row, before any URL row.
THEOREM CancelAndRetryDoNotDeadlock == Spec => []CancelRetryNoDeadlock
  <1>1. TxInv => CancelRetryNoDeadlock
    <2>. SUFFICES ASSUME TxInv, NEW C \in SUBSET Tx, Deadlocked(C),
                         \A t \in C : tx[t].kind \in {"cancel", "retry"},
                         NEW c \in C, tx[c].kind # "retry"
                  PROVE  FALSE
      BY DEF CancelRetryNoDeadlock
    <2>1. ASSUME NEW t \in C
          PROVE  /\ tx[t] \in Transaction /\ Shape(t) /\ Locked(t) /\ tx[t].step \in {"batch", "rows"}
                 /\ \E s \in C : s \in Blockers(t)
      <3>1. PICK s \in C : s \in Blockers(t)
        BY DEF Deadlocked
      <3>. QED
        BY <3>1, BlockedBy DEF TxInv
    \* A cancellation that holds its batch is never blocked within C.
    <2>2. ASSUME NEW t \in C, tx[t].kind = "cancel", tx[t].step = "rows" PROVE FALSE
      <3>1. CancelShape(t) /\ Holds(t)
        BY <2>1, <2>2 DEF Shape, CancelShape, Holds, NoRow, Store!NoRow, Store!WithStatus
      <3>2. PICK s \in C : s \in Blockers(t)
        BY <2>1
      <3>3. s # t /\ ~(Holds(s) /\ tx[s].batch = tx[t].batch)
        BY <3>1, <3>2, BlockedBy DEF TxInv, BatchLocks
      <3>4. PICK u \in Url : u \in tx[s].rows /\ u \in tx[t].todo
        BY <2>1, <2>2, <3>2, <3>3, BlockedBy DEF Transaction
      <3>5. u \in Store!ActiveRows(tx[t].batch)
        BY <2>2, <3>1, <3>4 DEF CancelShape
      <3>6. urls[u] \in Store!Active /\ BatchOf[u] = tx[t].batch
        BY <3>5 DEF Store!ActiveRows, Store!RowsOf
      <3>7. urls[u] \in Where(tx[s].kind) /\ (tx[s].kind # "recover" => BatchOf[u] = tx[s].batch)
        BY <2>1, <3>4 DEF Locked
      <3>8. tx[s].kind = "cancel" /\ tx[s].batch = tx[t].batch
        BY <3>6, <3>7 DEF Where, Store!Active
      <3>9. Holds(s)
        <4>1. tx[s] \in Transaction /\ CancelShape(s)
          BY <2>1, <3>8 DEF Shape
        <4>2. tx[s].step = "rows"
          BY <3>4, <4>1 DEF CancelShape
        <4>. QED
          BY <4>1, <4>2 DEF CancelShape, Holds, NoRow, Store!NoRow, Store!WithStatus
      <3>. QED
        BY <3>3, <3>8, <3>9
    <2>3. tx[c].kind = "cancel" /\ tx[c].step = "batch"
      BY <2>1, <2>2
    <2>4. PICK s \in C : s \in Blockers(c)
      BY <2>1
    <2>5. Holds(s)
      BY <2>3, <2>4, BlockedBy
    <2>6. tx[s].kind = "cancel" /\ tx[s].step = "rows"
      BY <2>1, <2>5 DEF Shape, CancelShape, RetryShape, Holds
    <2>. QED
      BY <2>2, <2>6
  <1>. QED
    BY <1>1, TransactionBookkeeping, PTL DEF Bookkeeping
=============================================================================
