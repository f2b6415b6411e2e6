-------------------------- MODULE BatchStoreProofs --------------------------
(***************************************************************************)
(* IndInv is an inductive invariant of BatchStore for every set of         *)
(* batches, URLs and clients; the invariants that MCBatchStore checks on a *)
(* small instance follow from it.                                          *)
(***************************************************************************)
EXTENDS BatchStore, FiniteSetTheorems, TLAPS

USE BatchStoreAssumption DEF BatchStoreAssumption

-----------------------------------------------------------------------------
(* Rows of a batch and how many they are *)

\* Every set of rows of a batch is finite, so its cardinality is a number.
LEMMA RowsFinite ==
  ASSUME NEW b, NEW S \in SUBSET RowsOf(b)
  PROVE  IsFiniteSet(S) /\ Cardinality(S) \in Nat
  <1>1. S \in SUBSET Url
    BY DEF RowsOf
  <1>. QED
    BY <1>1, FS_Subset, FS_CardinalityType

\* Moving the rows S out of a set takes exactly Cardinality(S) from its size.
LEMMA CardMinus ==
  ASSUME NEW b, NEW A \in SUBSET RowsOf(b), NEW S \in SUBSET A
  PROVE  Cardinality(A \ S) = Cardinality(A) - Cardinality(S) /\ Cardinality(S) <= Cardinality(A)
  <1>1. IsFiniteSet(A)
    BY RowsFinite
  <1>2. Cardinality(A \ S) = Cardinality(A) - Cardinality(A \cap S)
    BY <1>1, FS_Difference
  <1>3. A \cap S = S
    OBVIOUS
  <1>. QED
    BY <1>1, <1>2, <1>3, FS_Subset

\* Moving the rows S into a disjoint set adds exactly Cardinality(S).
LEMMA CardPlus ==
  ASSUME NEW b, NEW A \in SUBSET RowsOf(b), NEW S \in SUBSET RowsOf(b), A \cap S = {}
  PROVE  Cardinality(A \cup S) = Cardinality(A) + Cardinality(S)
  <1>1. IsFiniteSet(A) /\ IsFiniteSet(S) /\ Cardinality(A) \in Nat /\ Cardinality(S) \in Nat
    BY RowsFinite
  <1>2. Cardinality(A \cup S) = Cardinality(A) + Cardinality(S) - Cardinality(A \cap S)
    BY <1>1, FS_Union
  <1>3. Cardinality(A \cap S) = 0
    BY FS_EmptySet
  <1>. QED
    BY <1>1, <1>2, <1>3

\* The next lemmas are about the rows of one batch in any table state f, so
\* that they apply to urls before a step and to urls' after it.
In(f, b, s)  == {u \in RowsOf(b) : f[u] = s}
Open(f, b)   == {u \in RowsOf(b) : f[u] \in Active}

\* The finished and the active rows of an existing batch add up to its rows.
LEMMA RowsPartition ==
  ASSUME NEW f \in [Url -> UrlStatus], NEW b \in Batch, \A u \in RowsOf(b) : f[u] # "ABSENT"
  PROVE  Cardinality(RowsOf(b)) = Cardinality(In(f, b, "SUCCESS")) + Cardinality(In(f, b, "FAILED"))
                                + Cardinality(In(f, b, "CANCELLED")) + Cardinality(Open(f, b))
  <1>. DEFINE A == In(f, b, "SUCCESS")
              F == In(f, b, "FAILED")
              C == In(f, b, "CANCELLED")
              D == Open(f, b)
  <1>1. /\ A \in SUBSET RowsOf(b) /\ F \in SUBSET RowsOf(b)
        /\ C \in SUBSET RowsOf(b) /\ D \in SUBSET RowsOf(b)
    BY DEF In, Open
  <1>2. A \cap F = {} /\ (A \cup F) \cap C = {} /\ (A \cup F \cup C) \cap D = {}
    BY DEF In, Open, Active
  <1>3. RowsOf(b) = A \cup F \cup C \cup D
    BY DEF In, Open, Active, RowsOf, UrlStatus
  <1>4. Cardinality(A \cup F) = Cardinality(A) + Cardinality(F)
    BY <1>1, <1>2, CardPlus
  <1>5. Cardinality((A \cup F) \cup C) = Cardinality(A \cup F) + Cardinality(C)
    <2>1. A \cup F \in SUBSET RowsOf(b)
      BY <1>1
    <2>. QED
      BY <1>1, <1>2, <2>1, CardPlus
  <1>6. Cardinality((A \cup F \cup C) \cup D) = Cardinality(A \cup F \cup C) + Cardinality(D)
    <2>1. A \cup F \cup C \in SUBSET RowsOf(b)
      BY <1>1
    <2>. QED
      BY <1>1, <1>2, <2>1, CardPlus
  <1>. HIDE DEF A, F, C, D
  <1>7. Cardinality(RowsOf(b)) = Cardinality(A) + Cardinality(F) + Cardinality(C) + Cardinality(D)
    BY <1>3, <1>4, <1>5, <1>6
  <1>. QED
    BY <1>7 DEF A, F, C, D

\* The counters of row r are the number of rows of b in the matching state.
Matches(r, f, b) ==
  /\ r.total     = Cardinality(RowsOf(b))
  /\ r.completed = Cardinality(In(f, b, "SUCCESS"))
  /\ r.failed    = Cardinality(In(f, b, "FAILED"))
  /\ r.cancelled = Cardinality(In(f, b, "CANCELLED"))

\* The last result is recognised: matching counters cover the total exactly
\* when no active row is left.
LEMMA AccountedIff ==
  ASSUME NEW f \in [Url -> UrlStatus], NEW b \in Batch, \A u \in RowsOf(b) : f[u] # "ABSENT",
         NEW r, Matches(r, f, b)
  PROVE  Accounted(r) <=> Open(f, b) = {}
  <1>1. Open(f, b) \in SUBSET RowsOf(b)
    BY DEF Open
  <1>2. Cardinality(Open(f, b)) \in Nat /\ (Cardinality(Open(f, b)) = 0 <=> Open(f, b) = {})
    BY <1>1, RowsFinite, FS_EmptySet
  <1>3. \A s : In(f, b, s) \in SUBSET RowsOf(b)
    BY DEF In
  <1>4. /\ Cardinality(In(f, b, "SUCCESS")) \in Nat /\ Cardinality(In(f, b, "FAILED")) \in Nat
        /\ Cardinality(In(f, b, "CANCELLED")) \in Nat
    BY <1>3, RowsFinite
  <1>. QED
    BY <1>2, <1>4, RowsPartition DEF Accounted, Matches

-----------------------------------------------------------------------------
(* What a write of the status column does to these sets *)

Moved(f, S, t) == [u \in Url |-> IF u \in S THEN t ELSE f[u]]

\* The rows S enter state t, the rows that were in another state s stay there
\* or leave it, and no other state of the batch changes.
LEMMA MoveInto ==
  ASSUME NEW f, NEW b, NEW t, NEW S \in SUBSET RowsOf(b), S \cap In(f, b, t) = {}
  PROVE  Cardinality(In(Moved(f, S, t), b, t)) = Cardinality(In(f, b, t)) + Cardinality(S)
  <1>1. In(Moved(f, S, t), b, t) = In(f, b, t) \cup S
    BY DEF In, Moved, RowsOf
  <1>2. In(f, b, t) \in SUBSET RowsOf(b)
    BY DEF In
  <1>. QED
    BY <1>1, <1>2, CardPlus

LEMMA MoveOutOf ==
  ASSUME NEW f, NEW b, NEW s, NEW t, s # t, NEW S \in SUBSET In(f, b, s)
  PROVE  /\ Cardinality(In(Moved(f, S, t), b, s)) = Cardinality(In(f, b, s)) - Cardinality(S)
         /\ Cardinality(S) <= Cardinality(In(f, b, s))
  <1>1. In(Moved(f, S, t), b, s) = In(f, b, s) \ S
    BY DEF In, Moved, RowsOf
  <1>2. In(f, b, s) \in SUBSET RowsOf(b)
    BY DEF In
  <1>. QED
    BY <1>1, <1>2, CardMinus

LEMMA MoveKeeps ==
  ASSUME NEW f, NEW b, NEW x, NEW t, x # t, NEW S, S \cap In(f, b, x) = {}
  PROVE  In(Moved(f, S, t), b, x) = In(f, b, x)
  BY DEF In, Moved, RowsOf

-----------------------------------------------------------------------------
(* IndInv, one batch at a time *)

\* What IndInv says of a batch b with row r when the URL rows are f.
Sound(r, f, b) ==
  /\ \A u \in RowsOf(b) : f[u] = "ABSENT" <=> r.status = "ABSENT"
  /\ r.status = "PENDING" => \A u \in RowsOf(b) : f[u] = "PENDING"
  /\ r.status = "ABSENT" => r = NoRow
  /\ r.status # "ABSENT" => Matches(r, f, b)
  /\ r.status \in Terminal => Open(f, b) = {}
  /\ r.status \in Active => Open(f, b) # {}
  /\ r.status = "COMPLETED" => In(f, b, "FAILED") = {}
  /\ r.status = "FAILED" => In(f, b, "FAILED") # {}

LEMMA IndInvIsSound == IndInv <=> TypeOK /\ \A b \in Batch : Sound(batches[b], urls, b)
  <1>1. \A b : ActiveRows(b) = Open(urls, b) /\ \A s : RowsWith(b, s) = In(urls, b, s)
    BY DEF RowsWith, ActiveRows, In, Open
  <1>. QED
    BY <1>1, Zenon DEF IndInv, CountersMatchRows, TerminalIsSettled, ProcessingHasWork,
         VerdictMatchesRows, Untouched, Sound, Matches

LEMMA IndInvIsSoundNext == IndInv' <=> TypeOK' /\ \A b \in Batch : Sound(batches'[b], urls', b)
  <1>1. \A b : ActiveRows(b)' = Open(urls', b) /\ \A s : RowsWith(b, s)' = In(urls', b, s)
    BY DEF RowsWith, ActiveRows, In, Open
  <1>. QED
    BY <1>1 DEF IndInv, CountersMatchRows, TerminalIsSettled, ProcessingHasWork,
         VerdictMatchesRows, Untouched, Sound, Matches

\* A batch whose row and URL rows a step leaves alone stays sound.
LEMMA SoundFrame ==
  ASSUME NEW r, NEW f, NEW g, NEW b \in Batch, Sound(r, f, b), \A u \in RowsOf(b) : g[u] = f[u]
  PROVE  Sound(r, g, b)
  <1>1. \A s : In(g, b, s) = In(f, b, s)
    BY DEF In
  <1>2. Open(g, b) = Open(f, b)
    BY DEF Open
  <1>. QED
    BY <1>1, <1>2 DEF Sound, Matches

LEMMA InitSound == Init => IndInv
  <1>. SUFFICES ASSUME Init PROVE IndInv
    OBVIOUS
  <1>1. TypeOK
    BY DEF Init, TypeOK, UrlStatus, BatchRow, BatchStatus, NoRow
  <1>2. ASSUME NEW b \in Batch PROVE Sound(batches[b], urls, b)
    BY <1>2 DEF Init, Sound, NoRow, Matches, Terminal, Active, RowsOf
  <1>. QED
    BY <1>1, <1>2, IndInvIsSound

-----------------------------------------------------------------------------
(* IndInv is preserved by every action *)

\* A step that writes the row of batch b, and URL rows of b only, keeps IndInv
\* if it keeps the types and leaves b sound.
LEMMA OneBatchStep ==
  ASSUME IndInv, NEW b \in Batch, NEW S \in SUBSET RowsOf(b), NEW t \in UrlStatus, NEW row \in BatchRow,
         urls' = Moved(urls, S, t), batches' = [batches EXCEPT ![b] = row],
         retryTx' \in [Client -> Batch \cup {NoBatch}],
         Sound(row, Moved(urls, S, t), b)
  PROVE  IndInv'
  <1>1. TypeOK /\ \A a \in Batch : Sound(batches[a], urls, a)
    BY IndInvIsSound
  <1>2. TypeOK'
    BY <1>1 DEF TypeOK, Moved
  <1>3. ASSUME NEW a \in Batch PROVE Sound(batches'[a], urls', a)
    <2>1. CASE a = b
      BY <2>1, <1>1 DEF TypeOK
    <2>2. CASE a # b
      <3>1. \A u \in RowsOf(a) : urls'[u] = urls[u]
        BY <2>2 DEF RowsOf, Moved
      <3>2. batches'[a] = batches[a]
        BY <2>2, <1>1 DEF TypeOK
      <3>. QED
        BY <1>1, <1>3, <3>1, <3>2, SoundFrame
    <2>. QED
      BY <2>1, <2>2
  <1>. QED
    BY <1>2, <1>3, IndInvIsSoundNext

\* The updates of a batch row, field by field.
LEMMA RowUpdates ==
  ASSUME NEW r \in BatchRow, NEW n \in Int, NEW s \in BatchStatus
  PROVE  /\ WithStatus(r, s) \in BatchRow /\ WithStatus(r, s).status = s
         /\ WithStatus(r, s).total = r.total /\ WithStatus(r, s).completed = r.completed
         /\ WithStatus(r, s).failed = r.failed /\ WithStatus(r, s).cancelled = r.cancelled
         /\ LET q == PlusCompleted(r, n) IN
              /\ r.completed + n >= 0 => q \in BatchRow
              /\ q.status = r.status /\ q.total = r.total /\ q.completed = r.completed + n
              /\ q.failed = r.failed /\ q.cancelled = r.cancelled
         /\ LET q == PlusFailed(r, n) IN
              /\ r.failed + n >= 0 => q \in BatchRow
              /\ q.status = r.status /\ q.total = r.total /\ q.completed = r.completed
              /\ q.failed = r.failed + n /\ q.cancelled = r.cancelled
         /\ LET q == PlusCancelled(r, n) IN
              /\ r.cancelled + n >= 0 => q \in BatchRow
              /\ q.status = r.status /\ q.total = r.total /\ q.completed = r.completed
              /\ q.failed = r.failed /\ q.cancelled = r.cancelled + n
  BY DEF BatchRow, WithStatus, PlusCompleted, PlusFailed, PlusCancelled

LEMMA CreateStep ==
  ASSUME IndInv, NEW b \in Batch, CreateWithUrls(b)
  PROVE  IndInv'
  <1>. DEFINE row == [status |-> "PENDING", total |-> Cardinality(RowsOf(b)),
                      completed |-> 0, failed |-> 0, cancelled |-> 0]
              g == Moved(urls, RowsOf(b), "PENDING")
  <1>1. TypeOK /\ Sound(batches[b], urls, b) /\ batches[b].status = "ABSENT"
    BY IndInvIsSound DEF CreateWithUrls
  <1>2. batches' = [batches EXCEPT ![b] = row]
    BY DEF CreateWithUrls, NewRow
  <1>3. row \in BatchRow
    BY RowsFinite DEF BatchRow, BatchStatus
  <1>4. Sound(row, g, b)
    <2>1. \A u \in RowsOf(b) : g[u] = "PENDING"
      BY DEF Moved, RowsOf
    <2>2. \A x \in UrlStatus : x # "PENDING" => In(g, b, x) = {}
      BY <2>1 DEF In
    <2>3. Open(g, b) = RowsOf(b) /\ RowsOf(b) # {}
      BY <2>1 DEF Open, Active, RowsOf
    <2>4. Matches(row, g, b)
      BY <2>2, FS_EmptySet DEF Matches, UrlStatus
    <2>. QED
      BY <2>1, <2>2, <2>3, <2>4 DEF Sound, Terminal, Active
  <1>5. urls' = g /\ retryTx' \in [Client -> Batch \cup {NoBatch}]
    BY <1>1 DEF CreateWithUrls, SetRows, Moved, TypeOK
  <1>. HIDE DEF row, g
  <1>. QED
    BY <1>2, <1>3, <1>4, <1>5, OneBatchStep DEF g, UrlStatus

LEMMA CancelStep ==
  ASSUME IndInv, NEW b \in Batch, Cancel(b)
  PROVE  IndInv'
  <1>. DEFINE S == Open(urls, b)
              row == WithStatus(PlusCancelled(batches[b], Cardinality(S)), "CANCELLED")
              g == Moved(urls, S, "CANCELLED")
  <1>1. TypeOK /\ Sound(batches[b], urls, b) /\ batches[b].status \in Active /\ batches[b] \in BatchRow
    BY IndInvIsSound DEF Cancel, TypeOK
  <1>2. S \in SUBSET RowsOf(b) /\ Cardinality(S) \in Nat
    <2>1. S \in SUBSET RowsOf(b)
      BY DEF Open
    <2>. QED
      BY <2>1, RowsFinite
  <1>3. /\ row \in BatchRow /\ row.status = "CANCELLED" /\ row.total = batches[b].total
        /\ row.completed = batches[b].completed /\ row.failed = batches[b].failed
        /\ row.cancelled = batches[b].cancelled + Cardinality(S)
    <2>1. "CANCELLED" \in BatchStatus /\ batches[b].cancelled + Cardinality(S) >= 0
      BY <1>1, <1>2 DEF BatchRow, BatchStatus
    <2>. QED
      BY <1>1, <1>2, <2>1, RowUpdates
  <1>. HIDE DEF row
  <1>4. Matches(row, g, b)
    <2>1. \A x \in {"SUCCESS", "FAILED", "CANCELLED"} : S \cap In(urls, b, x) = {}
      BY DEF Open, In, Active
    <2>2. In(g, b, "SUCCESS") = In(urls, b, "SUCCESS") /\ In(g, b, "FAILED") = In(urls, b, "FAILED")
      BY <2>1, MoveKeeps
    <2>3. Cardinality(In(g, b, "CANCELLED")) = Cardinality(In(urls, b, "CANCELLED")) + Cardinality(S)
      BY <1>2, <2>1, MoveInto
    <2>4. Matches(batches[b], urls, b)
      BY <1>1 DEF Sound, Active
    <2>. QED
      BY <1>3, <2>2, <2>3, <2>4 DEF Matches
  <1>5. Sound(row, g, b)
    <2>1. Open(g, b) = {}
      BY DEF Open, Moved, Active, RowsOf
    <2>2. \A u \in RowsOf(b) : g[u] # "ABSENT"
      BY <1>1 DEF Sound, Active, Moved, RowsOf
    <2>. QED
      BY <1>3, <1>4, <2>1, <2>2 DEF Sound, Active
  <1>6. urls' = g /\ batches' = [batches EXCEPT ![b] = row]
        /\ retryTx' \in [Client -> Batch \cup {NoBatch}]
    BY <1>1 DEF row, Cancel, SetRows, Moved, TypeOK, ActiveRows, Open
  <1>. HIDE DEF g, S
  <1>. QED
    BY <1>2, <1>3, <1>5, <1>6, OneBatchStep DEF g, UrlStatus

\* Rows that only move between PENDING and PROCESSING, with the status of
\* their batch at most lifted to PROCESSING, keep a batch sound.
LEMMA ActiveMove ==
  ASSUME NEW f \in [Url -> UrlStatus], NEW r \in BatchRow, NEW b \in Batch, Sound(r, f, b),
         NEW S, NEW t \in Active, \A u \in S \cap RowsOf(b) : f[u] \in Active,
         S \cap RowsOf(b) # {} => r.status = "PROCESSING"
  PROVE  Sound(r, Moved(f, S, t), b)
  <1>. DEFINE g == Moved(f, S, t)
  <1>1. \A x \in {"SUCCESS", "FAILED", "CANCELLED"} : In(g, b, x) = In(f, b, x)
    BY DEF In, Moved, RowsOf, Active
  <1>2. Open(g, b) = Open(f, b)
    BY DEF Open, Moved, RowsOf
  <1>3. \A u \in RowsOf(b) : g[u] = "ABSENT" <=> f[u] = "ABSENT"
    BY DEF Moved, RowsOf, Active
  <1>4. r.status = "PENDING" => \A u \in RowsOf(b) : g[u] = f[u]
    BY DEF Moved, RowsOf
  <1>5. Matches(r, f, b) => Matches(r, g, b)
    BY <1>1 DEF Matches
  <1>. HIDE DEF g
  <1>6. Sound(r, g, b)
    BY <1>1, <1>2, <1>3, <1>4, <1>5 DEF Sound
  <1>. QED
    BY <1>6 DEF g

\* The batch of a PROCESSING row is PROCESSING: a worker's write never meets a
\* batch that is already terminal.
LEMMA ProcessingRow ==
  ASSUME IndInv, NEW u \in Url, urls[u] = "PROCESSING"
  PROVE  BatchOf[u] \in Batch /\ u \in RowsOf(BatchOf[u]) /\ batches[BatchOf[u]].status = "PROCESSING"
  <1>1. BatchOf[u] \in Batch /\ u \in RowsOf(BatchOf[u])
    BY DEF RowsOf
  <1>2. Sound(batches[BatchOf[u]], urls, BatchOf[u]) /\ batches[BatchOf[u]] \in BatchRow
    BY <1>1, IndInvIsSound DEF TypeOK
  <1>3. u \in Open(urls, BatchOf[u])
    BY <1>1 DEF Open, Active
  <1>. QED
    BY <1>1, <1>2, <1>3 DEF Sound, BatchRow, BatchStatus, Terminal

LEMMA ClaimStep ==
  ASSUME IndInv, NEW u \in Url, Claim(u)
  PROVE  IndInv'
  <1>. DEFINE b == BatchOf[u]
              row == IF batches[b].status = "PENDING" THEN WithStatus(batches[b], "PROCESSING") ELSE batches[b]
  <1>1. TypeOK /\ b \in Batch /\ u \in RowsOf(b) /\ batches[b] \in BatchRow /\ Sound(batches[b], urls, b)
    BY IndInvIsSound DEF RowsOf, TypeOK
  <1>2. u \in Open(urls, b) /\ urls[u] = "PENDING"
    BY <1>1 DEF Open, Active, Claim
  <1>3. batches[b].status \in Active
    BY <1>1, <1>2 DEF Sound, BatchRow, BatchStatus, Terminal, Active
  <1>4. /\ row \in BatchRow /\ row.status = "PROCESSING" /\ row.total = batches[b].total
        /\ row.completed = batches[b].completed /\ row.failed = batches[b].failed
        /\ row.cancelled = batches[b].cancelled
    <2>1. 0 \in Int /\ "PROCESSING" \in BatchStatus
      BY DEF BatchStatus
    <2>. QED
      BY <1>1, <1>3, <2>1, RowUpdates DEF Active
  <1>5. urls' = Moved(urls, {u}, "PROCESSING") /\ batches' = [batches EXCEPT ![b] = row]
        /\ retryTx' \in [Client -> Batch \cup {NoBatch}]
    BY <1>1 DEF Claim, SetRows, Moved, TypeOK
  <1>. HIDE DEF row, b
  <1>6. Sound(row, urls, b)
    BY <1>1, <1>3, <1>4 DEF Sound, Matches, Active, Terminal
  <1>7. Sound(row, Moved(urls, {u}, "PROCESSING"), b)
    <2>1. urls \in [Url -> UrlStatus] /\ "PROCESSING" \in Active
      BY <1>1 DEF TypeOK, Active
    <2>2. \A v \in {u} \cap RowsOf(b) : urls[v] \in Active
      BY <1>2 DEF Active
    <2>. QED
      BY <1>1, <1>4, <1>6, <2>1, <2>2, ActiveMove
  <1>8. {u} \in SUBSET RowsOf(b) /\ "PROCESSING" \in UrlStatus
    BY <1>1 DEF UrlStatus
  <1>. QED
    BY <1>1, <1>4, <1>5, <1>7, <1>8, OneBatchStep

\* Rows that go back to PENDING, of any number of PROCESSING batches.
LEMMA BackToPending ==
  ASSUME IndInv, NEW S \in SUBSET Url, \A u \in S : urls[u] = "PROCESSING",
         urls' = Moved(urls, S, "PENDING"), batches' = batches, retryTx' = retryTx
  PROVE  IndInv'
  <1>1. TypeOK /\ TypeOK'
    BY IndInvIsSound DEF TypeOK, Moved, UrlStatus
  <1>2. ASSUME NEW b \in Batch PROVE Sound(batches'[b], urls', b)
    <2>1. Sound(batches[b], urls, b) /\ batches[b] \in BatchRow /\ urls \in [Url -> UrlStatus]
      BY <1>1, IndInvIsSound DEF TypeOK
    <2>2. S \cap RowsOf(b) # {} => batches[b].status = "PROCESSING"
      BY ProcessingRow DEF RowsOf
    <2>3. "PENDING" \in Active /\ \A u \in S \cap RowsOf(b) : urls[u] \in Active
      BY DEF Active
    <2>. QED
      BY <1>2, <2>1, <2>2, <2>3, ActiveMove
  <1>. QED
    BY <1>1, <1>2, IndInvIsSoundNext

LEMMA ReleaseStep ==
  ASSUME IndInv, NEW u \in Url, ReleaseForRetry(u)
  PROVE  IndInv'
  <1>1. {u} \in SUBSET Url /\ \A v \in {u} : urls[v] = "PROCESSING"
    BY DEF ReleaseForRetry
  <1>2. urls' = Moved(urls, {u}, "PENDING") /\ batches' = batches /\ retryTx' = retryTx
    BY DEF ReleaseForRetry, SetRows, Moved
  <1>. QED
    BY <1>1, <1>2, BackToPending

LEMMA RecoverStep ==
  ASSUME IndInv, NEW S \in SUBSET Url, RecoverStuck(S)
  PROVE  IndInv'
  <1>1. \A v \in S : urls[v] = "PROCESSING"
    BY DEF RecoverStuck, Recoverable
  <1>2. urls' = Moved(urls, S, "PENDING") /\ batches' = batches /\ retryTx' = retryTx
    BY DEF RecoverStuck, SetRows, Moved
  <1>. QED
    BY <1>1, <1>2, BackToPending

LEMMA RetryWriteStep ==
  ASSUME IndInv, NEW c \in Client, NEW S \in SUBSET Url, RetryWrite(c, S)
  PROVE  IndInv'
  <1>. DEFINE b == retryTx[c]
              row == WithStatus(PlusFailed(batches[b], -Cardinality(S)), "PROCESSING")
              g == Moved(urls, S, "PENDING")
  <1>1. /\ TypeOK /\ b \in Batch /\ batches[b] \in BatchRow /\ Sound(batches[b], urls, b)
        /\ S \in SUBSET In(urls, b, "FAILED")
    BY IndInvIsSound DEF RetryWrite, TypeOK, RowsWith, In
  <1>2. urls' = g /\ retryTx' \in [Client -> Batch \cup {NoBatch}]
    BY <1>1 DEF RetryWrite, SetRows, Moved, TypeOK
  <1>3. S \in SUBSET RowsOf(b) /\ "PENDING" \in UrlStatus
    BY <1>1 DEF In, UrlStatus
  <1>4. CASE S = {}
    <2>1. g = urls
      BY <1>1, <1>4 DEF Moved, TypeOK
    <2>2. batches' = [batches EXCEPT ![b] = batches[b]]
      BY <1>1, <1>4 DEF RetryWrite, TypeOK
    <2>. QED
      BY <1>1, <1>2, <1>3, <2>1, <2>2, OneBatchStep
  <1>5. CASE S # {}
    <2>1. batches' = [batches EXCEPT ![b] = row]
      BY <1>5 DEF RetryWrite
    <2>2. /\ Cardinality(In(g, b, "FAILED")) = Cardinality(In(urls, b, "FAILED")) - Cardinality(S)
          /\ Cardinality(S) <= Cardinality(In(urls, b, "FAILED"))
      BY <1>1, MoveOutOf
    <2>3. /\ In(g, b, "SUCCESS") = In(urls, b, "SUCCESS")
          /\ In(g, b, "CANCELLED") = In(urls, b, "CANCELLED")
      BY <1>1 DEF In, Moved, RowsOf
    <2>4. Matches(batches[b], urls, b)
      BY <1>1, <1>5 DEF Sound, In
    <2>5. Cardinality(S) \in Nat /\ "PROCESSING" \in BatchStatus
      BY <1>3, RowsFinite DEF BatchStatus
    <2>6. -Cardinality(S) \in Int /\ batches[b].failed + -Cardinality(S) >= 0
      BY <1>1, <2>2, <2>4, <2>5 DEF Matches, BatchRow
    <2>7. /\ row \in BatchRow /\ row.status = "PROCESSING" /\ row.total = batches[b].total
          /\ row.completed = batches[b].completed /\ row.cancelled = batches[b].cancelled
          /\ row.failed = batches[b].failed + -Cardinality(S)
      BY <1>1, <2>5, <2>6, RowUpdates
    <2>8. Open(g, b) # {}
      BY <1>3, <1>5 DEF Open, Moved, RowsOf, Active
    <2>9. \A u \in RowsOf(b) : g[u] # "ABSENT"
      BY <1>1, <1>5 DEF Sound, Moved, RowsOf, In
    <2>. HIDE DEF row, g, b
    <2>10. Matches(row, g, b)
      BY <1>1, <2>2, <2>3, <2>4, <2>5, <2>7 DEF Matches, BatchRow
    <2>11. Sound(row, g, b)
      BY <2>7, <2>8, <2>9, <2>10 DEF Sound, Terminal, Active
    <2>. QED
      BY <1>1, <1>2, <1>3, <2>1, <2>7, <2>11, OneBatchStep DEF g
  <1>. QED
    BY <1>4, <1>5

LEMMA PersistStep ==
  ASSUME IndInv, NEW u \in Url, NEW result \in {"SUCCESS", "FAILED"}, PersistResult(u, result)
  PROVE  IndInv'
  <1>. DEFINE b == BatchOf[u]
              row == Counted(batches[b], result)
              done == Finalized(row)
              g == Moved(urls, {u}, result)
  <1>1. /\ TypeOK /\ b \in Batch /\ batches[b] \in BatchRow /\ Sound(batches[b], urls, b)
        /\ u \in RowsOf(b) /\ urls[u] = "PROCESSING" /\ batches[b].status = "PROCESSING"
    BY IndInvIsSound, ProcessingRow DEF PersistResult, TypeOK
  <1>2. urls' = g /\ batches' = [batches EXCEPT ![b] = done]
        /\ retryTx' \in [Client -> Batch \cup {NoBatch}]
    BY <1>1 DEF PersistResult, SetRows, Moved, TypeOK
  <1>3. {u} \in SUBSET RowsOf(b) /\ result \in UrlStatus /\ g \in [Url -> UrlStatus]
    BY <1>1 DEF UrlStatus, Moved, TypeOK
  <1>4. Matches(batches[b], urls, b)
    BY <1>1 DEF Sound
  <1>5. row \in BatchRow /\ row.status = "PROCESSING" /\ Matches(row, g, b)
    <2>1. \A x \in {"SUCCESS", "FAILED", "CANCELLED"} : {u} \cap In(urls, b, x) = {}
      BY <1>1 DEF In
    <2>2. Cardinality(In(g, b, result)) = Cardinality(In(urls, b, result)) + 1
      <3>1. Cardinality(In(g, b, result)) = Cardinality(In(urls, b, result)) + Cardinality({u})
        BY <1>3, <2>1, MoveInto
      <3>. QED
        BY <3>1, FS_Singleton
    <2>3. \A x \in {"SUCCESS", "FAILED", "CANCELLED"} : x # result => In(g, b, x) = In(urls, b, x)
      BY <2>1, MoveKeeps
    <2>4. "PROCESSING" \in BatchStatus /\ 1 \in Int
      BY DEF BatchStatus
    <2>5. batches[b].completed + 1 >= 0 /\ batches[b].failed + 1 >= 0
      BY <1>1 DEF BatchRow
    <2>6. CASE result = "SUCCESS"
      <3>1. row = PlusCompleted(batches[b], 1)
        BY <2>6 DEF Counted
      <3>. HIDE DEF row, g, b
      <3>. QED
        BY <1>1, <1>4, <2>2, <2>3, <2>4, <2>5, <2>6, <3>1, RowUpdates DEF Matches
    <2>7. CASE result = "FAILED"
      <3>1. row = PlusFailed(batches[b], 1)
        BY <2>7 DEF Counted
      <3>. HIDE DEF row, g, b
      <3>. QED
        BY <1>1, <1>4, <2>2, <2>3, <2>4, <2>5, <2>7, <3>1, RowUpdates DEF Matches
    <2>. QED
      BY <2>6, <2>7
  <1>6. \A v \in RowsOf(b) : g[v] # "ABSENT"
    BY <1>1 DEF Sound, Moved, RowsOf
  <1>. HIDE DEF row, g, b
  <1>7. Accounted(row) <=> Open(g, b) = {}
    BY <1>1, <1>3, <1>5, <1>6, AccountedIff
  <1>8. row.failed > 0 <=> In(g, b, "FAILED") # {}
    <2>1. In(g, b, "FAILED") \in SUBSET RowsOf(b)
      BY DEF In
    <2>2. IsFiniteSet(In(g, b, "FAILED")) /\ Cardinality(In(g, b, "FAILED")) \in Nat
      BY <2>1, RowsFinite
    <2>. QED
      BY <1>5, <2>2, FS_EmptySet DEF Matches
  <1>9. done \in BatchRow /\ Sound(done, g, b)
    <2>1. CASE Accounted(row)
      <3>. DEFINE s == IF row.failed > 0 THEN "FAILED" ELSE "COMPLETED"
      <3>1. done = WithStatus(row, s)
        BY <1>5, <2>1 DEF Finalized
      <3>2. s \in BatchStatus /\ 0 \in Int
        BY DEF BatchStatus
      <3>. HIDE DEF s, done
      <3>3. /\ done \in BatchRow /\ done.status = s /\ done.total = row.total
            /\ done.completed = row.completed /\ done.failed = row.failed
            /\ done.cancelled = row.cancelled
        BY <1>5, <3>1, <3>2, RowUpdates
      <3>. QED
        BY <1>5, <1>6, <1>7, <1>8, <2>1, <3>3 DEF Sound, Matches, s, Active
    <2>2. CASE ~Accounted(row)
      <3>1. done = row
        BY <2>2 DEF Finalized
      <3>. QED
        BY <1>5, <1>6, <1>7, <2>2, <3>1 DEF Sound, Terminal
    <2>. QED
      BY <2>1, <2>2
  <1>. HIDE DEF done
  <1>. QED
    BY <1>1, <1>2, <1>3, <1>9, OneBatchStep DEF g

LEMMA ReadStep ==
  ASSUME IndInv, NEW c \in Client, NEW b \in Batch, RetryRead(c, b)
  PROVE  IndInv'
  <1>1. TypeOK /\ TypeOK'
    BY IndInvIsSound DEF RetryRead, TypeOK
  <1>. QED
    BY <1>1, IndInvIsSound, IndInvIsSoundNext DEF RetryRead

\* No transaction of the API or of a worker breaks the bookkeeping.
LEMMA StepKeepsIndInv == IndInv /\ [Next]_storeVars => IndInv'
  <1>. SUFFICES ASSUME IndInv, [Next]_storeVars PROVE IndInv'
    OBVIOUS
  <1>1. ASSUME NEW b \in Batch, CreateWithUrls(b) PROVE IndInv'
    BY <1>1, CreateStep
  <1>2. ASSUME NEW b \in Batch, Cancel(b) PROVE IndInv'
    BY <1>2, CancelStep
  <1>3. ASSUME NEW c \in Client, NEW b \in Batch, RetryRead(c, b) PROVE IndInv'
    BY <1>3, ReadStep
  <1>4. ASSUME NEW c \in Client, NEW S \in SUBSET Url, RetryWrite(c, S) PROVE IndInv'
    BY <1>4, RetryWriteStep
  <1>5. ASSUME NEW u \in Url, Claim(u) PROVE IndInv'
    BY <1>5, ClaimStep
  <1>6. ASSUME NEW u \in Url, ReleaseForRetry(u) PROVE IndInv'
    BY <1>6, ReleaseStep
  <1>7. ASSUME NEW u \in Url, NEW result \in {"SUCCESS", "FAILED"}, PersistResult(u, result) PROVE IndInv'
    BY <1>7, PersistStep
  <1>8. ASSUME NEW S \in SUBSET Url, RecoverStuck(S) PROVE IndInv'
    BY <1>8, RecoverStep
  <1>9. CASE UNCHANGED storeVars
    <2>1. urls' = urls /\ batches' = batches /\ retryTx' = retryTx
      BY <1>9 DEF storeVars
    <2>2. TypeOK'
      BY <2>1, IndInvIsSound DEF TypeOK
    <2>. QED
      BY <2>1, <2>2, IndInvIsSound, IndInvIsSoundNext
  <1>. QED
    BY <1>1, <1>2, <1>3, <1>4, <1>5, <1>6, <1>7, <1>8, <1>9 DEF Next

-----------------------------------------------------------------------------
(* The theorems *)

\* IndInv holds in every reachable state.
THEOREM Bookkeeping == Spec => []IndInv
  <1>. QED
    BY InitSound, StepKeepsIndInv, PTL DEF Spec

\* The tables keep their types: no counter ever goes negative.
THEOREM TypeCorrect == Spec => []TypeOK
  <1>1. IndInv => TypeOK
    BY DEF IndInv
  <1>. QED
    BY <1>1, Bookkeeping, PTL

\* INV-7, the counters of a batch are the counts of its URL rows.
THEOREM CountersExact == Spec => []CountersMatchRows
  <1>1. IndInv => CountersMatchRows
    BY DEF IndInv
  <1>. QED
    BY <1>1, Bookkeeping, PTL

\* A finished batch has no active URL left: it is never finished early.
THEOREM NeverFinishedEarly == Spec => []TerminalIsSettled
  <1>1. IndInv => TerminalIsSettled
    BY DEF IndInv
  <1>. QED
    BY <1>1, Bookkeeping, PTL

\* An unfinished batch has an active URL: whichever result comes last finishes
\* it, so it is never left PROCESSING with nothing to process.
THEOREM NeverWedged == Spec => []ProcessingHasWork
  <1>1. IndInv => ProcessingHasWork
    BY DEF IndInv
  <1>. QED
    BY <1>1, Bookkeeping, PTL

\* ADR-025, the verdict of a finished batch is the one its URLs give.
THEOREM VerdictCorrect == Spec => []VerdictMatchesRows
  <1>1. IndInv => VerdictMatchesRows
    BY DEF IndInv
  <1>. QED
    BY <1>1, Bookkeeping, PTL

\* Finished URL rows are never rewritten, whatever the interleaving; only a
\* retry touches a FAILED row.
THEOREM SettledRows == Spec => SettledRowsStay
  <1>1. IndInv /\ [Next]_storeVars =>
          [\A u \in Url : /\ urls[u] \in {"SUCCESS", "CANCELLED"} => urls'[u] = urls[u]
                          /\ urls[u] = "FAILED" => urls'[u] \in {"FAILED", "PENDING"}]_storeVars
    <2>. SUFFICES ASSUME IndInv, Next, NEW u \in Url
                  PROVE  /\ urls[u] \in {"SUCCESS", "CANCELLED"} => urls'[u] = urls[u]
                         /\ urls[u] = "FAILED" => urls'[u] \in {"FAILED", "PENDING"}
      OBVIOUS
    <2>1. ASSUME NEW b \in Batch, CreateWithUrls(b) PROVE urls[u] # "ABSENT" => urls'[u] = urls[u]
      <3>1. Sound(batches[b], urls, b)
        BY IndInvIsSound
      <3>. QED
        BY <2>1, <3>1 DEF CreateWithUrls, SetRows, Sound
    <2>2. ASSUME NEW b \in Batch, Cancel(b) PROVE urls[u] \notin Active => urls'[u] = urls[u]
      BY <2>2 DEF Cancel, SetRows, ActiveRows
    <2>3. ASSUME NEW c \in Client, NEW b \in Batch, RetryRead(c, b) PROVE urls'[u] = urls[u]
      BY <2>3 DEF RetryRead
    <2>4. ASSUME NEW c \in Client, NEW S \in SUBSET Url, RetryWrite(c, S)
          PROVE urls'[u] = urls[u] \/ (urls[u] = "FAILED" /\ urls'[u] = "PENDING")
      BY <2>4 DEF RetryWrite, SetRows, RowsWith
    <2>5. ASSUME NEW v \in Url, Claim(v) \/ ReleaseForRetry(v)
                                \/ \E result \in {"SUCCESS", "FAILED"} : PersistResult(v, result)
          PROVE urls[u] \notin Active => urls'[u] = urls[u]
      BY <2>5 DEF Claim, ReleaseForRetry, PersistResult, SetRows, Active
    <2>6. ASSUME NEW S \in SUBSET Url, RecoverStuck(S) PROVE urls[u] \notin Active => urls'[u] = urls[u]
      BY <2>6 DEF RecoverStuck, Recoverable, SetRows, Active
    <2>. QED
      BY <2>1, <2>2, <2>3, <2>4, <2>5, <2>6 DEF Next, Active
  <1>. QED
    BY <1>1, Bookkeeping, PTL DEF Spec, SettledRowsStay

\* A COMPLETED batch is never reopened: it has no FAILED row to retry.
THEOREM CompletedStays == Spec => CompletedIsFinal
  <1>1. IndInv /\ [Next]_storeVars =>
          [\A b \in Batch : batches[b].status = "COMPLETED" => batches'[b].status = "COMPLETED"]_storeVars
    <2>. SUFFICES ASSUME IndInv, Next, NEW b \in Batch, batches[b].status = "COMPLETED"
                  PROVE  batches'[b].status = "COMPLETED"
      OBVIOUS
    <2>1. TypeOK /\ Sound(batches[b], urls, b)
      BY IndInvIsSound
    <2>2. Open(urls, b) = {} /\ In(urls, b, "FAILED") = {}
      BY <2>1 DEF Sound, Terminal
    <2>3. ASSUME NEW a \in Batch, CreateWithUrls(a) \/ Cancel(a) PROVE batches'[b] = batches[b]
      BY <2>1, <2>3 DEF CreateWithUrls, Cancel, TypeOK, Active
    <2>4. ASSUME NEW c \in Client, NEW a \in Batch, RetryRead(c, a) PROVE batches'[b] = batches[b]
      BY <2>4 DEF RetryRead
    <2>5. ASSUME NEW c \in Client, NEW S \in SUBSET Url, RetryWrite(c, S) PROVE batches'[b] = batches[b]
      BY <2>1, <2>2, <2>5 DEF RetryWrite, TypeOK, RowsWith, In
    <2>6. ASSUME NEW v \in Url, urls[v] \in Active PROVE BatchOf[v] # b
      BY <2>2, <2>6 DEF Open, RowsOf
    <2>7. ASSUME NEW v \in Url, Claim(v) PROVE batches'[b] = batches[b]
      BY <2>1, <2>6, <2>7 DEF Claim, TypeOK, Active
    <2>8. ASSUME NEW v \in Url, NEW result \in {"SUCCESS", "FAILED"}, PersistResult(v, result)
          PROVE batches'[b] = batches[b]
      BY <2>1, <2>6, <2>8 DEF PersistResult, TypeOK, Active
    <2>9. ASSUME NEW v \in Url, ReleaseForRetry(v) PROVE batches'[b] = batches[b]
      BY <2>9 DEF ReleaseForRetry
    <2>10. ASSUME NEW S \in SUBSET Url, RecoverStuck(S) PROVE batches'[b] = batches[b]
      BY <2>10 DEF RecoverStuck
    <2>. QED
      BY <2>3, <2>4, <2>5, <2>7, <2>8, <2>9, <2>10 DEF Next
  <1>. QED
    BY <1>1, Bookkeeping, PTL DEF Spec, CompletedIsFinal
=============================================================================
