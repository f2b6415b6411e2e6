----------------------------- MODULE ListCache ------------------------------
(***************************************************************************)
(* The read-through cache of batch-list pages in Redis (lib/cache.ts) and  *)
(* its two kinds of user: requests and workers that commit a change of the *)
(* list and then bump the version counter, and listBatches readers that    *)
(* look up a page, query PostgreSQL on a miss, and store what they read    *)
(* under the version they saw first.                                       *)
(*                                                                         *)
(* A page is the number of commits it reflects.  Keys of other users and   *)
(* other pages are independent, so one key per version is modelled.        *)
(* MaxCommits bounds the commits of a run.                                 *)
(***************************************************************************)
EXTENDS Integers

CONSTANTS
  Writer, Reader,
  MaxCommits,    \* bound: list-visible commits
  NoVersion      \* version is null: Redis could not be read

ASSUME ListCacheAssumption == MaxCommits \in Nat /\ NoVersion \notin Nat

VARIABLES
  db,        \* commits so far: what a query returns now
  version,   \* the Redis counter cache:batches:list:version
  pages,     \* cached pages: [version, value]
  acked,     \* latest commit whose invalidation went through
  writer,    \* writer[w]: commit not yet followed by its invalidation, or 0
  reader     \* reader[r]: a listBatches call

vars == <<db, version, pages, acked, writer, reader>>

Idle == [pc |-> "idle", version |-> NoVersion, value |-> 0, since |-> 0]

Init ==
  /\ db = 0 /\ version = 0 /\ pages = {} /\ acked = 0
  /\ writer = [w \in Writer |-> 0]
  /\ reader = [r \in Reader |-> Idle]

-----------------------------------------------------------------------------
(* Mutations: commit, then INCR *)

Commit(w) ==
  /\ writer[w] = 0 /\ db < MaxCommits
  /\ db' = db + 1
  /\ writer' = [writer EXCEPT ![w] = db + 1]
  /\ UNCHANGED <<version, pages, acked, reader>>

\* Reports the change as invalidated without bumping the counter.
BadInvalidate(w) ==
  /\ writer[w] # 0
  /\ acked' = IF writer[w] > acked THEN writer[w] ELSE acked
  /\ writer' = [writer EXCEPT ![w] = 0]
  /\ UNCHANGED <<db, version, pages, reader>>

Invalidate(w) ==
  /\ writer[w] # 0
  /\ version' = version + 1
  /\ acked' = IF writer[w] > acked THEN writer[w] ELSE acked
  /\ writer' = [writer EXCEPT ![w] = 0]
  /\ UNCHANGED <<db, pages, reader>>

\* INCR fails and the error is swallowed, or the process dies before it.
InvalidateLost(w) ==
  /\ writer[w] # 0
  /\ writer' = [writer EXCEPT ![w] = 0]
  /\ UNCHANGED <<db, version, pages, acked, reader>>

-----------------------------------------------------------------------------
(* Reads.  `since' remembers what the reader is entitled to see. *)

Goto(r, pc, v, value, since) ==
  reader' = [reader EXCEPT ![r] = [pc |-> pc, version |-> v, value |-> value, since |-> since]]

ReadVersion(r) ==
  /\ reader[r].pc = "idle"
  /\ Goto(r, "lookup", version, 0, acked)
  /\ UNCHANGED <<db, version, pages, acked, writer>>

\* Redis is unreachable: read PostgreSQL and do not cache.
RedisDown(r) ==
  /\ \/ reader[r].pc = "idle"   /\ Goto(r, "query", NoVersion, 0, acked)
     \/ reader[r].pc = "lookup" /\ Goto(r, "query", NoVersion, 0, reader[r].since)
  /\ UNCHANGED <<db, version, pages, acked, writer>>

Hit(r) ==
  /\ reader[r].pc = "lookup"
  /\ \E p \in pages :
       /\ p.version = reader[r].version
       /\ Goto(r, "respond", reader[r].version, p.value, reader[r].since)
  /\ UNCHANGED <<db, version, pages, acked, writer>>

Miss(r) ==
  /\ reader[r].pc = "lookup"
  /\ \A p \in pages : p.version # reader[r].version
  /\ Goto(r, "query", reader[r].version, 0, reader[r].since)
  /\ UNCHANGED <<db, version, pages, acked, writer>>

Query(r) ==
  /\ reader[r].pc = "query"
  /\ Goto(r, "fill", reader[r].version, db, reader[r].since)
  /\ UNCHANGED <<db, version, pages, acked, writer>>

StoreUnder(v, r) ==
  pages' = {p \in pages : p.version # v} \cup {[version |-> v, value |-> reader[r].value]}

\* Stores under the version current at the time of the write.
BadFill(r) ==
  /\ reader[r].pc = "fill"
  /\ StoreUnder(version, r)
  /\ Goto(r, "respond", reader[r].version, reader[r].value, reader[r].since)
  /\ UNCHANGED <<db, version, acked, writer>>

\* Stores under the version this reader observed; a failed SET is ignored.
Fill(r) ==
  /\ reader[r].pc = "fill"
  /\ \/ reader[r].version # NoVersion /\ StoreUnder(reader[r].version, r)
     \/ UNCHANGED pages
  /\ Goto(r, "respond", reader[r].version, reader[r].value, reader[r].since)
  /\ UNCHANGED <<db, version, acked, writer>>

Respond(r) ==
  /\ reader[r].pc = "respond"
  /\ reader' = [reader EXCEPT ![r] = Idle]
  /\ UNCHANGED <<db, version, pages, acked, writer>>

\* Pages lose their TTL and only go once they are orphaned.
BadExpire(p) ==
  /\ p \in pages /\ p.version # version
  /\ pages' = pages \ {p}
  /\ UNCHANGED <<db, version, acked, writer, reader>>

\* The TTL of a page ends.
Expire(p) ==
  /\ p \in pages
  /\ pages' = pages \ {p}
  /\ UNCHANGED <<db, version, acked, writer, reader>>

-----------------------------------------------------------------------------

Write(w) == Commit(w) \/ Invalidate(w) \/ InvalidateLost(w)
Read(r)  == ReadVersion(r) \/ RedisDown(r) \/ Hit(r) \/ Miss(r) \/ Query(r) \/ Fill(r) \/ Respond(r)

Next ==
  \/ \E w \in Writer : Write(w)
  \/ \E r \in Reader : Read(r)
  \/ \E p \in pages : Expire(p)

Spec == Init /\ [][Next]_vars

\* Requests in progress go on and a page never outlives its TTL.
Fairness ==
  /\ \A r \in Reader : WF_vars(Hit(r) \/ Miss(r) \/ Query(r) \/ Fill(r) \/ Respond(r))
  /\ \A v \in 0 .. MaxCommits : WF_vars(\E p \in pages : p.version = v /\ Expire(p))

FairSpec == Spec /\ Fairness

-----------------------------------------------------------------------------
(* Properties *)

\* The type invariant of the cache, its writers and its readers.
TypeOK ==
  /\ db \in Nat /\ version \in Nat /\ acked \in Nat
  /\ pages \subseteq [version : Nat, value : Nat]
  /\ writer \in [Writer -> Nat]
  /\ reader \in [Reader -> [pc : {"idle", "lookup", "query", "fill", "respond"},
                            version : Nat \cup {NoVersion}, value : Nat, since : Nat]]

\* INV-13: a reader whose call began after a change was committed and
\* invalidated is answered with a list that contains the change, from the
\* cache or not, even if other invalidations were lost.
ResponseFresh ==
  \A r \in Reader : reader[r].pc = "respond" => reader[r].value >= reader[r].since

\* A page that current readers can hit never hides an invalidated change: no
\* slow writer of an old page can put it back (cache.ts:73-77).
CacheFresh ==
  \A p \in pages : p.version = version => p.value >= acked

\* Why they hold: `acked' only moves with the version, so all readers and
\* pages of one version are entitled to, and reflect, the same changes.
IndInv ==
  /\ TypeOK /\ CacheFresh
  /\ acked <= db /\ \A w \in Writer : writer[w] <= db
  /\ \A p \in pages : p.version <= version
  /\ \A r \in Reader :
       /\ reader[r].pc \in {"fill", "respond"} => reader[r].value >= reader[r].since
       /\ reader[r].since <= acked
       /\ reader[r].version # NoVersion =>
            /\ reader[r].version <= version
            /\ reader[r].version = version => reader[r].since = acked
            /\ \A p \in pages : p.version = reader[r].version => p.value >= reader[r].since
            /\ \A q \in Reader : reader[q].version = reader[r].version => reader[q].since = reader[r].since

\* ADR-012: even a lost invalidation is outlived by the TTL: every commit is
\* eventually in every response.
EventuallyListed ==
  \A k \in 1 .. MaxCommits :
    db >= k ~> [](\A r \in Reader : reader[r].pc = "respond" => reader[r].value >= k)
=============================================================================
