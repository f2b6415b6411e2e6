-------------------------- MODULE ConcurrencySlots --------------------------
(***************************************************************************)
(* The global concurrency limiter (worker/src/lib/concurrency.ts): a Redis *)
(* ZSET of leases scored by expiry.  Every script first drops the leases   *)
(* whose time is up, so a lease is modelled by the time it has left, 0     *)
(* when it is gone; Redis server time advances by Tick.                    *)
(*                                                                         *)
(* A check is one acquire() call, known by its token; an identifier is     *)
(* used again, as a fresh token, once its lease is gone.  Nothing bounds   *)
(* the time a check holds its slot: it may outlive its lease.              *)
(***************************************************************************)
EXTENDS Integers, FiniteSets

CONSTANTS
  Check,      \* acquire() calls, in any worker process
  Limit,      \* MAX_CONCURRENCY
  LeaseTtl    \* CONCURRENCY_LEASE_TTL_MS, in ticks

ASSUME SlotsAssumption ==
  /\ IsFiniteSet(Check)
  /\ Limit \in Nat \ {0} /\ LeaseTtl \in Nat \ {0}

VARIABLES
  left,   \* left[c]: remaining time of c's lease
  pc,     \* pc[c]: "idle", "waiting" in acquire(), "held" by a live check
  age    \* age[c]: how long c has held its slot, counted up to LeaseTtl

vars == <<left, pc, age>>

Leased == {c \in Check : left[c] > 0}
Held   == {c \in Check : pc[c] = "held"}

Init ==
  /\ left = [c \in Check |-> 0]
  /\ pc   = [c \in Check |-> "idle"]
  /\ age  = [c \in Check |-> 0]

-----------------------------------------------------------------------------

Request(c) ==
  /\ pc[c] = "idle" /\ left[c] = 0
  /\ pc' = [pc EXCEPT ![c] = "waiting"]
  /\ UNCHANGED <<left, age>>

\* Admits when the pool is already full.
BadGrant(c) ==
  /\ pc[c] = "waiting"
  /\ Cardinality(Leased) <= Limit
  /\ left' = [left EXCEPT ![c] = LeaseTtl]
  /\ pc'   = [pc EXCEPT ![c] = "held"]
  /\ age'  = [age EXCEPT ![c] = 0]

\* The script finds a free slot and its answer arrives.
Grant(c) ==
  /\ pc[c] = "waiting"
  /\ Cardinality(Leased) < Limit
  /\ left' = [left EXCEPT ![c] = LeaseTtl]
  /\ pc'   = [pc EXCEPT ![c] = "held"]
  /\ age'  = [age EXCEPT ![c] = 0]

\* The script grants the slot but its answer is lost: acquire() throws, or
\* the client sends the script again with the same token.
GrantLost(c) ==
  /\ pc[c] = "waiting"
  /\ Cardinality(Leased) < Limit
  /\ left' = [left EXCEPT ![c] = LeaseTtl]
  /\ \/ pc' = [pc EXCEPT ![c] = "idle"]
     \/ UNCHANGED pc
  /\ UNCHANGED age

\* Redis is unreachable: acquire() throws and admits nobody.
AcquireFails(c) ==
  /\ pc[c] = "waiting"
  /\ pc' = [pc EXCEPT ![c] = "idle"]
  /\ UNCHANGED <<left, age>>

\* The finally block: ZREM, whose failure is ignored.
Release(c) ==
  /\ pc[c] = "held"
  /\ pc' = [pc EXCEPT ![c] = "idle"]
  /\ \/ left' = [left EXCEPT ![c] = 0]
     \/ UNCHANGED left
  /\ UNCHANGED age

\* The worker dies with its request, before or after it got the slot.
Crash(c) ==
  /\ pc[c] # "idle"
  /\ pc' = [pc EXCEPT ![c] = "idle"]
  /\ UNCHANGED <<left, age>>

Aged(c) == IF pc[c] = "held" /\ age[c] < LeaseTtl THEN age[c] + 1 ELSE age[c]

\* A crashed check keeps its slot: expired leases are never dropped.
BadTick ==
  /\ left' = [c \in Check |-> IF left[c] > 1 THEN left[c] - 1 ELSE left[c]]
  /\ age'  = [c \in Check |-> Aged(c)]
  /\ UNCHANGED pc

\* Redis server time passes, whatever the checks are waiting for.
Tick ==
  /\ left' = [c \in Check |-> IF left[c] > 0 THEN left[c] - 1 ELSE 0]
  /\ age'  = [c \in Check |-> Aged(c)]
  /\ UNCHANGED pc

-----------------------------------------------------------------------------

Call(c) == Request(c) \/ Grant(c) \/ GrantLost(c) \/ AcquireFails(c) \/ Release(c) \/ Crash(c)

Next == Tick \/ \E c \in Check : Call(c)

Spec == Init /\ [][Next]_vars

\* Redis server time advances; a check need never end.
FairSpec == Spec /\ WF_vars(Tick)

-----------------------------------------------------------------------------
(* Properties *)

\* The type invariant: neither a lease nor the age of a hold passes LeaseTtl.
TypeOK ==
  /\ left \in [Check -> 0 .. LeaseTtl]
  /\ pc \in [Check -> {"idle", "waiting", "held"}]
  /\ age \in [Check -> 0 .. LeaseTtl]

\* The checks that have not outlived their lease.
Young == {c \in Held : age[c] < LeaseTtl}

\* INV-3, as far as a lease can promise it: lost answers, failed releases,
\* crashes and checks that hold on past their lease included, no more than
\* Limit checks within their lease are in flight across all workers.
AtMostLimit == Cardinality(Young) <= Limit

\* The inductive invariant: the lease of a check that holds a slot has run
\* exactly as long as the check has held it.
IndInv ==
  /\ TypeOK
  /\ Cardinality(Leased) <= Limit
  /\ \A c \in Held : left[c] + age[c] = LeaseTtl

\* ADR-022: lost answers, failed releases and crashes consume slots only for a
\* time: the pool never stays full of leases that no live check holds.
PoolNeverStuck == []<>(Held # {} \/ Cardinality(Leased) < Limit)
=============================================================================
