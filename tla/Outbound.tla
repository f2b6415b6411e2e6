------------------------------ MODULE Outbound ------------------------------
(***************************************************************************)
(* Outbound requests: the worker's checkUrl and the landing page's         *)
(* checkOne, which share one sliding-window rate limiter in Redis.  A      *)
(* worker's check also holds a slot of ConcurrencySlots while it runs; a   *)
(* demo check belongs to a request that a per-client counter admitted.     *)
(*                                                                         *)
(* Time advances by Tick.  What a target answers is a free choice.         *)
(***************************************************************************)
EXTENDS Integers, FiniteSetsExt

CONSTANTS
  Job, Demo,                \* checks of the workers, URLs of one demo request
  MaxSlots, SlotTtl,        \* MAX_CONCURRENCY, CONCURRENCY_LEASE_TTL_MS
  Permit,                   \* bound: members of the limiter's ZSET
  Rate, Window,             \* RATE_LIMIT_RPS and its window
  Lag,                      \* bound: from a permit's record to its request
  Timeout, CertTimeout,     \* HTTP_TIMEOUT_MS, the certificate probe's limit
  PermitWait,               \* PERMIT_WAIT_MS of the demo
  MaxRedirects,
  QuotaMax, QuotaWindow     \* RATE_MAX_REQUESTS and RATE_WINDOW_SEC

ASSUME OutboundAssumption ==
  /\ Job \cap Demo = {} /\ IsFiniteSet(Job) /\ MaxSlots \in Nat \ {0}
  /\ IsFiniteSet(Permit) /\ Rate \in Nat /\ Cardinality(Permit) > Rate
  /\ Window \in Nat /\ Lag \in Nat /\ Lag < Window
  /\ Timeout \in Nat /\ CertTimeout \in Nat /\ SlotTtl \in Nat
  /\ CertTimeout <= Timeout              \* http-checker.ts:225
  /\ Timeout + CertTimeout < SlotTtl     \* config/src/index.ts:46-48
  /\ PermitWait \in Nat /\ MaxRedirects \in Nat
  /\ QuotaMax \in Nat /\ QuotaWindow \in Nat \ {0}

VARIABLES
  lease, seat,  \* the slots, see ConcurrencySlots
  call,       \* call[u]: where check u is
  log,        \* log[p]: how long permit p stays in the window, 0 when it is out
  sent,       \* sent[p]: since the request on p left, Window - Lag ticks down to 0
  orphans,    \* abandoned acquire() calls of demo checks
  quota       \* the demo counter of a client, and its request

outboundVars == <<lease, seat, call, log, sent, orphans, quota>>

Slots == INSTANCE ConcurrencySlots WITH
  Check <- Job, Limit <- MaxSlots, LeaseTtl <- SlotTtl,
  left <- lease, pc <- seat, age <- [c \in Job |-> 0]

Caller  == Job \cup Demo
Verdict == {"success", "permanent", "transient", "infra"}
Off     == [phase |-> "off", hops |-> 0, clock |-> 0, wait |-> 0, late |-> FALSE, permit |-> {}]
At(u, p) == call[u].phase = p
Ended(u) == call[u].phase \in Verdict
Logged  == {p \in Permit : log[p] > 0}
Sent    == {p \in Permit : sent[p] > 0}
Fresh   == CHOOSE p \in Permit : log[p] = 0 /\ sent[p] = 0
Less(n) == IF n > 0 THEN n - 1 ELSE 0

OutboundInit ==
  /\ Slots!Init
  /\ call = [u \in Caller |-> Off]
  /\ log  = [p \in Permit |-> 0]
  /\ sent = [p \in Permit |-> 0]
  /\ orphans = 0
  /\ quota = [hits |-> 0, ttl |-> 0, post |-> "none", cut |-> FALSE]

-----------------------------------------------------------------------------
(* One check, from its slot to its verdict *)

Move(u, c) == call' = [call EXCEPT ![u] = c]
Goto(u, p) == Move(u, [call[u] EXCEPT !.phase = p, !.wait = 0, !.permit = {}])
OnlyCall   == UNCHANGED <<lease, seat, log, sent, orphans, quota>>

\* The job asks for a slot; the answer may be lost, or Redis be down.
AskSlot(c) ==
  /\ At(c, "off")
  /\ Slots!Request(c) \/ Slots!GrantLost(c) \/ Slots!AcquireFails(c)
  /\ UNCHANGED <<call, log, sent, orphans, quota>>

\* checkUrl starts with its abort timer; an unparseable URL ends it at once.
StartCheck(c) ==
  /\ Slots!Grant(c)
  /\ \E p \in {"target", "permanent"} : Move(c, [Off EXCEPT !.phase = p])
  /\ UNCHANGED <<log, sent, orphans, quota>>

\* assertAllowedTarget: the protocol, the name and its addresses.
Resolve(u) ==
  /\ At(u, "target")
  /\ \E p \in {"permit", "permanent"} : Goto(u, p)
  /\ OnlyCall

\* One permit too many is given.
BadRoom == Cardinality(Logged) <= Rate

\* The limiter's script finds fewer than Rate permits in the window.
Room == Cardinality(Logged) < Rate

\* It records a permit.  The answer may be lost: admission fails.
Admit(u) ==
  /\ At(u, "permit") /\ Room
  /\ log' = [log EXCEPT ![Fresh] = Window]
  /\ \/ Move(u, [call[u] EXCEPT !.phase = "granted", !.wait = 0, !.permit = {Fresh}])
     \/ Goto(u, IF u \in Job THEN "infra" ELSE "transient")
  /\ UNCHANGED <<lease, seat, sent, orphans, quota>>

\* Redis fails: the worker rethrows, the demo reports a network error.
AdmissionFails(u) ==
  /\ At(u, "permit")
  /\ Goto(u, IF u \in Job THEN "infra" ELSE "transient")
  /\ OnlyCall

\* acquireWithTimeout: the demo stops waiting, its acquire() goes on.
GiveUp(d) ==
  /\ At(d, "permit") /\ call[d].wait = PermitWait
  /\ Goto(d, "transient")
  /\ orphans' = orphans + 1
  /\ UNCHANGED <<lease, seat, log, sent, quota>>

\* An abandoned acquire() takes a permit for no request, or fails.
OrphanEnds ==
  /\ orphans > 0
  /\ \/ Room /\ log' = [log EXCEPT ![Fresh] = Window]
     \/ UNCHANGED log
  /\ orphans' = orphans - 1
  /\ UNCHANGED <<lease, seat, call, sent, quota>>

\* fetch: an already aborted signal ends the check without a request.
Send(u) ==
  /\ At(u, "granted")
  /\ IF call[u].clock = Timeout
       THEN Goto(u, "transient") /\ UNCHANGED sent
       ELSE /\ Goto(u, "fetch")
            /\ sent' = [p \in Permit |-> IF p \in call[u].permit THEN Window - Lag ELSE sent[p]]
  /\ UNCHANGED <<lease, seat, log, orphans, quota>>

\* A redirect is followed by hand, through policy and limiter again.
Redirect(u) ==
  /\ At(u, "fetch")
  /\ IF call[u].hops = MaxRedirects
       THEN Goto(u, "permanent")
       ELSE Move(u, [call[u] EXCEPT !.phase = "target", !.hops = @ + 1])
  /\ OnlyCall

\* A final answer; or none that can be used: no location, a network error.
Answer(u) ==
  /\ At(u, "fetch")
  /\ \E p \in {"body", "transient"} : Goto(u, p)
  /\ OnlyCall

\* The abort never reaches the request.
BadAbort(u) == FALSE /\ UNCHANGED outboundVars

\* The abort timer ends a request that has no answer.
Abort(u) ==
  /\ At(u, "fetch") /\ call[u].clock = Timeout
  /\ Goto(u, "transient")
  /\ OnlyCall

\* readTitle: the body ends, reaches its limit, or is aborted, which only
\* loses the title.  The demo reports; the worker probes the certificate.
ReadBody(u) ==
  /\ At(u, "body")
  /\ IF u \in Job
       THEN Move(u, [call[u] EXCEPT !.phase = "cert", !.clock = 0])
       ELSE \E p \in {"success", "transient"} : Goto(u, p)
  /\ OnlyCall

\* readCertExpiry answers, fails or times out; the status decides: below
\* 400 success, 4xx permanent, 5xx transient.
CertDone(u) ==
  /\ At(u, "cert")
  /\ \E p \in {"success", "permanent", "transient"} : Goto(u, p)
  /\ OnlyCall

\* The job's finally block, after the result was stored, published and the
\* lists invalidated (url-check.ts:103-131), which no timer of the check bounds.
ReleaseSlot(c) ==
  /\ Ended(c)
  /\ Slots!Release(c)
  /\ Move(c, Off)
  /\ UNCHANGED <<log, sent, orphans, quota>>

WorkerDies(c) ==
  /\ Slots!Crash(c)
  /\ Move(c, Off)
  /\ UNCHANGED <<log, sent, orphans, quota>>

-----------------------------------------------------------------------------
(* The demo request *)

\* Only the first refused request sets the expiry.
BadPostDemo ==
  /\ quota.post = "none" /\ orphans = 0 /\ quota.hits <= QuotaMax
  /\ \/ quota' = [quota EXCEPT !.hits = @ + 1,
                    !.post = IF quota.hits = QuotaMax THEN "counted" ELSE "admit"]
     \/ quota' = [quota EXCEPT !.hits = @ + 2, !.post = "admit", !.cut = @ \/ quota.hits = 0]
  /\ UNCHANGED <<lease, seat, call, log, sent, orphans>>

\* POST /demo/checks counts the request: INCR's answer arrives, or is lost and
\* ioredis sends INCR again.  Orphans are bounded by |Demo|.
PostDemo ==
  /\ quota.post = "none" /\ orphans = 0 /\ quota.hits <= QuotaMax
  /\ \/ quota' = [quota EXCEPT !.hits = @ + 1,
                    !.post = IF quota.hits = 0 THEN "counted" ELSE "admit"]
     \/ quota' = [quota EXCEPT !.hits = @ + 2, !.post = "admit", !.cut = @ \/ quota.hits = 0]
  /\ UNCHANGED <<lease, seat, call, log, sent, orphans>>

\* The first request of a window starts it; Redis may refuse the EXPIRE, which
\* fails the request.
StartQuota ==
  /\ quota.post = "counted"
  /\ \/ quota' = [quota EXCEPT !.post = "admit", !.ttl = QuotaWindow]
     \/ quota' = [quota EXCEPT !.post = "none", !.cut = TRUE]
  /\ UNCHANGED <<lease, seat, call, log, sent, orphans>>

\* Refused over the quota or for its body, or its URLs all start.
AdmitDemo ==
  /\ quota.post = "admit"
  /\ \/ quota' = [quota EXCEPT !.post = "none"] /\ UNCHANGED call
     \/ /\ quota.hits <= QuotaMax
        /\ quota' = [quota EXCEPT !.post = "run"]
        /\ \E S \in SUBSET Demo \ {{}} :
             call' = [u \in Caller |->
                        IF u \in S THEN [Off EXCEPT !.phase = "target"] ELSE call[u]]
  /\ UNCHANGED <<lease, seat, log, sent, orphans>>

\* Promise.all: the response waits for every URL.
AnswerDemo ==
  /\ quota.post = "run" /\ \A d \in Demo : Ended(d) \/ At(d, "off")
  /\ quota' = [quota EXCEPT !.post = "none"]
  /\ call' = [u \in Caller |-> IF u \in Demo THEN Off ELSE call[u]]
  /\ UNCHANGED <<lease, seat, log, sent, orphans>>

\* The API dies with its requests; the counter stays as it is.
ApiDies ==
  /\ quota.post # "none"
  /\ quota' = [quota EXCEPT !.post = "none", !.cut = @ \/ quota.post = "counted"]
  /\ call' = [u \in Caller |-> IF u \in Demo THEN Off ELSE call[u]]
  /\ orphans' = 0
  /\ UNCHANGED <<lease, seat, log, sent>>

-----------------------------------------------------------------------------
(* Time *)

\* The certificate probe has no time limit of its own.
BadDue(u) == LET c == call[u] IN
  \/ c.phase = "granted" /\ c.wait = Lag
  \/ c.phase \in {"fetch", "body"} /\ c.clock = Timeout
  \/ u \in Demo /\ c.phase = "permit" /\ c.wait = PermitWait

\* Steps that do not wait: a tick cannot overtake them.
Due(u) == LET c == call[u] IN
  \/ c.phase = "granted" /\ c.wait = Lag
  \/ c.phase \in {"fetch", "body"} /\ c.clock = Timeout
  \/ c.phase = "cert" /\ c.clock = CertTimeout
  \/ u \in Demo /\ c.phase = "permit" /\ c.wait = PermitWait

\* late: the check waits for DNS or a permit although its timer has fired.
\* The verdict clears the timer.
Older(c) ==
  IF c.phase \in {"off"} \cup Verdict THEN c
  ELSE [c EXCEPT !.clock = Min({@ + 1, Timeout}),
                 !.wait  = CASE c.phase = "permit"  -> Min({@ + 1, PermitWait})
                             [] c.phase = "granted" -> @ + 1
                             [] OTHER               -> 0,
                 !.late  = @ \/ /\ c.clock = Timeout
                                /\ c.phase \in {"target", "permit", "granted"}]

OutboundTick ==
  /\ \A u \in Caller : ~Due(u)
  /\ lease' = [c \in Job |-> Less(lease[c])]
  /\ call' = [u \in Caller |-> Older(call[u])]
  /\ log' = [p \in Permit |-> Less(log[p])] /\ sent' = [p \in Permit |-> Less(sent[p])]
  /\ quota' = IF quota.ttl = 1 THEN [quota EXCEPT !.hits = 0, !.ttl = 0]
              ELSE [quota EXCEPT !.ttl = Less(@)]
  /\ UNCHANGED <<seat, orphans>>

-----------------------------------------------------------------------------

Step(u) ==
  \/ Resolve(u) \/ Admit(u) \/ AdmissionFails(u) \/ Send(u) \/ Redirect(u)
  \/ Answer(u) \/ Abort(u) \/ ReadBody(u) \/ CertDone(u)

OutboundNext ==
  \/ OutboundTick \/ OrphanEnds
  \/ PostDemo \/ StartQuota \/ AdmitDemo \/ AnswerDemo \/ ApiDies
  \/ \E u \in Caller : Step(u)
  \/ \E c \in Job : AskSlot(c) \/ StartCheck(c) \/ ReleaseSlot(c) \/ WorkerDies(c)
  \/ \E d \in Demo : GiveUp(d)

\* What the code does by itself: resolvers answer, timers fire, the limiter's
\* jittered polls find room when there is room again and again, and time passes
\* whatever else goes on.  Targets need not answer.
OutboundFairness ==
  /\ SF_outboundVars(OutboundTick)
  /\ \A u \in Caller :
       /\ WF_outboundVars(Resolve(u) \/ Send(u) \/ Abort(u))
       /\ WF_outboundVars(ReadBody(u) \/ CertDone(u))
       /\ SF_outboundVars(Admit(u))
  /\ \A d \in Demo : WF_outboundVars(GiveUp(d))

OutboundSpec == OutboundInit /\ [][OutboundNext]_outboundVars /\ OutboundFairness

-----------------------------------------------------------------------------
(* Properties *)

\* INV-4 as far as a permit recorded in Redis can promise it: any Window - Lag
\* ticks see at most Rate requests leave, of all processes and all hops.
RateHolds == Cardinality(Sent) <= Rate

\* ADR-022: a check keeps its slot until its verdict, over all its hops and
\* the certificate probe, unless DNS or the limiter kept it past its own abort
\* timer.  Neither they nor the writes that follow the verdict are bounded.
SlotLossHasCause ==
  \A c \in Job : seat[c] = "held" /\ lease[c] = 0 => call[c].late \/ Ended(c)

\* demo.ts:58-60: a client that is counted is forgotten again; only a fault of
\* Redis or the API at the first request of a window, which alone sets the
\* expiry, leaves a counter that never expires.
QuotaExpires ==
  quota.hits > 0 /\ quota.ttl = 0 => quota.post = "counted" \/ quota.cut

\* http-checker.ts:4-7: no target can hold a check for ever.
EveryCheckEnds ==
  \A u \in Caller : (~At(u, "off")) ~> (Ended(u) \/ At(u, "off"))
=============================================================================
