---------------------- MODULE ConcurrencySlotsProofs ------------------------
(***************************************************************************)
(* INV-3 for every number of checks, every limit and every lease TTL; and  *)
(* for every setting of the time limits, why a check keeps its slot until  *)
(* its verdict, the limiter's rate and the demo's quota.                   *)
(***************************************************************************)
EXTENDS ConcurrencySlots, Outbound, FiniteSetTheorems, TLAPS

USE SlotsAssumption

\* Leases are finite in number, so is every set of them.
LEMMA LeasesFinite ==
  ASSUME NEW S \in SUBSET Check
  PROVE  IsFiniteSet(S) /\ Cardinality(S) \in Nat
  BY FS_Subset, FS_CardinalityType

\* A step that drops leases or keeps them keeps their number within Limit.
LEMMA FewerLeases ==
  ASSUME NEW S \in SUBSET Check, NEW T \in SUBSET S, Cardinality(S) <= Limit
  PROVE  Cardinality(T) <= Limit
<1>1. IsFiniteSet(S) /\ Cardinality(S) \in Nat /\ Cardinality(T) \in Nat  BY LeasesFinite
<1>2. Cardinality(T) <= Cardinality(S)  BY <1>1, FS_Subset
<1> QED  BY <1>1, <1>2

\* One more lease than fewer than Limit is at most Limit.
LEMMA OneMoreLease ==
  ASSUME NEW S \in SUBSET Check, NEW c \in Check, Cardinality(S) < Limit
  PROVE  Cardinality(S \cup {c}) <= Limit
<1>1. IsFiniteSet(S) /\ Cardinality(S) \in Nat  BY LeasesFinite
<1>2. Cardinality(S \cup {c}) = IF c \in S THEN Cardinality(S) ELSE Cardinality(S) + 1
  BY <1>1, FS_AddElement
<1> QED  BY <1>1, <1>2

LEMMA InitIndInv == Init => IndInv
<1> SUFFICES ASSUME Init PROVE IndInv  OBVIOUS
<1>1. TypeOK  BY DEF Init, TypeOK
<1>2. Leased = {}  BY DEF Init, Leased
<1>3. Held = {}  BY DEF Init, Held
<1>4. Cardinality(Leased) <= Limit  BY <1>2, FS_EmptySet
<1> QED  BY <1>1, <1>3, <1>4 DEF IndInv

LEMMA NextIndInv == IndInv /\ [Next]_vars => IndInv'
<1> SUFFICES ASSUME IndInv, [Next]_vars PROVE IndInv'  OBVIOUS
<1> USE DEF TypeOK, Held
<1>0. TypeOK /\ Leased \in SUBSET Check  BY DEF IndInv, Leased
<1>1. CASE Tick
  <2>1. TypeOK'  BY <1>0, <1>1 DEF Tick, Aged
  <2>2. Leased' \in SUBSET Leased  BY <1>0, <1>1 DEF Tick, Leased
  <2>3. Cardinality(Leased') <= Limit  BY <1>0, <2>2, FewerLeases DEF IndInv
  <2>4. ASSUME NEW c \in Held' PROVE left'[c] + age'[c] = LeaseTtl
    <3>1. c \in Held /\ left[c] + age[c] = LeaseTtl
      BY <1>1 DEF Tick, IndInv
    <3>2. left[c] > 0 <=> age[c] < LeaseTtl  BY <1>0, <3>1
    <3> QED  BY <1>0, <1>1, <3>1, <3>2 DEF Tick, Aged
  <2> QED  BY <2>1, <2>3, <2>4 DEF IndInv, Leased
<1>2. ASSUME NEW c \in Check, Grant(c) \/ GrantLost(c) PROVE IndInv'
  <2>1. TypeOK'  BY <1>0, <1>2 DEF Grant, GrantLost
  <2>2. Leased' = Leased \cup {c}  BY <1>0, <1>2 DEF Grant, GrantLost, Leased
  <2>3. Cardinality(Leased') <= Limit
    BY <1>0, <1>2, <2>2, OneMoreLease DEF Grant, GrantLost
  <2>4. ASSUME NEW d \in Held' PROVE left'[d] + age'[d] = LeaseTtl
    BY <1>0, <1>2, <2>4 DEF Grant, GrantLost, IndInv
  <2> QED  BY <2>1, <2>3, <2>4 DEF IndInv
<1>3. ASSUME NEW c \in Check, Request(c) \/ AcquireFails(c) \/ Release(c) \/ Crash(c)
      PROVE  IndInv'
  <2>1. TypeOK'  BY <1>0, <1>3 DEF Request, AcquireFails, Release, Crash
  <2>2. Leased' \in SUBSET Leased
    BY <1>0, <1>3 DEF Request, AcquireFails, Release, Crash, Leased
  <2>3. Cardinality(Leased') <= Limit  BY <1>0, <2>2, FewerLeases DEF IndInv
  <2>4. ASSUME NEW d \in Held' PROVE left'[d] + age'[d] = LeaseTtl
    BY <1>0, <1>3, <2>4 DEF Request, AcquireFails, Release, Crash, IndInv
  <2> QED  BY <2>1, <2>3, <2>4 DEF IndInv
<1>4. CASE UNCHANGED vars
  <2>1. Leased' = Leased /\ Held' = Held  BY <1>4 DEF vars, Leased
  <2> QED  BY <1>4, <2>1 DEF vars, IndInv
<1> QED  BY <1>1, <1>2, <1>3, <1>4 DEF Next, Call

\* The leases and the checks that hold them stay in step for ever.
THEOREM LeaseInvariant == Spec => []IndInv
  BY InitIndInv, NextIndInv, PTL DEF Spec

\* INV-3: at most Limit checks within their lease are in flight, whatever
\* crashes, lost answers, failed releases and overrunning checks there are.
THEOREM LimitRespected == Spec => []AtMostLimit
<1>1. IndInv => AtMostLimit
  <2> SUFFICES ASSUME IndInv PROVE Cardinality(Young) <= Limit
    BY DEF AtMostLimit
  <2>1. ASSUME NEW c \in Young PROVE c \in Leased
    BY DEF Young, Held, Leased, IndInv, TypeOK
  <2>2. Leased \in SUBSET Check /\ Young \in SUBSET Leased  BY <2>1 DEF Leased
  <2> QED  BY <2>2, FewerLeases DEF IndInv
<1> QED  BY <1>1, LeaseInvariant, PTL

-----------------------------------------------------------------------------
(* Outbound: a check under its slot *)

Early    == {"target", "permit", "granted", "fetch", "body"}
CallRow  == [phase : {"off", "cert"} \cup Early \cup Verdict, hops : Nat, clock : Nat,
             wait : Nat, late : BOOLEAN, permit : SUBSET Permit]

SlotTypeOK ==
  /\ lease \in [Job -> Nat] /\ seat \in [Job -> {"idle", "waiting", "held"}]
  /\ call \in [Caller -> CallRow]

\* What a lease with l ticks left is still good for: the rest of the check's
\* own time limit, and the certificate probe after it.  A check with a verdict
\* needs it no more.
Covers(l, c) ==
  \/ c.late
  \/ c.phase \in Verdict
  \/ /\ c.phase # "off"
     /\ c.phase \in Early => c.clock <= Timeout /\ l + c.clock >= SlotTtl
     /\ c.phase = "cert" => c.clock <= CertTimeout /\ l + c.clock + Timeout >= SlotTtl

SlotInv == SlotTypeOK /\ \A c \in Job : seat[c] = "held" => Covers(lease[c], call[c])

\* A permit that waits for its request: it entered the window c.wait ticks ago.
Pending(c, l, s) ==
  \E p \in Permit : /\ c.permit = {p} /\ s[p] = 0
                    /\ c.wait <= Lag /\ l[p] + c.wait >= Window

RateInv ==
  /\ log \in [Permit -> Nat] /\ sent \in [Permit -> Nat]
  /\ Cardinality(Logged) <= Rate
  /\ \A p \in Permit : sent[p] <= log[p]
  /\ \A u \in Caller : At(u, "granted") => Pending(call[u], log, sent)
  /\ \A u, v \in Caller :
       At(u, "granted") /\ At(v, "granted") /\ call[u].permit = call[v].permit => u = v

\* There are more names than permits in the window.
LEMMA FreshPermit ==
  ASSUME RateInv, Room
  PROVE  Fresh \in Permit /\ log[Fresh] = 0 /\ sent[Fresh] = 0
  <1>1. Logged # Permit
    BY OutboundAssumption, FS_CardinalityType DEF RateInv
  <1>2. PICK p \in Permit : log[p] = 0
    BY <1>1 DEF Logged, RateInv
  <1>3. sent[p] = 0
    BY <1>2 DEF RateInv
  <1>. QED
    BY <1>2, <1>3 DEF Fresh

LEMMA OffRow == Off \in CallRow /\ Off.phase = "off" /\ Off.clock = 0 /\ Off.late = FALSE
  BY DEF Off, CallRow

LEMMA InitSlots == OutboundInit => SlotInv
  BY OffRow DEF OutboundInit, Slots!Init, SlotInv, SlotTypeOK

\* One check moves on under the lease it has.
LEMMA MoveStep ==
  ASSUME SlotInv, NEW u \in Caller, NEW c \in CallRow, Move(u, c), UNCHANGED <<lease, seat>>,
         u \in Job /\ seat[u] = "held" => Covers(lease[u], c)
  PROVE  SlotInv'
  <1>1. call' \in [Caller -> CallRow] /\ call'[u] = c /\ \A v \in Caller \ {u} : call'[v] = call[v]
    BY DEF Move, SlotInv, SlotTypeOK
  <1>. QED
    BY <1>1 DEF SlotInv, SlotTypeOK, Caller

LEMMA GotoStep ==
  ASSUME SlotInv, NEW u \in Caller, NEW p \in Early \cup Verdict, Goto(u, p), UNCHANGED <<lease, seat>>,
         call[u].phase \in Early \/ (call[u].phase = "cert" /\ p \in Verdict)
  PROVE  SlotInv'
  <1>1. call[u] \in CallRow
    BY DEF SlotInv, SlotTypeOK
  <1>2. PICK c \in CallRow : /\ Move(u, c) /\ c.phase = p /\ c.clock = call[u].clock
                             /\ c.late = call[u].late
    <2>1. Move(u, [call[u] EXCEPT !.phase = p, !.wait = 0, !.permit = {}])
      BY DEF Goto
    <2>2. LET c == [call[u] EXCEPT !.phase = p, !.wait = 0, !.permit = {}] IN
            c \in CallRow /\ c.phase = p /\ c.clock = call[u].clock /\ c.late = call[u].late
      BY <1>1 DEF CallRow
    <2>. QED
      BY <2>1, <2>2
  <1>3. ASSUME u \in Job, seat[u] = "held" PROVE Covers(lease[u], c)
    <2>1. Covers(lease[u], call[u]) /\ lease[u] \in Nat
      BY <1>3 DEF SlotInv, SlotTypeOK
    <2>2. call[u].clock \in Nat /\ SlotTtl \in Nat /\ Timeout \in Nat /\ CertTimeout \in Nat
      BY <1>1, OutboundAssumption DEF CallRow
    <2>3. p \in Early => p \notin Verdict
      BY DEF Early, Verdict
    <2>4. p # "off" /\ p # "cert" /\ "cert" \notin Early /\ "cert" \notin Verdict
          /\ \A q \in Early : q \notin Verdict /\ q # "off" /\ q # "cert"
      BY DEF Early, Verdict
    <2>. QED
      BY <1>2, <2>1, <2>2, <2>3, <2>4 DEF Covers
  <1>. QED
    BY <1>2, <1>3, MoveStep

\* The limiter admits a check, or its answer is lost.
LEMMA AdmitStep == ASSUME SlotInv, RateInv, NEW u \in Caller, Admit(u) PROVE SlotInv'
  <1>1. call[u] \in CallRow /\ call[u].phase = "permit" /\ UNCHANGED <<lease, seat>>
    BY DEF Admit, At, SlotInv, SlotTypeOK
  <1>2. CASE Goto(u, IF u \in Job THEN "infra" ELSE "transient")
    BY <1>1, <1>2, GotoStep DEF Early, Verdict
  <1>3. CASE Move(u, [call[u] EXCEPT !.phase = "granted", !.wait = 0, !.permit = {Fresh}])
    <2>1. PICK c \in CallRow : /\ Move(u, c) /\ c.phase = "granted" /\ c.clock = call[u].clock
                               /\ c.late = call[u].late
      <3>1. {Fresh} \in SUBSET Permit
        BY FreshPermit DEF Admit
      <3>2. LET c == [call[u] EXCEPT !.phase = "granted", !.wait = 0, !.permit = {Fresh}] IN
              c \in CallRow /\ c.phase = "granted" /\ c.clock = call[u].clock /\ c.late = call[u].late
        BY <1>1, <3>1 DEF CallRow, Early
      <3>. QED
        BY <1>3, <3>2
    <2>2. u \in Job /\ seat[u] = "held" => Covers(lease[u], c)
      BY <1>1, <2>1 DEF SlotInv, Covers, Early, Verdict
    <2>. QED
      BY <1>1, <2>1, <2>2, MoveStep
  <1>. QED
    BY <1>2, <1>3 DEF Admit

\* A redirect keeps the check's clock.
LEMMA RedirectStep == ASSUME SlotInv, NEW u \in Caller, Redirect(u) PROVE SlotInv'
  <1>1. call[u] \in CallRow /\ call[u].phase = "fetch" /\ UNCHANGED <<lease, seat>>
    BY DEF Redirect, At, OnlyCall, SlotInv, SlotTypeOK
  <1>2. CASE Goto(u, "permanent")
    BY <1>1, <1>2, GotoStep DEF Early, Verdict
  <1>3. CASE Move(u, [call[u] EXCEPT !.phase = "target", !.hops = @ + 1])
    <2>1. PICK c \in CallRow : /\ Move(u, c) /\ c.phase = "target" /\ c.clock = call[u].clock
                               /\ c.late = call[u].late
      <3>1. PICK h \in Nat : h = call[u].hops + 1
        BY <1>1 DEF CallRow
      <3>2. Move(u, [call[u] EXCEPT !.phase = "target", !.hops = h])
        BY <1>3, <3>1
      <3>3. LET c == [call[u] EXCEPT !.phase = "target", !.hops = h] IN
              c \in CallRow /\ c.phase = "target" /\ c.clock = call[u].clock /\ c.late = call[u].late
        BY <1>1 DEF CallRow, Early
      <3>. QED
        BY <3>2, <3>3
    <2>2. u \in Job /\ seat[u] = "held" => Covers(lease[u], c)
      BY <1>1, <2>1 DEF SlotInv, Covers, Early, Verdict
    <2>. QED
      BY <1>1, <2>1, <2>2, MoveStep
  <1>. QED
    BY <1>2, <1>3 DEF Redirect

\* The certificate probe has a limit of its own, after the check's.
LEMMA ReadBodyStep == ASSUME SlotInv, NEW u \in Caller, ReadBody(u) PROVE SlotInv'
  <1>1. call[u] \in CallRow /\ call[u].phase = "body" /\ UNCHANGED <<lease, seat>>
    BY DEF ReadBody, At, OnlyCall, SlotInv, SlotTypeOK
  <1>2. CASE \E p \in {"success", "transient"} : Goto(u, p)
    BY <1>1, <1>2, GotoStep DEF Early, Verdict
  <1>3. CASE Move(u, [call[u] EXCEPT !.phase = "cert", !.clock = 0])
    <2>1. PICK c \in CallRow : Move(u, c) /\ c.phase = "cert" /\ c.clock = 0 /\ c.late = call[u].late
      <3>1. LET c == [call[u] EXCEPT !.phase = "cert", !.clock = 0] IN
              c \in CallRow /\ c.phase = "cert" /\ c.clock = 0 /\ c.late = call[u].late
        BY <1>1 DEF CallRow
      <3>. QED
        BY <1>3, <3>1
    <2>2. ASSUME u \in Job, seat[u] = "held" PROVE Covers(lease[u], c)
      <3>1. Covers(lease[u], call[u]) /\ lease[u] \in Nat
        BY <2>2 DEF SlotInv, SlotTypeOK
      <3>2. call[u].clock \in Nat /\ SlotTtl \in Nat /\ Timeout \in Nat /\ CertTimeout \in Nat
        BY <1>1, OutboundAssumption DEF CallRow
      <3>. QED
        BY <1>1, <2>1, <3>1, <3>2 DEF Covers, Early, Verdict
    <2>. QED
      BY <1>1, <2>1, <2>2, MoveStep
  <1>. QED
    BY <1>2, <1>3 DEF ReadBody

LEMMA CheckStep == ASSUME SlotInv, RateInv, NEW u \in Caller, Step(u) PROVE SlotInv'
  <1>1. CASE Resolve(u)
    BY <1>1, GotoStep DEF Resolve, At, OnlyCall, Early, Verdict
  <1>2. CASE Admit(u)
    BY <1>2, AdmitStep
  <1>3. CASE AdmissionFails(u)
    BY <1>3, GotoStep DEF AdmissionFails, At, OnlyCall, Early, Verdict
  <1>4. CASE Send(u)
    BY <1>4, GotoStep DEF Send, At, Early, Verdict
  <1>5. CASE Answer(u)
    BY <1>5, GotoStep DEF Answer, At, OnlyCall, Early, Verdict
  <1>6. CASE Abort(u)
    BY <1>6, GotoStep DEF Abort, At, OnlyCall, Early, Verdict
  <1>7. CASE CertDone(u)
    BY <1>7, GotoStep DEF CertDone, At, OnlyCall, Early, Verdict
  <1>. QED
    BY <1>1, <1>2, <1>3, <1>4, <1>5, <1>6, <1>7, RedirectStep, ReadBodyStep DEF Step

-----------------------------------------------------------------------------
(* Outbound: the slot, the demo and time *)

LEMMA AskSlotStep == ASSUME SlotInv, NEW c \in Job, AskSlot(c) PROVE SlotInv'
  <1>1. /\ UNCHANGED call /\ lease' \in [Job -> Nat] /\ seat' \in [Job -> {"idle", "waiting", "held"}]
        /\ seat'[c] # "held" /\ \A d \in Job \ {c} : lease'[d] = lease[d] /\ seat'[d] = seat[d]
    BY OutboundAssumption
       DEF AskSlot, Slots!Request, Slots!GrantLost, Slots!AcquireFails, SlotInv, SlotTypeOK
  <1>. QED
    BY <1>1 DEF SlotInv, SlotTypeOK

LEMMA StartCheckStep == ASSUME SlotInv, NEW c \in Job, StartCheck(c) PROVE SlotInv'
  <1>1. /\ lease' \in [Job -> Nat] /\ seat' \in [Job -> {"idle", "waiting", "held"}]
        /\ lease'[c] = SlotTtl /\ \A d \in Job \ {c} : lease'[d] = lease[d] /\ seat'[d] = seat[d]
    BY OutboundAssumption DEF StartCheck, Slots!Grant, SlotInv, SlotTypeOK
  <1>2. PICK r \in CallRow : Move(c, r) /\ r.phase \in {"target", "permanent"} /\ r.clock = 0
    <2>1. PICK p \in {"target", "permanent"} : Move(c, [Off EXCEPT !.phase = p])
      BY DEF StartCheck
    <2>2. LET r == [Off EXCEPT !.phase = p] IN r \in CallRow /\ r.phase = p /\ r.clock = 0
      BY OffRow DEF CallRow, Early, Verdict
    <2>. QED
      BY <2>1, <2>2
  <1>3. call' \in [Caller -> CallRow] /\ call'[c] = r /\ \A d \in Caller \ {c} : call'[d] = call[d]
    BY <1>2 DEF Move, SlotInv, SlotTypeOK, Caller
  <1>4. Covers(SlotTtl, r)
    BY <1>2, OutboundAssumption DEF Covers, Early, Verdict
  <1>. QED
    BY <1>1, <1>3, <1>4 DEF SlotInv, SlotTypeOK, Caller

\* The check ends with its slot: in the finally block, or with its worker.
LEMMA EndStep == ASSUME SlotInv, NEW c \in Job, ReleaseSlot(c) \/ WorkerDies(c) PROVE SlotInv'
  <1>1. /\ lease' \in [Job -> Nat] /\ seat' \in [Job -> {"idle", "waiting", "held"}]
        /\ seat'[c] = "idle" /\ \A d \in Job \ {c} : lease'[d] = lease[d] /\ seat'[d] = seat[d]
    BY DEF ReleaseSlot, WorkerDies, Slots!Release, Slots!Crash, SlotInv, SlotTypeOK
  <1>2. call' \in [Caller -> CallRow] /\ \A d \in Caller \ {c} : call'[d] = call[d]
    BY OffRow DEF ReleaseSlot, WorkerDies, Move, SlotInv, SlotTypeOK, Caller
  <1>. QED
    BY <1>1, <1>2 DEF SlotInv, SlotTypeOK, Caller

\* The demo's checks hold no slots.
LEMMA DemoStep ==
  ASSUME SlotInv, PostDemo \/ StartQuota \/ AdmitDemo \/ AnswerDemo \/ ApiDies \/ OrphanEnds
  PROVE  SlotInv'
  <1>1. UNCHANGED <<lease, seat>>
    BY DEF PostDemo, StartQuota, AdmitDemo, AnswerDemo, ApiDies, OrphanEnds
  <1>2. call' \in [Caller -> CallRow] /\ \A c \in Job : call'[c] = call[c]
    <2>1. CASE UNCHANGED call
      BY <2>1 DEF SlotInv, SlotTypeOK
    <2>2. CASE call' = [u \in Caller |-> IF u \in Demo THEN Off ELSE call[u]]
      BY <2>2, OffRow, OutboundAssumption DEF SlotInv, SlotTypeOK, Caller
    <2>3. CASE \E S \in SUBSET Demo \ {{}} :
                 call' = [u \in Caller |->
                            IF u \in S THEN [Off EXCEPT !.phase = "target"] ELSE call[u]]
      <3>1. [Off EXCEPT !.phase = "target"] \in CallRow
        BY OffRow DEF CallRow, Early
      <3>. QED
        BY <2>3, <3>1, OutboundAssumption DEF SlotInv, SlotTypeOK, Caller
    <2>. QED
      BY <2>1, <2>2, <2>3 DEF PostDemo, StartQuota, AdmitDemo, AnswerDemo, ApiDies, OrphanEnds
  <1>. QED
    BY <1>1, <1>2 DEF SlotInv, SlotTypeOK

LEMMA MinOfTwo ==
  ASSUME NEW x \in Nat, NEW y \in Nat PROVE Min({x, y}) = IF x <= y THEN x ELSE y
  <1>1. CASE x <= y
    BY <1>1 DEF Min
  <1>2. CASE ~(x <= y)
    BY <1>2 DEF Min
  <1>. QED
    BY <1>1, <1>2

\* A tick takes as much from the lease as it adds to the clock.
LEMMA OlderFields ==
  ASSUME NEW c \in CallRow, c.phase \notin {"off"} \cup Verdict
  PROVE  /\ Older(c) \in CallRow /\ Older(c).phase = c.phase
         /\ Older(c).clock = IF c.clock < Timeout THEN c.clock + 1 ELSE Timeout
         /\ Older(c).permit = c.permit
         /\ c.phase = "granted" => Older(c).wait = c.wait + 1
         /\ c.late => Older(c).late
         /\ c.clock = Timeout /\ c.phase \in {"target", "permit", "granted"} => Older(c).late
  <1>1. c.clock \in Nat /\ c.wait \in Nat /\ Timeout \in Nat /\ PermitWait \in Nat /\ c.late \in BOOLEAN
    BY OutboundAssumption DEF CallRow
  <1>2. PICK k \in Nat : k = Min({c.clock + 1, Timeout}) /\ k = IF c.clock < Timeout THEN c.clock + 1 ELSE Timeout
    <2>1. Min({c.clock + 1, Timeout}) = IF c.clock + 1 <= Timeout THEN c.clock + 1 ELSE Timeout
      BY <1>1, MinOfTwo
    <2>. QED
      BY <1>1, <2>1
  <1>3. PICK w \in Nat : w = CASE c.phase = "permit"  -> Min({c.wait + 1, PermitWait})
                               [] c.phase = "granted" -> c.wait + 1
                               [] OTHER               -> 0
    <2>1. Min({c.wait + 1, PermitWait}) \in Nat
      BY <1>1, MinOfTwo
    <2>. QED
      BY <1>1, <2>1
  <1>4. PICK l \in BOOLEAN : l = (c.late \/ (/\ c.clock = Timeout
                                             /\ c.phase \in {"target", "permit", "granted"}))
    BY <1>1
  <1>5. Older(c) = [c EXCEPT !.clock = k, !.wait = w, !.late = l]
    BY <1>2, <1>3, <1>4 DEF Older
  <1>6. /\ Older(c) \in CallRow /\ Older(c).phase = c.phase /\ Older(c).clock = k
        /\ Older(c).late = l /\ Older(c).wait = w /\ Older(c).permit = c.permit
    BY <1>5 DEF CallRow
  <1>7. c.phase = "granted" => w = c.wait + 1
    BY <1>1, <1>3
  <1>. QED
    BY <1>2, <1>4, <1>6, <1>7

LEMMA OutboundTickStep == ASSUME SlotInv, OutboundTick PROVE SlotInv'
  <1>1. /\ UNCHANGED seat /\ lease' = [c \in Job |-> IF lease[c] > 0 THEN lease[c] - 1 ELSE 0]
        /\ call' = [u \in Caller |-> Older(call[u])] /\ \A u \in Caller : ~Due(u)
        /\ SlotTypeOK
    BY DEF OutboundTick, SlotInv, Less
  <1>2. lease' \in [Job -> Nat]
    BY <1>1 DEF SlotTypeOK
  <1>3. call' \in [Caller -> CallRow]
    <2>1. \A u \in Caller : call[u] \in CallRow
      BY <1>1 DEF SlotTypeOK
    <2>2. \A u \in Caller : Older(call[u]) \in CallRow
      BY <2>1, OlderFields DEF Older
    <2>. QED
      BY <1>1, <2>2
  <1>4. ASSUME NEW c \in Job, seat[c] = "held" PROVE Covers(lease'[c], call'[c])
    <2>1. /\ Covers(lease[c], call[c]) /\ call[c] \in CallRow /\ c \in Caller
          /\ call[c].clock \in Nat /\ lease[c] \in Nat
      BY <1>1, <1>4 DEF SlotInv, SlotTypeOK, Caller, CallRow
    <2>2. call'[c] = Older(call[c]) /\ lease'[c] = IF lease[c] > 0 THEN lease[c] - 1 ELSE 0
      BY <1>1, <2>1
    <2>3. CASE call[c].late
      <3>1. call[c].phase \in {"off"} \cup Verdict => Older(call[c]) = call[c]
        BY DEF Older
      <3>2. Older(call[c]).late
        BY <2>1, <2>3, <3>1, OlderFields
      <3>. QED
        BY <2>2, <3>2 DEF Covers
    <2>4. CASE call[c].phase \in Verdict
      BY <2>2, <2>4 DEF Covers, Older
    <2>5. CASE ~call[c].late /\ call[c].phase \notin Verdict
      <3>1. call[c].phase \notin {"off"} \cup Verdict
        BY <2>1, <2>5 DEF Covers
      <3>2. /\ Older(call[c]).phase = call[c].phase
            /\ Older(call[c]).clock = IF call[c].clock < Timeout THEN call[c].clock + 1 ELSE Timeout
            /\ call[c].clock = Timeout /\ call[c].phase \in {"target", "permit", "granted"}
                 => Older(call[c]).late
        BY <2>1, <3>1, OlderFields
      <3>3. /\ call[c].phase \in {"fetch", "body"} => call[c].clock # Timeout
            /\ call[c].phase = "cert" => call[c].clock # CertTimeout
        BY <1>1, <2>1 DEF Due
      <3>4. /\ Timeout \in Nat /\ CertTimeout \in Nat /\ SlotTtl \in Nat
            /\ CertTimeout <= Timeout /\ Timeout + CertTimeout < SlotTtl
        BY OutboundAssumption
      <3>5. CASE call[c].phase \in Early
        <4>1. call[c].clock <= Timeout /\ lease[c] + call[c].clock >= SlotTtl
          BY <2>1, <2>5, <3>5 DEF Covers
        <4>2. CASE call[c].clock = Timeout
          <5>1. Older(call[c]).late
            BY <3>2, <3>3, <3>5, <4>2 DEF Early
          <5>. QED
            BY <2>2, <5>1 DEF Covers
        <4>3. CASE call[c].clock # Timeout
          <5>1. /\ Older(call[c]).clock = call[c].clock + 1 /\ lease'[c] = lease[c] - 1
                /\ Older(call[c]).clock <= Timeout /\ lease'[c] + Older(call[c]).clock >= SlotTtl
            BY <2>1, <2>2, <3>2, <3>4, <4>1, <4>3
          <5>. QED
            BY <2>2, <3>2, <3>5, <5>1 DEF Covers, Early, Verdict
        <4>. QED
          BY <4>2, <4>3
      <3>6. CASE call[c].phase = "cert"
        <4>1. /\ call[c].clock <= CertTimeout /\ lease[c] + call[c].clock + Timeout >= SlotTtl
              /\ call[c].clock # CertTimeout
          BY <2>1, <2>5, <3>3, <3>6 DEF Covers
        <4>2. /\ Older(call[c]).clock = call[c].clock + 1 /\ lease'[c] = lease[c] - 1
              /\ Older(call[c]).clock <= CertTimeout
              /\ lease'[c] + Older(call[c]).clock + Timeout >= SlotTtl
          BY <2>1, <2>2, <3>2, <3>4, <4>1
        <4>. QED
          BY <2>2, <3>2, <3>6, <4>2 DEF Covers, Early, Verdict
      <3>. QED
        BY <2>1, <3>1, <3>3, <3>5, <3>6 DEF CallRow
    <2>. QED
      BY <2>3, <2>4, <2>5
  <1>. QED
    BY <1>1, <1>2, <1>3, <1>4 DEF SlotInv, SlotTypeOK

LEMMA NextSlots == SlotInv /\ RateInv /\ [OutboundNext]_outboundVars => SlotInv'
  <1>. SUFFICES ASSUME SlotInv, RateInv, [OutboundNext]_outboundVars PROVE SlotInv'
    OBVIOUS
  <1>1. CASE UNCHANGED outboundVars
    BY <1>1 DEF outboundVars, SlotInv, SlotTypeOK
  <1>2. ASSUME NEW u \in Caller, Step(u) PROVE SlotInv'
    BY <1>2, CheckStep
  <1>3. ASSUME NEW c \in Job, AskSlot(c) \/ StartCheck(c) \/ ReleaseSlot(c) \/ WorkerDies(c) PROVE SlotInv'
    BY <1>3, AskSlotStep, StartCheckStep, EndStep
  <1>4. ASSUME NEW d \in Demo, GiveUp(d) PROVE SlotInv'
    BY <1>4, GotoStep DEF GiveUp, At, Early, Verdict, Caller
  <1>. QED
    BY <1>1, <1>2, <1>3, <1>4, OutboundTickStep, DemoStep DEF OutboundNext

-----------------------------------------------------------------------------
(* Outbound: the limiter's permits *)

\* A step that neither records nor uses a permit.
LEMMA NoPermitStep ==
  ASSUME RateInv, UNCHANGED <<log, sent>>,
         \A u \in Caller : call'[u] = call[u] \/ call'[u].phase # "granted"
  PROVE  RateInv'
  BY DEF RateInv, At, Pending, Logged

\* A new permit for check u, or for nobody.
LEMMA RecordStep ==
  ASSUME SlotTypeOK, RateInv, Room, log' = [log EXCEPT ![Fresh] = Window], UNCHANGED sent, NEW u,
         \A v \in Caller : \/ call'[v] = call[v]
                           \/ call'[v].phase # "granted"
                           \/ v = u /\ call'[v].wait = 0 /\ call'[v].permit = {Fresh}
  PROVE  RateInv'
  <1>1. Fresh \in Permit /\ log[Fresh] = 0 /\ sent[Fresh] = 0
    BY FreshPermit
  <1>2. Window \in Nat /\ Lag \in Nat /\ Rate \in Nat /\ Lag < Window
    BY OutboundAssumption
  <1>3. /\ log' \in [Permit -> Nat] /\ sent' = sent /\ sent \in [Permit -> Nat] /\ log \in [Permit -> Nat]
        /\ log'[Fresh] = Window /\ \A p \in Permit \ {Fresh} : log'[p] = log[p]
    BY <1>1, <1>2 DEF RateInv
  <1>4. Cardinality(Logged') <= Rate
    <2>1. Logged' = Logged \cup {Fresh} /\ Fresh \notin Logged
      BY <1>1, <1>2, <1>3 DEF Logged
    <2>2. IsFiniteSet(Logged) /\ Cardinality(Logged) \in Nat
      BY OutboundAssumption, FS_Subset, FS_CardinalityType DEF Logged
    <2>3. Cardinality(Logged') = Cardinality(Logged) + 1
      BY <2>1, <2>2, FS_AddElement
    <2>. QED
      BY <1>2, <2>2, <2>3 DEF Room
  <1>5. \A p \in Permit : sent'[p] <= log'[p]
    BY <1>1, <1>2, <1>3 DEF RateInv
  <1>6. ASSUME NEW v \in Caller, At(v, "granted"), call'[v] = call[v]
        PROVE  Pending(call[v], log', sent') /\ Fresh \notin call[v].permit
    <2>1. PICK p \in Permit : /\ call[v].permit = {p} /\ sent[p] = 0
                              /\ call[v].wait <= Lag /\ log[p] + call[v].wait >= Window
      BY <1>6 DEF RateInv, Pending
    <2>2. call[v].wait \in Nat
      BY DEF SlotTypeOK, CallRow
    <2>. QED
      BY <1>1, <1>2, <1>3, <2>1, <2>2 DEF Pending
  <1>. QED
    BY <1>1, <1>2, <1>3, <1>4, <1>5, <1>6 DEF RateInv, At, Pending

\* Where Goto leads.
LEMMA GotoPhase ==
  ASSUME SlotTypeOK, NEW u \in Caller, NEW p, Goto(u, p)
  PROVE  call'[u].phase = p /\ \A v \in Caller \ {u} : call'[v] = call[v]
  <1>1. call[u] \in CallRow
    BY DEF SlotTypeOK
  <1>2. LET c == [call[u] EXCEPT !.phase = p, !.wait = 0, !.permit = {}] IN
          c.phase = p /\ Move(u, c)
    BY <1>1 DEF Goto, CallRow
  <1>. QED
    BY <1>2 DEF Move, SlotTypeOK

LEMMA AdmitRate == ASSUME SlotTypeOK, RateInv, NEW u \in Caller, Admit(u) PROVE RateInv'
  <1>1. Room /\ log' = [log EXCEPT ![Fresh] = Window] /\ UNCHANGED sent
    BY DEF Admit
  <1>2. CASE Goto(u, IF u \in Job THEN "infra" ELSE "transient")
    <2>1. /\ call'[u].phase = IF u \in Job THEN "infra" ELSE "transient"
          /\ \A v \in Caller \ {u} : call'[v] = call[v]
      BY <1>2, GotoPhase
    <2>. QED
      BY <1>1, <2>1, RecordStep
  <1>3. CASE Move(u, [call[u] EXCEPT !.phase = "granted", !.wait = 0, !.permit = {Fresh}])
    <2>1. LET c == [call[u] EXCEPT !.phase = "granted", !.wait = 0, !.permit = {Fresh}] IN
            c.wait = 0 /\ c.permit = {Fresh} /\ Move(u, c)
      BY <1>3 DEF SlotTypeOK, CallRow
    <2>2. /\ call'[u].wait = 0 /\ call'[u].permit = {Fresh}
          /\ \A v \in Caller \ {u} : call'[v] = call[v]
      BY <2>1 DEF Move, SlotTypeOK
    <2>. QED
      BY <1>1, <2>2, RecordStep
  <1>. QED
    BY <1>2, <1>3 DEF Admit

\* The request leaves on the permit its check was granted.
LEMMA SendRate == ASSUME SlotTypeOK, RateInv, NEW u \in Caller, Send(u) PROVE RateInv'
  <1>1. At(u, "granted") /\ call[u] \in CallRow /\ UNCHANGED log
    BY DEF Send, SlotTypeOK
  <1>2. CASE Goto(u, "transient") /\ UNCHANGED sent
    <2>1. call'[u].phase = "transient" /\ \A v \in Caller \ {u} : call'[v] = call[v]
      BY <1>2, GotoPhase
    <2>. QED
      BY <1>1, <1>2, <2>1, NoPermitStep
  <1>3. CASE /\ Goto(u, "fetch")
             /\ sent' = [p \in Permit |-> IF p \in call[u].permit THEN Window - Lag ELSE sent[p]]
    <2>1. call'[u].phase = "fetch" /\ \A v \in Caller \ {u} : call'[v] = call[v]
      BY <1>3, GotoPhase
    <2>2. PICK p \in Permit : /\ call[u].permit = {p} /\ sent[p] = 0
                              /\ call[u].wait <= Lag /\ log[p] + call[u].wait >= Window
      BY <1>1 DEF RateInv, Pending
    <2>3. /\ Window \in Nat /\ Lag \in Nat /\ Lag < Window /\ call[u].wait \in Nat
          /\ log \in [Permit -> Nat] /\ sent \in [Permit -> Nat]
      BY <1>1, OutboundAssumption DEF CallRow, RateInv
    <2>4. /\ sent' \in [Permit -> Nat] /\ sent'[p] = Window - Lag
          /\ \A q \in Permit \ {p} : sent'[q] = sent[q]
      BY <1>3, <2>2, <2>3
    <2>5. Window - Lag <= log[p]
      BY <2>2, <2>3
    <2>6. ASSUME NEW v \in Caller, At(v, "granted")' PROVE v # u /\ call'[v] = call[v] /\ Pending(call[v], log, sent')
      <3>1. v # u /\ call'[v] = call[v] /\ At(v, "granted")
        BY <2>1, <2>6 DEF At
      <3>2. call[v].permit # call[u].permit /\ Pending(call[v], log, sent)
        BY <1>1, <3>1 DEF RateInv
      <3>. QED
        BY <2>2, <2>4, <3>1, <3>2 DEF Pending
    <2>7. Logged' = Logged
      BY <1>1 DEF Logged
    <2>8. \A q \in Permit : sent'[q] <= log'[q]
      BY <1>1, <2>4, <2>5 DEF RateInv
    <2>. QED
      BY <1>1, <2>3, <2>4, <2>6, <2>7, <2>8 DEF RateInv, At
  <1>. QED
    BY <1>2, <1>3 DEF Send

\* A tick ages the permits and what waits on them alike.
LEMMA TickRate == ASSUME SlotTypeOK, RateInv, OutboundTick PROVE RateInv'
  <1>1. /\ call' = [u \in Caller |-> Older(call[u])] /\ \A u \in Caller : ~Due(u)
        /\ log' = [p \in Permit |-> Less(log[p])] /\ sent' = [p \in Permit |-> Less(sent[p])]
    BY DEF OutboundTick
  <1>2. /\ Window \in Nat /\ Lag \in Nat /\ Rate \in Nat /\ Lag < Window
        /\ log \in [Permit -> Nat] /\ sent \in [Permit -> Nat]
    BY OutboundAssumption DEF RateInv
  <1>3. log' \in [Permit -> Nat] /\ sent' \in [Permit -> Nat]
    BY <1>1, <1>2 DEF Less
  <1>4. Cardinality(Logged') <= Rate
    <2>1. Logged' \subseteq Logged /\ Logged \subseteq Permit
      BY <1>1, <1>2 DEF Logged, Less
    <2>2. IsFiniteSet(Logged) /\ Cardinality(Logged) \in Nat
      BY <2>1, OutboundAssumption, FS_Subset, FS_CardinalityType
    <2>3. Cardinality(Logged') <= Cardinality(Logged) /\ Cardinality(Logged') \in Nat
      BY <2>1, <2>2, FS_Subset, FS_CardinalityType
    <2>. QED
      BY <1>2, <2>2, <2>3 DEF RateInv
  <1>5. \A p \in Permit : sent'[p] <= log'[p]
    BY <1>1, <1>2 DEF RateInv, Less
  <1>6. ASSUME NEW u \in Caller, At(u, "granted")'
        PROVE  /\ At(u, "granted") /\ call'[u].permit = call[u].permit
               /\ Pending(call'[u], log', sent')
    <2>1. call[u] \in CallRow /\ call'[u] = Older(call[u])
      BY <1>1 DEF SlotTypeOK
    <2>2. call[u].phase \notin {"off"} \cup Verdict
      BY <1>6, <2>1 DEF At, Older, Verdict
    <2>3. /\ call[u].phase = "granted" /\ call'[u].permit = call[u].permit
          /\ call'[u].wait = call[u].wait + 1
      BY <1>6, <2>1, <2>2, OlderFields DEF At
    <2>4. PICK p \in Permit : /\ call[u].permit = {p} /\ sent[p] = 0
                              /\ call[u].wait <= Lag /\ log[p] + call[u].wait >= Window
      BY <2>3 DEF RateInv, Pending, At
    <2>5. call[u].wait # Lag /\ call[u].wait \in Nat
      BY <1>1, <2>1, <2>3 DEF Due, CallRow
    <2>6. log'[p] = log[p] - 1 /\ sent'[p] = 0
      BY <1>1, <1>2, <2>4, <2>5 DEF Less
    <2>7. call'[u].wait <= Lag /\ log'[p] + call'[u].wait >= Window
      BY <1>2, <2>3, <2>4, <2>5, <2>6
    <2>. QED
      BY <2>3, <2>4, <2>6, <2>7 DEF Pending, At
  <1>. QED
    BY <1>3, <1>4, <1>5, <1>6 DEF RateInv

LEMMA NextRate == SlotInv /\ RateInv /\ [OutboundNext]_outboundVars => RateInv'
  <1>. SUFFICES ASSUME SlotInv, RateInv, [OutboundNext]_outboundVars PROVE RateInv'
    OBVIOUS
  <1>. SlotTypeOK
    BY DEF SlotInv
  <1>1. CASE UNCHANGED outboundVars
    BY <1>1, NoPermitStep DEF outboundVars
  <1>2. ASSUME NEW u \in Caller, Step(u) PROVE RateInv'
    <2>1. call[u] \in CallRow
      BY DEF SlotTypeOK
    <2>2. ASSUME NEW p, p # "granted", Goto(u, p), UNCHANGED <<log, sent>> PROVE RateInv'
      BY <2>2, GotoPhase, NoPermitStep
    <2>3. CASE Resolve(u) \/ AdmissionFails(u) \/ Answer(u) \/ Abort(u) \/ CertDone(u)
      BY <2>2, <2>3 DEF Resolve, AdmissionFails, Answer, Abort, CertDone, OnlyCall
    <2>4. ASSUME NEW c, Move(u, c), c.phase # "granted", UNCHANGED <<log, sent>> PROVE RateInv'
      BY <2>4, NoPermitStep DEF Move, SlotTypeOK
    <2>5. CASE Redirect(u)
      <3>1. \A h : LET c == [call[u] EXCEPT !.phase = "target", !.hops = h] IN c.phase # "granted"
        BY <2>1 DEF CallRow
      <3>. QED
        BY <2>2, <2>4, <2>5, <3>1 DEF Redirect, OnlyCall
    <2>6. CASE ReadBody(u)
      <3>1. [call[u] EXCEPT !.phase = "cert", !.clock = 0].phase # "granted"
        BY <2>1 DEF CallRow
      <3>. QED
        BY <2>2, <2>4, <2>6, <3>1 DEF ReadBody, OnlyCall
    <2>. QED
      BY <1>2, <2>3, <2>5, <2>6, AdmitRate, SendRate DEF Step
  <1>3. ASSUME NEW c \in Job, AskSlot(c) \/ StartCheck(c) \/ ReleaseSlot(c) \/ WorkerDies(c) PROVE RateInv'
    <2>1. UNCHANGED <<log, sent>>
      BY <1>3 DEF AskSlot, StartCheck, ReleaseSlot, WorkerDies
    <2>2. \A v \in Caller : call'[v] = call[v] \/ call'[v].phase # "granted"
      <3>1. \A p \in {"target", "permanent"} : [Off EXCEPT !.phase = p].phase # "granted"
        BY DEF Off
      <3>2. Off.phase # "granted" /\ c \in Caller
        BY DEF Off, Caller
      <3>. QED
        BY <1>3, <3>1, <3>2 DEF AskSlot, StartCheck, ReleaseSlot, WorkerDies, Move, SlotTypeOK
    <2>. QED
      BY <2>1, <2>2, NoPermitStep
  <1>4. ASSUME NEW d \in Demo, GiveUp(d) PROVE RateInv'
    <2>1. UNCHANGED <<log, sent>> /\ Goto(d, "transient") /\ d \in Caller
      BY <1>4 DEF GiveUp, Caller
    <2>. QED
      BY <2>1, GotoPhase, NoPermitStep
  <1>5. CASE PostDemo \/ StartQuota \/ AdmitDemo \/ AnswerDemo \/ ApiDies
    <2>1. UNCHANGED <<log, sent>>
      BY <1>5 DEF PostDemo, StartQuota, AdmitDemo, AnswerDemo, ApiDies
    <2>2. \A v \in Caller : call'[v] = call[v] \/ call'[v].phase # "granted"
      <3>1. Off.phase # "granted" /\ [Off EXCEPT !.phase = "target"].phase # "granted"
        BY DEF Off
      <3>. QED
        BY <1>5, <3>1 DEF PostDemo, StartQuota, AdmitDemo, AnswerDemo, ApiDies
    <2>. QED
      BY <2>1, <2>2, NoPermitStep
  <1>6. CASE OrphanEnds
    <2>1. UNCHANGED <<sent, call>> /\ (UNCHANGED log \/ (Room /\ log' = [log EXCEPT ![Fresh] = Window]))
      BY <1>6 DEF OrphanEnds
    <2>. QED
      BY <2>1, NoPermitStep, RecordStep
  <1>. QED
    BY <1>1, <1>2, <1>3, <1>4, <1>5, <1>6, TickRate DEF OutboundNext

LEMMA InitRate == OutboundInit => RateInv
  <1>. SUFFICES ASSUME OutboundInit PROVE RateInv
    OBVIOUS
  <1>1. Logged = {}
    BY DEF OutboundInit, Logged
  <1>2. \A u \in Caller : ~At(u, "granted")
    BY DEF OutboundInit, At, Off
  <1>. QED
    BY <1>1, <1>2, FS_EmptySet, OutboundAssumption DEF OutboundInit, RateInv

\* http-checker.ts:81-235 under worker/src/lib/concurrency.ts: in every
\* reachable state the lease of a check without verdict lasts as long as the
\* check still may, unless it is late already; and every check that was admitted has a permit of its own in the limiter's window.
THEOREM LeaseCoversCheck == OutboundSpec => [](SlotInv /\ RateInv)
  <1>. QED
    BY InitSlots, InitRate, NextSlots, NextRate, PTL DEF OutboundSpec

\* INV-4: in any Window - Lag ticks at most Rate requests leave, of all
\* processes and all hops; a lost answer or an abandoned wait only wastes
\* permits.
THEOREM RateIsGlobal == OutboundSpec => []RateHolds
  <1>1. RateInv => RateHolds
    <2>. SUFFICES ASSUME RateInv PROVE Cardinality(Sent) <= Rate
      BY DEF RateHolds
    <2>1. Sent \subseteq Logged /\ Logged \subseteq Permit
      BY DEF RateInv, Sent, Logged
    <2>2. IsFiniteSet(Logged) /\ Cardinality(Logged) \in Nat
      BY <2>1, OutboundAssumption, FS_Subset, FS_CardinalityType
    <2>3. Cardinality(Sent) <= Cardinality(Logged) /\ Cardinality(Sent) \in Nat
      BY <2>1, <2>2, FS_Subset, FS_CardinalityType
    <2>. QED
      BY <2>2, <2>3, OutboundAssumption DEF RateInv
  <1>. QED
    BY <1>1, LeaseCoversCheck, PTL

\* ADR-022: a check without verdict loses its slot only to DNS or the limiter,
\* which kept it past its own abort timer.
THEOREM SlotLossExplained == OutboundSpec => []SlotLossHasCause
  <1>1. SlotInv => SlotLossHasCause
    <2>. SUFFICES ASSUME SlotInv, NEW c \in Job, seat[c] = "held", lease[c] = 0,
                         ~call[c].late, ~Ended(c)
                  PROVE  FALSE
      BY DEF SlotLossHasCause, SlotInv, SlotTypeOK, Caller, CallRow
    <2>1. Covers(0, call[c]) /\ call[c] \in CallRow
      BY DEF SlotInv, SlotTypeOK, Caller
    <2>2. /\ Timeout \in Nat /\ CertTimeout \in Nat /\ SlotTtl \in Nat /\ call[c].clock \in Nat
          /\ Timeout + CertTimeout < SlotTtl
      BY <2>1, OutboundAssumption DEF CallRow
    <2>. QED
      BY <2>1, <2>2 DEF Covers, CallRow, Ended
  <1>. QED
    BY <1>1, LeaseCoversCheck, PTL

-----------------------------------------------------------------------------
(* Outbound: the pool *)

\* The checks on their way to a verdict that are not past their own timer.
InTime == {c \in Job : seat[c] = "held" /\ ~call[c].late /\ ~Ended(c)}

LEMMA JobsFinite == ASSUME NEW S \in SUBSET Job PROVE IsFiniteSet(S) /\ Cardinality(S) \in Nat
  BY OutboundAssumption, FS_Subset, FS_CardinalityType

\* The instance counts as this module does.
LEMMA SameCount == \A S : Slots!Cardinality(S) = Cardinality(S)
  BY DEF Slots!Cardinality, Cardinality

\* The script never leases more than MaxSlots slots, expired leases aside.
LEMMA PoolStep ==
  ASSUME SlotInv, Cardinality(Slots!Leased) <= MaxSlots, [OutboundNext]_outboundVars
  PROVE  Cardinality(Slots!Leased') <= MaxSlots
  <1>1. /\ Slots!Leased \in SUBSET Job /\ Slots!Leased' \in SUBSET Job
        /\ MaxSlots \in Nat /\ lease \in [Job -> Nat]
    BY OutboundAssumption DEF Slots!Leased, SlotInv, SlotTypeOK
  <1>2. ASSUME Slots!Leased' \subseteq Slots!Leased PROVE Cardinality(Slots!Leased') <= MaxSlots
    <2>1. Cardinality(Slots!Leased') <= Cardinality(Slots!Leased)
      BY <1>1, <1>2, JobsFinite, FS_Subset
    <2>. QED
      BY <1>1, <2>1, JobsFinite
  <1>3. CASE UNCHANGED lease
    BY <1>2, <1>3 DEF Slots!Leased
  <1>4. CASE OutboundTick
    BY <1>1, <1>2, <1>4 DEF OutboundTick, Less, Slots!Leased
  <1>5. ASSUME NEW c \in Job, Slots!Grant(c) \/ Slots!GrantLost(c)
        PROVE  Cardinality(Slots!Leased') <= MaxSlots
    <2>1. Slots!Leased' \subseteq Slots!Leased \cup {c} /\ Cardinality(Slots!Leased) < MaxSlots
      <3>1. Cardinality(Slots!Leased) < MaxSlots /\ lease' = [lease EXCEPT ![c] = SlotTtl]
        BY <1>5, SameCount DEF Slots!Grant, Slots!GrantLost
      <3>2. \A d \in Job \ {c} : lease'[d] = lease[d]
        BY <1>1, <3>1
      <3>3. Slots!Leased' \subseteq Slots!Leased \cup {c}
        BY <3>2 DEF Slots!Leased
      <3>. QED
        BY <3>1, <3>3
    <2>2. /\ Cardinality(Slots!Leased \cup {c}) <= Cardinality(Slots!Leased) + 1
          /\ Slots!Leased \cup {c} \in SUBSET Job
      BY <1>1, JobsFinite, FS_AddElement
    <2>3. Cardinality(Slots!Leased') <= Cardinality(Slots!Leased \cup {c})
      BY <2>1, <2>2, JobsFinite, FS_Subset
    <2>. QED
      BY <1>1, <2>1, <2>2, <2>3, JobsFinite
  <1>6. ASSUME NEW c \in Job, ReleaseSlot(c) \/ WorkerDies(c) PROVE Slots!Leased' \subseteq Slots!Leased
    BY <1>1, <1>6 DEF ReleaseSlot, WorkerDies, Slots!Release, Slots!Crash, Slots!Leased
  <1>. QED
    BY <1>2, <1>3, <1>4, <1>5, <1>6
       DEF OutboundNext, outboundVars, Step, Resolve, Admit, AdmissionFails, Send, Redirect, Answer,
           Abort, ReadBody, CertDone, OnlyCall, AskSlot, StartCheck, GiveUp, OrphanEnds, PostDemo,
           StartQuota, AdmitDemo, AnswerDemo, ApiDies, Slots!Request, Slots!AcquireFails

\* INV-3 from the settings alone: with the worker's own time limits, at most
\* MaxSlots checks are on their way to a verdict that DNS or the limiter has
\* not kept past their abort timer.
THEOREM PoolFits == OutboundSpec => [](Cardinality(InTime) <= MaxSlots)
  <1>1. OutboundInit => Cardinality(Slots!Leased) <= MaxSlots
    <2>. SUFFICES ASSUME OutboundInit PROVE Cardinality(Slots!Leased) <= MaxSlots
      OBVIOUS
    <2>1. Slots!Leased = {}
      BY DEF OutboundInit, Slots!Init, Slots!Leased
    <2>. QED
      BY <2>1, FS_EmptySet, OutboundAssumption
  <1>2. /\ SlotInv /\ Cardinality(Slots!Leased) <= MaxSlots /\ [OutboundNext]_outboundVars
        => (Cardinality(Slots!Leased) <= MaxSlots)'
    BY PoolStep
  <1>3. SlotInv /\ SlotLossHasCause /\ Cardinality(Slots!Leased) <= MaxSlots
        => Cardinality(InTime) <= MaxSlots
    <2>. SUFFICES ASSUME SlotInv, SlotLossHasCause, Cardinality(Slots!Leased) <= MaxSlots
                  PROVE  Cardinality(InTime) <= MaxSlots
      OBVIOUS
    <2>1. InTime \subseteq Slots!Leased /\ Slots!Leased \in SUBSET Job
      BY DEF InTime, Slots!Leased, SlotLossHasCause, SlotInv, SlotTypeOK
    <2>2. Cardinality(InTime) <= Cardinality(Slots!Leased)
      BY <2>1, JobsFinite, FS_Subset
    <2>. QED
      BY <2>1, <2>2, JobsFinite, OutboundAssumption
  <1>. QED
    BY <1>1, <1>2, <1>3, LeaseCoversCheck, SlotLossExplained, PTL DEF OutboundSpec

-----------------------------------------------------------------------------
(* Outbound: the demo's quota *)

QuotaInv ==
  /\ quota \in [hits : Nat, ttl : Nat, post : {"none", "counted", "admit", "run"}, cut : BOOLEAN]
  /\ QuotaExpires

\* demo.ts:58-60: the counter of a client has an expiry, except between the
\* first INCR of a window and its EXPIRE and after a fault at one of the two.
THEOREM ClientsAreForgotten == OutboundSpec => []QuotaExpires
  <1>1. OutboundInit => QuotaInv
    BY DEF OutboundInit, QuotaInv, QuotaExpires
  <1>2. QuotaInv /\ [OutboundNext]_outboundVars => QuotaInv'
    <2>. SUFFICES ASSUME QuotaInv, [OutboundNext]_outboundVars PROVE QuotaInv'
      OBVIOUS
    <2>1. CASE UNCHANGED quota
      BY <2>1 DEF QuotaInv, QuotaExpires
    <2>2. CASE PostDemo
      <3>1. PICK h \in Nat, p \in {"counted", "admit"}, k \in BOOLEAN :
              /\ quota' = [quota EXCEPT !.hits = h, !.post = p, !.cut = k]
              /\ h > 0 /\ (k \/ p = "counted" \/ quota.hits > 0) /\ (quota.cut => k)
        <4>1. CASE quota' = [quota EXCEPT !.hits = @ + 1,
                               !.post = IF quota.hits = 0 THEN "counted" ELSE "admit"]
          <5>1. PICK h \in Nat, p \in {"counted", "admit"} :
                  /\ h = quota.hits + 1 /\ p = IF quota.hits = 0 THEN "counted" ELSE "admit"
            BY DEF QuotaInv
          <5>2. /\ quota' = [quota EXCEPT !.hits = h, !.post = p, !.cut = quota.cut]
                /\ quota.cut \in BOOLEAN
            BY <4>1, <5>1 DEF QuotaInv
          <5>3. h > 0 /\ (quota.hits = 0 => p = "counted") /\ (quota.hits # 0 => quota.hits > 0)
            BY <5>1 DEF QuotaInv
          <5>. QED
            BY <5>2, <5>3
        <4>2. CASE quota' = [quota EXCEPT !.hits = @ + 2, !.post = "admit",
                               !.cut = @ \/ quota.hits = 0]
          <5>1. PICK h \in Nat : h = quota.hits + 2
            BY DEF QuotaInv
          <5>2. PICK k \in BOOLEAN : k = (quota.cut \/ (quota.hits = 0))
            BY DEF QuotaInv
          <5>3. quota' = [quota EXCEPT !.hits = h, !.post = "admit", !.cut = k]
            BY <4>2, <5>1, <5>2
          <5>4. h > 0 /\ (quota.hits # 0 => quota.hits > 0)
            BY <5>1 DEF QuotaInv
          <5>. QED
            BY <5>2, <5>3, <5>4
        <4>. QED
          BY <2>2, <4>1, <4>2 DEF PostDemo
      <3>2. /\ quota' \in [hits : Nat, ttl : Nat, post : {"none", "counted", "admit", "run"}, cut : BOOLEAN]
            /\ quota'.ttl = quota.ttl /\ quota'.cut = k /\ quota'.post = p /\ quota'.hits = h
        BY <3>1 DEF QuotaInv
      <3>3. quota.post = "none"
        BY <2>2 DEF PostDemo
      <3>. QED
        BY <3>1, <3>2, <3>3 DEF QuotaInv, QuotaExpires
    <2>3. CASE StartQuota
      BY <2>3, OutboundAssumption DEF StartQuota, QuotaInv, QuotaExpires
    <2>4. CASE AdmitDemo
      BY <2>4 DEF AdmitDemo, QuotaInv, QuotaExpires
    <2>5. CASE AnswerDemo
      BY <2>5 DEF AnswerDemo, QuotaInv, QuotaExpires
    <2>6. CASE ApiDies
      <3>1. PICK k \in BOOLEAN : k = (quota.cut \/ quota.post = "counted")
        BY DEF QuotaInv
      <3>2. quota' = [quota EXCEPT !.post = "none", !.cut = k]
        BY <2>6, <3>1 DEF ApiDies
      <3>. QED
        BY <3>1, <3>2 DEF QuotaInv, QuotaExpires
    <2>7. CASE OutboundTick
      <3>1. CASE quota.ttl = 1
        <4>1. quota' = [quota EXCEPT !.hits = 0, !.ttl = 0]
          BY <2>7, <3>1 DEF OutboundTick
        <4>2. /\ quota' \in [hits : Nat, ttl : Nat, post : {"none", "counted", "admit", "run"}, cut : BOOLEAN]
              /\ quota'.hits = 0
          BY <4>1 DEF QuotaInv
        <4>. QED
          BY <4>2 DEF QuotaInv, QuotaExpires
      <3>2. CASE quota.ttl # 1
        <4>1. PICK t \in Nat : t = IF quota.ttl > 0 THEN quota.ttl - 1 ELSE 0
          BY DEF QuotaInv
        <4>2. quota' = [quota EXCEPT !.ttl = t]
          BY <2>7, <3>2, <4>1 DEF OutboundTick, Less
        <4>3. t = 0 => quota.ttl = 0
          BY <3>2, <4>1 DEF QuotaInv
        <4>4. /\ quota' \in [hits : Nat, ttl : Nat, post : {"none", "counted", "admit", "run"}, cut : BOOLEAN]
              /\ quota'.hits = quota.hits /\ quota'.ttl = t
              /\ quota'.cut = quota.cut /\ quota'.post = quota.post
          BY <4>2 DEF QuotaInv
        <4>. QED
          BY <4>3, <4>4 DEF QuotaInv, QuotaExpires
      <3>. QED
        BY <3>1, <3>2
    <2>. QED
      BY <2>1, <2>2, <2>3, <2>4, <2>5, <2>6, <2>7
         DEF OutboundNext, outboundVars, Step, Resolve, Admit, AdmissionFails, Send, Redirect, Answer,
             Abort, ReadBody, CertDone, OnlyCall, AskSlot, StartCheck, ReleaseSlot, WorkerDies, GiveUp, OrphanEnds
  <1>3. QuotaInv => QuotaExpires
    BY DEF QuotaInv
  <1>. QED
    BY <1>1, <1>2, <1>3, PTL DEF OutboundSpec
=============================================================================
