------------------------------ MODULE MCLimits ------------------------------
(***************************************************************************)
(* The slot limiter by itself, with several checks competing, and the      *)
(* outbound requests on top of one slot: a behaviour runs one of the two   *)
(* instances, which share no variable, and leaves the other as it was.     *)
(***************************************************************************)
EXTENDS ConcurrencySlots, Outbound

VARIABLE running

limitsVars == <<vars, outboundVars, running>>

LimitsInit == Init /\ OutboundInit /\ running \in {"slots", "outbound"}

LimitsNext ==
  /\ UNCHANGED running
  /\ \/ running = "slots" /\ Next /\ UNCHANGED outboundVars
     \/ running = "outbound" /\ OutboundNext /\ UNCHANGED vars

\* FairSpec of ConcurrencySlots and OutboundFairness, each for its own part.
InSlots(A)    == running = "slots" /\ A
InOutbound(A) == running = "outbound" /\ A

LimitsSpec ==
  /\ LimitsInit /\ [][LimitsNext]_limitsVars
  /\ WF_vars(InSlots(Tick))
  /\ SF_outboundVars(InOutbound(OutboundTick))
  /\ \A u \in Caller :
       /\ WF_outboundVars(InOutbound(Resolve(u) \/ Send(u) \/ Abort(u)))
       /\ WF_outboundVars(InOutbound(ReadBody(u) \/ CertDone(u)))
       /\ SF_outboundVars(InOutbound(Admit(u)))
  /\ \A d \in Demo : WF_outboundVars(InOutbound(GiveUp(d)))
=============================================================================
