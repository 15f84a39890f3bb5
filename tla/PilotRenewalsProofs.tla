------------------------ MODULE PilotRenewalsProofs -------------------------
(***************************************************************************)
(* Proofs about the launch of a pilot and its renewals, for any packages,  *)
(* dates, connectors, amounts and any number of cycles and crashes.  What  *)
(* makes those of the launch hold is that the actions of a plan are those  *)
(* of an installation and of a brief that never change (Known), so that a  *)
(* clearance that was right stays right.  Those of the renewals hold       *)
(* because a quote row only gets later (Later), and because a quote has    *)
(* one handoff and a closeout is handed over once (HandoffsOK).            *)
(***************************************************************************)
EXTENDS PilotRenewals, SumTheorems

(* The evidence a plan is made from is there.                                *)
Known(p) == install[p[1][1]] # None /\ brief[p[1]] # None

ChainOK ==
  /\ install \in [Package -> (SUBSET Gap) \cup {None}]
  /\ brief \in [Brief -> BOOLEAN \cup {None}]
  /\ plan \in [Readiness -> {"none", "open", "resolved"}]
  /\ resolved \subseteq Readiness \X Action
  /\ workbench \subseteq Brief
  /\ \A b \in Brief: brief[b] # None => install[b[1]] # None
  /\ \A b \in workbench: brief[b] # None
  /\ review \subseteq workbench
  /\ readiness \subseteq Readiness
  /\ \A p \in readiness: p[1] \in review
  /\ \A p \in Readiness: plan[p] # "none" => p \in readiness

(* The running handler that resolves a plan works on one that is there.      *)
CpuOK ==
  /\ "at" \in DOMAIN cpu
  /\ cpu.at = "plan" => cpu.plan \in Readiness /\ plan[cpu.plan] # "none"

GateInv ==
  /\ clearance \subseteq Clearance
  /\ offer \subseteq clearance
  /\ \A c \in clearance: c.plan \in readiness
  /\ \A c \in clearance: c.status = "cleared" =>
       c.resolved = PlanActions(c.plan) /\ Cleared(c.plan)
  /\ \A c \in offer: c.status = "cleared"

LEMMA LaunchInitOK == Init => ChainOK /\ CpuOK /\ GateInv
  BY DEF Init, LaunchInit, ChainOK, CpuOK, GateInv, Idle

-----------------------------------------------------------------------------
(* The seventy-seven functions are instances of the seven packets.           *)
LEMMA PacketsAreGeneric ==
  RenewalPackets =>
    \E n \in 0..10:
      \/ QuoteHandoff(n) \/ QuoteReleasePacket(n) \/ QuoteAcceptanceHandoff(n)
      \/ DraftInvoicePacket(n) \/ InvoicePostingPacket(n)
      \/ PaymentCollectionPacket(n) \/ CloseoutPacket(n)
  BY DEF RenewalPackets,
         createClinicWellnessOfferQuoteHandoff,
         createClinicWellnessQuoteReleasePacket,
         createClinicWellnessQuoteAcceptanceHandoff,
         createClinicWellnessHayhashvapahDraftInvoicePacket,
         createClinicWellnessHayhashvapahInvoicePostingPacket,
         createClinicWellnessHayhashvapahPaymentCollectionPacket,
         createClinicWellnessPilotCloseoutPacket,
         createClinicWellnessRenewalQuoteHandoff,
         createClinicWellnessRenewalQuoteReleasePacket,
         createClinicWellnessRenewalQuoteAcceptanceHandoff,
         createClinicWellnessRenewalHayhashvapahDraftInvoicePacket,
         createClinicWellnessRenewalHayhashvapahInvoicePostingPacket,
         createClinicWellnessRenewalHayhashvapahPaymentCollectionPacket,
         createClinicWellnessRenewalCloseoutPacket,
         createClinicWellnessNextRenewalQuoteHandoff,
         createClinicWellnessNextRenewalQuoteReleasePacket,
         createClinicWellnessNextRenewalQuoteAcceptanceHandoff,
         createClinicWellnessNextRenewalHayhashvapahDraftInvoicePacket,
         createClinicWellnessNextRenewalHayhashvapahInvoicePostingPacket,
         createClinicWellnessNextRenewalHayhashvapahPaymentCollectionPacket,
         createClinicWellnessNextRenewalCloseoutPacket,
         createClinicWellnessFollowingRenewalQuoteHandoff,
         createClinicWellnessFollowingRenewalQuoteReleasePacket,
         createClinicWellnessFollowingRenewalQuoteAcceptanceHandoff,
         createClinicWellnessFollowingRenewalHayhashvapahDraftInvoicePacket,
         createClinicWellnessFollowingRenewalHayhashvapahInvoicePostingPacket,
         createClinicWellnessFollowingRenewalHayhashvapahPaymentCollectionPacket,
         createClinicWellnessFollowingRenewalCloseoutPacket,
         createClinicWellnessSubsequentRenewalQuoteHandoff,
         createClinicWellnessSubsequentRenewalQuoteReleasePacket,
         createClinicWellnessSubsequentRenewalQuoteAcceptanceHandoff,
         createClinicWellnessSubsequentRenewalHayhashvapahDraftInvoicePacket,
         createClinicWellnessSubsequentRenewalHayhashvapahInvoicePostingPacket,
         createClinicWellnessSubsequentRenewalHayhashvapahPaymentCollectionPacket,
         createClinicWellnessSubsequentRenewalCloseoutPacket,
         createClinicWellnessContinuationRenewalQuoteHandoff,
         createClinicWellnessContinuationRenewalQuoteReleasePacket,
         createClinicWellnessContinuationRenewalQuoteAcceptanceHandoff,
         createClinicWellnessContinuationRenewalHayhashvapahDraftInvoicePacket,
         createClinicWellnessContinuationRenewalHayhashvapahInvoicePostingPacket,
         createClinicWellnessContinuationRenewalHayhashvapahPaymentCollectionPacket,
         createClinicWellnessContinuationRenewalCloseoutPacket,
         createClinicWellnessOngoingRenewalQuoteHandoff,
         createClinicWellnessOngoingRenewalQuoteReleasePacket,
         createClinicWellnessOngoingRenewalQuoteAcceptanceHandoff,
         createClinicWellnessOngoingRenewalHayhashvapahDraftInvoicePacket,
         createClinicWellnessOngoingRenewalHayhashvapahInvoicePostingPacket,
         createClinicWellnessOngoingRenewalHayhashvapahPaymentCollectionPacket,
         createClinicWellnessOngoingRenewalCloseoutPacket,
         createClinicWellnessNextOngoingRenewalQuoteHandoff,
         createClinicWellnessNextOngoingRenewalQuoteReleasePacket,
         createClinicWellnessNextOngoingRenewalQuoteAcceptanceHandoff,
         createClinicWellnessNextOngoingRenewalHayhashvapahDraftInvoicePacket,
         createClinicWellnessNextOngoingRenewalHayhashvapahInvoicePostingPacket,
         createClinicWellnessNextOngoingRenewalHayhashvapahPaymentCollectionPacket,
         createClinicWellnessNextOngoingRenewalCloseoutPacket,
         createClinicWellnessFollowingOngoingRenewalQuoteHandoff,
         createClinicWellnessFollowingOngoingRenewalQuoteReleasePacket,
         createClinicWellnessFollowingOngoingRenewalQuoteAcceptanceHandoff,
         createClinicWellnessFollowingOngoingRenewalHayhashvapahDraftInvoicePacket,
         createClinicWellnessFollowingOngoingRenewalHayhashvapahInvoicePostingPacket,
         createClinicWellnessFollowingOngoingRenewalHayhashvapahPaymentCollectionPacket,
         createClinicWellnessFollowingOngoingRenewalCloseoutPacket,
         createClinicWellnessSubsequentOngoingRenewalQuoteHandoff,
         createClinicWellnessSubsequentOngoingRenewalQuoteReleasePacket,
         createClinicWellnessSubsequentOngoingRenewalQuoteAcceptanceHandoff,
         createClinicWellnessSubsequentOngoingRenewalHayhashvapahDraftInvoicePacket,
         createClinicWellnessSubsequentOngoingRenewalHayhashvapahInvoicePostingPacket,
         createClinicWellnessSubsequentOngoingRenewalHayhashvapahPaymentCollectionPacket,
         createClinicWellnessSubsequentOngoingRenewalCloseoutPacket,
         createClinicWellnessNextRecurringOngoingRenewalQuoteHandoff,
         createClinicWellnessNextRecurringOngoingRenewalQuoteReleasePacket,
         createClinicWellnessNextRecurringOngoingRenewalQuoteAcceptanceHandoff,
         createClinicWellnessNextRecurringOngoingRenewalHayhashvapahDraftInvoicePacket,
         createClinicWellnessNextRecurringOngoingRenewalHayhashvapahInvoicePostingPacket,
         createClinicWellnessNextRecurringOngoingRenewalHayhashvapahPaymentCollectionPacket,
         createClinicWellnessNextRecurringOngoingRenewalCloseoutPacket

(* A renewal's handlers never run the statement that resolves a plan.        *)
LEMMA RenewalCpu ==
  ASSUME CpuOK, RenewalNext
  PROVE  cpu' = cpu \/ ("at" \in DOMAIN cpu' /\ cpu'.at # "plan")
<1>1. CASE RenewalPackets
  <2>1. PICK n \in 0..10:
          \/ QuoteHandoff(n) \/ QuoteReleasePacket(n) \/ QuoteAcceptanceHandoff(n)
          \/ DraftInvoicePacket(n) \/ InvoicePostingPacket(n)
          \/ PaymentCollectionPacket(n) \/ CloseoutPacket(n)
    BY <1>1, PacketsAreGeneric
  <2>2. CASE QuoteHandoff(n) \/ CloseoutPacket(n)
    BY <2>2 DEF QuoteHandoff, CloseoutPacket
  <2>3. CASE QuoteReleasePacket(n) \/ QuoteAcceptanceHandoff(n) \/ DraftInvoicePacket(n)
    BY <2>3 DEF QuoteReleasePacket, QuoteAcceptanceHandoff, DraftInvoicePacket, Certify
  <2>4. CASE InvoicePostingPacket(n) \/ PaymentCollectionPacket(n)
    BY <2>4 DEF InvoicePostingPacket, PaymentCollectionPacket, Certify
  <2> QED
    BY <2>1, <2>2, <2>3, <2>4
<1>2. ASSUME NEW q \in Quote,
             \/ \E which \in {"release", "finance"}, verdict \in {"approved", "rejected"}:
                  Decide(q, which, verdict)
             \/ ExecuteRelease(q) \/ ExecuteInvoice(q)
             \/ Accept(q) \/ PostInvoice(q)
             \/ \E amount \in Amount, latest \in BOOLEAN: RecordPayment(q, amount, latest)
      PROVE  cpu' = cpu \/ ("at" \in DOMAIN cpu' /\ cpu'.at # "plan")
  <2>1. ASSUME NEW amount \in Amount, NEW latest \in BOOLEAN, RecordPayment(q, amount, latest)
        PROVE  cpu' = [at |-> "paid", quote |-> q]
    BY <2>1, Zenon DEF RecordPayment
  <2>2. CASE \E amount \in Amount, latest \in BOOLEAN: RecordPayment(q, amount, latest)
    BY <2>1, <2>2
  <2>3. CASE PostInvoice(q)
    <3>1. cpu' = [at |-> "posted", quote |-> q]
      BY <2>3, Zenon DEF PostInvoice
    <3> QED
      BY <3>1
  <2>4. CASE /\ ~PostInvoice(q)
             /\ ~\E amount \in Amount, latest \in BOOLEAN: RecordPayment(q, amount, latest)
    BY <1>2, <2>4 DEF Decide, ExecuteRelease, ExecuteInvoice, Accept
  <2> QED
    BY <2>2, <2>3, <2>4
<1>3. CASE Running
  <2>1. CASE RecordRun
    BY <2>1 DEF RecordRun, CpuOK
  <2>2. CASE AcceptQuote
    BY <2>2 DEF AcceptQuote, CpuOK
  <2>3. CASE AskRelease
    BY <2>3 DEF AskRelease, CpuOK
  <2>4. CASE MarkExecuted \/ AskFinance \/ PostStatus \/ PayStatus \/ HandOver \/ InsertCloseout
    BY <2>4 DEF MarkExecuted, AskFinance, PostStatus, PayStatus, HandOver, InsertCloseout, Idle
  <2> QED
    BY <1>3, <2>1, <2>2, <2>3, <2>4 DEF Running
<1> QED
  BY <1>1, <1>2, <1>3 DEF RenewalNext

-----------------------------------------------------------------------------
(* What is known of a plan does not change.                                  *)
LEMMA PlanIsKept ==
  ASSUME NEW p \in Readiness, Known(p),
         install'[p[1][1]] = install[p[1][1]], brief'[p[1]] = brief[p[1]],
         resolved \subseteq resolved'
  PROVE  PlanActions(p)' = PlanActions(p) /\ (Cleared(p) => Cleared(p)')
  BY DEF PlanActions, Cleared, ResolvedOf

LEMMA EvidenceStep ==
  ASSUME ChainOK, CpuOK, GateInv, Evidence
  PROVE  ChainOK' /\ CpuOK' /\ GateInv'
<1>1. \A p \in readiness: p[1] \in Brief /\ p[1][1] \in Package /\ Known(p)
  BY DEF ChainOK, Known, Readiness, Brief
<1>2. cpu' = cpu /\ cpu = Idle /\ UNCHANGED <<resolved, clearance, offer>>
  BY DEF Evidence, Install, OwnerBrief, OperatorWorkbench, AccountantReview,
         LaunchReadiness, RemediationPlan, gateVars, Idle
<1>3. /\ \A p \in Package: install[p] # None => install'[p] = install[p]
      /\ \A b \in Brief: brief[b] # None => brief'[b] = brief[b]
      /\ readiness \subseteq readiness'
  BY DEF Evidence, Install, OwnerBrief, OperatorWorkbench, AccountantReview,
         LaunchReadiness, RemediationPlan, packetVars, gateVars, ChainOK
<1>4. ChainOK'
  <2>1. ASSUME NEW p \in Package, NEW missing \in SUBSET Connector, Install(p, missing)
        PROVE  ChainOK'
    <3>1. Gaps(p, missing) \in SUBSET Gap
      BY DEF Gaps, Gap
    <3>2. install' = [install EXCEPT ![p] = Gaps(p, missing)]
          /\ install[p] = None /\ UNCHANGED <<brief, workbench, review, readiness, plan, resolved>>
      BY <2>1 DEF Install, gateVars
    <3>3. \A b \in Brief: b[1] \in Package
      BY DEF Brief
    <3>4. \A b \in Brief: brief[b] # None => install'[b[1]] # None
      BY <3>2, <3>3 DEF ChainOK
    <3> QED
      BY <3>1, <3>2, <3>4 DEF ChainOK
  <2>2. ASSUME NEW b \in Brief, NEW overdue \in BOOLEAN, OwnerBrief(b, overdue)
        PROVE  ChainOK'
    <3>1. brief' = [brief EXCEPT ![b] = overdue] /\ brief[b] = None /\ install[b[1]] # None
          /\ UNCHANGED <<install, workbench, review, readiness, plan, resolved>>
      BY <2>2 DEF OwnerBrief, gateVars
    <3>2. \A w \in workbench: w \in Brief /\ brief'[w] = brief[w]
      BY <3>1 DEF ChainOK
    <3>3. \A c \in Brief: brief'[c] # None => install'[c[1]] # None
      BY <3>1 DEF ChainOK
    <3> QED
      BY <3>1, <3>2, <3>3 DEF ChainOK
  <2>3. ASSUME NEW b \in Brief, OperatorWorkbench(b) \/ AccountantReview(b) PROVE ChainOK'
    BY <2>3 DEF OperatorWorkbench, AccountantReview, gateVars, ChainOK
  <2>4. ASSUME NEW p \in Readiness, LaunchReadiness(p) PROVE ChainOK'
    BY <2>4 DEF LaunchReadiness, gateVars, ChainOK
  <2>5. ASSUME NEW p \in Readiness, RemediationPlan(p) PROVE ChainOK'
    BY <2>5 DEF RemediationPlan, packetVars, ChainOK
  <2> QED
    BY <2>1, <2>2, <2>3, <2>4, <2>5 DEF Evidence
<1>5. CpuOK'
  BY <1>2 DEF CpuOK, Idle
<1>6. \A p \in readiness: PlanActions(p)' = PlanActions(p) /\ (Cleared(p) => Cleared(p)')
  <2> SUFFICES ASSUME NEW p \in readiness
               PROVE  PlanActions(p)' = PlanActions(p) /\ (Cleared(p) => Cleared(p)')
    OBVIOUS
  <2>1. p \in Readiness /\ Known(p)
    BY <1>1 DEF ChainOK
  <2>2. install'[p[1][1]] = install[p[1][1]] /\ brief'[p[1]] = brief[p[1]]
    BY <1>1, <1>3, <2>1 DEF Known
  <2> QED
    BY <1>2, <2>1, <2>2, PlanIsKept
<1>7. GateInv'
  BY <1>2, <1>3, <1>6 DEF GateInv
<1> QED
  BY <1>4, <1>5, <1>7

LEMMA ClearingStep ==
  ASSUME ChainOK, CpuOK, GateInv, Clearing
  PROVE  ChainOK' /\ CpuOK' /\ GateInv'
<1>1. \A p \in Readiness: plan[p] # "none" => p[1] \in Brief /\ p[1][1] \in Package /\ Known(p)
  BY DEF ChainOK, Known, Readiness, Brief
<1>2. UNCHANGED packetVars /\ resolved \subseteq resolved'
  BY DEF Clearing, ResolveAction, LaunchClearance, ResolvePlan, PaidOffer
<1>3. \A p \in Readiness: PlanActions(p)' = PlanActions(p) /\ (Cleared(p) => Cleared(p)')
  BY <1>2 DEF PlanActions, Cleared, ResolvedOf, packetVars
<1>4. ASSUME NEW p \in Readiness, NEW a \in Action, ResolveAction(p, a)
      PROVE  ChainOK' /\ CpuOK' /\ GateInv'
  <2>1. /\ plan[p] # "none" /\ resolved' = resolved \cup {<<p, a>>}
        /\ cpu' = Idle \/ cpu' = [at |-> "plan", plan |-> p]
        /\ UNCHANGED <<install, brief, workbench, review, readiness, plan, clearance, offer>>
    BY <1>4 DEF ResolveAction, packetVars
  <2>2. ChainOK'
    BY <2>1 DEF ChainOK
  <2>3. CpuOK'
    BY <2>1 DEF CpuOK, Idle
  <2>4. GateInv'
    BY <1>3, <2>1 DEF GateInv, Clearance
  <2> QED
    BY <2>2, <2>3, <2>4
<1>5. ASSUME NEW p \in Readiness, LaunchClearance(p)
      PROVE  ChainOK' /\ CpuOK' /\ GateInv'
  <2> DEFINE c == [plan |-> p, resolved |-> ResolvedOf(p),
                   status |-> IF Cleared(p) THEN "cleared" ELSE "blocked"]
  <2>1. /\ plan[p] # "none" /\ clearance' = clearance \cup {c}
        /\ cpu' = cpu
        /\ UNCHANGED <<install, brief, workbench, review, readiness, plan, resolved, offer>>
    BY <1>5 DEF LaunchClearance, packetVars
  <2>2. PlanActions(p) \subseteq Action
    <3>1. install[p[1][1]] \subseteq Gap
      BY <1>1, <2>1 DEF ChainOK, Known
    <3> QED
      BY <3>1 DEF PlanActions, Action
  <2>3. c \in Clearance
    BY <2>2 DEF Clearance, ResolvedOf
  <2>4. c.status = "cleared" => c.resolved = PlanActions(p) /\ Cleared(p)
    BY DEF Cleared, ResolvedOf
  <2>5. p \in readiness
    BY <2>1 DEF ChainOK
  <2>6. ChainOK' /\ CpuOK'
    BY <2>1 DEF ChainOK, CpuOK
  <2>7. c.plan = p
    OBVIOUS
  <2> HIDE DEF c
  <2>8. GateInv'
    BY <1>3, <2>1, <2>3, <2>4, <2>5, <2>7 DEF GateInv, Clearance
  <2> QED
    BY <2>6, <2>8
<1>6. CASE ResolvePlan
  <2>1. /\ cpu.at = "plan" /\ plan' = [plan EXCEPT ![cpu.plan] = "resolved"] /\ cpu' = Idle
        /\ UNCHANGED <<install, brief, workbench, review, readiness, resolved, clearance, offer>>
    BY <1>6 DEF ResolvePlan, packetVars
  <2>2. \A p \in Readiness: plan'[p] # "none" => plan[p] # "none"
    BY <2>1 DEF CpuOK, ChainOK
  <2>3. ChainOK'
    BY <2>1, <2>2 DEF ChainOK
  <2>4. CpuOK'
    BY <2>1 DEF CpuOK, Idle
  <2>5. GateInv'
    BY <1>3, <2>1 DEF GateInv, Clearance
  <2> QED
    BY <2>3, <2>4, <2>5
<1>7. ASSUME NEW c \in clearance, PaidOffer(c) PROVE ChainOK' /\ CpuOK' /\ GateInv'
  <2>1. /\ c.status = "cleared" /\ offer' = offer \cup {c} /\ cpu' = cpu
        /\ UNCHANGED <<install, brief, workbench, review, readiness, plan, resolved, clearance>>
    BY <1>7 DEF PaidOffer, MayOffer, packetVars
  <2>2. ChainOK' /\ CpuOK'
    BY <2>1 DEF ChainOK, CpuOK
  <2>3. GateInv'
    BY <1>3, <2>1 DEF GateInv, Clearance
  <2> QED
    BY <2>2, <2>3
<1> QED
  BY <1>4, <1>5, <1>6, <1>7 DEF Clearing

(* Every step keeps the chain of the launch and its gate.                    *)
LEMMA LaunchStep == ChainOK /\ CpuOK /\ GateInv /\ [Next]_vars => (ChainOK /\ CpuOK /\ GateInv)'
<1> SUFFICES ASSUME ChainOK, CpuOK, GateInv, [Next]_vars
             PROVE  ChainOK' /\ CpuOK' /\ GateInv'
  OBVIOUS
<1>1. ASSUME UNCHANGED launchVars PROVE ChainOK' /\ GateInv' /\ (cpu' = cpu => CpuOK')
  BY <1>1 DEF launchVars, ChainOK, CpuOK, GateInv, PlanActions, Cleared, ResolvedOf
<1>2. CASE Evidence
  BY <1>2, EvidenceStep
<1>3. CASE Clearing
  BY <1>3, ClearingStep
<1>4. CASE RenewalNext /\ UNCHANGED launchVars
  <2>1. CpuOK'
    BY <1>1, <1>4, RenewalCpu DEF CpuOK
  <2> QED
    BY <1>1, <1>4, <2>1
<1>5. CASE Crash
  <2>1. CpuOK'
    BY <1>5 DEF Crash, CpuOK, Idle
  <2> QED
    BY <1>1, <1>5, <2>1 DEF Crash
<1>6. CASE UNCHANGED vars
  BY <1>1, <1>6 DEF vars
<1> QED
  BY <1>2, <1>3, <1>4, <1>5, <1>6 DEF Next, PlannedNext

(* OneOfferPerPlan: retries and clearances of a later day lead to the same    *)
(* offer, so that a launch cannot be sold twice.                             *)
THEOREM OffersAreUnique == Spec => []OneOfferPerPlan
<1>1. GateInv => OneOfferPerPlan
  <2> SUFFICES ASSUME GateInv, NEW c \in offer, NEW d \in offer, c.plan = d.plan
               PROVE  c = d
    BY DEF OneOfferPerPlan
  <2>1. c \in Clearance /\ d \in Clearance /\ c.status = d.status /\ c.resolved = d.resolved
    BY DEF GateInv
  <2> QED
    BY <2>1 DEF Clearance
<1> QED
  BY <1>1, LaunchInitOK, LaunchStep, PTL DEF Spec

(* OfferIsEarned: an offer has its whole chain of evidence, and every action  *)
(* of its plan is resolved, at the time and for ever.                        *)
THEOREM OffersAreEarned == Spec => []OfferIsEarned
<1>1. ChainOK /\ GateInv => OfferIsEarned
  BY DEF ChainOK, GateInv, OfferIsEarned, Earned
<1> QED
  BY <1>1, LaunchInitOK, LaunchStep, PTL DEF Spec

(* ClearedIsFinal: once a launch is cleared no later request finds it         *)
(* blocked.                                                                  *)
THEOREM ClearedStays == Spec => ClearedIsFinal
<1> DEFINE Stays == \A c \in clearance' \ clearance:
                      c.status = "blocked" =>
                        \A d \in clearance: d.plan = c.plan => d.status = "blocked"
<1>1. ASSUME ChainOK, GateInv, [Next]_vars
      PROVE  [Stays]_<<launchVars, cpu, crashes>>
  <2>1. CASE clearance' = clearance
    BY <2>1
  <2>2. ASSUME NEW p \in Readiness, LaunchClearance(p) PROVE Stays
    <3>1. \A c \in clearance' \ clearance:
            c.plan = p /\ c.status = IF Cleared(p) THEN "cleared" ELSE "blocked"
      BY <2>2 DEF LaunchClearance
    <3>2. \A d \in clearance: d.status \in {"blocked", "cleared"}
                              /\ (d.status = "cleared" => Cleared(d.plan))
      <4>1. \A d \in Clearance: d.status \in {"blocked", "cleared"}
        BY DEF Clearance
      <4> QED
        BY <1>1, <4>1 DEF GateInv
    <3> SUFFICES ASSUME NEW c \in clearance' \ clearance, c.status = "blocked",
                        NEW d \in clearance, d.plan = c.plan
                 PROVE  d.status = "blocked"
      OBVIOUS
    <3>3. ~Cleared(p) /\ d.plan = p
      BY <3>1
    <3> QED
      BY <3>2, <3>3
  <2>3. CASE Evidence
    <3>1. clearance' = clearance
      BY <2>3 DEF Evidence, Install, OwnerBrief, OperatorWorkbench, AccountantReview,
                  LaunchReadiness, RemediationPlan, gateVars
    <3> QED
      BY <2>1, <3>1
  <2>4. CASE Clearing
    <3>1. ASSUME NEW p \in Readiness, NEW a \in Action, ResolveAction(p, a) PROVE Stays
      BY <3>1 DEF ResolveAction
    <3>2. ASSUME NEW c \in clearance, PaidOffer(c) PROVE Stays
      BY <3>2 DEF PaidOffer
    <3>3. CASE ResolvePlan
      BY <3>3 DEF ResolvePlan
    <3> QED
      BY <2>2, <2>4, <3>1, <3>2, <3>3 DEF Clearing
  <2>5. CASE UNCHANGED launchVars
    BY <2>1, <2>5 DEF launchVars
  <2> QED
    BY <1>1, <2>3, <2>4, <2>5 DEF Next, PlannedNext, Crash, vars
<1>2. ChainOK /\ GateInv /\ [Next]_vars => [Stays]_<<launchVars, cpu, crashes>>
  BY <1>1
<1> QED
  BY <1>2, LaunchInitOK, LaunchStep, PTL DEF Spec, ClearedIsFinal

-----------------------------------------------------------------------------
(* The renewals.  A quote row is well formed, and it only gets later: what a  *)
(* packet certifies of it is certified for ever.                             *)

Verdict == {"none", "pending", "approved", "rejected", "ran", "executed"}
Stage   == {"release", "acceptance", "draft", "posting", "payment", "closeout"}

Row ==
  [status: {"draft", "sent", "signed", "accepted"}, total: Nat \ {0},
   release: Verdict, finance: Verdict, draft: {"none", "draft", "linked", "posted"},
   invoice: {"none", "open", "paid"}, receipts: Seq(Amount), latest: Nat]

RowOK(row) ==
  /\ row.finance # "none" => row.status = "accepted"
  /\ row.finance \in {"ran", "executed"} => row.draft # "none"
  /\ row.invoice = "none" <=> row.draft \in {"none", "draft"}
  /\ row.invoice = "paid" => Collected(row) >= row.total
  /\ row.latest <= Len(row.receipts)

Later(old, new) ==
  /\ new.total = old.total
  /\ old.release = "executed" => new.release = "executed"
  /\ old.status # "draft" => new.status # "draft"
  /\ old.status = "accepted" => new.status = "accepted"
  /\ old.finance # "none" => new.finance # "none"
  /\ old.finance = "executed" => new.finance = "executed"
  /\ old.draft # "none" => new.draft # "none"
  /\ old.draft = "posted" => new.draft = "posted"
  /\ old.invoice # "none" => new.invoice # "none"
  /\ old.invoice = "paid" => new.invoice = "paid"
  /\ Len(old.receipts) <= Len(new.receipts)

RowsOK == quotes \in Seq(Row) /\ \A q \in Quote: RowOK(quotes[q])

(* The next statement of a handler that moves a row finds it as it left it.   *)
RowCpu ==
  /\ cpu.at \in {"run", "executed"} =>
       /\ cpu = [at |-> cpu.at, quote |-> cpu.quote, which |-> cpu.which]
       /\ cpu.quote \in Quote /\ cpu.which \in {"release", "finance"}
       /\ cpu.at = "run" => quotes[cpu.quote][cpu.which] = "approved"
       /\ cpu.at = "executed" => quotes[cpu.quote][cpu.which] = "ran"
       /\ cpu.which = "finance" => quotes[cpu.quote].draft # "none"
  /\ cpu.at \in {"accept", "finance"} =>
       /\ cpu = [at |-> cpu.at, quote |-> cpu.quote]
       /\ cpu.quote \in Quote /\ quotes[cpu.quote].finance = "none"
       /\ cpu.at = "accept" => quotes[cpu.quote].status = "signed"
       /\ cpu.at = "finance" => quotes[cpu.quote].status = "accepted"
  /\ cpu.at = "posted" => cpu.quote \in Quote /\ quotes[cpu.quote].draft = "linked"
  /\ cpu.at = "paid" => cpu.quote \in Quote /\ quotes[cpu.quote].invoice # "none"

(* A handoff packet is of an offer, or of a closeout with its task.          *)
SourceOK(n, source) ==
  /\ n \in Cycle
  /\ source \in Source(n)
  /\ n > 0 => PaymentOf(source.closeout) \in tasks

(* The quote of a running handoff is new.                                    *)
AskCpu ==
  cpu.at \in {"ask", "handoff"} =>
    /\ cpu = [at |-> cpu.at, cycle |-> cpu.cycle, source |-> cpu.source]
    /\ SourceOK(cpu.cycle, cpu.source) /\ ~HandedOver(cpu.cycle, cpu.source)
    /\ Len(quotes) \in Quote
    /\ \A x \in handoffs \cup packets: x.quote # Len(quotes)
    /\ cpu.at = "ask" => quotes[Len(quotes)].release = "none"

CloseCpu ==
  cpu.at = "close" =>
    cpu.payment \in packets \cap tasks /\ cpu.payment.stage = "payment"

HandoffsOK ==
  /\ IsFiniteSet(handoffs)
  /\ \A h \in handoffs:
       /\ h = [cycle |-> h.cycle, quote |-> h.quote, source |-> h.source]
       /\ h.quote \in Quote
       /\ SourceOK(h.cycle, h.source)
  /\ \A g, h \in handoffs:
       g.quote = h.quote \/ (g.cycle = h.cycle /\ g.source = h.source) => g = h

PacketRow == [cycle: Cycle, stage: Stage, quote: Nat, receipt: Nat]

(* What a packet certifies, and the packet it was made from.                 *)
PacketOK(p) ==
  LET row == quotes[p.quote] IN
  /\ p.quote \in Quote /\ p.receipt <= Len(row.receipts)
  /\ \E h \in handoffs: h.cycle = p.cycle /\ h.quote = p.quote
  /\ p.stage = "release" => row.release = "executed" /\ row.status # "draft"
  /\ p.stage = "acceptance" =>
       /\ row.status = "accepted" /\ row.finance # "none"
       /\ Packet(p.cycle, "release", p.quote, 0) \in packets
  /\ p.stage = "draft" =>
       /\ row.finance = "executed"
       /\ Packet(p.cycle, "acceptance", p.quote, 0) \in packets
  /\ p.stage = "posting" =>
       row.draft = "posted" /\ Packet(p.cycle, "draft", p.quote, 0) \in packets
  /\ p.stage = "payment" =>
       /\ row.invoice = "paid" /\ p.receipt # 0
       /\ Packet(p.cycle, "posting", p.quote, 0) \in packets
  /\ p.stage = "closeout" => PaymentOf(p) \in packets /\ PaymentOf(p) \in tasks
  /\ p.stage \notin {"payment", "closeout"} => p.receipt = 0

PacketsOK ==
  /\ packets \subseteq PacketRow
  /\ \A p \in packets: PacketOK(p)
  /\ \A p \in tasks: p \in packets /\ p.stage = "payment"

(* The receipts of a quote that a renewal was or may be made from.           *)
Renewing(q) == {p.receipt: p \in {x \in packets: x.stage = "payment" /\ x.quote = q}}

ReceiptsOK ==
  /\ extras \in 0..MaxExtras
  /\ \A q \in Quote:
       /\ quotes[q].invoice # "paid" => Renewing(q) = {}
       /\ Cardinality(Renewing(q) \cup {quotes[q].latest}) <= 1 + extras

RenewalInv ==
  /\ RowsOK /\ RowCpu /\ AskCpu /\ CloseCpu
  /\ HandoffsOK /\ PacketsOK /\ ReceiptsOK

-----------------------------------------------------------------------------
(* One row.                                                                  *)

LEMMA AmountsAreNatural ==
  ASSUME NEW r \in Seq(Amount), NEW i \in 1..Len(r)
  PROVE  r[i] \in Amount /\ r[i] \in Nat
<1>1. r[i] \in Amount  OBVIOUS
<1>2. Amount \subseteq Nat  BY RenewalAssumption
<1> QED  BY <1>1, <1>2

LEMMA SameReceipts ==
  \A old, new: old.receipts = new.receipts => Collected(old) = Collected(new)
BY DEF Collected

(* What is collected is a sum of amounts, and a receipt adds its amount.     *)
LEMMA CollectedNat ==
  ASSUME NEW row \in Row
  PROVE  Collected(row) \in Nat
<1>1. row.receipts \in Seq(Amount)  BY DEF Row
<1>2. DOMAIN row.receipts = 1..Len(row.receipts) /\ Len(row.receipts) \in Nat  BY <1>1
<1>3. IsFiniteSet(DOMAIN row.receipts)  BY <1>2, FS_Interval
<1>4. \A i \in DOMAIN row.receipts: row.receipts[i] \in Nat
  BY <1>1, <1>2, AmountsAreNatural
<1> QED  BY <1>3, <1>4, SumNat DEF Collected, SumFunction

LEMMA ReceiptAdds ==
  ASSUME NEW row \in Row, NEW amount \in Amount, NEW new,
         new.receipts = Append(row.receipts, amount)
  PROVE  Collected(new) = Collected(row) + amount
<1> DEFINE r == row.receipts
           s == Append(r, amount)
           n == Len(r)
<1>1. r \in Seq(Amount) /\ n \in Nat /\ amount \in Nat  BY RenewalAssumption DEF Row
<1>2. DOMAIN r = 1..n /\ DOMAIN s = (1..n) \cup {n + 1} /\ s[n + 1] = amount
  BY <1>1
<1>3. \A i \in 1..n: s[i] = r[i] /\ r[i] \in Nat
  <2>1. \A i \in 1..n: s[i] = r[i]  BY <1>1
  <2> QED  BY <1>1, <2>1, AmountsAreNatural
<1>4. IsFiniteSet(1..n) /\ n + 1 \notin 1..n
  <2>1. IsFiniteSet(1..n)  BY <1>1, FS_Interval
  <2> QED  BY <1>1, <2>1
<1>5. \A i \in (1..n) \cup {n + 1}: s[i] \in Int  BY <1>1, <1>2, <1>3
<1> HIDE DEF r, s, n
<1>6. SumFunctionOnSet(s, (1..n) \cup {n + 1}) = s[n + 1] + SumFunctionOnSet(s, 1..n)
  BY <1>4, <1>5, SumAdd
<1>7. SumFunctionOnSet(s, 1..n) = SumFunctionOnSet(r, 1..n)
  BY <1>3, <1>4, SumSame
<1>8. SumFunctionOnSet(r, 1..n) \in Nat  BY <1>3, <1>4, SumNat
<1>9. Collected(new) = SumFunctionOnSet(s, (1..n) \cup {n + 1})
  BY <1>2 DEF Collected, SumFunction, s, r
<1>10. Collected(row) = SumFunctionOnSet(r, 1..n)
  BY <1>2 DEF Collected, SumFunction, r
<1> QED  BY <1>1, <1>2, <1>6, <1>7, <1>8, <1>9, <1>10

LEMMA LaterIsReflexive ==
  ASSUME NEW row \in Row
  PROVE  Later(row, row)
<1>1. Len(row.receipts) \in Nat  BY DEF Row
<1> QED  BY <1>1 DEF Later

-----------------------------------------------------------------------------
(* The handlers that move a row.                                             *)

(* One row gets later, and a later receipt of a paid invoice is counted.     *)
Moves(q, new) ==
  /\ q \in Quote /\ new \in Row /\ RowOK(new) /\ Later(quotes[q], new)
  /\ quotes' = [quotes EXCEPT ![q] = new]
  /\ UNCHANGED <<handoffs, packets, tasks>>
  /\ extras' \in {extras, extras + 1} /\ extras' \in 0..MaxExtras
  /\ new.latest # quotes[q].latest /\ quotes[q].invoice = "paid" => extras' = extras + 1

Rewritten ==
  /\ quotes' \in Seq(Row) /\ Len(quotes') = Len(quotes) /\ Quote' = Quote
  /\ \A q \in Quote: quotes'[q] \in Row /\ Later(quotes[q], quotes'[q])

LEMMA MovesRow ==
  ASSUME RowsOK, NEW q, NEW new, Moves(q, new)
  PROVE  /\ RowsOK' /\ Rewritten
         /\ quotes'[q] = new
         /\ \A r \in Quote \ {q}: quotes'[r] = quotes[r]
<1>1. q \in 1..Len(quotes) /\ new \in Row /\ quotes \in Seq(Row)
  BY DEF Moves, RowsOK, Quote
<1>2. quotes' = [quotes EXCEPT ![q] = new]  BY DEF Moves
<1>3. quotes' \in Seq(Row) /\ Len(quotes') = Len(quotes)  BY <1>1, <1>2
<1>4. Quote' = Quote  BY <1>3 DEF Quote
<1>5. quotes'[q] = new /\ \A r \in Quote \ {q}: quotes'[r] = quotes[r]
  BY <1>1, <1>2 DEF Quote
<1>6. \A r \in Quote: quotes[r] \in Row  BY <1>1 DEF Quote
<1>7. \A r \in Quote: quotes'[r] \in Row /\ Later(quotes[r], quotes'[r])
  BY <1>1, <1>5, <1>6, LaterIsReflexive DEF Moves
<1>8. \A r \in Quote: RowOK(quotes'[r])  BY <1>5 DEF RowsOK, Moves
<1>9. RowsOK'  BY <1>3, <1>4, <1>8 DEF RowsOK
<1> QED  BY <1>3, <1>4, <1>5, <1>7, <1>9 DEF Rewritten

(* A statement that changes no receipt.                                      *)
LEMMA SetMoves ==
  ASSUME RowsOK, ReceiptsOK, NEW q \in Quote, NEW new \in Row,
         new.receipts = quotes[q].receipts, new.latest = quotes[q].latest,
         new.total = quotes[q].total,
         quotes' = [quotes EXCEPT ![q] = new],
         UNCHANGED <<handoffs, packets, tasks, extras>>,
         new.finance # "none" => new.status = "accepted",
         new.finance \in {"ran", "executed"} => new.draft # "none",
         new.invoice = "none" <=> new.draft \in {"none", "draft"},
         new.invoice = "paid" => quotes[q].invoice = "paid" \/ Collected(new) >= new.total,
         Later(quotes[q], new)
  PROVE  Moves(q, new)
<1> DEFINE row == quotes[q]
<1>1. row \in Row /\ RowOK(row)  BY DEF RowsOK, Quote
<1>2. Collected(new) = Collected(row)  BY SameReceipts
<1>3. RowOK(new)  BY <1>1, <1>2 DEF RowOK
<1>4. Later(quotes[q], new)  OBVIOUS
<1>5. extras' = extras /\ extras \in 0..MaxExtras  BY DEF ReceiptsOK
<1> QED  BY <1>3, <1>4, <1>5 DEF Moves

LEMMA RowOf ==
  ASSUME RowsOK, NEW q \in Quote
  PROVE  /\ quotes[q] \in Row /\ RowOK(quotes[q]) /\ Len(quotes[q].receipts) \in Nat
<1>1. quotes[q] \in Row  BY DEF RowsOK, Quote
<1>2. quotes[q].receipts \in Seq(Amount)  BY <1>1 DEF Row
<1> QED  BY <1>1, <1>2 DEF RowsOK

(* The labels of the handlers that move a row.                               *)
RowLabel == {"idle", "run", "executed", "accept", "finance", "posted", "paid"}

(* What each of those handlers does.                                         *)
RowWork ==
  /\ \E q, new: Moves(q, new)
  /\ RowCpu' /\ cpu'.at \in RowLabel /\ cpu.at \in RowLabel

LEMMA DecideWork ==
  ASSUME RowsOK, RowCpu, ReceiptsOK, NEW q \in Quote, NEW which \in {"release", "finance"},
         NEW verdict \in {"approved", "rejected"}, Decide(q, which, verdict)
  PROVE  RowWork
<1> DEFINE row == quotes[q]
           new == [row EXCEPT ![which] = verdict]
<1>1. /\ cpu' = cpu /\ cpu.at = "idle" /\ row[which] = "pending"
      /\ quotes' = [quotes EXCEPT ![q][which] = verdict]
      /\ UNCHANGED <<handoffs, packets, tasks, extras>>
  BY DEF Decide, Set, Idle
<1>2. row \in Row /\ RowOK(row) /\ Len(row.receipts) \in Nat  BY RowOf
<1>3. quotes' = [quotes EXCEPT ![q] = new]  BY <1>1
<1>4. new \in Row  BY <1>2 DEF Row, Verdict
<1>5. CASE which = "release"
  <2>1. new = [row EXCEPT !.release = verdict] /\ row.release = "pending"  BY <1>1, <1>5
  <2>2. Later(row, new)  BY <1>2, <2>1 DEF Later, Row
  <2>3. Moves(q, new)
    BY <1>1, <1>2, <1>3, <1>4, <2>1, <2>2, SetMoves DEF RowOK, Row
  <2> QED  BY <1>1, <2>3 DEF RowWork, RowCpu, RowLabel
<1>6. CASE which = "finance"
  <2>1. new = [row EXCEPT !.finance = verdict] /\ row.finance = "pending"  BY <1>1, <1>6
  <2>2. Later(row, new)  BY <1>2, <2>1 DEF Later, Row
  <2>3. Moves(q, new)
    BY <1>1, <1>2, <1>3, <1>4, <2>1, <2>2, SetMoves DEF RowOK, Row
  <2> QED  BY <1>1, <2>3 DEF RowWork, RowCpu, RowLabel
<1> QED  BY <1>5, <1>6

LEMMA ExecuteReleaseWork ==
  ASSUME RowsOK, RowCpu, ReceiptsOK, NEW q \in Quote, ExecuteRelease(q)
  PROVE  RowWork
<1> DEFINE row == quotes[q]
           new == [row EXCEPT !.status = IF row.status = "draft" THEN "sent" ELSE row.status]
<1>1. /\ cpu' = [at |-> "run", quote |-> q, which |-> "release"] /\ cpu.at = "idle"
      /\ row.release = "approved" /\ quotes' = [quotes EXCEPT ![q] = new]
      /\ UNCHANGED <<handoffs, packets, tasks, extras>>
  BY DEF ExecuteRelease, Set, Idle
<1>2. row \in Row /\ RowOK(row) /\ Len(row.receipts) \in Nat  BY RowOf
<1>3. new \in Row  BY <1>2 DEF Row
<1>4. Later(row, new)  BY <1>2 DEF Later, Row
<1>5. Moves(q, new)
  <2>1. /\ new.receipts = row.receipts /\ new.latest = row.latest /\ new.total = row.total
        /\ new.finance = row.finance /\ new.draft = row.draft /\ new.invoice = row.invoice
        /\ row.status = "accepted" => new.status = "accepted"
    BY <1>2 DEF Row
  <2> QED
    BY <1>1, <1>2, <1>3, <1>4, <2>1, SetMoves DEF RowOK
<1>6. quotes'[q] = new /\ q \in Quote'  BY <1>5, MovesRow DEF Rewritten
<1>7. quotes'[q]["release"] = "approved"  BY <1>1, <1>2, <1>6 DEF Row
<1>8. RowCpu'  BY <1>1, <1>6, <1>7 DEF RowCpu
<1> QED  BY <1>1, <1>5, <1>8 DEF RowWork, RowLabel

LEMMA ExecuteInvoiceWork ==
  ASSUME RowsOK, RowCpu, ReceiptsOK, NEW q \in Quote, ExecuteInvoice(q)
  PROVE  RowWork
<1> DEFINE row == quotes[q]
           new == [row EXCEPT !.draft = IF row.draft = "none" THEN "draft" ELSE row.draft]
<1>1. /\ cpu' = [at |-> "run", quote |-> q, which |-> "finance"] /\ cpu.at = "idle"
      /\ row.finance = "approved" /\ quotes' = [quotes EXCEPT ![q] = new]
      /\ UNCHANGED <<handoffs, packets, tasks, extras>>
  BY DEF ExecuteInvoice, Set, Idle
<1>2. row \in Row /\ RowOK(row) /\ Len(row.receipts) \in Nat  BY RowOf
<1>3. new \in Row  BY <1>2 DEF Row
<1>4. Later(row, new)  BY <1>2 DEF Later, Row
<1>5. Moves(q, new)
  BY <1>1, <1>2, <1>3, <1>4, SetMoves DEF RowOK, Row
<1>6. quotes'[q] = new /\ q \in Quote'  BY <1>5, MovesRow DEF Rewritten
<1>7. quotes'[q]["finance"] = "approved" /\ quotes'[q].draft # "none"
  BY <1>1, <1>2, <1>6 DEF Row
<1>8. RowCpu'  BY <1>1, <1>6, <1>7 DEF RowCpu
<1> QED  BY <1>1, <1>5, <1>8 DEF RowWork, RowLabel

LEMMA RecordRunWork ==
  ASSUME RowsOK, RowCpu, ReceiptsOK, RecordRun
  PROVE  RowWork
<1>0. PICK q \in Quote, which \in {"release", "finance"}:
        /\ cpu.quote = q /\ cpu.which = which /\ quotes[q][which] = "approved"
        /\ which = "finance" => quotes[q].draft # "none"
  BY DEF RecordRun, RowCpu
<1> DEFINE row == quotes[q]
           new == [row EXCEPT ![which] = "ran"]
<1>1. /\ cpu' = [at |-> "executed", quote |-> q, which |-> which] /\ cpu.at = "run"
      /\ quotes' = [quotes EXCEPT ![q][which] = "ran"]
      /\ UNCHANGED <<handoffs, packets, tasks, extras>>
  <2>1. cpu.at = "run" /\ cpu' = [cpu EXCEPT !.at = "executed"]  BY DEF RecordRun
  <2>2. cpu = [at |-> "run", quote |-> q, which |-> which]  BY <1>0, <2>1 DEF RowCpu
  <2>3. cpu' = [at |-> "executed", quote |-> q, which |-> which]  BY <2>1, <2>2
  <2> QED  BY <1>0, <2>1, <2>3 DEF RecordRun, Set
<1>2. row \in Row /\ RowOK(row) /\ Len(row.receipts) \in Nat  BY RowOf
<1>3. quotes' = [quotes EXCEPT ![q] = new]  BY <1>1
<1>4. new \in Row  BY <1>2 DEF Row, Verdict
<1>5. Moves(q, new) /\ new[which] = "ran" /\ (which = "finance" => new.draft # "none")
  <2>1. CASE which = "release"
    <3>1. new = [row EXCEPT !.release = "ran"] /\ row.release = "approved"  BY <1>0, <2>1
    <3>2. Later(row, new)  BY <1>2, <3>1 DEF Later, Row
    <3> QED
      BY <1>1, <1>2, <1>3, <1>4, <2>1, <3>1, <3>2, SetMoves DEF RowOK, Row
  <2>2. CASE which = "finance"
    <3>1. new = [row EXCEPT !.finance = "ran"] /\ row.finance = "approved"  BY <1>0, <2>2
    <3>2. Later(row, new)  BY <1>2, <3>1 DEF Later, Row
    <3> QED
      BY <1>0, <1>1, <1>2, <1>3, <1>4, <2>2, <3>1, <3>2, SetMoves DEF RowOK, Row
  <2> QED  BY <2>1, <2>2
<1>6. quotes'[q] = new /\ q \in Quote'  BY <1>5, MovesRow DEF Rewritten
<1>7. RowCpu'  BY <1>1, <1>5, <1>6 DEF RowCpu
<1> QED  BY <1>1, <1>5, <1>7 DEF RowWork, RowLabel

LEMMA MarkExecutedWork ==
  ASSUME RowsOK, RowCpu, ReceiptsOK, MarkExecuted
  PROVE  RowWork
<1>0. PICK q \in Quote, which \in {"release", "finance"}:
        /\ cpu.quote = q /\ cpu.which = which /\ quotes[q][which] = "ran"
        /\ which = "finance" => quotes[q].draft # "none"
  BY DEF MarkExecuted, RowCpu
<1> DEFINE row == quotes[q]
           new == [row EXCEPT ![which] = "executed"]
<1>1. /\ cpu' = Idle /\ cpu.at = "executed"
      /\ quotes' = [quotes EXCEPT ![q][which] = "executed"]
      /\ UNCHANGED <<handoffs, packets, tasks, extras>>
  BY <1>0 DEF MarkExecuted, Set
<1>2. row \in Row /\ RowOK(row) /\ Len(row.receipts) \in Nat  BY RowOf
<1>3. quotes' = [quotes EXCEPT ![q] = new]  BY <1>1
<1>4. new \in Row  BY <1>2 DEF Row, Verdict
<1>5. Moves(q, new)
  <2>1. CASE which = "release"
    <3>1. new = [row EXCEPT !.release = "executed"] /\ row.release = "ran"  BY <1>0, <2>1
    <3>2. Later(row, new)  BY <1>2, <3>1 DEF Later, Row
    <3> QED
      BY <1>1, <1>2, <1>3, <1>4, <2>1, <3>1, <3>2, SetMoves DEF RowOK, Row
  <2>2. CASE which = "finance"
    <3>1. new = [row EXCEPT !.finance = "executed"] /\ row.finance = "ran"  BY <1>0, <2>2
    <3>2. Later(row, new)  BY <1>2, <3>1 DEF Later, Row
    <3> QED
      BY <1>0, <1>1, <1>2, <1>3, <1>4, <2>2, <3>1, <3>2, SetMoves DEF RowOK, Row
  <2> QED  BY <2>1, <2>2
<1> QED  BY <1>1, <1>5 DEF RowWork, RowCpu, RowLabel, Idle

LEMMA AcceptWork ==
  ASSUME RowsOK, RowCpu, ReceiptsOK, NEW q \in Quote, Accept(q)
  PROVE  RowWork
<1> DEFINE row == quotes[q]
           new == [row EXCEPT !.status = "signed"]
<1>1. /\ cpu' = [at |-> "accept", quote |-> q] /\ cpu.at = "idle"
      /\ row.status = "sent" /\ quotes' = [quotes EXCEPT ![q] = new]
      /\ UNCHANGED <<handoffs, packets, tasks, extras>>
  BY DEF Accept, Set, Idle
<1>2. row \in Row /\ RowOK(row) /\ Len(row.receipts) \in Nat  BY RowOf
<1>3. new \in Row /\ new.status = "signed" /\ new.finance = "none"
  BY <1>1, <1>2 DEF Row, RowOK
<1>4. Later(row, new)  BY <1>1, <1>2 DEF Later, Row
<1>5. Moves(q, new)
  BY <1>1, <1>2, <1>3, <1>4, SetMoves DEF RowOK, Row
<1>6. quotes'[q] = new /\ q \in Quote'  BY <1>5, MovesRow DEF Rewritten
<1>7. RowCpu'  BY <1>1, <1>3, <1>6 DEF RowCpu
<1> QED  BY <1>1, <1>5, <1>7 DEF RowWork, RowLabel

LEMMA AcceptQuoteWork ==
  ASSUME RowsOK, RowCpu, ReceiptsOK, AcceptQuote
  PROVE  RowWork
<1>0. PICK q \in Quote: /\ cpu = [at |-> "accept", quote |-> q]
                        /\ quotes[q].finance = "none" /\ quotes[q].status = "signed"
  BY DEF AcceptQuote, RowCpu
<1> DEFINE row == quotes[q]
           new == [row EXCEPT !.status = "accepted"]
<1>1. /\ cpu' = [at |-> "finance", quote |-> q]
      /\ quotes' = [quotes EXCEPT ![q] = new]
      /\ UNCHANGED <<handoffs, packets, tasks, extras>>
  BY <1>0 DEF AcceptQuote, Set
<1>2. row \in Row /\ RowOK(row) /\ Len(row.receipts) \in Nat  BY RowOf
<1>3. new \in Row /\ new.status = "accepted" /\ new.finance = "none"
  BY <1>0, <1>2 DEF Row
<1>4. Later(row, new)  BY <1>0, <1>2 DEF Later, Row
<1>5. Moves(q, new)
  BY <1>1, <1>2, <1>3, <1>4, SetMoves DEF RowOK, Row
<1>6. quotes'[q] = new /\ q \in Quote'  BY <1>5, MovesRow DEF Rewritten
<1>7. RowCpu'  BY <1>1, <1>3, <1>6 DEF RowCpu
<1> QED  BY <1>0, <1>1, <1>5, <1>7 DEF RowWork, RowLabel

LEMMA AskFinanceWork ==
  ASSUME RowsOK, RowCpu, ReceiptsOK, AskFinance
  PROVE  RowWork
<1>0. PICK q \in Quote: /\ cpu = [at |-> "finance", quote |-> q]
                        /\ quotes[q].finance = "none" /\ quotes[q].status = "accepted"
  BY DEF AskFinance, RowCpu
<1> DEFINE row == quotes[q]
           new == [row EXCEPT !.finance = "pending"]
<1>1. /\ cpu' = Idle /\ quotes' = [quotes EXCEPT ![q] = new]
      /\ UNCHANGED <<handoffs, packets, tasks, extras>>
  BY <1>0 DEF AskFinance, Set
<1>2. row \in Row /\ RowOK(row) /\ Len(row.receipts) \in Nat  BY RowOf
<1>3. new \in Row /\ new.status = "accepted" /\ new.finance = "pending"
  BY <1>0, <1>2 DEF Row, Verdict
<1>4. Later(row, new)  BY <1>0, <1>2 DEF Later, Row
<1>5. Moves(q, new)
  BY <1>1, <1>2, <1>3, <1>4, SetMoves DEF RowOK, Row
<1> QED  BY <1>0, <1>1, <1>5 DEF RowWork, RowCpu, RowLabel, Idle

LEMMA PostInvoiceWork ==
  ASSUME RowsOK, RowCpu, ReceiptsOK, NEW q \in Quote, PostInvoice(q)
  PROVE  RowWork
<1> DEFINE row == quotes[q]
           new == [row EXCEPT !.draft = "linked", !.invoice = "open"]
<1>1. /\ cpu' = [at |-> "posted", quote |-> q] /\ cpu.at = "idle"
      /\ row.draft = "draft"
      /\ UNCHANGED <<handoffs, packets, tasks, extras>>
  BY DEF PostInvoice, Idle
<1>q. quotes' = [quotes EXCEPT ![q] = new]  BY DEF PostInvoice
<1>2. row \in Row /\ RowOK(row) /\ Len(row.receipts) \in Nat  BY RowOf
<1>3. new \in Row /\ new.draft = "linked" /\ new.invoice = "open" /\ row.invoice = "none"
  BY <1>1, <1>2 DEF Row, RowOK
<1>4. Later(row, new)  BY <1>1, <1>2, <1>3 DEF Later, Row
<1>5. Moves(q, new)
  <2>1. /\ new.receipts = row.receipts /\ new.latest = row.latest /\ new.total = row.total
        /\ new.finance = row.finance /\ new.status = row.status
    BY <1>2 DEF Row
  <2> QED  BY <1>1, <1>q, <1>2, <1>3, <1>4, <2>1, SetMoves DEF RowOK
<1>6. quotes'[q] = new /\ q \in Quote'  BY <1>5, MovesRow DEF Rewritten
<1>7. RowCpu'  BY <1>1, <1>3, <1>6 DEF RowCpu
<1> QED  BY <1>1, <1>5, <1>7 DEF RowWork, RowLabel

LEMMA PostStatusWork ==
  ASSUME RowsOK, RowCpu, ReceiptsOK, PostStatus
  PROVE  RowWork
<1>0. PICK q \in Quote: cpu.quote = q /\ quotes[q].draft = "linked"
  BY DEF PostStatus, RowCpu
<1> DEFINE row == quotes[q]
           new == [row EXCEPT !.draft = "posted"]
<1>1. /\ cpu' = Idle /\ cpu.at = "posted" /\ quotes' = [quotes EXCEPT ![q] = new]
      /\ UNCHANGED <<handoffs, packets, tasks, extras>>
  BY <1>0 DEF PostStatus, Set
<1>2. row \in Row /\ RowOK(row) /\ Len(row.receipts) \in Nat  BY RowOf
<1>3. new \in Row /\ new.draft = "posted"  BY <1>0, <1>2 DEF Row
<1>4. Later(row, new)  BY <1>0, <1>2 DEF Later, Row
<1>5. Moves(q, new)
  BY <1>0, <1>1, <1>2, <1>3, <1>4, SetMoves DEF RowOK, Row
<1> QED  BY <1>0, <1>1, <1>5 DEF RowWork, RowCpu, RowLabel, Idle

LEMMA PayStatusWork ==
  ASSUME RowsOK, RowCpu, ReceiptsOK, PayStatus
  PROVE  RowWork
<1>0. PICK q \in Quote: cpu.quote = q /\ quotes[q].invoice # "none"
  BY DEF PayStatus, RowCpu
<1> DEFINE row == quotes[q]
           status == IF Collected(row) >= row.total THEN "paid" ELSE "open"
           new == [row EXCEPT !.invoice = status]
<1>1. /\ cpu' = Idle /\ cpu.at = "paid" /\ quotes' = [quotes EXCEPT ![q] = new]
      /\ UNCHANGED <<handoffs, packets, tasks, extras>>
  BY <1>0 DEF PayStatus, Set
<1>2. row \in Row /\ RowOK(row) /\ Len(row.receipts) \in Nat  BY RowOf
<1>3. /\ new \in Row /\ new.invoice = status /\ new.receipts = row.receipts
      /\ new.total = row.total /\ new.draft = row.draft /\ new.finance = row.finance
      /\ new.status = row.status /\ new.latest = row.latest /\ new.release = row.release
  BY <1>0, <1>2 DEF Row
<1>4. Collected(new) = Collected(row)  BY <1>3, SameReceipts
<1>5. row.invoice = "paid" => status = "paid"  BY <1>2 DEF RowOK
<1>6. new.invoice = "paid" => Collected(new) >= new.total  BY <1>3, <1>4
<1>7. status \in {"open", "paid"}  OBVIOUS
<1> HIDE DEF status
<1>8. Later(row, new)  BY <1>0, <1>2, <1>3, <1>5, <1>7 DEF Later
<1> HIDE DEF new
<1>9. Moves(q, new)
  BY <1>0, <1>1, <1>2, <1>3, <1>6, <1>7, <1>8, SetMoves DEF RowOK
<1> QED  BY <1>0, <1>1, <1>9 DEF RowWork, RowCpu, RowLabel, Idle

LEMMA RecordPaymentWork ==
  ASSUME RowsOK, RowCpu, ReceiptsOK, NEW q \in Quote, NEW amount \in Amount,
         NEW latest \in BOOLEAN, RecordPayment(q, amount, latest)
  PROVE  RowWork
<1> DEFINE row == quotes[q]
           receipts == Append(row.receipts, amount)
           last == IF latest THEN Len(receipts) ELSE row.latest
           new == [row EXCEPT !.receipts = receipts, !.latest = last]
<1>1. /\ cpu' = [at |-> "paid", quote |-> q] /\ cpu = Idle
      /\ row.invoice # "none"
      /\ row.invoice = "paid" => extras < MaxExtras
      /\ extras' = IF row.invoice = "paid" THEN extras + 1 ELSE extras
      /\ UNCHANGED <<handoffs, packets, tasks>>
  BY Zenon DEF RecordPayment
<1>q. quotes' = [quotes EXCEPT ![q] = new]  BY DEF RecordPayment
<1>2. row \in Row /\ RowOK(row) /\ Len(row.receipts) \in Nat /\ row.latest \in Nat
  BY RowOf DEF Row
<1>r. row.receipts \in Seq(Amount)  BY <1>2 DEF Row
<1>3. receipts \in Seq(Amount) /\ Len(receipts) = Len(row.receipts) + 1  BY <1>r
<1>4. last \in Nat /\ last <= Len(receipts)  BY <1>2, <1>3 DEF RowOK
<1> HIDE DEF receipts, last
<1>5. /\ new \in Row /\ new.receipts = receipts /\ new.latest = last
      /\ new.total = row.total /\ new.draft = row.draft /\ new.finance = row.finance
      /\ new.status = row.status /\ new.release = row.release /\ new.invoice = row.invoice
  BY <1>2, <1>3, <1>4 DEF Row
<1>6. Collected(new) = Collected(row) + amount
  BY <1>2, <1>5, ReceiptAdds DEF receipts
<1>7. Collected(row) \in Nat /\ amount \in Nat /\ row.total \in Nat
  BY <1>2, CollectedNat, RenewalAssumption DEF Row
<1> HIDE DEF new
<1>8. RowOK(new)  BY <1>2, <1>4, <1>5, <1>6, <1>7 DEF RowOK
<1>9. Later(row, new)  BY <1>2, <1>3, <1>5 DEF Later
<1>10. /\ extras' \in {extras, extras + 1} /\ extras' \in 0..MaxExtras
       /\ row.invoice = "paid" => extras' = extras + 1
  BY <1>1, RenewalAssumption DEF ReceiptsOK
<1>11. Moves(q, new)
  BY <1>1, <1>q, <1>5, <1>8, <1>9, <1>10 DEF Moves
<1>12. quotes'[q] = new /\ q \in Quote'  BY <1>11, MovesRow DEF Rewritten
<1>13. cpu'.at = "paid" /\ cpu'.quote = q /\ cpu.at = "idle"  BY <1>1 DEF Idle
<1>14. RowCpu'  BY <1>1, <1>5, <1>12, <1>13 DEF RowCpu
<1> QED  BY <1>11, <1>13, <1>14 DEF RowWork, RowLabel

-----------------------------------------------------------------------------
(* Handoffs and packets.                                                     *)

LEMMA PacketFields ==
  /\ \A n, stage, q, receipt:
       LET p == Packet(n, stage, q, receipt)
       IN  p.cycle = n /\ p.stage = stage /\ p.quote = q /\ p.receipt = receipt
  /\ \A n \in Cycle, stage \in Stage, q \in Nat, receipt \in Nat:
       Packet(n, stage, q, receipt) \in PacketRow
BY DEF Packet, PacketRow

LEMMA PaymentFields ==
  ASSUME NEW p \in PacketRow
  PROVE  /\ PaymentOf(p) \in PacketRow /\ CloseoutOf(p) \in PacketRow
         /\ PaymentOf(p).stage = "payment" /\ CloseoutOf(p).stage = "closeout"
         /\ PaymentOf(p).cycle = p.cycle /\ CloseoutOf(p).cycle = p.cycle
         /\ PaymentOf(p).quote = p.quote /\ CloseoutOf(p).quote = p.quote
         /\ PaymentOf(p).receipt = p.receipt /\ CloseoutOf(p).receipt = p.receipt
         /\ p.stage = "payment" => PaymentOf(CloseoutOf(p)) = p
         /\ p.stage = "closeout" => CloseoutOf(PaymentOf(p)) = p
BY DEF PaymentOf, CloseoutOf, PacketRow, Stage

(* A renewal starts from a payment that is recorded, and has a price.        *)
LEMMA PriceIsPositive ==
  ASSUME RowsOK, PacketsOK, NEW n, NEW source, SourceOK(n, source)
  PROVE  Price(n, source) \in Nat \ {0}
<1>1. CASE n \in {0, 1}  BY <1>1, RenewalAssumption DEF Price
<1>2. CASE n \notin {0, 1}
  <2>1. n > 0 /\ n \in Nat  BY <1>2, RenewalAssumption DEF SourceOK, Cycle
  <2> DEFINE k == source.closeout
             paid == quotes[k.quote].receipts[k.receipt]
  <2>2. k \in packets  BY <1>2, <2>1 DEF SourceOK, Source, PacketsOf
  <2>3. PaymentOf(k) \in tasks  BY <2>1 DEF SourceOK
  <2>4. k \in PacketRow /\ PaymentOf(k) \in packets /\ PacketOK(PaymentOf(k))
    BY <2>2, <2>3 DEF PacketsOK
  <2>5. /\ k.quote \in Quote /\ k.receipt # 0 /\ k.receipt \in Nat
        /\ k.receipt <= Len(quotes[k.quote].receipts)
    BY <2>4, PaymentFields DEF PacketOK, PacketRow
  <2>6. quotes[k.quote].receipts \in Seq(Amount)  BY <2>5, RowOf DEF Row
  <2>7. k.receipt \in 1..Len(quotes[k.quote].receipts)  BY <2>5, <2>6
  <2>8. paid \in Nat  BY <2>6, <2>7, AmountsAreNatural
  <2>9. Price(n, source) = IF paid > RenewalFloor THEN paid ELSE RenewalFloor
    BY <1>2 DEF Price
  <2> HIDE DEF paid
  <2> QED  BY <2>8, <2>9, RenewalAssumption
<1> QED  BY <1>1, <1>2

(* A new packet that is one INSERT certifies what the tables say.            *)
Certifies ==
  \E p \in PacketRow:
    /\ Certify(p) /\ PacketOK(p)
    /\ p.stage # "closeout" /\ (p.stage = "payment" => p.receipt = quotes[p.quote].latest)

LEMMA ReleaseCertifies ==
  ASSUME RowsOK, HandoffsOK, NEW n, QuoteReleasePacket(n)
  PROVE  Certifies
<1>1. PICK h \in handoffs:
        /\ h.cycle = n /\ quotes[h.quote].release = "executed"
        /\ quotes[h.quote].status # "draft" /\ Certify(Packet(n, "release", h.quote, 0))
  BY DEF QuoteReleasePacket
<1> DEFINE p == Packet(n, "release", h.quote, 0)
<1>2. /\ p.cycle = n /\ p.stage = "release" /\ p.quote = h.quote /\ p.receipt = 0
  BY PacketFields
<1>3. n \in Cycle /\ h.quote \in Quote /\ h.quote \in Nat
  BY <1>1 DEF HandoffsOK, SourceOK, Quote
<1>4. p \in PacketRow  BY <1>3, PacketFields DEF Stage
<1>5. Len(quotes[h.quote].receipts) \in Nat  BY <1>3, RowOf
<1> HIDE DEF p
<1>6. PacketOK(p)  BY <1>1, <1>2, <1>3, <1>5 DEF PacketOK
<1> QED  BY <1>1, <1>2, <1>4, <1>6 DEF Certifies, p

(* The packets after a release are made from the packet before them.         *)
LEMMA NextCertifies ==
  ASSUME RowsOK, PacketsOK, NEW n, NEW stage \in {"acceptance", "draft", "posting", "payment"},
         NEW s \in packets, s.cycle = n,
         NEW receipt \in Nat, receipt <= Len(quotes[s.quote].receipts),
         stage # "payment" => receipt = 0,
         Certify(Packet(n, stage, s.quote, receipt)),
         stage = "acceptance" =>
           /\ s.stage = "release"
           /\ quotes[s.quote].status = "accepted" /\ quotes[s.quote].finance # "none",
         stage = "draft" => s.stage = "acceptance" /\ quotes[s.quote].finance = "executed",
         stage = "posting" => s.stage = "draft" /\ quotes[s.quote].draft = "posted",
         stage = "payment" =>
           /\ s.stage = "posting" /\ quotes[s.quote].invoice = "paid"
           /\ receipt # 0 /\ receipt = quotes[s.quote].latest
  PROVE  Certifies
<1> DEFINE p == Packet(n, stage, s.quote, receipt)
<1>1. p.cycle = n /\ p.stage = stage /\ p.quote = s.quote /\ p.receipt = receipt
  BY PacketFields
<1>2. s \in PacketRow /\ PacketOK(s)  BY DEF PacketsOK
<1>3. s.quote \in Quote /\ \E h \in handoffs: h.cycle = n /\ h.quote = s.quote
  BY <1>2 DEF PacketOK
<1>4. p \in PacketRow  BY <1>2, PacketFields DEF PacketRow, Stage
<1>5. s.stage \in {"release", "acceptance", "draft", "posting"} => s.receipt = 0
  BY <1>2 DEF PacketOK
<1>6. s = Packet(n, s.stage, s.quote, s.receipt)  BY <1>2 DEF Packet, PacketRow
<1>7. s.stage \in {"release", "acceptance", "draft", "posting"} =>
        Packet(n, s.stage, s.quote, 0) \in packets
  BY <1>5, <1>6
<1> HIDE DEF p
<1>8. PacketOK(p)  BY <1>1, <1>3, <1>7 DEF PacketOK
<1> QED  BY <1>1, <1>4, <1>8 DEF Certifies, p

LEMMA PacketCertifies ==
  ASSUME RowsOK, PacketsOK, NEW n,
         \/ QuoteAcceptanceHandoff(n) \/ DraftInvoicePacket(n)
         \/ InvoicePostingPacket(n) \/ PaymentCollectionPacket(n)
  PROVE  Certifies
<1>0. \A s \in packets: s.quote \in Quote /\ 0 <= Len(quotes[s.quote].receipts)
  <2> SUFFICES ASSUME NEW s \in packets
               PROVE  s.quote \in Quote /\ 0 <= Len(quotes[s.quote].receipts)
    OBVIOUS
  <2>1. s.quote \in Quote  BY DEF PacketsOK, PacketOK
  <2> QED  BY <2>1, RowOf
<1>1. CASE QuoteAcceptanceHandoff(n)
  <2>1. PICK s \in PacketsOf(n, "release"):
          /\ quotes[s.quote].status = "accepted" /\ quotes[s.quote].finance # "none"
          /\ Certify(Packet(n, "acceptance", s.quote, 0))
    BY <1>1 DEF QuoteAcceptanceHandoff
  <2>2. s \in packets /\ s.cycle = n /\ s.stage = "release"  BY DEF PacketsOf
  <2> QED  BY <1>0, <2>1, <2>2, NextCertifies
<1>2. CASE DraftInvoicePacket(n)
  <2>1. PICK s \in PacketsOf(n, "acceptance"):
          /\ quotes[s.quote].finance = "executed"
          /\ Certify(Packet(n, "draft", s.quote, 0))
    BY <1>2 DEF DraftInvoicePacket
  <2>2. s \in packets /\ s.cycle = n /\ s.stage = "acceptance"  BY DEF PacketsOf
  <2> QED  BY <1>0, <2>1, <2>2, NextCertifies
<1>3. CASE InvoicePostingPacket(n)
  <2>1. PICK s \in PacketsOf(n, "draft"):
          /\ quotes[s.quote].draft = "posted"
          /\ Certify(Packet(n, "posting", s.quote, 0))
    BY <1>3 DEF InvoicePostingPacket
  <2>2. s \in packets /\ s.cycle = n /\ s.stage = "draft"  BY DEF PacketsOf
  <2> QED  BY <1>0, <2>1, <2>2, NextCertifies
<1>4. CASE PaymentCollectionPacket(n)
  <2>1. PICK s \in PacketsOf(n, "posting"):
          /\ MayCollect(quotes[s.quote])
          /\ Certify(Packet(n, "payment", s.quote, quotes[s.quote].latest))
    BY <1>4 DEF PaymentCollectionPacket
  <2>2. s \in packets /\ s.cycle = n /\ s.stage = "posting"  BY DEF PacketsOf
  <2>3. /\ quotes[s.quote].latest \in Nat
        /\ quotes[s.quote].latest <= Len(quotes[s.quote].receipts)
    BY <1>0, <2>2, RowOf DEF RowOK, Row
  <2> QED  BY <2>1, <2>2, <2>3, NextCertifies DEF MayCollect
<1> QED  BY <1>1, <1>2, <1>3, <1>4

-----------------------------------------------------------------------------
(* The steps, as far as renewals are concerned.                              *)

PilotInv ==
  ChainOK /\ CpuOK /\ GateInv /\ RenewalInv /\ crashes \in 0..MaxCrashes

(* A step of the launch, or a crash.                                         *)
Rests ==
  /\ UNCHANGED renewalVars /\ offer \subseteq offer'
  /\ cpu' = cpu \/ cpu'.at \in {"idle", "plan"}
  /\ crashes' = crashes \/ (crashes' = crashes + 1 /\ crashes < MaxCrashes)
  /\ cpu.at \in {"ask", "handoff"} /\ cpu' # cpu => crashes' = crashes + 1

(* A step of a renewal's handler.                                            *)
RenewalStep ==
  \/ RowWork
  \/ \E n \in 0..10: QuoteHandoff(n) \/ CloseoutPacket(n)
  \/ AskRelease \/ HandOver \/ InsertCloseout
  \/ Certifies

LEMMA RestSteps ==
  ASSUME PilotInv, \/ (Evidence \/ Clearing \/ Crash) /\ UNCHANGED renewalVars
                   \/ UNCHANGED vars
  PROVE  Rests
<1>1. CASE Evidence /\ UNCHANGED renewalVars
  BY <1>1 DEF Rests, Evidence, Install, OwnerBrief, OperatorWorkbench, AccountantReview,
             LaunchReadiness, RemediationPlan, gateVars
<1>2. CASE Clearing /\ UNCHANGED renewalVars
  <2>1. ASSUME NEW p \in Readiness, NEW a \in Action, ResolveAction(p, a)  PROVE Rests
    <3>1. cpu = Idle /\ offer' = offer /\ crashes' = crashes  BY <2>1 DEF ResolveAction
    <3>2. cpu' = [at |-> "plan", plan |-> p] \/ cpu' = Idle
      BY <2>1, Zenon DEF ResolveAction
    <3>3. cpu'.at \in {"idle", "plan"}  BY <3>2 DEF Idle
    <3>4. UNCHANGED renewalVars  BY <1>2
    <3> QED  BY <3>1, <3>3, <3>4 DEF Rests, Idle
  <2>2. ASSUME NEW p \in Readiness, LaunchClearance(p)  PROVE Rests
    BY <1>2, <2>2 DEF LaunchClearance, Rests
  <2>3. ASSUME NEW c \in clearance, PaidOffer(c)  PROVE Rests
    BY <1>2, <2>3 DEF PaidOffer, Rests
  <2>4. CASE ResolvePlan
    BY <1>2, <2>4 DEF ResolvePlan, Rests, Idle
  <2> QED  BY <1>2, <2>1, <2>2, <2>3, <2>4 DEF Clearing
<1>3. CASE Crash /\ UNCHANGED renewalVars
  BY <1>3 DEF Rests, Crash, launchVars, Idle
<1>4. CASE UNCHANGED vars
  BY <1>4 DEF Rests, vars, launchVars
<1> QED  BY <1>1, <1>2, <1>3, <1>4

LEMMA RenewalSteps ==
  ASSUME PilotInv, RenewalNext
  PROVE  RenewalStep
<1> USE DEF PilotInv, RenewalInv
<1>1. CASE RenewalPackets
  <2>1. PICK n \in 0..10:
          \/ QuoteHandoff(n) \/ QuoteReleasePacket(n) \/ QuoteAcceptanceHandoff(n)
          \/ DraftInvoicePacket(n) \/ InvoicePostingPacket(n)
          \/ PaymentCollectionPacket(n) \/ CloseoutPacket(n)
    BY <1>1, PacketsAreGeneric
  <2> QED  BY <2>1, ReleaseCertifies, PacketCertifies DEF RenewalStep
<1>2. ASSUME NEW q \in Quote, NEW which \in {"release", "finance"},
             NEW verdict \in {"approved", "rejected"}, Decide(q, which, verdict)
      PROVE  RowWork
  BY <1>2, DecideWork
<1>3. ASSUME NEW q \in Quote,
             ExecuteRelease(q) \/ ExecuteInvoice(q) \/ Accept(q) \/ PostInvoice(q)
      PROVE  RowWork
  BY <1>3, ExecuteReleaseWork, ExecuteInvoiceWork, AcceptWork, PostInvoiceWork
<1>4. ASSUME NEW q \in Quote, NEW amount \in Amount, NEW latest \in BOOLEAN,
             RecordPayment(q, amount, latest)
      PROVE  RowWork
  BY <1>4, RecordPaymentWork
<1>5. CASE Running
  BY <1>5, RecordRunWork, MarkExecutedWork, AcceptQuoteWork, AskFinanceWork, PostStatusWork,
     PayStatusWork DEF Running, RenewalStep
<1>6. ASSUME NEW q \in Quote,
             \/ \E which \in {"release", "finance"}, verdict \in {"approved", "rejected"}:
                  Decide(q, which, verdict)
             \/ ExecuteRelease(q) \/ ExecuteInvoice(q)
             \/ Accept(q) \/ PostInvoice(q)
             \/ \E amount \in Amount, latest \in BOOLEAN: RecordPayment(q, amount, latest)
      PROVE  RowWork
  <2>1. CASE \E which \in {"release", "finance"}, verdict \in {"approved", "rejected"}:
               Decide(q, which, verdict)
    BY <1>2, <2>1
  <2>2. CASE \E amount \in Amount, latest \in BOOLEAN: RecordPayment(q, amount, latest)
    BY <1>4, <2>2
  <2> QED  BY <1>3, <1>6, <2>1, <2>2
<1> QED  BY <1>1, <1>5, <1>6 DEF RenewalNext, RenewalStep

(* Only a crash is counted as one.                                           *)
LEMMA NoCrash ==
  ASSUME RenewalNext
  PROVE  crashes' = crashes
<1>1. CASE RenewalPackets
  <2>1. PICK n \in 0..10:
          \/ QuoteHandoff(n) \/ QuoteReleasePacket(n) \/ QuoteAcceptanceHandoff(n)
          \/ DraftInvoicePacket(n) \/ InvoicePostingPacket(n)
          \/ PaymentCollectionPacket(n) \/ CloseoutPacket(n)
    BY <1>1, PacketsAreGeneric
  <2>2. CASE QuoteHandoff(n) \/ CloseoutPacket(n)
    BY <2>2 DEF QuoteHandoff, CloseoutPacket
  <2>3. CASE QuoteReleasePacket(n) \/ QuoteAcceptanceHandoff(n) \/ DraftInvoicePacket(n)
    BY <2>3 DEF QuoteReleasePacket, QuoteAcceptanceHandoff, DraftInvoicePacket, Certify
  <2>4. CASE InvoicePostingPacket(n) \/ PaymentCollectionPacket(n)
    BY <2>4 DEF InvoicePostingPacket, PaymentCollectionPacket, Certify
  <2> QED  BY <2>1, <2>2, <2>3, <2>4
<1>2. ASSUME NEW q \in Quote, NEW amount \in Amount, NEW latest \in BOOLEAN,
             RecordPayment(q, amount, latest)
      PROVE  crashes' = crashes
  BY <1>2, Zenon DEF RecordPayment
<1>3. ASSUME NEW q \in Quote, PostInvoice(q) PROVE crashes' = crashes
  BY <1>3, Zenon DEF PostInvoice
<1>4. ASSUME NEW q \in Quote, NEW which \in {"release", "finance"},
             NEW verdict \in {"approved", "rejected"}, Decide(q, which, verdict)
      PROVE  crashes' = crashes
  BY <1>4 DEF Decide
<1>5. ASSUME NEW q \in Quote, ExecuteRelease(q) \/ ExecuteInvoice(q) \/ Accept(q)
      PROVE  crashes' = crashes
  BY <1>5 DEF ExecuteRelease, ExecuteInvoice, Accept
<1>6. CASE Running
  BY <1>6 DEF Running, RecordRun, MarkExecuted, AcceptQuote, AskFinance, PostStatus, PayStatus,
             AskRelease, HandOver, InsertCloseout
<1> QED  BY <1>1, <1>2, <1>3, <1>4, <1>5, <1>6 DEF RenewalNext

LEMMA PilotSteps ==
  ASSUME PilotInv, [Next]_vars
  PROVE  Rests \/ (RenewalStep /\ UNCHANGED <<offer, crashes>>)
<1>1. CASE RenewalNext /\ UNCHANGED launchVars
  BY <1>1, RenewalSteps, NoCrash DEF launchVars
<1> QED  BY <1>1, RestSteps DEF Next, PlannedNext

-----------------------------------------------------------------------------
(* Everything a packet, a handoff or a source relies on stays.               *)
Grown ==
  /\ Len(quotes) <= Len(quotes') /\ Quote \subseteq Quote'
  /\ \A q \in Quote: quotes'[q] \in Row /\ Later(quotes[q], quotes'[q])
  /\ handoffs \subseteq handoffs' /\ packets \subseteq packets'
  /\ tasks \subseteq tasks' /\ offer \subseteq offer'

LEMMA AppendsRow ==
  ASSUME RowsOK, NEW new \in Row, RowOK(new), quotes' = Append(quotes, new)
  PROVE  /\ RowsOK' /\ Len(quotes') = Len(quotes) + 1 /\ Quote \subseteq Quote'
         /\ Len(quotes') \in Quote' /\ quotes'[Len(quotes')] = new
         /\ \A q \in Quote: quotes'[q] = quotes[q] /\ Later(quotes[q], quotes'[q])
         /\ Quote' = Quote \cup {Len(quotes')}
<1>1. quotes \in Seq(Row) /\ Len(quotes) \in Nat  BY DEF RowsOK
<1>2. quotes' \in Seq(Row) /\ Len(quotes') = Len(quotes) + 1  BY <1>1
<1>3. Quote' = Quote \cup {Len(quotes')} /\ Len(quotes') \notin Quote
  BY <1>1, <1>2 DEF Quote
<1>4. quotes'[Len(quotes')] = new  BY <1>1, <1>2
<1>5. \A q \in Quote: quotes'[q] = quotes[q]  BY <1>1 DEF Quote
<1>6. \A q \in Quote: Later(quotes[q], quotes'[q])  BY <1>5, RowOf, LaterIsReflexive
<1>7. RowsOK'  BY <1>2, <1>3, <1>4, <1>5 DEF RowsOK
<1> QED  BY <1>2, <1>3, <1>4, <1>5, <1>6, <1>7

(* A new quote is a draft without approvals, invoice and receipts.           *)
LEMMA NewQuoteRow ==
  ASSUME NEW total \in Nat \ {0}
  PROVE  NewQuote(total) \in Row /\ RowOK(NewQuote(total))
<1>1. << >> \in Seq(Amount) /\ Len(<< >>) = 0  OBVIOUS
<1> QED  BY <1>1 DEF NewQuote, Row, RowOK, Verdict

LEMMA HandoffAppends ==
  ASSUME PilotInv, NEW n \in 0..10, QuoteHandoff(n)
  PROVE  \E source:
           /\ SourceOK(n, source) /\ ~HandedOver(n, source)
           /\ cpu = Idle /\ cpu' = [at |-> "ask", cycle |-> n, source |-> source]
           /\ NewQuote(Price(n, source)) \in Row /\ RowOK(NewQuote(Price(n, source)))
           /\ quotes' = Append(quotes, NewQuote(Price(n, source)))
           /\ UNCHANGED <<handoffs, packets, tasks, extras>>
<1>1. PICK source \in Source(n):
        /\ cpu = Idle /\ n <= LastCycle /\ ~HandedOver(n, source)
        /\ n > 0 => PaymentOf(source.closeout) \in tasks
        /\ quotes' = Append(quotes, NewQuote(Price(n, source)))
        /\ cpu' = [at |-> "ask", cycle |-> n, source |-> source]
        /\ UNCHANGED <<handoffs, packets, tasks, extras>>
  BY DEF QuoteHandoff
<1>2. n \in Cycle
  <2>1. CASE n = 0  BY <2>1, RenewalAssumption DEF Cycle
  <2>2. CASE n # 0
    <3>1. PICK k \in packets: k.cycle = n - 1  BY <1>1, <2>2 DEF Source, PacketsOf
    <3>2. k.cycle \in Cycle  BY <3>1 DEF PilotInv, RenewalInv, PacketsOK, PacketRow
    <3> QED  BY <1>1, <3>1, <3>2, <2>2 DEF Cycle
  <2> QED  BY <2>1, <2>2
<1>3. SourceOK(n, source)  BY <1>1, <1>2 DEF SourceOK
<1>4. Price(n, source) \in Nat \ {0}
  BY <1>3, PriceIsPositive DEF PilotInv, RenewalInv
<1> QED  BY <1>1, <1>3, <1>4, NewQuoteRow

(* The request for the release of a new quote, which none was asked for.     *)
LEMMA AskReleaseMoves ==
  ASSUME PilotInv, AskRelease
  PROVE  /\ \E new: Moves(Len(quotes), new)
         /\ cpu' = [at |-> "handoff", cycle |-> cpu.cycle, source |-> cpu.source]
<1> DEFINE q == Len(quotes)
           row == quotes[q]
           new == [row EXCEPT !.release = "pending"]
<1>1. RowsOK /\ ReceiptsOK /\ AskCpu /\ cpu.at = "ask"
  BY DEF PilotInv, RenewalInv, AskRelease
<1>2. /\ q \in Quote /\ row.release = "none"
      /\ cpu = [at |-> cpu.at, cycle |-> cpu.cycle, source |-> cpu.source]
  BY <1>1 DEF AskCpu
<1>3. row \in Row /\ RowOK(row) /\ Len(row.receipts) \in Nat  BY <1>1, <1>2, RowOf
<1>4. quotes' = [quotes EXCEPT ![q].release = "pending"]
      /\ UNCHANGED <<handoffs, packets, tasks, extras>>
  BY DEF AskRelease, Set
<1>5. quotes' = [quotes EXCEPT ![q] = new]  BY <1>4
<1>6. /\ new \in Row /\ new.release = "pending" /\ new.receipts = row.receipts
      /\ new.latest = row.latest /\ new.total = row.total /\ new.status = row.status
      /\ new.finance = row.finance /\ new.draft = row.draft /\ new.invoice = row.invoice
  BY <1>3 DEF Row, Verdict
<1> HIDE DEF new
<1>7. Later(row, new)  BY <1>2, <1>3, <1>6 DEF Later
<1>8. Moves(q, new)
  BY <1>1, <1>2, <1>3, <1>4, <1>5, <1>6, <1>7, SetMoves DEF RowOK
<1>9. cpu' = [at |-> "handoff", cycle |-> cpu.cycle, source |-> cpu.source]
  <2>1. cpu' = [cpu EXCEPT !.at = "handoff"]  BY DEF AskRelease
  <2> QED  BY <1>2, <2>1
<1> QED  BY <1>8, <1>9 DEF q

LEMMA MoveGrows ==
  ASSUME PilotInv, NEW q, NEW new, Moves(q, new), offer' = offer
  PROVE  Grown
<1>1. Rewritten  BY MovesRow DEF PilotInv, RenewalInv
<1>2. Len(quotes) \in Nat  BY DEF PilotInv, RenewalInv, RowsOK
<1>3. UNCHANGED <<handoffs, packets, tasks>>  BY DEF Moves
<1> QED  BY <1>1, <1>2, <1>3 DEF Grown, Rewritten

LEMMA SameRowsGrow ==
  ASSUME PilotInv, quotes' = quotes, handoffs \subseteq handoffs', packets \subseteq packets',
         tasks \subseteq tasks', offer \subseteq offer'
  PROVE  Grown
<1>1. RowsOK /\ Len(quotes) \in Nat /\ Quote' = Quote
  BY DEF PilotInv, RenewalInv, RowsOK, Quote
<1>2. \A q \in Quote: quotes[q] \in Row /\ Later(quotes[q], quotes[q])
  BY <1>1, RowOf, LaterIsReflexive
<1> QED  BY <1>1, <1>2 DEF Grown

LEMMA StepGrows ==
  ASSUME PilotInv, [Next]_vars
  PROVE  Grown
<1>1. CASE Rests
  BY <1>1, SameRowsGrow DEF Rests, renewalVars
<1>2. CASE RenewalStep /\ UNCHANGED <<offer, crashes>>
  <2>1. CASE RowWork  BY <1>2, <2>1, MoveGrows DEF RowWork
  <2>2. CASE AskRelease  BY <1>2, <2>2, AskReleaseMoves, MoveGrows
  <2>3. CASE HandOver
    BY <1>2, <2>3, SameRowsGrow DEF HandOver, rowVars
  <2>4. CASE InsertCloseout
    BY <1>2, <2>4, SameRowsGrow DEF InsertCloseout, rowVars
  <2>5. CASE Certifies
    BY <1>2, <2>5, SameRowsGrow DEF Certifies, Certify, rowVars
  <2>6. ASSUME NEW n \in 0..10, CloseoutPacket(n)  PROVE Grown
    BY <1>2, <2>6, SameRowsGrow DEF CloseoutPacket, rowVars
  <2>7. ASSUME NEW n \in 0..10, QuoteHandoff(n)  PROVE Grown
    <3>1. PICK source:
            /\ NewQuote(Price(n, source)) \in Row /\ RowOK(NewQuote(Price(n, source)))
            /\ quotes' = Append(quotes, NewQuote(Price(n, source)))
            /\ UNCHANGED <<handoffs, packets, tasks, extras>>
      BY <2>7, HandoffAppends
    <3>2. PICK new: new \in Row /\ RowOK(new) /\ quotes' = Append(quotes, new)
      BY <3>1
    <3>3. RowsOK /\ Len(quotes) \in Nat  BY DEF PilotInv, RenewalInv, RowsOK
    <3>4. /\ Len(quotes') = Len(quotes) + 1 /\ Quote \subseteq Quote'
          /\ \A q \in Quote: quotes'[q] = quotes[q] /\ Later(quotes[q], quotes'[q])
      BY <3>2, <3>3, AppendsRow
    <3>5. \A q \in Quote: quotes'[q] \in Row  BY <3>3, <3>4, RowOf
    <3>6. Len(quotes) <= Len(quotes')  BY <3>3, <3>4
    <3>7. \A q \in Quote: quotes'[q] \in Row /\ Later(quotes[q], quotes'[q])
      BY <3>4, <3>5
    <3>8. UNCHANGED <<handoffs, packets, tasks, offer>>  BY <1>2, <3>1
    <3> QED  BY <3>4, <3>6, <3>7, <3>8 DEF Grown
  <2> QED  BY <1>2, <2>1, <2>2, <2>3, <2>4, <2>5, <2>6, <2>7 DEF RenewalStep
<1> QED  BY <1>1, <1>2, PilotSteps

(* What a packet certified is still true.                                    *)
LEMMA PacketStays ==
  ASSUME RowsOK, Grown, NEW p \in PacketRow, PacketOK(p)
  PROVE  PacketOK(p)'
<1> DEFINE old == quotes[p.quote]
           new == quotes'[p.quote]
<1>1. p.quote \in Quote /\ p.receipt \in Nat  BY DEF PacketOK, PacketRow
<1>2. p.quote \in Quote' /\ new \in Row /\ Later(old, new)  BY <1>1 DEF Grown
<1>3. Len(old.receipts) \in Nat  BY <1>1, RowOf
<1>4. Len(new.receipts) \in Nat
  <2>1. new.receipts \in Seq(Amount)  BY <1>2 DEF Row
  <2> QED  BY <2>1
<1>5. p.receipt <= Len(new.receipts)
  BY <1>1, <1>2, <1>3, <1>4 DEF PacketOK, Later
<1>6. \E h \in handoffs': h.cycle = p.cycle /\ h.quote = p.quote  BY DEF PacketOK, Grown
<1>7. packets \subseteq packets' /\ tasks \subseteq tasks'  BY DEF Grown
<1> QED  BY <1>2, <1>5, <1>6, <1>7 DEF PacketOK, Later

LEMMA SourceStays ==
  ASSUME Grown, NEW n, NEW source, SourceOK(n, source)
  PROVE  SourceOK(n, source)'
<1>1. Source(n) \subseteq Source(n)'  BY DEF Source, PacketsOf, Grown
<1> QED  BY <1>1 DEF SourceOK, Grown

-----------------------------------------------------------------------------
(* RenewalInv is inductive, part by part.                                    *)

LEMMA RowsStay ==
  ASSUME PilotInv, [Next]_vars
  PROVE  RowsOK'
<1>0. RowsOK  BY DEF PilotInv, RenewalInv
<1>1. CASE quotes' = quotes  BY <1>0, <1>1 DEF RowsOK, Quote
<1>2. ASSUME NEW q, NEW new, Moves(q, new)  PROVE RowsOK'  BY <1>0, <1>2, MovesRow
<1>3. ASSUME NEW n \in 0..10, QuoteHandoff(n)  PROVE RowsOK'
  <2>1. PICK new: new \in Row /\ RowOK(new) /\ quotes' = Append(quotes, new)
    BY <1>3, HandoffAppends
  <2> QED  BY <1>0, <2>1, AppendsRow
<1>4. CASE Rests  BY <1>1, <1>4 DEF Rests, renewalVars
<1>5. CASE RenewalStep
  BY <1>1, <1>2, <1>3, <1>5, AskReleaseMoves
     DEF RenewalStep, RowWork, CloseoutPacket, HandOver, InsertCloseout, Certifies, Certify,
         rowVars
<1> QED  BY <1>4, <1>5, PilotSteps

LEMMA RowCpuStays ==
  ASSUME PilotInv, [Next]_vars
  PROVE  RowCpu'
<1>0. RowCpu  BY DEF PilotInv, RenewalInv
<1>1. CASE cpu' = cpu /\ quotes' = quotes  BY <1>0, <1>1 DEF RowCpu, Quote
<1>2. CASE cpu'.at \in {"idle", "plan", "ask", "handoff", "close"}  BY <1>2 DEF RowCpu
<1>3. CASE Rests  BY <1>1, <1>2, <1>3 DEF Rests, renewalVars
<1>4. CASE RenewalStep
  <2>1. ASSUME NEW n \in 0..10, QuoteHandoff(n)  PROVE RowCpu'
    BY <1>2, <2>1 DEF QuoteHandoff
  <2>2. ASSUME NEW n \in 0..10, CloseoutPacket(n)  PROVE RowCpu'
    BY <1>2, <2>2 DEF CloseoutPacket
  <2>3. CASE AskRelease  BY <1>2, <2>3, AskReleaseMoves
  <2>4. CASE HandOver \/ InsertCloseout
    BY <1>2, <2>4 DEF HandOver, InsertCloseout, Idle
  <2>5. CASE Certifies  BY <1>1, <2>5 DEF Certifies, Certify, rowVars
  <2> QED  BY <1>4, <2>1, <2>2, <2>3, <2>4, <2>5 DEF RenewalStep, RowWork
<1> QED  BY <1>3, <1>4, PilotSteps

LEMMA AskCpuStays ==
  ASSUME PilotInv, [Next]_vars
  PROVE  AskCpu'
<1>0. AskCpu /\ RowsOK /\ HandoffsOK /\ PacketsOK /\ Grown
  BY StepGrows DEF PilotInv, RenewalInv
<1>1. CASE cpu'.at \notin {"ask", "handoff"}  BY <1>1 DEF AskCpu
<1>2. CASE Rests
  <2>1. CASE cpu' = cpu /\ cpu.at \in {"ask", "handoff"}
    <3>1. quotes' = quotes /\ handoffs' = handoffs /\ packets' = packets
      BY <1>2 DEF Rests, renewalVars
    <3>2. SourceOK(cpu.cycle, cpu.source)  BY <1>0, <2>1 DEF AskCpu
    <3>3. PICK n, source: n = cpu.cycle /\ source = cpu.source  OBVIOUS
    <3>4. SourceOK(n, source)'  BY <1>0, <3>2, <3>3, SourceStays
    <3>5. SourceOK(cpu.cycle, cpu.source)'  BY <2>1, <3>3, <3>4
    <3> QED  BY <1>0, <2>1, <3>1, <3>5 DEF AskCpu, HandedOver, Quote
  <2> QED  BY <1>1, <1>2, <2>1 DEF Rests
<1>3. CASE RenewalStep
  <2>1. ASSUME NEW n \in 0..10, QuoteHandoff(n)  PROVE AskCpu'
    <3>1. PICK source:
            /\ SourceOK(n, source) /\ ~HandedOver(n, source)
            /\ cpu' = [at |-> "ask", cycle |-> n, source |-> source]
            /\ NewQuote(Price(n, source)) \in Row /\ RowOK(NewQuote(Price(n, source)))
            /\ quotes' = Append(quotes, NewQuote(Price(n, source)))
            /\ UNCHANGED <<handoffs, packets>>
      BY <2>1, HandoffAppends
    <3>2. PICK new: /\ new \in Row /\ RowOK(new) /\ new.release = "none"
                    /\ quotes' = Append(quotes, new)
      BY <3>1 DEF NewQuote
    <3>3. /\ Len(quotes') = Len(quotes) + 1 /\ Len(quotes') \in Quote'
          /\ quotes'[Len(quotes')] = new
      BY <1>0, <3>2, AppendsRow
    <3>4. Len(quotes) \in Nat  BY <1>0 DEF RowsOK
    <3>5. \A x \in handoffs \cup packets: x.quote \in Quote
      BY <1>0 DEF HandoffsOK, PacketsOK, PacketOK
    <3>6. \A x \in handoffs' \cup packets': x.quote # Len(quotes')
      BY <3>1, <3>3, <3>4, <3>5 DEF Quote
    <3>7. SourceOK(n, source)'  BY <1>0, <3>1, SourceStays
    <3>8. ~HandedOver(n, source)'  BY <3>1 DEF HandedOver
    <3>9. cpu'.cycle = n /\ cpu'.source = source /\ cpu'.at = "ask"  BY <3>1
    <3> QED  BY <3>1, <3>2, <3>3, <3>6, <3>7, <3>8, <3>9 DEF AskCpu
  <2>2. ASSUME NEW n \in 0..10, CloseoutPacket(n)  PROVE AskCpu'
    BY <1>1, <2>2 DEF CloseoutPacket
  <2>3. CASE AskRelease
    <3>1. /\ cpu' = [at |-> "handoff", cycle |-> cpu.cycle, source |-> cpu.source]
          /\ \E new: Moves(Len(quotes), new)
      BY <2>3, AskReleaseMoves
    <3>2. UNCHANGED <<handoffs, packets>> /\ cpu.at = "ask"
      BY <2>3 DEF AskRelease
    <3>3. Len(quotes') = Len(quotes) /\ Quote' = Quote
      BY <1>0, <3>1, MovesRow DEF Rewritten
    <3>4. PICK n, source: n = cpu.cycle /\ source = cpu.source  OBVIOUS
    <3>5. SourceOK(n, source) /\ ~HandedOver(n, source)
      BY <1>0, <3>2, <3>4 DEF AskCpu
    <3>6. SourceOK(n, source)' /\ ~HandedOver(n, source)'
      BY <1>0, <3>2, <3>5, SourceStays DEF HandedOver
    <3>7. cpu'.cycle = n /\ cpu'.source = source /\ cpu'.at = "handoff"
      BY <3>1, <3>4
    <3>8. /\ Len(quotes') \in Quote'
          /\ \A x \in handoffs' \cup packets': x.quote # Len(quotes')
      BY <1>0, <3>2, <3>3 DEF AskCpu
    <3> QED  BY <3>1, <3>6, <3>7, <3>8 DEF AskCpu
  <2>4. CASE HandOver \/ InsertCloseout
    BY <1>1, <2>4 DEF HandOver, InsertCloseout, Idle
  <2>5. CASE Certifies  BY <1>1, <2>5 DEF Certifies, Certify, Idle
  <2>6. CASE RowWork  BY <1>1, <2>6 DEF RowWork, RowLabel
  <2> QED  BY <1>3, <2>1, <2>2, <2>3, <2>4, <2>5, <2>6 DEF RenewalStep
<1> QED  BY <1>2, <1>3, PilotSteps

LEMMA CloseCpuStays ==
  ASSUME PilotInv, [Next]_vars
  PROVE  CloseCpu'
<1>0. CloseCpu  BY DEF PilotInv, RenewalInv
<1>1. CASE cpu'.at # "close"  BY <1>1 DEF CloseCpu
<1>2. CASE Rests
  BY <1>0, <1>1, <1>2 DEF Rests, renewalVars, CloseCpu
<1>3. CASE RenewalStep
  <2>1. ASSUME NEW n \in 0..10, QuoteHandoff(n)  PROVE CloseCpu'
    BY <1>1, <2>1 DEF QuoteHandoff
  <2>2. ASSUME NEW n \in 0..10, CloseoutPacket(n)  PROVE CloseCpu'
    BY <2>2 DEF CloseoutPacket, PacketsOf, CloseCpu
  <2>3. CASE AskRelease  BY <1>1, <2>3, AskReleaseMoves
  <2>4. CASE HandOver \/ InsertCloseout
    BY <1>1, <2>4 DEF HandOver, InsertCloseout, Idle
  <2>5. CASE Certifies  BY <1>1, <2>5 DEF Certifies, Certify, Idle
  <2>6. CASE RowWork  BY <1>1, <2>6 DEF RowWork, RowLabel
  <2> QED  BY <1>3, <2>1, <2>2, <2>3, <2>4, <2>5, <2>6 DEF RenewalStep
<1> QED  BY <1>2, <1>3, PilotSteps

LEMMA HandoffsStay ==
  ASSUME PilotInv, [Next]_vars
  PROVE  HandoffsOK'
<1>0. HandoffsOK /\ RowsOK /\ Grown  BY StepGrows DEF PilotInv, RenewalInv
<1>1. \A h \in handoffs: h.quote \in Quote' /\ SourceOK(h.cycle, h.source)'
  <2> SUFFICES ASSUME NEW h \in handoffs
               PROVE  h.quote \in Quote' /\ SourceOK(h.cycle, h.source)'
    OBVIOUS
  <2>1. h.quote \in Quote /\ SourceOK(h.cycle, h.source)  BY <1>0 DEF HandoffsOK
  <2> QED  BY <1>0, <2>1, SourceStays DEF Grown
<1>2. CASE handoffs' = handoffs  BY <1>0, <1>1, <1>2 DEF HandoffsOK
<1>3. CASE HandOver
  <2>1. PICK n, source, q: n = cpu.cycle /\ source = cpu.source /\ q = Len(quotes)
    OBVIOUS
  <2> DEFINE new == [cycle |-> n, quote |-> q, source |-> source]
  <2>2. handoffs' = handoffs \cup {new} /\ cpu.at = "handoff" /\ quotes' = quotes
    BY <1>3, <2>1 DEF HandOver, rowVars
  <2>3. /\ SourceOK(n, source) /\ ~HandedOver(n, source) /\ q \in Quote
        /\ \A x \in handoffs: x.quote # q
    BY <2>1, <2>2 DEF PilotInv, RenewalInv, AskCpu
  <2>4. SourceOK(n, source)' /\ q \in Quote'  BY <1>0, <2>3, SourceStays DEF Grown
  <2>5. IsFiniteSet(handoffs')  BY <1>0, <2>2, FS_AddElement DEF HandoffsOK
  <2>6. new = [cycle |-> new.cycle, quote |-> new.quote, source |-> new.source]
        /\ new.cycle = n /\ new.quote = q /\ new.source = source
    OBVIOUS
  <2> HIDE DEF new
  <2>7. \A h \in handoffs: ~(h.quote = q \/ (h.cycle = n /\ h.source = source))
    BY <2>3 DEF HandedOver
  <2>8. \A g, h \in handoffs':
          g.quote = h.quote \/ (g.cycle = h.cycle /\ g.source = h.source) => g = h
    <3> SUFFICES ASSUME NEW g \in handoffs', NEW h \in handoffs',
                        g.quote = h.quote \/ (g.cycle = h.cycle /\ g.source = h.source)
                 PROVE  g = h
      OBVIOUS
    <3>1. CASE g \in handoffs /\ h \in handoffs  BY <1>0, <3>1 DEF HandoffsOK
    <3>2. CASE g = new /\ h \in handoffs  BY <2>6, <2>7, <3>2
    <3>3. CASE g \in handoffs /\ h = new  BY <2>6, <2>7, <3>3
    <3>4. CASE g = new /\ h = new  BY <3>4
    <3> QED  BY <2>2, <3>1, <3>2, <3>3, <3>4
  <2>9. \A h \in handoffs':
          /\ h = [cycle |-> h.cycle, quote |-> h.quote, source |-> h.source]
          /\ h.quote \in Quote'
          /\ SourceOK(h.cycle, h.source)'
    BY <1>0, <1>1, <2>2, <2>4, <2>6 DEF HandoffsOK
  <2> QED  BY <2>5, <2>8, <2>9 DEF HandoffsOK
<1>4. ASSUME NEW q, NEW new, Moves(q, new)  PROVE HandoffsOK'
  BY <1>2, <1>4 DEF Moves
<1>5. CASE RenewalStep
  <2>1. ASSUME NEW n \in 0..10, QuoteHandoff(n)  PROVE HandoffsOK'
    BY <1>2, <2>1 DEF QuoteHandoff
  <2> QED
    BY <1>2, <1>3, <1>4, <1>5, <2>1, AskReleaseMoves
       DEF RenewalStep, RowWork, CloseoutPacket, InsertCloseout, Certifies, Certify
<1>6. CASE Rests  BY <1>2, <1>6 DEF Rests, renewalVars
<1> QED  BY <1>5, <1>6, PilotSteps

LEMMA PacketsStay ==
  ASSUME PilotInv, [Next]_vars
  PROVE  PacketsOK'
<1>0. PacketsOK /\ RowsOK /\ CloseCpu /\ Grown  BY StepGrows DEF PilotInv, RenewalInv
<1>1. \A p \in packets: p \in PacketRow /\ PacketOK(p)'
  <2> SUFFICES ASSUME NEW p \in packets  PROVE p \in PacketRow /\ PacketOK(p)'
    OBVIOUS
  <2>1. p \in PacketRow /\ PacketOK(p)  BY <1>0 DEF PacketsOK
  <2> QED  BY <1>0, <2>1, PacketStays
<1>2. \A p \in tasks: p \in packets' /\ p.stage = "payment"
  BY <1>0 DEF PacketsOK, Grown
<1>3. CASE packets' = packets /\ tasks' = tasks
  BY <1>1, <1>2, <1>3 DEF PacketsOK
<1>4. ASSUME NEW n \in 0..10, CloseoutPacket(n)  PROVE PacketsOK'
  <2>1. PICK p \in PacketsOf(n, "payment"): tasks' = tasks \cup {p} /\ packets' = packets
    BY <1>4 DEF CloseoutPacket
  <2> QED  BY <1>1, <1>2, <2>1 DEF PacketsOK, PacketsOf
<1>5. CASE InsertCloseout
  <2>1. PICK p: p = cpu.payment  OBVIOUS
  <2>2. packets' = packets \cup {CloseoutOf(p)} /\ tasks' = tasks /\ quotes' = quotes
        /\ handoffs' = handoffs /\ cpu.at = "close"
    BY <1>5, <2>1 DEF InsertCloseout, rowVars
  <2>3. p \in packets /\ p \in tasks /\ p.stage = "payment"
    BY <1>0, <2>1, <2>2 DEF CloseCpu
  <2>4. p \in PacketRow /\ PacketOK(p)'  BY <1>1, <2>3
  <2> DEFINE k == CloseoutOf(p)
  <2>5. /\ k \in PacketRow /\ k.stage = "closeout" /\ k.cycle = p.cycle
        /\ k.quote = p.quote /\ k.receipt = p.receipt /\ PaymentOf(k) = p
    BY <2>3, <2>4, PaymentFields
  <2> HIDE DEF k
  <2>6. p \in packets' /\ p \in tasks'  BY <2>2, <2>3
  <2>7. PacketOK(k)'  BY <2>3, <2>4, <2>5, <2>6 DEF PacketOK
  <2> QED  BY <1>1, <1>2, <2>2, <2>5, <2>7 DEF PacketsOK, k
<1>6. CASE Certifies
  <2>1. PICK p \in PacketRow: /\ PacketOK(p) /\ packets' = packets \cup {p}
                              /\ UNCHANGED <<handoffs, tasks>>
    BY <1>6 DEF Certifies, Certify
  <2>2. PacketOK(p)'  BY <1>0, <2>1, PacketStays
  <2> QED  BY <1>1, <1>2, <2>1, <2>2 DEF PacketsOK
<1>7. ASSUME NEW q, NEW new, Moves(q, new)  PROVE PacketsOK'
  BY <1>3, <1>7 DEF Moves
<1>8. CASE RenewalStep
  <2>1. ASSUME NEW n \in 0..10, QuoteHandoff(n)  PROVE PacketsOK'
    BY <1>3, <2>1 DEF QuoteHandoff
  <2> QED
    BY <1>3, <1>4, <1>5, <1>6, <1>7, <1>8, <2>1, AskReleaseMoves
       DEF RenewalStep, RowWork, HandOver
<1>9. CASE Rests  BY <1>3, <1>9 DEF Rests, renewalVars
<1> QED  BY <1>8, <1>9, PilotSteps

(* The receipts a quote is renewed for are finitely many.                    *)
LEMMA RenewingIsFinite ==
  ASSUME RowsOK, PacketsOK, NEW q \in Quote
  PROVE  IsFiniteSet(Renewing(q))
<1>1. Len(quotes[q].receipts) \in Nat  BY RowOf
<1>2. Renewing(q) \subseteq 0..Len(quotes[q].receipts)
  <2> SUFFICES ASSUME NEW p \in packets, p.quote = q
               PROVE  p.receipt \in 0..Len(quotes[q].receipts)
    BY DEF Renewing
  <2>1. p.receipt \in Nat /\ p.receipt <= Len(quotes[q].receipts)
    BY DEF PacketsOK, PacketOK, PacketRow
  <2> QED  BY <1>1, <2>1
<1>3. IsFiniteSet(0..Len(quotes[q].receipts))  BY <1>1, FS_Interval
<1> QED  BY <1>2, <1>3, FS_Subset

LEMMA ReceiptsStay ==
  ASSUME PilotInv, [Next]_vars
  PROVE  ReceiptsOK'
<1>0. RowsOK /\ PacketsOK /\ ReceiptsOK /\ HandoffsOK /\ CloseCpu /\ extras \in Nat
  BY RenewalAssumption DEF PilotInv, RenewalInv, ReceiptsOK
<1>1. CASE UNCHANGED <<quotes, packets, extras>>
  BY <1>0, <1>1 DEF ReceiptsOK, Renewing, Quote
<1>2. ASSUME NEW q, NEW new, Moves(q, new)  PROVE ReceiptsOK'
  <2>1. /\ q \in Quote /\ Quote' = Quote /\ quotes'[q] = new /\ packets' = packets
        /\ \A r \in Quote \ {q}: quotes'[r] = quotes[r]
        /\ Later(quotes[q], new)
    BY <1>0, <1>2, MovesRow DEF Moves, Rewritten
  <2>2. extras' \in {extras, extras + 1} /\ extras' \in 0..MaxExtras
    BY <1>2 DEF Moves
  <2>3. 1 <= 1 + extras' /\ \A c \in Nat: c <= 1 + extras => c <= 1 + extras'
    <3>1. extras \in Nat  BY <1>0
    <3>2. CASE extras' = extras  BY <3>1, <3>2
    <3>3. CASE extras' = extras + 1  BY <3>1, <3>3
    <3> QED  BY <2>2, <3>2, <3>3
  <2>4. \A r \in Quote: Renewing(r)' = Renewing(r)  BY <2>1 DEF Renewing
  <2>5. ASSUME NEW r \in Quote
        PROVE  /\ quotes'[r].invoice # "paid" => Renewing(r) = {}
               /\ Cardinality(Renewing(r) \cup {quotes'[r].latest}) <= 1 + extras'
    <3> DEFINE R == Renewing(r)
    <3>1. IsFiniteSet(R) /\ IsFiniteSet(R \cup {quotes[r].latest})
      <4>1. IsFiniteSet(R)  BY <1>0, RenewingIsFinite
      <4> QED  BY <4>1, FS_AddElement
    <3>2. /\ quotes[r].invoice # "paid" => R = {}
          /\ Cardinality(R \cup {quotes[r].latest}) <= 1 + extras
      BY <1>0 DEF ReceiptsOK
    <3>3. Cardinality(R \cup {quotes[r].latest}) \in Nat  BY <3>1, FS_CardinalityType
    <3> HIDE DEF R
    <3>4. CASE quotes'[r].latest = quotes[r].latest
      <4>1. quotes'[r].invoice # "paid" => quotes[r].invoice # "paid"
        BY <2>1 DEF Later
      <4>2. R \cup {quotes'[r].latest} = R \cup {quotes[r].latest}  BY <3>4
      <4>3. Cardinality(R \cup {quotes'[r].latest}) <= 1 + extras
        BY <3>2, <4>2
      <4>4. Cardinality(R \cup {quotes'[r].latest}) <= 1 + extras'
        <5>1. Cardinality(R \cup {quotes'[r].latest}) \in Nat  BY <3>3, <4>2
        <5> QED  BY <2>3, <4>3, <5>1, Zenon
      <4> QED  BY <3>2, <4>1, <4>4 DEF R
    <3>5. CASE quotes'[r].latest # quotes[r].latest
      <4>1. r = q  BY <2>1, <3>5
      <4>2. CASE quotes[r].invoice = "paid"
        <5>1. extras' = extras + 1  BY <1>2, <2>1, <3>5, <4>1, <4>2 DEF Moves
        <5>2. quotes'[r].invoice = "paid"  BY <2>1, <4>1, <4>2 DEF Later
        <5>3. Cardinality(R) <= 1 + extras /\ Cardinality(R) \in Nat
          <6>1. R \subseteq R \cup {quotes[r].latest}  OBVIOUS
          <6>2. /\ Cardinality(R) <= Cardinality(R \cup {quotes[r].latest})
                /\ Cardinality(R) \in Nat
            BY <3>1, <6>1, FS_Subset, FS_CardinalityType
          <6> QED  BY <1>0, <3>2, <3>3, <6>2
        <5>4. Cardinality(R \cup {quotes'[r].latest}) <= Cardinality(R) + 1
              /\ Cardinality(R \cup {quotes'[r].latest}) \in Nat
          <6>1. /\ IsFiniteSet(R \cup {quotes'[r].latest})
                /\ Cardinality(R \cup {quotes'[r].latest})
                     \in {Cardinality(R), Cardinality(R) + 1}
            BY <3>1, FS_AddElement
          <6> QED  BY <5>3, <6>1
        <5> QED  BY <1>0, <5>1, <5>2, <5>3, <5>4 DEF R
      <4>3. CASE quotes[r].invoice # "paid"
        <5>1. R = {}  BY <3>2, <4>3
        <5>2. Cardinality(R \cup {quotes'[r].latest}) = 1
          <6>1. R \cup {quotes'[r].latest} = {quotes'[r].latest}  BY <5>1
          <6> QED  BY <6>1, FS_Singleton
        <5>4. Cardinality(R \cup {quotes'[r].latest}) <= 1 + extras'
          BY <2>3, <5>2
        <5> QED  BY <5>1, <5>4 DEF R
      <4> QED  BY <4>2, <4>3
    <3> QED  BY <3>4, <3>5
  <2> QED  BY <2>1, <2>2, <2>4, <2>5 DEF ReceiptsOK
<1>3. ASSUME NEW n \in 0..10, QuoteHandoff(n)  PROVE ReceiptsOK'
  <2>1. PICK source:
          /\ NewQuote(Price(n, source)) \in Row /\ RowOK(NewQuote(Price(n, source)))
          /\ quotes' = Append(quotes, NewQuote(Price(n, source)))
          /\ UNCHANGED <<packets, extras>>
    BY <1>3, HandoffAppends
  <2>2. PICK new: /\ new \in Row /\ RowOK(new) /\ new.latest = 0
                  /\ quotes' = Append(quotes, new)
    BY <2>1 DEF NewQuote
  <2> DEFINE l == Len(quotes')
  <2>3. /\ Quote' = Quote \cup {l} /\ quotes'[l] = new /\ l = Len(quotes) + 1
        /\ \A q \in Quote: quotes'[q] = quotes[q]
    BY <1>0, <2>2, AppendsRow
  <2>4. l \notin Quote
    <3>1. Len(quotes) \in Nat  BY <1>0 DEF RowsOK
    <3> QED  BY <2>3, <3>1 DEF Quote
  <2> HIDE DEF l
  <2>5. \A p \in packets: p.quote # l  BY <1>0, <2>4 DEF PacketsOK, PacketOK
  <2>6. \A q: Renewing(q)' = Renewing(q)  BY <2>1 DEF Renewing
  <2>7. Renewing(l) = {}  BY <2>5 DEF Renewing
  <2>8. Cardinality(Renewing(l) \cup {0}) = 1
    <3>1. Renewing(l) \cup {0} = {0}  BY <2>7
    <3> QED  BY <3>1, FS_Singleton
  <2>9. 1 <= 1 + extras'  BY <1>0, <2>1
  <2>10. \A q \in Quote': /\ quotes'[q].invoice # "paid" => Renewing(q) = {}
                          /\ Cardinality(Renewing(q) \cup {quotes'[q].latest}) <= 1 + extras'
    <3> SUFFICES ASSUME NEW q \in Quote'
                 PROVE  /\ quotes'[q].invoice # "paid" => Renewing(q) = {}
                        /\ Cardinality(Renewing(q) \cup {quotes'[q].latest}) <= 1 + extras'
      OBVIOUS
    <3>1. CASE q = l  BY <2>2, <2>3, <2>7, <2>8, <2>9, <3>1
    <3>2. CASE q \in Quote  BY <1>0, <2>1, <2>3, <3>2 DEF ReceiptsOK
    <3> QED  BY <2>3, <3>1, <3>2
  <2> QED  BY <1>0, <2>1, <2>6, <2>10 DEF ReceiptsOK
<1>4. CASE InsertCloseout
  <2>1. PICK p: p = cpu.payment  OBVIOUS
  <2>2. packets' = packets \cup {CloseoutOf(p)} /\ UNCHANGED <<quotes, extras>>
        /\ cpu.at = "close"
    BY <1>4, <2>1 DEF InsertCloseout, rowVars
  <2>3. p \in PacketRow  BY <1>0, <2>1, <2>2 DEF CloseCpu, PacketsOK
  <2>4. CloseoutOf(p).stage # "payment"  BY <2>3, PaymentFields
  <2>5. \A q: Renewing(q)' = Renewing(q)  BY <2>2, <2>4 DEF Renewing
  <2> QED  BY <1>0, <2>2, <2>5 DEF ReceiptsOK, Quote
<1>5. CASE Certifies
  <2>1. PICK p \in PacketRow:
          /\ PacketOK(p) /\ packets' = packets \cup {p} /\ UNCHANGED <<quotes, extras>>
          /\ p.stage = "payment" => p.receipt = quotes[p.quote].latest
    BY <1>5 DEF Certifies, Certify, rowVars
  <2>2. Quote' = Quote  BY <2>1 DEF Quote
  <2>3. ASSUME NEW q \in Quote
        PROVE  /\ quotes[q].invoice # "paid" => Renewing(q)' = {}
               /\ Renewing(q)' \cup {quotes[q].latest} = Renewing(q) \cup {quotes[q].latest}
    <3>1. CASE p.stage = "payment" /\ p.quote = q
      <4>1. Renewing(q)' = Renewing(q) \cup {quotes[q].latest}
        BY <2>1, <3>1 DEF Renewing
      <4>2. quotes[q].invoice = "paid"  BY <2>1, <3>1 DEF PacketOK
      <4> QED  BY <4>1, <4>2
    <3>2. CASE ~(p.stage = "payment" /\ p.quote = q)
      <4>1. Renewing(q)' = Renewing(q)  BY <2>1, <3>2 DEF Renewing
      <4> QED  BY <1>0, <4>1 DEF ReceiptsOK
    <3> QED  BY <3>1, <3>2
  <2> QED  BY <1>0, <2>1, <2>2, <2>3 DEF ReceiptsOK
<1>6. CASE RenewalStep
  <2>1. ASSUME NEW n \in 0..10, CloseoutPacket(n)  PROVE ReceiptsOK'
    BY <1>1, <2>1 DEF CloseoutPacket, rowVars
  <2> QED
    BY <1>1, <1>2, <1>3, <1>4, <1>5, <1>6, <2>1, AskReleaseMoves
       DEF RenewalStep, RowWork, HandOver, rowVars
<1>7. CASE Rests  BY <1>1, <1>7 DEF Rests, renewalVars
<1> QED  BY <1>6, <1>7, PilotSteps

LEMMA PilotInitOK ==
  ASSUME Init \/ PlannedInit
  PROVE  PilotInv
<1>1. RowsInit /\ crashes = 0 /\ cpu = Idle
  BY DEF Init, LaunchInit, PlannedInit
<1>2. ChainOK /\ CpuOK /\ GateInv
  <2>1. CASE Init  BY <2>1, LaunchInitOK
  <2>2. CASE PlannedInit
    <3>1. PICK p \in Readiness:
            /\ install = [x \in Package |-> IF x = p[1][1] THEN Gaps(x, {}) ELSE None]
            /\ brief = [b \in Brief |-> IF b = p[1] THEN FALSE ELSE None]
            /\ workbench = {p[1]} /\ review = {p[1]} /\ readiness = {p}
            /\ plan = [r \in Readiness |-> IF r = p THEN "open" ELSE "none"]
            /\ resolved = {} /\ clearance = {} /\ offer = {}
      BY <2>2 DEF PlannedInit
    <3>2. p[1] \in Brief /\ p[1][1] \in Package  BY DEF Readiness, Brief
    <3>3. \A x \in Package: Gaps(x, {}) \in SUBSET Gap
      BY DEF Gaps, Gap
    <3>4. install \in [Package -> (SUBSET Gap) \cup {None}]  BY <3>1, <3>3
    <3>5. brief \in [Brief -> BOOLEAN \cup {None}]  BY <3>1
    <3>6. plan \in [Readiness -> {"none", "open", "resolved"}]  BY <3>1
    <3>7. brief[p[1]] # None  BY <3>1, <3>2, NoneIsNoValue
    <3>8. install[p[1][1]] # None  BY <3>1, <3>2, <3>3, NoneIsNoValue
    <3>9. \A b \in Brief: brief[b] # None => b = p[1]  BY <3>1
    <3>10. ChainOK
      BY <3>1, <3>2, <3>4, <3>5, <3>6, <3>7, <3>8, <3>9 DEF ChainOK
    <3> QED
      BY <1>1, <3>1, <3>10 DEF CpuOK, GateInv, Idle
  <2> QED  BY <2>1, <2>2
<1>3. RowsOK /\ HandoffsOK /\ PacketsOK /\ ReceiptsOK
  <2>1. /\ quotes = << >> /\ handoffs = {} /\ packets = {} /\ tasks = {} /\ extras = 0
        /\ Quote = {}
    BY <1>1 DEF RowsInit, Quote
  <2>2. << >> \in Seq(Row)  OBVIOUS
  <2> QED
    BY <2>1, <2>2, FS_EmptySet, RenewalAssumption DEF RowsOK, HandoffsOK, PacketsOK, ReceiptsOK
<1>4. RowCpu /\ AskCpu /\ CloseCpu
  BY <1>1 DEF RowCpu, AskCpu, CloseCpu, Idle
<1>5. crashes \in 0..MaxCrashes  BY <1>1, LaunchAssumption
<1> QED  BY <1>2, <1>3, <1>4, <1>5 DEF PilotInv, RenewalInv

LEMMA PilotStep ==
  ASSUME PilotInv, [Next]_vars
  PROVE  PilotInv'
<1>1. (ChainOK /\ CpuOK /\ GateInv)'  BY LaunchStep DEF PilotInv
<1>2. RenewalInv'
  BY RowsStay, RowCpuStays, AskCpuStays, CloseCpuStays, HandoffsStay, PacketsStay, ReceiptsStay
     DEF RenewalInv
<1>3. crashes' \in 0..MaxCrashes
  <2>1. crashes \in 0..MaxCrashes  BY DEF PilotInv
  <2> QED  BY <2>1, PilotSteps, LaunchAssumption DEF Rests
<1> QED  BY <1>1, <1>2, <1>3 DEF PilotInv

(* It holds from the empty tables on, and from a tenant with a plan on.      *)
LEMMA PilotAlways == (Spec => []PilotInv) /\ (RenewalSpec => []PilotInv)
<1>1. PilotInv /\ [Next]_vars => PilotInv'  BY PilotStep
<1>2. [PlannedNext]_vars => [Next]_vars  BY DEF Next
<1>3. Init => PilotInv  BY PilotInitOK
<1>4. PlannedInit => PilotInv  BY PilotInitOK
<1> QED  BY <1>1, <1>2, <1>3, <1>4, PTL DEF Spec, RenewalSpec

-----------------------------------------------------------------------------
(* What follows from it.                                                     *)

(* Whatever a packet certified is true for ever: the quote a release packet   *)
(* names is released, and the invoice of a payment packet covers its quote,   *)
(* however often a handler was retried and whatever died in between.         *)
THEOREM EvidenceIsKept ==
  (Spec => []EvidenceStaysTrue) /\ (RenewalSpec => []EvidenceStaysTrue)
<1>1. PilotInv => EvidenceStaysTrue
  <2> SUFFICES ASSUME PilotInv, NEW p \in packets
               PROVE  LET row == quotes[p.quote] IN
                      /\ p.stage = "release" => row.release = "executed" /\ row.status # "draft"
                      /\ p.stage = "acceptance" => row.status = "accepted" /\ row.finance # "none"
                      /\ p.stage = "draft" => row.finance = "executed" /\ row.draft # "none"
                      /\ p.stage = "posting" => row.draft = "posted" /\ row.invoice # "none"
                      /\ p.stage \in {"payment", "closeout"} =>
                           row.invoice = "paid" /\ Collected(row) >= row.total
    BY DEF EvidenceStaysTrue
  <2> DEFINE row == quotes[p.quote]
  <2>1. RowsOK /\ PacketsOK  BY DEF PilotInv, RenewalInv
  <2>2. p \in PacketRow /\ PacketOK(p)  BY <2>1 DEF PacketsOK
  <2>3. p.quote \in Quote  BY <2>2 DEF PacketOK
  <2>4. RowOK(row)  BY <2>1, <2>3, RowOf
  <2>5. p.stage \in {"payment", "closeout"} => row.invoice = "paid"
    <3>1. CASE p.stage = "payment"  BY <2>2, <3>1 DEF PacketOK
    <3>2. CASE p.stage = "closeout"
      <4>1. PaymentOf(p) \in packets  BY <2>2, <3>2 DEF PacketOK
      <4>2. PacketOK(PaymentOf(p))  BY <2>1, <4>1 DEF PacketsOK
      <4>3. PaymentOf(p).stage = "payment" /\ PaymentOf(p).quote = p.quote
        BY <2>2, PaymentFields
      <4> QED  BY <4>2, <4>3 DEF PacketOK
    <3> QED  BY <3>1, <3>2
  <2> QED  BY <2>2, <2>4, <2>5 DEF PacketOK, RowOK
<1> QED  BY <1>1, PilotAlways, PTL

(* The rows have the shape of their tables, and what they refer to is there. *)
THEOREM PilotTypes ==
  (Spec => []TypeOK) /\ (RenewalSpec => []TypeOK)
<1>1. PilotInv => TypeOK
  <2> SUFFICES ASSUME PilotInv  PROVE TypeOK
    OBVIOUS
  <2>1. RowsOK /\ PacketsOK /\ HandoffsOK /\ ReceiptsOK  BY DEF PilotInv, RenewalInv
  <2>2. LaunchTypeOK  BY DEF PilotInv, ChainOK, GateInv, LaunchTypeOK
  <2>3. \A q \in Quote:
          /\ quotes[q].status \in {"draft", "sent", "signed", "accepted"}
          /\ quotes[q].total \in Nat \ {0}
          /\ {quotes[q].release, quotes[q].finance}
               \subseteq {"none", "pending", "approved", "rejected", "ran", "executed"}
          /\ quotes[q].draft \in {"none", "draft", "linked", "posted"}
          /\ quotes[q].invoice \in {"none", "open", "paid"}
          /\ quotes[q].receipts \in Seq(Amount)
          /\ quotes[q].latest \in 0..Len(quotes[q].receipts)
    <3> SUFFICES ASSUME NEW q \in Quote
                 PROVE  /\ quotes[q].status \in {"draft", "sent", "signed", "accepted"}
                        /\ quotes[q].total \in Nat \ {0}
                        /\ {quotes[q].release, quotes[q].finance}
                             \subseteq {"none", "pending", "approved", "rejected", "ran",
                                        "executed"}
                        /\ quotes[q].draft \in {"none", "draft", "linked", "posted"}
                        /\ quotes[q].invoice \in {"none", "open", "paid"}
                        /\ quotes[q].receipts \in Seq(Amount)
                        /\ quotes[q].latest \in 0..Len(quotes[q].receipts)
      OBVIOUS
    <3>1. /\ quotes[q] \in Row /\ RowOK(quotes[q])
          /\ Len(quotes[q].receipts) \in Nat
      BY <2>1, RowOf
    <3> QED  BY <3>1 DEF Row, RowOK, Verdict
  <2>4. \A h \in handoffs: h.cycle \in Cycle /\ h.quote \in Quote
    BY <2>1 DEF HandoffsOK, SourceOK
  <2>5. \A p \in packets \cup tasks:
          /\ p.cycle \in Cycle
          /\ p.quote \in Quote
          /\ p.receipt \in 0..Len(quotes[p.quote].receipts)
          /\ p.stage \in {"release", "acceptance", "draft", "posting", "payment", "closeout"}
    <3> SUFFICES ASSUME NEW p \in packets
                 PROVE  /\ p.cycle \in Cycle
                        /\ p.quote \in Quote
                        /\ p.receipt \in 0..Len(quotes[p.quote].receipts)
                        /\ p.stage \in Stage
      BY <2>1 DEF PacketsOK, Stage
    <3>1. p \in PacketRow /\ PacketOK(p)  BY <2>1 DEF PacketsOK
    <3>2. p.quote \in Quote /\ p.receipt <= Len(quotes[p.quote].receipts)
      BY <3>1 DEF PacketOK
    <3>3. Len(quotes[p.quote].receipts) \in Nat  BY <2>1, <3>2, RowOf
    <3> QED  BY <3>1, <3>2, <3>3 DEF PacketRow
  <2>6. extras \in 0..MaxExtras  BY <2>1 DEF ReceiptsOK
  <2> QED  BY <2>2, <2>3, <2>4, <2>5, <2>6 DEF TypeOK
<1> QED  BY <1>1, PilotAlways, PTL

(* A request that has a quote and not yet its handoff.                       *)
Asking == IF cpu.at \in {"ask", "handoff"} THEN 1 ELSE 0

LEMMA OrphansStay ==
  ASSUME PilotInv, OrphanQuotesAreCrashes, [Next]_vars
  PROVE  OrphanQuotesAreCrashes'
<1> DEFINE c == Cardinality(handoffs)
           l == Len(quotes)
<1>1. HandoffsOK /\ RowsOK /\ AskCpu /\ crashes \in Nat
  BY LaunchAssumption DEF PilotInv, RenewalInv
<1>2. c \in Nat /\ l \in Nat  BY <1>1, FS_CardinalityType DEF HandoffsOK, RowsOK
<1>3. l - c <= crashes + Asking /\ Asking \in {0, 1} /\ Asking' \in {0, 1}
  BY DEF OrphanQuotesAreCrashes, Asking
<1>4. SUFFICES Len(quotes') - Cardinality(handoffs') <= crashes' + Asking'
  BY DEF OrphanQuotesAreCrashes, Asking
<1>5. ASSUME Len(quotes') = l, handoffs' = handoffs, crashes' = crashes, Asking <= Asking'
      PROVE  Len(quotes') - Cardinality(handoffs') <= crashes' + Asking'
  BY <1>1, <1>2, <1>3, <1>5
<1>6. CASE Rests
  <2>1. quotes' = quotes /\ handoffs' = handoffs  BY <1>6 DEF Rests, renewalVars
  <2>2. CASE crashes' = crashes
    <3>1. cpu.at \in {"ask", "handoff"} => cpu' = cpu
      BY <1>1, <1>6, <2>2 DEF Rests
    <3>2. Asking <= Asking'  BY <3>1 DEF Asking
    <3> QED  BY <1>5, <2>1, <2>2, <3>2
  <2>3. CASE crashes' = crashes + 1
    BY <1>1, <1>2, <1>3, <2>1, <2>3
  <2> QED  BY <1>6, <2>2, <2>3 DEF Rests
<1>7. CASE RenewalStep /\ UNCHANGED <<offer, crashes>>
  <2>1. CASE RowWork
    <3>1. PICK q, new: Moves(q, new)  BY <2>1 DEF RowWork
    <3>2. Len(quotes') = l /\ handoffs' = handoffs
      BY <1>1, <3>1, MovesRow DEF Rewritten, Moves
    <3>3. Asking = 0 /\ Asking' = 0  BY <2>1 DEF RowWork, RowLabel, Asking
    <3> QED  BY <1>5, <1>7, <3>2, <3>3
  <2>2. CASE AskRelease
    <3>1. PICK new: Moves(l, new)  BY <2>2, AskReleaseMoves
    <3>2. Len(quotes') = l /\ handoffs' = handoffs
      BY <1>1, <3>1, MovesRow DEF Rewritten, Moves
    <3>3. Asking' = 1  BY <2>2, AskReleaseMoves DEF Asking
    <3> QED  BY <1>3, <1>5, <1>7, <3>2, <3>3
  <2>3. CASE HandOver
    <3>1. PICK h: h.quote = l /\ handoffs' = handoffs \cup {h}
      BY <2>3 DEF HandOver
    <3>2. h \notin handoffs  BY <1>1, <2>3, <3>1 DEF HandOver, AskCpu
    <3>3. Cardinality(handoffs') = c + 1
      BY <1>1, <3>1, <3>2, FS_AddElement DEF HandoffsOK
    <3>4. quotes' = quotes /\ Asking = 1 /\ Asking' = 0
      BY <2>3 DEF HandOver, rowVars, Asking, Idle
    <3> QED  BY <1>1, <1>2, <1>3, <1>7, <3>3, <3>4
  <2>4. ASSUME quotes' = quotes, handoffs' = handoffs, Asking = 0
        PROVE  Len(quotes') - Cardinality(handoffs') <= crashes' + Asking'
    BY <1>3, <1>5, <1>7, <2>4
  <2>5. CASE InsertCloseout
    BY <2>4, <2>5 DEF InsertCloseout, rowVars, Asking
  <2>6. CASE Certifies
    BY <2>4, <2>6 DEF Certifies, Certify, rowVars, Asking, Idle
  <2>7. ASSUME NEW n \in 0..10, CloseoutPacket(n)
        PROVE  Len(quotes') - Cardinality(handoffs') <= crashes' + Asking'
    BY <2>4, <2>7 DEF CloseoutPacket, rowVars, Asking, Idle
  <2>8. ASSUME NEW n \in 0..10, QuoteHandoff(n)
        PROVE  Len(quotes') - Cardinality(handoffs') <= crashes' + Asking'
    <3>1. PICK new: new \in Row /\ RowOK(new) /\ quotes' = Append(quotes, new)
      BY <2>8, HandoffAppends
    <3>2. Len(quotes') = l + 1  BY <1>1, <3>1, AppendsRow
    <3>3. handoffs' = handoffs /\ Asking = 0 /\ Asking' = 1
      BY <2>8 DEF QuoteHandoff, Asking, Idle
    <3> QED  BY <1>1, <1>2, <1>3, <1>7, <3>2, <3>3
  <2> QED  BY <1>7, <2>1, <2>2, <2>3, <2>5, <2>6, <2>7, <2>8 DEF RenewalStep
<1> QED  BY <1>6, <1>7, PilotSteps

(* A quote that no handoff knows is the work of a running request or of a     *)
(* crash, one for each at most.                                              *)
THEOREM OrphansAreFew ==
  (Spec => []OrphanQuotesAreCrashes) /\ (RenewalSpec => []OrphanQuotesAreCrashes)
<1>1. ASSUME Init \/ PlannedInit  PROVE OrphanQuotesAreCrashes
  <2>1. quotes = << >> /\ handoffs = {} /\ crashes = 0 /\ cpu = Idle
    BY <1>1 DEF Init, PlannedInit, LaunchInit, RowsInit
  <2>2. Len(quotes) = 0 /\ Cardinality(handoffs) = 0  BY <2>1, FS_EmptySet
  <2> QED  BY <2>1, <2>2 DEF OrphanQuotesAreCrashes, Idle
<1>2. PilotInv /\ OrphanQuotesAreCrashes /\ [Next]_vars => OrphanQuotesAreCrashes'
  BY OrphansStay
<1>3. Init => OrphanQuotesAreCrashes  BY <1>1
<1>4. PlannedInit => OrphanQuotesAreCrashes  BY <1>1
<1>5. [PlannedNext]_vars => [Next]_vars  BY DEF Next
<1> QED  BY <1>2, <1>3, <1>4, <1>5, PilotAlways, PTL DEF Spec, RenewalSpec

(* A closeout is of the only cycle its quote has.                            *)
LEMMA OneCloseoutPerReceipt ==
  ASSUME PilotInv, NEW j \in packets, NEW k \in packets,
         j.stage = k.stage, j.quote = k.quote, j.receipt = k.receipt
  PROVE  j = k
<1>1. j \in PacketRow /\ PacketOK(j) /\ k \in PacketRow /\ PacketOK(k)
  BY DEF PilotInv, RenewalInv, PacketsOK
<1>2. PICK g \in handoffs: g.cycle = j.cycle /\ g.quote = j.quote  BY <1>1 DEF PacketOK
<1>3. PICK h \in handoffs: h.cycle = k.cycle /\ h.quote = k.quote  BY <1>1 DEF PacketOK
<1>4. g = h  BY <1>2, <1>3 DEF PilotInv, RenewalInv, HandoffsOK
<1>5. j.cycle = k.cycle  BY <1>2, <1>3, <1>4
<1> QED  BY <1>1, <1>5 DEF PacketRow

(* The source of the handoff of a renewal.                                   *)
LEMMA RenewalSource ==
  ASSUME PilotInv, NEW h \in handoffs, h.cycle # 0
  PROVE  /\ h.source = [offer |-> None, closeout |-> h.source.closeout]
         /\ h.source.closeout \in packets /\ h.source.closeout.stage = "closeout"
         /\ h.source.closeout.cycle = h.cycle - 1 /\ h.cycle - 1 \in Cycle
         /\ PaymentOf(h.source.closeout) \in tasks
<1>1. SourceOK(h.cycle, h.source)  BY DEF PilotInv, RenewalInv, HandoffsOK
<1>2. h.cycle \in Nat /\ h.cycle > 0 /\ h.cycle - 1 \in Cycle
  BY <1>1, RenewalAssumption DEF SourceOK, Cycle
<1>3. PICK k \in PacketsOf(h.cycle - 1, "closeout"):
        h.source = [offer |-> None, closeout |-> k]
  BY <1>1 DEF SourceOK, Source
<1>4. h.source.closeout = k  BY <1>3
<1> QED  BY <1>1, <1>2, <1>3, <1>4 DEF SourceOK, PacketsOf

(* A cycle is renewed once, and once more for each receipt of an invoice that *)
(* was paid already: no retry and no crash renews it twice.                  *)
THEOREM RenewedPerReceipt ==
  (Spec => []RenewalsPerReceipt) /\ (RenewalSpec => []RenewalsPerReceipt)
<1>1. PilotInv => RenewalsPerReceipt
  <2> SUFFICES ASSUME PilotInv, NEW q \in Quote
               PROVE  Cardinality({h \in handoffs: h.cycle > 0 /\ h.source.closeout.quote = q})
                        <= 1 + extras
    BY DEF RenewalsPerReceipt
  <2> DEFINE S == {h \in handoffs: h.cycle > 0 /\ h.source.closeout.quote = q}
             R == Renewing(q)
             f == [h \in S |-> h.source.closeout.receipt]
  <2>1. RowsOK /\ PacketsOK /\ HandoffsOK /\ ReceiptsOK  BY DEF PilotInv, RenewalInv
  <2>2. \A h \in S: /\ h \in handoffs /\ h.source.closeout \in packets
                    /\ h.source = [offer |-> None, closeout |-> h.source.closeout]
                    /\ h.source.closeout.stage = "closeout"
                    /\ h.source.closeout.cycle = h.cycle - 1 /\ h.cycle \in Nat
                    /\ h.source.closeout.quote = q
    <3> SUFFICES ASSUME NEW h \in handoffs, h.cycle > 0, h.source.closeout.quote = q
                 PROVE  /\ h.source.closeout \in packets
                        /\ h.source = [offer |-> None, closeout |-> h.source.closeout]
                        /\ h.source.closeout.stage = "closeout"
                        /\ h.source.closeout.cycle = h.cycle - 1 /\ h.cycle \in Nat
      OBVIOUS
    <3>1. h.cycle \in Nat /\ h.cycle # 0
      BY <2>1, RenewalAssumption DEF HandoffsOK, SourceOK, Cycle
    <3> QED  BY <3>1, RenewalSource
  <2>3. \A h \in S: h.source.closeout.receipt \in R
    <3> SUFFICES ASSUME NEW h \in S  PROVE h.source.closeout.receipt \in R
      OBVIOUS
    <3>1. PICK k \in packets: k = h.source.closeout /\ k.stage = "closeout" /\ k.quote = q
      BY <2>2
    <3>2. k \in PacketRow /\ PaymentOf(k) \in packets  BY <2>1, <3>1 DEF PacketsOK, PacketOK
    <3>3. /\ PaymentOf(k).stage = "payment" /\ PaymentOf(k).quote = q
          /\ PaymentOf(k).receipt = k.receipt
      BY <3>1, <3>2, PaymentFields
    <3> QED  BY <3>1, <3>2, <3>3 DEF Renewing
  <2>4. ASSUME NEW g \in S, NEW h \in S,
               g.source.closeout.receipt = h.source.closeout.receipt
        PROVE  g = h
    <3>1. g.source.closeout = h.source.closeout  BY <2>2, <2>4, OneCloseoutPerReceipt
    <3>2. g.source = h.source
      <4>1. g.source = [offer |-> None, closeout |-> g.source.closeout]  BY <2>2
      <4>2. h.source = [offer |-> None, closeout |-> h.source.closeout]  BY <2>2
      <4> QED  BY <3>1, <4>1, <4>2
    <3>3. g.cycle = h.cycle
      <4>1. g.cycle - 1 = h.cycle - 1  BY <2>2, <3>1
      <4>2. g.cycle \in Nat /\ h.cycle \in Nat  BY <2>2
      <4> QED  BY <4>1, <4>2
    <3> QED  BY <2>1, <2>2, <3>2, <3>3 DEF HandoffsOK
  <2>5. f \in Injection(S, R)
    <3> HIDE DEF S, R
    <3>1. f \in [S -> R]  BY <2>3
    <3>2. \A g, h \in S: f[g] = f[h] => g = h  BY <2>4
    <3> QED  BY <3>1, <3>2 DEF Injection, IsInjective
  <2>6. IsFiniteSet(R)  BY <2>1, RenewingIsFinite
  <2> HIDE DEF S, R, f
  <2>7. IsFiniteSet(S) /\ Cardinality(S) <= Cardinality(R)  BY <2>5, <2>6, FS_Injection
  <2> DEFINE T == R \cup {quotes[q].latest}
  <2>8. IsFiniteSet(T) /\ Cardinality(R) <= Cardinality(T)
    <3>1. IsFiniteSet(T) /\ R \subseteq T  BY <2>6, FS_AddElement
    <3> QED  BY <3>1, FS_Subset
  <2>9. Cardinality(T) <= 1 + extras /\ extras \in Nat
    BY <2>1, RenewalAssumption DEF ReceiptsOK, R
  <2> HIDE DEF T
  <2>10. Cardinality(S) \in Nat /\ Cardinality(R) \in Nat /\ Cardinality(T) \in Nat
    BY <2>6, <2>7, <2>8, FS_CardinalityType
  <2>11. Cardinality(S) <= 1 + extras  BY <2>7, <2>8, <2>9, <2>10
  <2> QED  BY <2>11 DEF S
<1> QED  BY <1>1, PilotAlways, PTL

(* The packets of a cycle that was closed, back to its release.              *)
LEMMA ClosedIsComplete ==
  ASSUME PilotInv, NEW k \in packets, k.stage = "closeout"
  PROVE  Complete(k)
<1>1. PacketsOK  BY DEF PilotInv, RenewalInv
<1>2. k \in PacketRow /\ PacketOK(k)  BY <1>1 DEF PacketsOK
<1>3. PaymentOf(k) \in packets /\ PaymentOf(k) \in tasks  BY <1>2 DEF PacketOK
<1>4. /\ PaymentOf(k).stage = "payment" /\ PaymentOf(k).cycle = k.cycle
      /\ PaymentOf(k).quote = k.quote
  BY <1>2, PaymentFields
<1> DEFINE P(stage) == Packet(k.cycle, stage, k.quote, 0)
<1>5. \A stage: P(stage).cycle = k.cycle /\ P(stage).stage = stage /\ P(stage).quote = k.quote
  BY PacketFields
<1>6. P("posting") \in packets
  <2>1. PacketOK(PaymentOf(k))  BY <1>1, <1>3 DEF PacketsOK
  <2> QED  BY <1>4, <2>1 DEF PacketOK
<1>7. P("draft") \in packets
  <2>1. PacketOK(P("posting"))  BY <1>1, <1>6 DEF PacketsOK
  <2>2. Packet(P("posting").cycle, "draft", P("posting").quote, 0) \in packets
    BY <1>5, <2>1 DEF PacketOK
  <2> QED  BY <1>5, <2>2
<1>8. P("acceptance") \in packets
  <2>1. PacketOK(P("draft"))  BY <1>1, <1>7 DEF PacketsOK
  <2>2. Packet(P("draft").cycle, "acceptance", P("draft").quote, 0) \in packets
    BY <1>5, <2>1 DEF PacketOK
  <2> QED  BY <1>5, <2>2
<1>9. P("release") \in packets
  <2>1. PacketOK(P("acceptance"))  BY <1>1, <1>8 DEF PacketsOK
  <2>2. Packet(P("acceptance").cycle, "release", P("acceptance").quote, 0) \in packets
    BY <1>5, <2>1 DEF PacketOK
  <2> QED  BY <1>5, <2>2
<1> QED  BY <1>3, <1>6, <1>7, <1>8, <1>9 DEF Complete

(* A paid offer is made of a launch with its whole evidence.                 *)
LEMMA OfferEarned ==
  ASSUME PilotInv, NEW c \in offer
  PROVE  Earned(c)
<1>1. /\ c \in clearance /\ c.status = "cleared"
      /\ c.plan \in readiness /\ Cleared(c.plan)
  BY DEF PilotInv, GateInv
<1>2. c.plan[1] \in review  BY <1>1 DEF PilotInv, ChainOK
<1> QED  BY <1>1, <1>2 DEF Earned

EarnedHandoffs(f, n) ==
  {h \in handoffs:
     /\ h.cycle = n
     /\ IF n = 0 THEN h.source.offer \in offer /\ Earned(h.source.offer)
        ELSE /\ Complete(h.source.closeout)
             /\ \E g \in f[n - 1]: g.quote = h.source.closeout.quote}

(* Once the handoffs of the cycle before are earned those of a cycle are.     *)
LEMMA CycleIsEarned ==
  ASSUME PilotInv, NEW f, NEW n \in Cycle,
         n # 0 => \A h \in handoffs: h.cycle = n - 1 => h \in f[n - 1]
  PROVE  \A h \in handoffs: h.cycle = n => h \in EarnedHandoffs(f, n)
<1> SUFFICES ASSUME NEW h \in handoffs, h.cycle = n  PROVE h \in EarnedHandoffs(f, n)
  OBVIOUS
<1>1. CASE n = 0
  <2>1. SourceOK(h.cycle, h.source)  BY DEF PilotInv, RenewalInv, HandoffsOK
  <2>2. PICK c \in offer: h.source = [offer |-> c, closeout |-> None]
    BY <1>1, <2>1 DEF SourceOK, Source
  <2>3. h.source.offer = c /\ Earned(c)  BY <2>2, OfferEarned
  <2> QED  BY <1>1, <2>3 DEF EarnedHandoffs
<1>2. CASE n # 0
  <2>1. PICK k: k = h.source.closeout  OBVIOUS
  <2>2. k \in packets /\ k.stage = "closeout" /\ k.cycle = n - 1
    BY <1>2, <2>1, RenewalSource
  <2>3. PICK g \in handoffs: g.cycle = k.cycle /\ g.quote = k.quote
    BY <2>2 DEF PilotInv, RenewalInv, PacketsOK, PacketOK
  <2>4. g \in f[n - 1]  BY <1>2, <2>2, <2>3
  <2>5. Complete(k)  BY <2>2, ClosedIsComplete
  <2> QED  BY <1>2, <2>1, <2>3, <2>4, <2>5 DEF EarnedHandoffs
<1> QED  BY <1>1, <1>2

(* The recursion over the cycles has a solution, all handoffs of each cycle.  *)
LEMMA EarnedUnfolds ==
  ASSUME PilotInv
  PROVE  /\ EarnedIn = [n \in Cycle |-> EarnedHandoffs(EarnedIn, n)]
<1> DEFINE all == [n \in Cycle |-> {h \in handoffs: h.cycle = n}]
           S(f) == f = [n \in Cycle |-> EarnedHandoffs(f, n)]
<1>1. EarnedIn = CHOOSE f: S(f)  BY Zenon DEF EarnedIn, EarnedHandoffs
<1>2. S(all)
  <2>1. \A n \in Cycle: n # 0 => n - 1 \in Cycle  BY RenewalAssumption DEF Cycle
  <2>2. ASSUME NEW n \in Cycle  PROVE EarnedHandoffs(all, n) = all[n]
    <3>1. n # 0 => \A h \in handoffs: h.cycle = n - 1 => h \in all[n - 1]  BY <2>1
    <3>2. all[n] = {h \in handoffs: h.cycle = n}  OBVIOUS
    <3> HIDE DEF all
    <3>3. \A h \in handoffs: h.cycle = n => h \in EarnedHandoffs(all, n)
      BY <3>1, CycleIsEarned
    <3>4. \A h \in EarnedHandoffs(all, n): h \in handoffs /\ h.cycle = n
      BY DEF EarnedHandoffs
    <3> QED  BY <3>2, <3>3, <3>4
  <2>3. all = [n \in Cycle |-> all[n]]  OBVIOUS
  <2> HIDE DEF all
  <2>4. [n \in Cycle |-> all[n]] = [n \in Cycle |-> EarnedHandoffs(all, n)]  BY <2>2
  <2> QED  BY <2>3, <2>4
<1> HIDE DEF all, S
<1>3. S(CHOOSE f: S(f))  BY <1>2
<1>4. S(EarnedIn)  BY <1>1, <1>3
<1> QED  BY <1>4 DEF S

(* A quote of a renewal goes back, closeout by closeout, to the paid offer of *)
(* the pilot, and every cycle in between is complete.                        *)
THEOREM RenewalsAreEarned ==
  (Spec => []EveryRenewalWasEarned) /\ (RenewalSpec => []EveryRenewalWasEarned)
<1>1. PilotInv => EveryRenewalWasEarned
  <2> SUFFICES ASSUME PilotInv  PROVE EveryRenewalWasEarned
    OBVIOUS
  <2> DEFINE Q(n) == n \in Cycle => \A h \in handoffs: h.cycle = n => h \in EarnedIn[n]
  <2>1. \A n \in Cycle: EarnedIn[n] = EarnedHandoffs(EarnedIn, n)
    <3>1. PICK f: f = EarnedIn  OBVIOUS
    <3>2. f = [n \in Cycle |-> EarnedHandoffs(f, n)]  BY <3>1, EarnedUnfolds
    <3>3. \A n \in Cycle: f[n] = EarnedHandoffs(f, n)  BY <3>2, Zenon
    <3> QED  BY <3>1, <3>3
  <2>2. ASSUME NEW n \in 0..10, n # 0 => Q(n - 1)  PROVE Q(n)
    <3> SUFFICES ASSUME n \in Cycle
                 PROVE  \A h \in handoffs: h.cycle = n => h \in EarnedIn[n]
      OBVIOUS
    <3>1. n # 0 => n - 1 \in Cycle  BY RenewalAssumption DEF Cycle
    <3>2. n # 0 => \A h \in handoffs: h.cycle = n - 1 => h \in EarnedIn[n - 1]
      BY <2>2, <3>1
    <3>3. \A h \in handoffs: h.cycle = n => h \in EarnedHandoffs(EarnedIn, n)
      BY <3>2, CycleIsEarned
    <3> QED  BY <2>1, <3>3
  <2> HIDE DEF Q
  <2>3. Q(0)  BY <2>2
  <2>4. Q(1) /\ Q(2) /\ Q(3)
    <3>1. Q(1)  BY <2>2, <2>3
    <3>2. Q(2)  BY <2>2, <3>1
    <3> QED  BY <2>2, <3>1, <3>2
  <2>5. Q(4) /\ Q(5) /\ Q(6)
    <3>1. Q(4)  BY <2>2, <2>4
    <3>2. Q(5)  BY <2>2, <3>1
    <3> QED  BY <2>2, <3>1, <3>2
  <2>6. Q(7) /\ Q(8) /\ Q(9) /\ Q(10)
    <3>1. Q(7)  BY <2>2, <2>5
    <3>2. Q(8)  BY <2>2, <3>1
    <3>3. Q(9)  BY <2>2, <3>2
    <3> QED  BY <2>2, <3>1, <3>2, <3>3
  <2>7. \A n \in 0..10: Q(n)
    <3> SUFFICES ASSUME NEW n \in 0..10  PROVE Q(n)
      OBVIOUS
    <3>1. n \in {0, 1, 2, 3, 4, 5, 6, 7, 8, 9, 10}  OBVIOUS
    <3> QED  BY <2>3, <2>4, <2>5, <2>6, <3>1
  <2>8. \A h \in handoffs: h.cycle \in Cycle /\ h.cycle \in 0..10
    BY RenewalAssumption DEF PilotInv, RenewalInv, HandoffsOK, SourceOK, Cycle
  <2> QED  BY <2>7, <2>8 DEF Q, EveryRenewalWasEarned
<1> QED  BY <1>1, PilotAlways, PTL

=============================================================================
