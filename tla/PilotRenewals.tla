--------------------------- MODULE PilotRenewals ---------------------------
(***************************************************************************)
(* The commercial cycles of a clinic/wellness pilot: from the paid offer,  *)
(* cycle 0, through the ten renewals (src/server/app.js,                   *)
(* createClinicWellnessOfferQuoteHandoff to                                *)
(* createClinicWellnessNextRecurringOngoingRenewalCloseoutPacket).         *)
(*                                                                         *)
(* Every cycle has seven packets: a handoff to a quote, and evidence that  *)
(* the quote was released and accepted, that its invoice was drafted,      *)
(* posted and paid, and a closeout with the CRM task of the next renewal.  *)
(* Seventy-seven functions and tables with one control: each looks for its *)
(* source_key, looks at the quote, approval and finance rows of its quote, *)
(* and inserts its packet.  The generic operators say what they do and the *)
(* functions are instances of them.  A handoff and a closeout write more   *)
(* than their packet, and the process may die in between.                  *)
(*                                                                         *)
(* The rows the packets look at are moved by the quote, workflow and       *)
(* finance handlers; modules WorkflowApprovals and Receivables have all of *)
(* their control, here is what a packet can see of it: no failing runs,    *)
(* closed periods, webhooks or invoices without a link.                    *)
(***************************************************************************)
EXTENDS PilotLaunch, Integers, Sequences, Functions

CONSTANTS
  LastCycle,     \* the last cycle modelled: 10 is the program's last
  OfferTotal,    \* total of the quote of a paid offer
  RenewalFloor,  \* total of the first renewal and least of the later ones
  Amount,        \* amounts a customer pays
  MaxQuotes,     \* bound: quotes of the pilot
  MaxExtras      \* bound: receipts recorded for paid invoices

ASSUME RenewalAssumption ==
  /\ LastCycle \in 0..10
  /\ OfferTotal \in Nat \ {0}
  /\ RenewalFloor \in Nat \ {0}
  /\ Amount \subseteq Nat \ {0}
  /\ MaxQuotes \in Nat
  /\ MaxExtras \in Nat

VARIABLES
  quotes,    \* per quote what the quote, approval and finance tables say of it
  handoffs,  \* pilot_*_quote_handoff_packets
  packets,   \* the other pilot_* packets
  tasks,     \* crm_tasks of renewals, by the payment packet of their source_key
  extras     \* receipts recorded for paid invoices

rowVars     == <<quotes, extras>>
renewalVars == <<quotes, handoffs, packets, tasks, extras>>
vars        == <<launchVars, renewalVars, cpu, crashes>>

Cycle == 0..LastCycle
Quote == 1..Len(quotes)

(* A quote of createCrmQuote.  "signed" is a quote with an acceptance whose   *)
(* own status still is sent; an approval with a run that is not yet executed *)
(* "ran"; a draft with a link that is not yet posted is "linked".            *)
NewQuote(total) ==
  [status |-> "draft", total |-> total, release |-> "none", finance |-> "none",
   draft |-> "none", invoice |-> "none", receipts |-> <<>>, latest |-> 0]

Collected(row) == SumFunction(row.receipts)

Packet(n, stage, q, receipt) == [cycle |-> n, stage |-> stage, quote |-> q, receipt |-> receipt]

PacketsOf(n, stage) == {p \in packets: p.cycle = n /\ p.stage = stage}

PaymentOf(closeout) == [closeout EXCEPT !.stage = "payment"]
CloseoutOf(payment) == [payment EXCEPT !.stage = "closeout"]

RowsInit ==
  /\ quotes = <<>>
  /\ handoffs = {}
  /\ packets = {}
  /\ tasks = {}
  /\ extras = 0

Init == LaunchInit /\ RowsInit

(* A tenant whose launch has its evidence and its plan, and no action of it   *)
(* resolved yet.                                                             *)
PlannedInit ==
  \E p \in Readiness:
    /\ install = [x \in Package |-> IF x = p[1][1] THEN Gaps(x, {}) ELSE None]
    /\ brief = [b \in Brief |-> IF b = p[1] THEN FALSE ELSE None]
    /\ workbench = {p[1]} /\ review = {p[1]} /\ readiness = {p}
    /\ plan = [r \in Readiness |-> IF r = p THEN "open" ELSE "none"]
    /\ resolved = {} /\ clearance = {} /\ offer = {}
    /\ cpu = Idle /\ crashes = 0
    /\ RowsInit

-----------------------------------------------------------------------------
(* The quote, workflow and finance handlers.                                 *)

Set(q, field, value) == quotes' = [quotes EXCEPT ![q][field] = value]

(* POST /api/workflow/approvals/:id/decision                                 *)
Decide(q, which, verdict) ==
  /\ cpu = Idle
  /\ quotes[q][which] = "pending"
  /\ Set(q, which, verdict)
  /\ UNCHANGED <<handoffs, packets, tasks, extras, cpu, crashes>>

(* releaseQuoteFromApproval                                                  *)
ExecuteRelease(q) ==
  /\ cpu = Idle
  /\ quotes[q].release = "approved"
  /\ Set(q, "status", IF quotes[q].status = "draft" THEN "sent" ELSE quotes[q].status)
  /\ cpu' = [at |-> "run", quote |-> q, which |-> "release"]
  /\ UNCHANGED <<handoffs, packets, tasks, extras, crashes>>

(* createDraftInvoiceFromApproval: a draft that is there is taken            *)
ExecuteInvoice(q) ==
  /\ cpu = Idle
  /\ quotes[q].finance = "approved"
  /\ Set(q, "draft", IF quotes[q].draft = "none" THEN "draft" ELSE quotes[q].draft)
  /\ cpu' = [at |-> "run", quote |-> q, which |-> "finance"]
  /\ UNCHANGED <<handoffs, packets, tasks, extras, crashes>>

(* The INSERT of the workflow run: it answers every later execution.         *)
RecordRun ==
  /\ cpu.at = "run"
  /\ Set(cpu.quote, cpu.which, "ran")
  /\ cpu' = [cpu EXCEPT !.at = "executed"]
  /\ UNCHANGED <<handoffs, packets, tasks, extras, crashes>>

MarkExecuted ==
  /\ cpu.at = "executed"
  /\ Set(cpu.quote, cpu.which, "executed")
  /\ cpu' = Idle
  /\ UNCHANGED <<handoffs, packets, tasks, extras, crashes>>

(* acceptPublicQuote: the acceptance, the quote and the finance approval; the *)
(* deal, which is won in between, is left out.                               *)
Accept(q) ==
  /\ cpu = Idle
  /\ quotes[q].status = "sent"
  /\ Set(q, "status", "signed")
  /\ cpu' = [at |-> "accept", quote |-> q]
  /\ UNCHANGED <<handoffs, packets, tasks, extras, crashes>>

AcceptQuote ==
  /\ cpu.at = "accept"
  /\ Set(cpu.quote, "status", "accepted")
  /\ cpu' = [cpu EXCEPT !.at = "finance"]
  /\ UNCHANGED <<handoffs, packets, tasks, extras, crashes>>

AskFinance ==
  /\ cpu.at = "finance"
  /\ Set(cpu.quote, "finance", "pending")
  /\ cpu' = Idle
  /\ UNCHANGED <<handoffs, packets, tasks, extras, crashes>>

(* postDraftInvoice: invoice and link, then the status of the draft          *)
PostInvoice(q) ==
  /\ cpu = Idle
  /\ quotes[q].draft = "draft"
  /\ quotes' = [quotes EXCEPT ![q].draft = "linked", ![q].invoice = "open"]
  /\ cpu' = [at |-> "posted", quote |-> q]
  /\ UNCHANGED <<handoffs, packets, tasks, extras, crashes>>

PostStatus ==
  /\ cpu.at = "posted"
  /\ Set(cpu.quote, "draft", "posted")
  /\ cpu' = Idle
  /\ UNCHANGED <<handoffs, packets, tasks, extras, crashes>>

(* recordInvoicePayment: the receipt, whose date the request names so that it *)
(* need not be the latest, then the status of the invoice                    *)
RecordPayment(q, amount, latest) ==
  LET row == quotes[q]
      receipts == Append(row.receipts, amount) IN
  /\ cpu = Idle
  /\ row.invoice # "none"
  /\ row.receipts = <<>> => latest
  /\ row.invoice = "paid" => extras < MaxExtras
  /\ extras' = IF row.invoice = "paid" THEN extras + 1 ELSE extras
  /\ quotes' = [quotes EXCEPT ![q].receipts = receipts,
                              ![q].latest = IF latest THEN Len(receipts) ELSE @]
  /\ cpu' = [at |-> "paid", quote |-> q]
  /\ UNCHANGED <<handoffs, packets, tasks, crashes>>

PayStatus ==
  LET row == quotes[cpu.quote] IN
  /\ cpu.at = "paid"
  /\ Set(cpu.quote, "invoice", IF Collected(row) >= row.total THEN "paid" ELSE "open")
  /\ cpu' = Idle
  /\ UNCHANGED <<handoffs, packets, tasks, extras, crashes>>

-----------------------------------------------------------------------------
(* The packets of cycle n.                                                   *)

(* What a handoff is made from: an offer, or a closeout of the cycle before. *)
Source(n) ==
  IF n = 0 THEN {[offer |-> c, closeout |-> None]: c \in offer}
  ELSE {[offer |-> None, closeout |-> k]: k \in PacketsOf(n - 1, "closeout")}

(* Mutant: no least fee for the first renewal of a free pilot.               *)
PriceUnfloored(n, source) == IF n = 0 THEN OfferTotal ELSE 0

(* build...QuoteLines: an offer has its price, the first renewal the monthly *)
(* fee, and a later one the amount of the receipt of the closeout before,    *)
(* if that is more.                                                          *)
Price(n, source) ==
  IF n = 0 THEN OfferTotal
  ELSE IF n = 1 THEN RenewalFloor
  ELSE LET paid == quotes[source.closeout.quote].receipts[source.closeout.receipt]
       IN  IF paid > RenewalFloor THEN paid ELSE RenewalFloor

(* Mutant: a handoff that is there is not looked for.                        *)
HandedOverNever(n, source) == FALSE

HandedOver(n, source) == \E h \in handoffs: h.cycle = n /\ h.source = source

QuoteHandoff(n) ==
  \E source \in Source(n):
    /\ cpu = Idle
    /\ n <= LastCycle
    /\ Len(quotes) < MaxQuotes
    /\ ~HandedOver(n, source)
    /\ n > 0 => PaymentOf(source.closeout) \in tasks
    /\ quotes' = Append(quotes, NewQuote(Price(n, source)))
    /\ cpu' = [at |-> "ask", cycle |-> n, source |-> source]
    /\ UNCHANGED <<handoffs, packets, tasks, extras, crashes>>

(* requestQuoteReleaseApproval                                               *)
AskRelease ==
  /\ cpu.at = "ask"
  /\ Set(Len(quotes), "release", "pending")
  /\ cpu' = [cpu EXCEPT !.at = "handoff"]
  /\ UNCHANGED <<handoffs, packets, tasks, extras, crashes>>

(* Mutant: the packet of the quote is never written.                         *)
HandOverNot ==
  /\ cpu.at = "handoff"
  /\ cpu' = Idle
  /\ UNCHANGED <<rowVars, handoffs, packets, tasks, crashes>>

(* The INSERT of the handoff packet.                                         *)
HandOver ==
  /\ cpu.at = "handoff"
  /\ handoffs' = handoffs \cup
       {[cycle |-> cpu.cycle, quote |-> Len(quotes), source |-> cpu.source]}
  /\ cpu' = Idle
  /\ UNCHANGED <<rowVars, packets, tasks, crashes>>

(* A packet that is one INSERT.                                              *)
Certify(p) ==
  /\ cpu = Idle
  /\ p \notin packets
  /\ packets' = packets \cup {p}
  /\ UNCHANGED <<rowVars, handoffs, tasks, cpu, crashes>>

QuoteReleasePacket(n) ==
  \E h \in handoffs:
    /\ h.cycle = n
    /\ quotes[h.quote].release = "executed"
    /\ quotes[h.quote].status # "draft"
    /\ Certify(Packet(n, "release", h.quote, 0))

QuoteAcceptanceHandoff(n) ==
  \E p \in PacketsOf(n, "release"):
    /\ quotes[p.quote].status = "accepted"
    /\ quotes[p.quote].finance # "none"
    /\ Certify(Packet(n, "acceptance", p.quote, 0))

(* Mutant: the packet of the release is enough.                              *)
DraftInvoicePacketEarly(n) ==
  \E p \in PacketsOf(n, "release"):
    /\ quotes[p.quote].finance = "executed"
    /\ Certify(Packet(n, "draft", p.quote, 0))

DraftInvoicePacket(n) ==
  \E p \in PacketsOf(n, "acceptance"):
    /\ quotes[p.quote].finance = "executed"
    /\ Certify(Packet(n, "draft", p.quote, 0))

InvoicePostingPacket(n) ==
  \E p \in PacketsOf(n, "draft"):
    /\ quotes[p.quote].draft = "posted"
    /\ Certify(Packet(n, "posting", p.quote, 0))

(* Mutant: a receipt is enough, whatever it leaves open.                     *)
MayCollectAny(row) == row.latest # 0

MayCollect(row) ==
  /\ row.latest # 0
  /\ row.invoice = "paid"
  /\ Collected(row) >= row.total

PaymentCollectionPacket(n) ==
  \E p \in PacketsOf(n, "posting"):
    /\ MayCollect(quotes[p.quote])
    /\ Certify(Packet(n, "payment", p.quote, quotes[p.quote].latest))

(* Mutant: the task is inserted without a look for it, which the unique index *)
(* on its source_key refuses.                                                *)
CloseoutPacketBlind(n) ==
  \E p \in PacketsOf(n, "payment"):
    /\ cpu = Idle
    /\ CloseoutOf(p) \notin packets
    /\ quotes[p.quote].invoice = "paid"
    /\ p \notin tasks
    /\ tasks' = tasks \cup {p}
    /\ cpu' = [at |-> "close", payment |-> p]
    /\ UNCHANGED <<rowVars, handoffs, packets, crashes>>

(* The CRM task of the next renewal unless it is there, then the packet.     *)
CloseoutPacket(n) ==
  \E p \in PacketsOf(n, "payment"):
    /\ cpu = Idle
    /\ CloseoutOf(p) \notin packets
    /\ quotes[p.quote].invoice = "paid"
    /\ tasks' = tasks \cup {p}
    /\ cpu' = [at |-> "close", payment |-> p]
    /\ UNCHANGED <<rowVars, handoffs, packets, crashes>>

InsertCloseout ==
  /\ cpu.at = "close"
  /\ packets' = packets \cup {CloseoutOf(cpu.payment)}
  /\ cpu' = Idle
  /\ UNCHANGED <<rowVars, handoffs, tasks, crashes>>

-----------------------------------------------------------------------------
(* The functions of the source, cycle by cycle.                              *)

createClinicWellnessOfferQuoteHandoff == QuoteHandoff(0)
createClinicWellnessQuoteReleasePacket == QuoteReleasePacket(0)
createClinicWellnessQuoteAcceptanceHandoff == QuoteAcceptanceHandoff(0)
createClinicWellnessHayhashvapahDraftInvoicePacket == DraftInvoicePacket(0)
createClinicWellnessHayhashvapahInvoicePostingPacket == InvoicePostingPacket(0)
createClinicWellnessHayhashvapahPaymentCollectionPacket == PaymentCollectionPacket(0)
createClinicWellnessPilotCloseoutPacket == CloseoutPacket(0)

createClinicWellnessRenewalQuoteHandoff == QuoteHandoff(1)
createClinicWellnessRenewalQuoteReleasePacket == QuoteReleasePacket(1)
createClinicWellnessRenewalQuoteAcceptanceHandoff == QuoteAcceptanceHandoff(1)
createClinicWellnessRenewalHayhashvapahDraftInvoicePacket == DraftInvoicePacket(1)
createClinicWellnessRenewalHayhashvapahInvoicePostingPacket == InvoicePostingPacket(1)
createClinicWellnessRenewalHayhashvapahPaymentCollectionPacket == PaymentCollectionPacket(1)
createClinicWellnessRenewalCloseoutPacket == CloseoutPacket(1)

createClinicWellnessNextRenewalQuoteHandoff == QuoteHandoff(2)
createClinicWellnessNextRenewalQuoteReleasePacket == QuoteReleasePacket(2)
createClinicWellnessNextRenewalQuoteAcceptanceHandoff == QuoteAcceptanceHandoff(2)
createClinicWellnessNextRenewalHayhashvapahDraftInvoicePacket == DraftInvoicePacket(2)
createClinicWellnessNextRenewalHayhashvapahInvoicePostingPacket == InvoicePostingPacket(2)
createClinicWellnessNextRenewalHayhashvapahPaymentCollectionPacket == PaymentCollectionPacket(2)
createClinicWellnessNextRenewalCloseoutPacket == CloseoutPacket(2)

createClinicWellnessFollowingRenewalQuoteHandoff == QuoteHandoff(3)
createClinicWellnessFollowingRenewalQuoteReleasePacket == QuoteReleasePacket(3)
createClinicWellnessFollowingRenewalQuoteAcceptanceHandoff == QuoteAcceptanceHandoff(3)
createClinicWellnessFollowingRenewalHayhashvapahDraftInvoicePacket == DraftInvoicePacket(3)
createClinicWellnessFollowingRenewalHayhashvapahInvoicePostingPacket == InvoicePostingPacket(3)
createClinicWellnessFollowingRenewalHayhashvapahPaymentCollectionPacket == PaymentCollectionPacket(3)
createClinicWellnessFollowingRenewalCloseoutPacket == CloseoutPacket(3)

createClinicWellnessSubsequentRenewalQuoteHandoff == QuoteHandoff(4)
createClinicWellnessSubsequentRenewalQuoteReleasePacket == QuoteReleasePacket(4)
createClinicWellnessSubsequentRenewalQuoteAcceptanceHandoff == QuoteAcceptanceHandoff(4)
createClinicWellnessSubsequentRenewalHayhashvapahDraftInvoicePacket == DraftInvoicePacket(4)
createClinicWellnessSubsequentRenewalHayhashvapahInvoicePostingPacket == InvoicePostingPacket(4)
createClinicWellnessSubsequentRenewalHayhashvapahPaymentCollectionPacket == PaymentCollectionPacket(4)
createClinicWellnessSubsequentRenewalCloseoutPacket == CloseoutPacket(4)

createClinicWellnessContinuationRenewalQuoteHandoff == QuoteHandoff(5)
createClinicWellnessContinuationRenewalQuoteReleasePacket == QuoteReleasePacket(5)
createClinicWellnessContinuationRenewalQuoteAcceptanceHandoff == QuoteAcceptanceHandoff(5)
createClinicWellnessContinuationRenewalHayhashvapahDraftInvoicePacket == DraftInvoicePacket(5)
createClinicWellnessContinuationRenewalHayhashvapahInvoicePostingPacket == InvoicePostingPacket(5)
createClinicWellnessContinuationRenewalHayhashvapahPaymentCollectionPacket == PaymentCollectionPacket(5)
createClinicWellnessContinuationRenewalCloseoutPacket == CloseoutPacket(5)

createClinicWellnessOngoingRenewalQuoteHandoff == QuoteHandoff(6)
createClinicWellnessOngoingRenewalQuoteReleasePacket == QuoteReleasePacket(6)
createClinicWellnessOngoingRenewalQuoteAcceptanceHandoff == QuoteAcceptanceHandoff(6)
createClinicWellnessOngoingRenewalHayhashvapahDraftInvoicePacket == DraftInvoicePacket(6)
createClinicWellnessOngoingRenewalHayhashvapahInvoicePostingPacket == InvoicePostingPacket(6)
createClinicWellnessOngoingRenewalHayhashvapahPaymentCollectionPacket == PaymentCollectionPacket(6)
createClinicWellnessOngoingRenewalCloseoutPacket == CloseoutPacket(6)

createClinicWellnessNextOngoingRenewalQuoteHandoff == QuoteHandoff(7)
createClinicWellnessNextOngoingRenewalQuoteReleasePacket == QuoteReleasePacket(7)
createClinicWellnessNextOngoingRenewalQuoteAcceptanceHandoff == QuoteAcceptanceHandoff(7)
createClinicWellnessNextOngoingRenewalHayhashvapahDraftInvoicePacket == DraftInvoicePacket(7)
createClinicWellnessNextOngoingRenewalHayhashvapahInvoicePostingPacket == InvoicePostingPacket(7)
createClinicWellnessNextOngoingRenewalHayhashvapahPaymentCollectionPacket == PaymentCollectionPacket(7)
createClinicWellnessNextOngoingRenewalCloseoutPacket == CloseoutPacket(7)

createClinicWellnessFollowingOngoingRenewalQuoteHandoff == QuoteHandoff(8)
createClinicWellnessFollowingOngoingRenewalQuoteReleasePacket == QuoteReleasePacket(8)
createClinicWellnessFollowingOngoingRenewalQuoteAcceptanceHandoff == QuoteAcceptanceHandoff(8)
createClinicWellnessFollowingOngoingRenewalHayhashvapahDraftInvoicePacket == DraftInvoicePacket(8)
createClinicWellnessFollowingOngoingRenewalHayhashvapahInvoicePostingPacket == InvoicePostingPacket(8)
createClinicWellnessFollowingOngoingRenewalHayhashvapahPaymentCollectionPacket == PaymentCollectionPacket(8)
createClinicWellnessFollowingOngoingRenewalCloseoutPacket == CloseoutPacket(8)

createClinicWellnessSubsequentOngoingRenewalQuoteHandoff == QuoteHandoff(9)
createClinicWellnessSubsequentOngoingRenewalQuoteReleasePacket == QuoteReleasePacket(9)
createClinicWellnessSubsequentOngoingRenewalQuoteAcceptanceHandoff == QuoteAcceptanceHandoff(9)
createClinicWellnessSubsequentOngoingRenewalHayhashvapahDraftInvoicePacket == DraftInvoicePacket(9)
createClinicWellnessSubsequentOngoingRenewalHayhashvapahInvoicePostingPacket == InvoicePostingPacket(9)
createClinicWellnessSubsequentOngoingRenewalHayhashvapahPaymentCollectionPacket == PaymentCollectionPacket(9)
createClinicWellnessSubsequentOngoingRenewalCloseoutPacket == CloseoutPacket(9)

createClinicWellnessNextRecurringOngoingRenewalQuoteHandoff == QuoteHandoff(10)
createClinicWellnessNextRecurringOngoingRenewalQuoteReleasePacket == QuoteReleasePacket(10)
createClinicWellnessNextRecurringOngoingRenewalQuoteAcceptanceHandoff == QuoteAcceptanceHandoff(10)
createClinicWellnessNextRecurringOngoingRenewalHayhashvapahDraftInvoicePacket == DraftInvoicePacket(10)
createClinicWellnessNextRecurringOngoingRenewalHayhashvapahInvoicePostingPacket == InvoicePostingPacket(10)
createClinicWellnessNextRecurringOngoingRenewalHayhashvapahPaymentCollectionPacket == PaymentCollectionPacket(10)
createClinicWellnessNextRecurringOngoingRenewalCloseoutPacket == CloseoutPacket(10)

RenewalPackets ==
  \/ createClinicWellnessOfferQuoteHandoff
  \/ createClinicWellnessQuoteReleasePacket
  \/ createClinicWellnessQuoteAcceptanceHandoff
  \/ createClinicWellnessHayhashvapahDraftInvoicePacket
  \/ createClinicWellnessHayhashvapahInvoicePostingPacket
  \/ createClinicWellnessHayhashvapahPaymentCollectionPacket
  \/ createClinicWellnessPilotCloseoutPacket
  \/ createClinicWellnessRenewalQuoteHandoff
  \/ createClinicWellnessRenewalQuoteReleasePacket
  \/ createClinicWellnessRenewalQuoteAcceptanceHandoff
  \/ createClinicWellnessRenewalHayhashvapahDraftInvoicePacket
  \/ createClinicWellnessRenewalHayhashvapahInvoicePostingPacket
  \/ createClinicWellnessRenewalHayhashvapahPaymentCollectionPacket
  \/ createClinicWellnessRenewalCloseoutPacket
  \/ createClinicWellnessNextRenewalQuoteHandoff
  \/ createClinicWellnessNextRenewalQuoteReleasePacket
  \/ createClinicWellnessNextRenewalQuoteAcceptanceHandoff
  \/ createClinicWellnessNextRenewalHayhashvapahDraftInvoicePacket
  \/ createClinicWellnessNextRenewalHayhashvapahInvoicePostingPacket
  \/ createClinicWellnessNextRenewalHayhashvapahPaymentCollectionPacket
  \/ createClinicWellnessNextRenewalCloseoutPacket
  \/ createClinicWellnessFollowingRenewalQuoteHandoff
  \/ createClinicWellnessFollowingRenewalQuoteReleasePacket
  \/ createClinicWellnessFollowingRenewalQuoteAcceptanceHandoff
  \/ createClinicWellnessFollowingRenewalHayhashvapahDraftInvoicePacket
  \/ createClinicWellnessFollowingRenewalHayhashvapahInvoicePostingPacket
  \/ createClinicWellnessFollowingRenewalHayhashvapahPaymentCollectionPacket
  \/ createClinicWellnessFollowingRenewalCloseoutPacket
  \/ createClinicWellnessSubsequentRenewalQuoteHandoff
  \/ createClinicWellnessSubsequentRenewalQuoteReleasePacket
  \/ createClinicWellnessSubsequentRenewalQuoteAcceptanceHandoff
  \/ createClinicWellnessSubsequentRenewalHayhashvapahDraftInvoicePacket
  \/ createClinicWellnessSubsequentRenewalHayhashvapahInvoicePostingPacket
  \/ createClinicWellnessSubsequentRenewalHayhashvapahPaymentCollectionPacket
  \/ createClinicWellnessSubsequentRenewalCloseoutPacket
  \/ createClinicWellnessContinuationRenewalQuoteHandoff
  \/ createClinicWellnessContinuationRenewalQuoteReleasePacket
  \/ createClinicWellnessContinuationRenewalQuoteAcceptanceHandoff
  \/ createClinicWellnessContinuationRenewalHayhashvapahDraftInvoicePacket
  \/ createClinicWellnessContinuationRenewalHayhashvapahInvoicePostingPacket
  \/ createClinicWellnessContinuationRenewalHayhashvapahPaymentCollectionPacket
  \/ createClinicWellnessContinuationRenewalCloseoutPacket
  \/ createClinicWellnessOngoingRenewalQuoteHandoff
  \/ createClinicWellnessOngoingRenewalQuoteReleasePacket
  \/ createClinicWellnessOngoingRenewalQuoteAcceptanceHandoff
  \/ createClinicWellnessOngoingRenewalHayhashvapahDraftInvoicePacket
  \/ createClinicWellnessOngoingRenewalHayhashvapahInvoicePostingPacket
  \/ createClinicWellnessOngoingRenewalHayhashvapahPaymentCollectionPacket
  \/ createClinicWellnessOngoingRenewalCloseoutPacket
  \/ createClinicWellnessNextOngoingRenewalQuoteHandoff
  \/ createClinicWellnessNextOngoingRenewalQuoteReleasePacket
  \/ createClinicWellnessNextOngoingRenewalQuoteAcceptanceHandoff
  \/ createClinicWellnessNextOngoingRenewalHayhashvapahDraftInvoicePacket
  \/ createClinicWellnessNextOngoingRenewalHayhashvapahInvoicePostingPacket
  \/ createClinicWellnessNextOngoingRenewalHayhashvapahPaymentCollectionPacket
  \/ createClinicWellnessNextOngoingRenewalCloseoutPacket
  \/ createClinicWellnessFollowingOngoingRenewalQuoteHandoff
  \/ createClinicWellnessFollowingOngoingRenewalQuoteReleasePacket
  \/ createClinicWellnessFollowingOngoingRenewalQuoteAcceptanceHandoff
  \/ createClinicWellnessFollowingOngoingRenewalHayhashvapahDraftInvoicePacket
  \/ createClinicWellnessFollowingOngoingRenewalHayhashvapahInvoicePostingPacket
  \/ createClinicWellnessFollowingOngoingRenewalHayhashvapahPaymentCollectionPacket
  \/ createClinicWellnessFollowingOngoingRenewalCloseoutPacket
  \/ createClinicWellnessSubsequentOngoingRenewalQuoteHandoff
  \/ createClinicWellnessSubsequentOngoingRenewalQuoteReleasePacket
  \/ createClinicWellnessSubsequentOngoingRenewalQuoteAcceptanceHandoff
  \/ createClinicWellnessSubsequentOngoingRenewalHayhashvapahDraftInvoicePacket
  \/ createClinicWellnessSubsequentOngoingRenewalHayhashvapahInvoicePostingPacket
  \/ createClinicWellnessSubsequentOngoingRenewalHayhashvapahPaymentCollectionPacket
  \/ createClinicWellnessSubsequentOngoingRenewalCloseoutPacket
  \/ createClinicWellnessNextRecurringOngoingRenewalQuoteHandoff
  \/ createClinicWellnessNextRecurringOngoingRenewalQuoteReleasePacket
  \/ createClinicWellnessNextRecurringOngoingRenewalQuoteAcceptanceHandoff
  \/ createClinicWellnessNextRecurringOngoingRenewalHayhashvapahDraftInvoicePacket
  \/ createClinicWellnessNextRecurringOngoingRenewalHayhashvapahInvoicePostingPacket
  \/ createClinicWellnessNextRecurringOngoingRenewalHayhashvapahPaymentCollectionPacket
  \/ createClinicWellnessNextRecurringOngoingRenewalCloseoutPacket

-----------------------------------------------------------------------------
(* The statements after the first of a request that is running.              *)
Running ==
  \/ RecordRun \/ MarkExecuted
  \/ AcceptQuote \/ AskFinance
  \/ PostStatus \/ PayStatus
  \/ AskRelease \/ HandOver \/ InsertCloseout

RenewalNext ==
  \/ RenewalPackets
  \/ \E q \in Quote:
       \/ \E which \in {"release", "finance"}, verdict \in {"approved", "rejected"}:
            Decide(q, which, verdict)
       \/ ExecuteRelease(q) \/ ExecuteInvoice(q)
       \/ Accept(q) \/ PostInvoice(q)
       \/ \E amount \in Amount, latest \in BOOLEAN: RecordPayment(q, amount, latest)
  \/ Running

(* All steps once the plan of the launch is there.                           *)
PlannedNext ==
  \/ Clearing /\ UNCHANGED renewalVars
  \/ RenewalNext /\ UNCHANGED launchVars
  \/ Crash /\ UNCHANGED renewalVars

Next ==
  \/ Evidence /\ UNCHANGED renewalVars
  \/ PlannedNext

Spec == Init /\ [][Next]_vars

(* The requests that bring a cycle on.  A customer who has paid is not asked  *)
(* to pay again.                                                             *)
Progress ==
  \/ RenewalPackets
  \/ \E q \in Quote:
       \/ \E which \in {"release", "finance"}: Decide(q, which, "approved")
       \/ ExecuteRelease(q) \/ ExecuteInvoice(q)
       \/ Accept(q) \/ PostInvoice(q)
       \/ Collected(quotes[q]) < quotes[q].total
          /\ \E amount \in Amount: RecordPayment(q, amount, TRUE)

(* A tenant with a plan and people who go on: a running request goes on, and  *)
(* as long as some request would bring a cycle on one is made.               *)
RenewalSpec ==
  /\ PlannedInit
  /\ [][PlannedNext]_vars
  /\ WF_vars(Running /\ UNCHANGED launchVars)
  /\ WF_vars(Progress /\ UNCHANGED launchVars)

-----------------------------------------------------------------------------
(* Properties.                                                               *)

(* The rows have the shape of their tables, and what they refer to is there. *)
TypeOK ==
  /\ LaunchTypeOK
  /\ \A q \in Quote:
       /\ quotes[q].status \in {"draft", "sent", "signed", "accepted"}
       /\ quotes[q].total \in Nat \ {0}
       /\ {quotes[q].release, quotes[q].finance}
            \subseteq {"none", "pending", "approved", "rejected", "ran", "executed"}
       /\ quotes[q].draft \in {"none", "draft", "linked", "posted"}
       /\ quotes[q].invoice \in {"none", "open", "paid"}
       /\ quotes[q].receipts \in Seq(Amount)
       /\ quotes[q].latest \in 0..Len(quotes[q].receipts)
  /\ \A h \in handoffs:
       /\ h.cycle \in Cycle
       /\ h.quote \in Quote
  /\ \A p \in packets \cup tasks:
       /\ p.cycle \in Cycle
       /\ p.quote \in Quote
       /\ p.receipt \in 0..Len(quotes[p.quote].receipts)
       /\ p.stage \in {"release", "acceptance", "draft", "posting", "payment", "closeout"}
  /\ extras \in 0..MaxExtras

(* A packet is evidence, and what it certifies is true for ever: the quote it *)
(* calls released is released, the invoice it calls paid is covered.         *)
EvidenceStaysTrue ==
  \A p \in packets:
    LET row == quotes[p.quote] IN
    /\ p.stage = "release" => row.release = "executed" /\ row.status # "draft"
    /\ p.stage = "acceptance" => row.status = "accepted" /\ row.finance # "none"
    /\ p.stage = "draft" => row.finance = "executed" /\ row.draft # "none"
    /\ p.stage = "posting" => row.draft = "posted" /\ row.invoice # "none"
    /\ p.stage \in {"payment", "closeout"} =>
         row.invoice = "paid" /\ Collected(row) >= row.total

(* The packets of a closed cycle are all there, with the task of the renewal. *)
Complete(k) ==
  /\ {k, PaymentOf(k)} \subseteq packets
  /\ \A stage \in {"release", "acceptance", "draft", "posting"}:
       Packet(k.cycle, stage, k.quote, 0) \in packets
  /\ PaymentOf(k) \in tasks

EarnedIn ==
  LET earned[n \in Cycle] ==
        {h \in handoffs:
           /\ h.cycle = n
           /\ IF n = 0 THEN h.source.offer \in offer /\ Earned(h.source.offer)
              ELSE /\ Complete(h.source.closeout)
                   /\ \E g \in earned[n - 1]: g.quote = h.source.closeout.quote}
  IN  earned

(* A quote of a renewal goes back, closeout by closeout, to the paid offer of *)
(* the pilot, every cycle in between is complete, and the offer is made of a  *)
(* launch with its whole evidence and every action of its plan resolved.     *)
EveryRenewalWasEarned == \A h \in handoffs: h \in EarnedIn[h.cycle]

(* A cycle is renewed once, and once more for each receipt of an invoice that *)
(* was paid already: retries and crashes renew nothing twice, and a partial   *)
(* receipt renews nothing.                                                   *)
RenewalsPerReceipt ==
  \A q \in Quote:
    Cardinality({h \in handoffs: h.cycle > 0 /\ h.source.closeout.quote = q})
      <= 1 + extras

(* A quote that no handoff knows is the work of a request that is running or *)
(* of one that died, and a request leaves at most one.                       *)
OrphanQuotesAreCrashes ==
  Len(quotes) - Cardinality(handoffs)
    <= crashes + (IF cpu.at \in {"ask", "handoff"} THEN 1 ELSE 0)

(* Where a cycle may end before its closeout: a rejected approval, or rows    *)
(* that a crash left half done and no later request completes.               *)
DeadEnd(row) ==
  \/ "rejected" \in {row.release, row.finance}
  \/ "ran" \in {row.release, row.finance}
  \/ row.status = "signed"
  \/ row.status = "accepted" /\ row.finance = "none"
  \/ row.draft = "linked"
  \/ row.invoice = "open" /\ Collected(row) >= row.total

Closed(q) == \E p \in packets: p.stage = "closeout" /\ p.quote = q

(* However long it takes and whatever dies on the way, a moment comes again   *)
(* and again at which every quote that was handed over is closed out or in   *)
(* one of the dead ends above: no other state stops a cycle.                 *)
EveryHandoffCloses ==
  []<>(\A h \in handoffs:
         Closed(h.quote) \/ (cpu = Idle /\ DeadEnd(quotes[h.quote])))

=============================================================================
