----------------------------- MODULE Receivables -----------------------------
(***************************************************************************)
(* The money side of A1 Suite: finance periods, posting a draft invoice,   *)
(* payment receipts, the receivables total of a customer, bank-transaction *)
(* import and reconciliation, collection promises and their reminders.     *)
(*                                                                         *)
(* The server is one Node process over one SQLite file.  Every statement   *)
(* commits on its own: none of these handlers opens a transaction.  A      *)
(* handler runs without interruption until it returns or reaches an await  *)
(* on the network, so `cpu' holds the one handler that is running and the  *)
(* statement it executes next, and `awaiting' the reconciliations that     *)
(* are suspended in the invoice_paid webhook.  A crash loses both and      *)
(* keeps the tables.  All invoices belong to one customer.                 *)
(***************************************************************************)
EXTENDS Integers, FiniteSets, Functions

CONSTANTS
  Draft,        (* draft invoices, made by the approval workflow             *)
  Invoice,      (* ids available to posted invoices                          *)
  Period,       (* finance periods                                           *)
  Reference,    (* payment references                                        *)
  Amount,       (* amounts a payment, a credit or a promise may have         *)
  Task,         (* CRM collection tasks                                      *)
  Promise,      (* collection promises                                       *)
  Channel,      (* reminder channels                                         *)
  BankTx,       (* imported bank transactions                                *)
  None,         (* SQL NULL                                                  *)
  DraftPeriod,  (* the period key of a draft                                 *)
  Total,        (* the total of every invoice                                *)
  MaxPayments,  (* bound: payment receipts                                   *)
  MaxCrashes    (* bound: process crashes                                    *)

ASSUME AmountsArePositive == Amount \subseteq Nat \ {0} /\ Total \in Nat \ {0}
ASSUME DraftPeriodType    == DraftPeriod \in [Draft -> Period]
ASSUME BoundsAreNatural   == MaxPayments \in Nat /\ MaxCrashes \in Nat
ASSUME NoneIsNoRow        == None \notin Draft \cup Invoice \cup BankTx \cup Task

VARIABLES
  periodStatus,     (* finance_periods.status                                *)
  draftStatus,      (* finance_draft_invoices.status                         *)
  invoiceDraft,     (* invoices: the draft a row was copied from, None=no row *)
  invoiceStatus,    (* invoices.status                                       *)
  link,             (* finance_invoice_links: the invoice of a draft         *)
  payments,         (* finance_payments                                      *)
  journal,          (* ledger_journal                                        *)
  openReceivables,  (* the invoices summed in customers.open_receivables     *)
  task,             (* crm_tasks                                             *)
  promise,          (* crm_collection_promises                               *)
  reminders,        (* crm_collection_reminder_deliveries                    *)
  bank,             (* finance_bank_transactions                             *)
  notified,         (* payments for which invoice_paid was handed to webhooks *)
  cpu,              (* the running handler and its next statement            *)
  awaiting,         (* reconciliations suspended in the webhook              *)
  crashes           (* how many times the process died                       *)

ledgerVars == <<periodStatus, draftStatus, invoiceDraft, link>>
crmVars    == <<task, promise, reminders>>
vars == <<ledgerVars, invoiceStatus, payments, journal, openReceivables,
          crmVars, bank, notified, cpu, awaiting, crashes>>

-----------------------------------------------------------------------------
(* Rows, and the frames a handler can be in between two statements.        *)

Payment == [invoice: Invoice, ref: Reference, amount: Amount, period: Period]

InvoiceEntry == [leg: {"net", "vat"}, invoice: Invoice, period: Period]
CashEntry    == [leg: {"cash"}, payment: Payment]
Entry        == InvoiceEntry \cup CashEntry

TaskRow    == [status: {"none", "open", "waiting-payment", "reminder-sent", "closed"},
               invoice: Invoice \cup {None}]
PromiseRow == [status: {"none", "scheduled", "reminder-sent", "fulfilled"},
               task: Task \cup {None}, amount: Amount \cup {0}]
BankField  == [status: {"none", "unmatched", "matched", "reconciled"},
               invoice: Invoice \cup {None}, payments: SUBSET Payment,
               ref: Reference \cup {None}, amount: Amount \cup {0},
               period: Period \cup {None}]
BankRow    ==
  {b \in BankField: b.status = "matched" =>
     /\ b.invoice \in Invoice /\ b.ref \in Reference
     /\ b.amount \in Amount /\ b.period \in Period}

Idle         == [at |-> "idle"]
PostFrame    == [at: {"link", "posted", "net", "vat"}, draft: Draft, invoice: Invoice]
PayFrame     == [at: {"status", "refresh", "cash", "fulfil", "notify", "settle"},
                 payment: Payment, tx: BankTx \cup {None}]
CloseFrame   == [at: {"close"}, payment: Payment, tx: BankTx \cup {None},
                 promise: Promise]
PromiseFrame == [at: {"promiseTask", "reminderPromise", "reminderTask"},
                 promise: Promise]

TypeOK ==
  /\ periodStatus \in [Period -> {"open", "closed"}]
  /\ draftStatus \in [Draft -> {"draft", "posted"}]
  /\ invoiceDraft \in [Invoice -> Draft \cup {None}]
  /\ invoiceStatus \in [Invoice -> {"none", "open", "partial", "paid"}]
  /\ link \in [Draft -> Invoice \cup {None}]
  /\ payments \subseteq Payment
  /\ journal \subseteq Entry
  /\ openReceivables \subseteq Invoice
  /\ task \in [Task -> TaskRow]
  /\ promise \in [Promise -> PromiseRow]
  /\ reminders \subseteq Promise \X Channel
  /\ bank \in [BankTx -> BankRow]
  /\ notified \subseteq Payment
  /\ cpu \in {Idle} \cup PostFrame \cup PayFrame \cup CloseFrame \cup PromiseFrame
  /\ awaiting \subseteq PayFrame
  /\ crashes \in 0..MaxCrashes

Init ==
  /\ periodStatus = [p \in Period |-> "open"]
  /\ draftStatus = [d \in Draft |-> "draft"]
  /\ invoiceDraft = [i \in Invoice |-> None]
  /\ invoiceStatus = [i \in Invoice |-> "none"]
  /\ link = [d \in Draft |-> None]
  /\ payments = {} /\ journal = {} /\ openReceivables = {}
  /\ task = [k \in Task |-> [status |-> "none", invoice |-> None]]
  /\ promise = [q \in Promise |-> [status |-> "none", task |-> None, amount |-> 0]]
  /\ reminders = {} /\ notified = {}
  /\ bank = [t \in BankTx |-> [status |-> "none", invoice |-> None, payments |-> {},
                               ref |-> None, amount |-> 0, period |-> None]]
  /\ cpu = Idle /\ awaiting = {} /\ crashes = 0

-----------------------------------------------------------------------------
(* Queries.                                                                 *)

Exists(i)   == invoiceStatus[i] # "none"
Unpaid(i)   == invoiceStatus[i] \in {"open", "partial"}
IsOpen(p)   == periodStatus[p] = "open"

(* getInvoicePaymentTotal *)
PaidTotal(i) == SumFunction([p \in {q \in payments: q.invoice = i} |-> p.amount])

(* Mutant: the comparison is off by one unit.                                *)
StatusByAlmostTotal(i) == IF PaidTotal(i) >= Total - 1 THEN "paid" ELSE "partial"

StatusByPayments(i) == IF PaidTotal(i) >= Total THEN "paid" ELSE "partial"

(* Mutant: the key is payment:<invoice>:<reference>.                         *)
ByReference(i, r, a) == {p \in payments: p.invoice = i /\ p.ref = r}

(* The row with the unique source_key payment:<invoice>:<reference>:<amount>; *)
(* neither the date nor the period of the receipt is part of the key.        *)
SameSource(p, i, r, a) == p.invoice = i /\ p.ref = r /\ p.amount = a
BySource(i, r, a)      == {p \in payments: SameSource(p, i, r, a)}

PromiseInvoice(q)  == task[promise[q].task].invoice
Unfulfilled(i)     == {q \in Promise: /\ promise[q].status \in {"scheduled", "reminder-sent"}
                                      /\ PromiseInvoice(q) = i}

(* findBankTransactionMatch: the reference names the invoice (55 points) and *)
(* the amount is its total (25) or that of a live promise (15 + 8); only     *)
(* then is the score at least 70.                                            *)
Matches(i, a) ==
  /\ Unpaid(i)
  /\ a = Total \/ \E q \in Unfulfilled(i): promise[q].amount = a

Goto(label) == cpu' = [cpu EXCEPT !.at = label]

-----------------------------------------------------------------------------
(* POST /api/finance/periods/:key/close and /reopen: no check of the status. *)

SetPeriod(p, status) ==
  /\ cpu = Idle
  /\ periodStatus' = [periodStatus EXCEPT ![p] = status]
  /\ UNCHANGED <<draftStatus, invoiceDraft, link, invoiceStatus, payments, journal,
                 openReceivables, crmVars, bank, notified, cpu, awaiting, crashes>>

ClosePeriod(p)  == SetPeriod(p, "closed")
ReopenPeriod(p) == SetPeriod(p, "open")

-----------------------------------------------------------------------------
(* postDraftInvoice: the period is tested before the link, and the link is   *)
(* what makes a second call idempotent; the id of the invoice is fresh.      *)

(* Mutant: the link of an earlier call is not looked for.                    *)
PostInvoiceAgain(d, i) ==
  /\ cpu = Idle
  /\ IsOpen(DraftPeriod[d])
  /\ invoiceStatus[i] = "none"
  /\ invoiceDraft' = [invoiceDraft EXCEPT ![i] = d]
  /\ invoiceStatus' = [invoiceStatus EXCEPT ![i] = "open"]
  /\ cpu' = [at |-> "link", draft |-> d, invoice |-> i]
  /\ UNCHANGED <<periodStatus, draftStatus, link, payments, journal, openReceivables,
                 crmVars, bank, notified, awaiting, crashes>>

PostInvoice(d, i) ==
  /\ cpu = Idle
  /\ IsOpen(DraftPeriod[d])
  /\ link[d] = None
  /\ invoiceStatus[i] = "none"
  /\ invoiceDraft' = [invoiceDraft EXCEPT ![i] = d]
  /\ invoiceStatus' = [invoiceStatus EXCEPT ![i] = "open"]
  /\ cpu' = [at |-> "link", draft |-> d, invoice |-> i]
  /\ UNCHANGED <<periodStatus, draftStatus, link, payments, journal, openReceivables,
                 crmVars, bank, notified, awaiting, crashes>>

PostLink ==
  /\ cpu.at = "link"
  /\ link' = [link EXCEPT ![cpu.draft] = cpu.invoice]
  /\ Goto("posted")
  /\ UNCHANGED <<periodStatus, draftStatus, invoiceDraft, invoiceStatus, payments, journal,
                 openReceivables, crmVars, bank, notified, awaiting, crashes>>

PostStatus ==
  /\ cpu.at = "posted"
  /\ draftStatus' = [draftStatus EXCEPT ![cpu.draft] = "posted"]
  /\ Goto("net")
  /\ UNCHANGED <<periodStatus, invoiceDraft, link, invoiceStatus, payments, journal,
                 openReceivables, crmVars, bank, notified, awaiting, crashes>>

(* Mutant: the VAT entry is left out.                                        *)
PostLedgerNetOnly ==
  /\ cpu.at = "net"
  /\ journal' = journal \cup {[leg |-> "net", invoice |-> cpu.invoice,
                               period |-> DraftPeriod[cpu.draft]]}
  /\ cpu' = Idle
  /\ UNCHANGED <<ledgerVars, invoiceStatus, payments, openReceivables,
                 crmVars, bank, notified, awaiting, crashes>>

(* ledger.postInvoicePosted: receivable/revenue, then receivable/output VAT. *)
PostLedger ==
  /\ cpu.at \in {"net", "vat"}
  /\ IsOpen(DraftPeriod[cpu.draft])
  /\ journal' = journal \cup {[leg |-> cpu.at, invoice |-> cpu.invoice,
                               period |-> DraftPeriod[cpu.draft]]}
  /\ IF cpu.at = "net" THEN Goto("vat") ELSE cpu' = Idle
  /\ UNCHANGED <<ledgerVars, invoiceStatus, payments, openReceivables,
                 crmVars, bank, notified, awaiting, crashes>>

-----------------------------------------------------------------------------
(* recordInvoicePayment, from the payment route (tx = None) or from a        *)
(* reconciliation.  A receipt whose source key exists is answered with the   *)
(* existing row: the payment route changes nothing then, a reconciliation    *)
(* goes on with that row.  The route does not ask whether the invoice is     *)
(* already paid.                                                             *)

RecordPayment(i, r, a, p, tx) ==
  LET receipt == [invoice |-> i, ref |-> r, amount |-> a, period |-> p] IN
  /\ BySource(i, r, a) = {}
  /\ Cardinality(payments) < MaxPayments
  /\ payments' = payments \cup {receipt}
  /\ cpu' = [at |-> "status", payment |-> receipt, tx |-> tx]

(* Mutant: the period of the receipt is not tested.                          *)
PayInvoiceAnyPeriod(i, r, a, p) ==
  /\ cpu = Idle
  /\ Exists(i)
  /\ RecordPayment(i, r, a, p, None)
  /\ UNCHANGED <<ledgerVars, invoiceStatus, journal, openReceivables, crmVars, bank,
                 notified, awaiting, crashes>>

PayInvoice(i, r, a, p) ==
  /\ cpu = Idle
  /\ Exists(i)
  /\ IsOpen(p)
  /\ RecordPayment(i, r, a, p, None)
  /\ UNCHANGED <<ledgerVars, invoiceStatus, journal, openReceivables, crmVars, bank,
                 notified, awaiting, crashes>>

(* Mutant: the period of the credit is not tested.                           *)
ReconcileAnyPeriod(t) ==
  LET b == bank[t] IN
  /\ cpu = Idle
  /\ b.status = "matched"
  /\ Unpaid(b.invoice)
  /\ RecordPayment(b.invoice, b.ref, b.amount, b.period, t)
  /\ UNCHANGED <<ledgerVars, invoiceStatus, journal, openReceivables, crmVars, bank,
                 notified, awaiting, crashes>>

(* reconcileFinanceBankTransaction *)
Reconcile(t) ==
  LET b == bank[t] IN
  /\ cpu = Idle
  /\ b.status = "matched"
  /\ Unpaid(b.invoice)
  /\ IsOpen(b.period)
  /\ \/ RecordPayment(b.invoice, b.ref, b.amount, b.period, t)
     \/ \E p \in BySource(b.invoice, b.ref, b.amount):
          /\ cpu' = [at |-> "settle", payment |-> p, tx |-> t]
          /\ UNCHANGED payments
  /\ UNCHANGED <<ledgerVars, invoiceStatus, journal, openReceivables, crmVars, bank,
                 notified, awaiting, crashes>>

(* Mutant: a paid invoice is announced before it is booked.                  *)
PayStatusNotifiesFirst ==
  /\ cpu.at = "status"
  /\ LET i == cpu.payment.invoice IN
       /\ invoiceStatus' = [invoiceStatus EXCEPT ![i] = StatusByPayments(i)]
       /\ IF StatusByPayments(i) = "paid" THEN Goto("notify") ELSE Goto("refresh")
  /\ UNCHANGED <<ledgerVars, payments, journal, openReceivables, crmVars, bank, notified,
                 awaiting, crashes>>

PayStatus ==
  /\ cpu.at = "status"
  /\ LET i == cpu.payment.invoice IN
       invoiceStatus' = [invoiceStatus EXCEPT ![i] = StatusByPayments(i)]
  /\ Goto("refresh")
  /\ UNCHANGED <<ledgerVars, payments, journal, openReceivables, crmVars, bank, notified,
                 awaiting, crashes>>

(* refreshCustomerReceivables *)
PayRefresh ==
  /\ cpu.at = "refresh"
  /\ openReceivables' = {i \in Invoice: Unpaid(i)}
  /\ Goto("cash")
  /\ UNCHANGED <<ledgerVars, invoiceStatus, payments, journal, crmVars, bank, notified,
                 awaiting, crashes>>

(* What follows the last statement that a payment route and a                *)
(* reconciliation share.                                                     *)
AfterReceipt == IF cpu.tx = None THEN cpu' = Idle ELSE Goto("settle")

(* Mutant: any receipt fulfils the promises of its invoice.                  *)
PaysOffAlways(i) == i = cpu.payment.invoice

PaysOff(i) == invoiceStatus[i] = "paid"

(* ledger.postPaymentReceived *)
PayCash ==
  /\ cpu.at = "cash"
  /\ IsOpen(cpu.payment.period)
  /\ journal' = journal \cup {[leg |-> "cash", payment |-> cpu.payment]}
  /\ IF PaysOff(cpu.payment.invoice) THEN Goto("fulfil") ELSE AfterReceipt
  /\ UNCHANGED <<ledgerVars, invoiceStatus, payments, openReceivables, crmVars, bank,
                 notified, awaiting, crashes>>

(* fulfillCollectionPromisesForPayment: every promise of the invoice that is *)
(* not fulfilled, and the task of each.                                      *)
FulfilPromise(q) ==
  /\ cpu.at = "fulfil"
  /\ q \in Unfulfilled(cpu.payment.invoice)
  /\ promise' = [promise EXCEPT ![q].status = "fulfilled"]
  /\ cpu' = [at |-> "close", payment |-> cpu.payment, tx |-> cpu.tx, promise |-> q]
  /\ UNCHANGED <<ledgerVars, invoiceStatus, payments, journal, openReceivables, task,
                 reminders, bank, notified, awaiting, crashes>>

CloseTask ==
  /\ cpu.at = "close"
  /\ task' = [task EXCEPT ![promise[cpu.promise].task].status = "closed"]
  /\ cpu' = [at |-> "fulfil", payment |-> cpu.payment, tx |-> cpu.tx]
  /\ UNCHANGED <<ledgerVars, invoiceStatus, payments, journal, openReceivables, promise,
                 reminders, bank, notified, awaiting, crashes>>

AllFulfilled ==
  /\ cpu.at = "fulfil"
  /\ Unfulfilled(cpu.payment.invoice) = {}
  /\ Goto("notify")
  /\ UNCHANGED <<ledgerVars, invoiceStatus, payments, journal, openReceivables, crmVars,
                 bank, notified, awaiting, crashes>>

(* deliverWebhookEvent("invoice_paid"): with an endpoint that subscribes the  *)
(* handler is suspended in its fetch, without one it goes straight on.       *)
Notify ==
  /\ cpu.at = "notify"
  /\ \/ /\ notified' = notified \cup {cpu.payment}
        /\ awaiting' = IF cpu.tx = None THEN awaiting
                       ELSE awaiting \cup {[cpu EXCEPT !.at = "settle"]}
        /\ cpu' = Idle
     \/ /\ AfterReceipt
        /\ UNCHANGED <<notified, awaiting>>
  /\ UNCHANGED <<ledgerVars, invoiceStatus, payments, journal, openReceivables, crmVars,
                 bank, crashes>>

(* Mutant: the tail of the reconciliation is not run after the await.        *)
WebhookDropsTail(f) ==
  /\ cpu = Idle
  /\ f \in awaiting
  /\ awaiting' = awaiting \ {f}
  /\ UNCHANGED <<ledgerVars, invoiceStatus, payments, journal, openReceivables, crmVars,
                 bank, notified, cpu, crashes>>

(* The fetches ended, with an answer or with an error that is recorded.      *)
WebhookEnds(f) ==
  /\ cpu = Idle
  /\ f \in awaiting
  /\ cpu' = f
  /\ awaiting' = awaiting \ {f}
  /\ UNCHANGED <<ledgerVars, invoiceStatus, payments, journal, openReceivables, crmVars,
                 bank, notified, crashes>>

(* The tail of reconcileFinanceBankTransaction, after the await: the row is  *)
(* not read again.                                                           *)
Settle ==
  /\ cpu.at = "settle"
  /\ bank' = [bank EXCEPT ![cpu.tx].status = "reconciled",
                          ![cpu.tx].payments = {cpu.payment}]
  /\ cpu' = Idle
  /\ UNCHANGED <<ledgerVars, invoiceStatus, payments, journal, openReceivables, crmVars,
                 notified, awaiting, crashes>>

-----------------------------------------------------------------------------
(* Bank transactions and collection promises.                               *)

(* createFinanceBankTransaction: bank, reference, date and amount make the    *)
(* row unique, so two rows may still share reference and amount.             *)
ImportBankTx(t, i, r, a, p) ==
  LET matched == i # None /\ Matches(i, a) IN
  /\ cpu = Idle
  /\ bank[t].status = "none"
  /\ bank' = [bank EXCEPT ![t] =
                [status |-> IF matched THEN "matched" ELSE "unmatched",
                 invoice |-> IF matched THEN i ELSE None,
                 payments |-> {}, ref |-> r, amount |-> a, period |-> p]]
  /\ UNCHANGED <<ledgerVars, invoiceStatus, payments, journal, openReceivables, crmVars,
                 notified, cpu, awaiting, crashes>>

(* createCrmTaskFromApproval, run by an approved crm.task.create.            *)
OpenTask(k, i) ==
  /\ cpu = Idle
  /\ task[k].status = "none"
  /\ Exists(i)
  /\ task' = [task EXCEPT ![k] = [status |-> "open", invoice |-> i]]
  /\ UNCHANGED <<ledgerVars, invoiceStatus, payments, journal, openReceivables, promise,
                 reminders, bank, notified, cpu, awaiting, crashes>>

(* createCollectionPromiseForTask *)
RecordPromise(q, k, a) ==
  /\ cpu = Idle
  /\ promise[q].status = "none"
  /\ task[k].status # "none"
  /\ Unpaid(task[k].invoice)
  /\ a <= Total
  /\ promise' = [promise EXCEPT ![q] = [status |-> "scheduled", task |-> k, amount |-> a]]
  /\ cpu' = [at |-> "promiseTask", promise |-> q]
  /\ UNCHANGED <<ledgerVars, invoiceStatus, payments, journal, openReceivables, task,
                 reminders, bank, notified, awaiting, crashes>>

(* sendCollectionReminder: one delivery per promise and channel; neither the *)
(* status of the promise nor that of the invoice is looked at.               *)
SendReminder(q, c) ==
  /\ cpu = Idle
  /\ promise[q].status # "none"
  /\ <<q, c>> \notin reminders
  /\ reminders' = reminders \cup {<<q, c>>}
  /\ cpu' = [at |-> "reminderPromise", promise |-> q]
  /\ UNCHANGED <<ledgerVars, invoiceStatus, payments, journal, openReceivables, task,
                 promise, bank, notified, awaiting, crashes>>

ReminderPromise ==
  /\ cpu.at = "reminderPromise"
  /\ promise' = [promise EXCEPT ![cpu.promise].status = "reminder-sent"]
  /\ Goto("reminderTask")
  /\ UNCHANGED <<ledgerVars, invoiceStatus, payments, journal, openReceivables, task,
                 reminders, bank, notified, awaiting, crashes>>

UpdateTask ==
  /\ cpu.at \in {"promiseTask", "reminderTask"}
  /\ LET status == IF cpu.at = "promiseTask" THEN "waiting-payment" ELSE "reminder-sent"
     IN  task' = [task EXCEPT ![promise[cpu.promise].task].status = status]
  /\ cpu' = Idle
  /\ UNCHANGED <<ledgerVars, invoiceStatus, payments, journal, openReceivables, promise,
                 reminders, bank, notified, awaiting, crashes>>

-----------------------------------------------------------------------------
(* The process dies and is started again: handlers are lost, tables stay.    *)
Crash ==
  /\ cpu # Idle \/ awaiting # {}
  /\ crashes < MaxCrashes
  /\ crashes' = crashes + 1
  /\ cpu' = Idle
  /\ awaiting' = {}
  /\ UNCHANGED <<ledgerVars, invoiceStatus, payments, journal, openReceivables, crmVars,
                 bank, notified>>

Request ==
  \/ \E p \in Period: ClosePeriod(p) \/ ReopenPeriod(p)
  \/ \E d \in Draft, i \in Invoice: PostInvoice(d, i)
  \/ \E i \in Invoice, r \in Reference, a \in Amount, p \in Period: PayInvoice(i, r, a, p)
  \/ \E t \in BankTx: Reconcile(t)
  \/ \E t \in BankTx, i \in Invoice \cup {None}, r \in Reference, a \in Amount, p \in Period:
       ImportBankTx(t, i, r, a, p)
  \/ \E k \in Task, i \in Invoice: OpenTask(k, i)
  \/ \E q \in Promise, k \in Task, a \in Amount: RecordPromise(q, k, a)
  \/ \E q \in Promise, c \in Channel: SendReminder(q, c)

Statement ==
  \/ PostLink \/ PostStatus \/ PostLedger
  \/ PayStatus \/ PayRefresh \/ PayCash
  \/ (\E q \in Promise: FulfilPromise(q)) \/ CloseTask \/ AllFulfilled
  \/ Notify \/ Settle
  \/ ReminderPromise \/ UpdateTask

Next == Request \/ Statement \/ (\E f \in awaiting: WebhookEnds(f)) \/ Crash

Spec == Init /\ [][Next]_vars

(* A running handler runs on, and the fetch of a webhook ends sooner or later, *)
(* although other requests keep coming.                                      *)
FairSpec ==
  /\ Spec
  /\ WF_vars(Statement)
  /\ \A t \in BankTx, p \in Payment:
       SF_vars(WebhookEnds([at |-> "settle", payment |-> p, tx |-> t]))

-----------------------------------------------------------------------------
(* Properties.                                                              *)

(* The draft of the invoice is linked to it and posted, and the ledger has    *)
(* both of its entries.                                                      *)
Posted(i) ==
  LET d == invoiceDraft[i] IN
  /\ link[d] = i /\ draftStatus[d] = "posted"
  /\ \A leg \in {"net", "vat"}:
       [leg |-> leg, invoice |-> i, period |-> DraftPeriod[d]] \in journal

Booked(p) == [leg |-> "cash", payment |-> p] \in journal

StatusByReceipts(i) == IF PaidTotal(i) = 0 THEN "open" ELSE StatusByPayments(i)

(* Every crash leaves at most one row that is never made good, an invoice    *)
(* that is not posted or a receipt without its cash entry, whatever is       *)
(* repeated afterwards (app.js:58654, 58721).  An invoice whose receipts are *)
(* all in the ledger has the status that they give it.  When this is so for  *)
(* every receipt, the customer's total counts no invoice that is paid and    *)
(* every one that is paid in part (app.js:58876); those posted since the     *)
(* last receipt it does not count yet.                                       *)
BooksComplete ==
  cpu = Idle =>
    /\ Cardinality({i \in Invoice: Exists(i) /\ ~Posted(i)})
         + Cardinality({p \in payments: ~Booked(p)}) <= crashes
    /\ \A i \in Invoice: Exists(i) /\ (\A p \in payments: p.invoice = i => Booked(p)) =>
         invoiceStatus[i] = StatusByReceipts(i)
    /\ (\A p \in payments: Booked(p)) =>
         \A i \in Invoice: /\ i \in openReceivables => Unpaid(i)
                           /\ invoiceStatus[i] = "partial" => i \in openReceivables

(* An invoice that is shown as paid was paid in full, whatever crashed.      *)
PaidIsCovered ==
  \A i \in Invoice: invoiceStatus[i] = "paid" => PaidTotal(i) >= Total

(* A subscriber is told of a payment only after the payment is in the ledger  *)
(* and its invoice has left the receivables: the webhook comes last, so a     *)
(* crash can lose the message but never send one ahead of the books.         *)
NotifiedHasBooks ==
  \A p \in notified:
    /\ [leg |-> "cash", payment |-> p] \in journal
    /\ invoiceStatus[p.invoice] = "paid"
    /\ p.invoice \notin openReceivables

(* A crash between the invoice and its link leaves an orphan invoice, and the *)
(* draft is posted again; but only the linked invoice reaches the ledger, so *)
(* the revenue of a draft is booked for one invoice only.                    *)
RevenueBookedOnce ==
  \A e \in journal: e.leg # "cash" => link[invoiceDraft[e.invoice]] = e.invoice

(* The ledger refuses a closed period with an exception, which would leave an *)
(* invoice without its entries or a receipt without its cash entry.  The     *)
(* period was tested statements earlier, and it is still open.               *)
LedgerAccepts ==
  /\ cpu.at \in {"net", "vat"} => IsOpen(DraftPeriod[cpu.draft])
  /\ cpu.at = "cash" => IsOpen(cpu.payment.period)

(* A reconciled credit names a receipt of its own invoice, reference and     *)
(* amount, although the row is written after an await and not read again.    *)
ReconciledIsReceipt ==
  \A t \in BankTx: bank[t].status = "reconciled" =>
    \E p \in payments:
      /\ bank[t].payments = {p}
      /\ SameSource(p, bank[t].invoice, bank[t].ref, bank[t].amount)

(* A promise counts as kept only when its invoice is paid.                   *)
FulfilledIsPaid ==
  \A q \in Promise: promise[q].status = "fulfilled" =>
    invoiceStatus[PromiseInvoice(q)] = "paid"

EntryPeriod(e) == IF e.leg = "cash" THEN e.payment.period ELSE e.period

(* No step books anything into a closed period: neither a ledger entry nor a *)
(* receipt, although the period is tested several statements earlier.        *)
ClosedPeriodIsFrozen ==
  [][/\ \A e \in journal' \ journal: IsOpen(EntryPeriod(e))
     /\ \A p \in payments' \ payments: IsOpen(p.period)]_vars

(* A reconciliation suspended in the webhook is completed, when the process  *)
(* lives.                                                                    *)
SuspendedSettles ==
  \A t \in BankTx: (\E f \in awaiting: f.tx = t) ~> (bank[t].status = "reconciled")

(* PRODUCT_BASELINE.md says that full payment moves the promise of an        *)
(* invoice to fulfilled and closes its task.                                 *)
PaidPromiseIsKept ==
  (cpu = Idle /\ crashes = 0) =>
    \A q \in Promise: promise[q].status # "none" =>
      (invoiceStatus[PromiseInvoice(q)] = "paid" => promise[q].status = "fulfilled")
=============================================================================
