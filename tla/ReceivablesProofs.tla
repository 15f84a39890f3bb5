-------------------------- MODULE ReceivablesProofs --------------------------
(***************************************************************************)
(* Proofs about Receivables, for any number of drafts, invoices, periods,  *)
(* bank transactions, promises, receipts and crashes.                      *)
(***************************************************************************)
EXTENDS Receivables, SumTheorems

USE DEF ledgerVars, crmVars

-----------------------------------------------------------------------------
(* What updating one field does to a row or a frame.                         *)

PayLabel == {"status", "refresh", "cash", "fulfil", "notify", "settle"}

(* The label of a frame tells which handler it belongs to.                   *)
LEMMA FrameKinds ==
  ASSUME TypeOK
  PROVE  /\ cpu = Idle <=> cpu.at = "idle"
         /\ cpu \in PostFrame <=> cpu.at \in {"link", "posted", "net", "vat"}
         /\ cpu \in PayFrame <=> cpu.at \in PayLabel
         /\ cpu \in CloseFrame <=> cpu.at = "close"
         /\ cpu \in PromiseFrame <=> cpu.at \in {"promiseTask", "reminderPromise", "reminderTask"}
BY DEF TypeOK, Idle, PostFrame, PayFrame, CloseFrame, PromiseFrame, PayLabel

(* Goto keeps a frame in its handler and touches nothing but the label.      *)
LEMMA GotoPost ==
  ASSUME NEW f \in PostFrame, NEW l \in {"link", "posted", "net", "vat"}
  PROVE  [f EXCEPT !.at = l] \in PostFrame
         /\ [f EXCEPT !.at = l] = [at |-> l, draft |-> f.draft, invoice |-> f.invoice]
BY DEF PostFrame

LEMMA GotoPay ==
  ASSUME NEW f \in PayFrame, NEW l \in PayLabel
  PROVE  [f EXCEPT !.at = l] \in PayFrame
         /\ [f EXCEPT !.at = l] = [at |-> l, payment |-> f.payment, tx |-> f.tx]
BY DEF PayFrame, PayLabel

LEMMA GotoPromise ==
  ASSUME NEW f \in PromiseFrame,
         NEW l \in {"promiseTask", "reminderPromise", "reminderTask"}
  PROVE  [f EXCEPT !.at = l] \in PromiseFrame
BY DEF PromiseFrame

(* What a handler is after Goto.                                             *)
LEMMA GoesOn ==
  ASSUME TypeOK, NEW l, Goto(l)
  PROVE  /\ (cpu.at \in PayLabel /\ l \in PayLabel) =>
              cpu'.at = l /\ cpu'.payment = cpu.payment /\ cpu'.tx = cpu.tx
         /\ (cpu.at \in {"link", "posted", "net", "vat"} /\ l \in {"link", "posted", "net", "vat"}) =>
              cpu'.at = l /\ cpu'.draft = cpu.draft /\ cpu'.invoice = cpu.invoice
<1>1. ASSUME cpu.at \in PayLabel, l \in PayLabel
      PROVE  cpu'.at = l /\ cpu'.payment = cpu.payment /\ cpu'.tx = cpu.tx
  BY <1>1, FrameKinds, GotoPay DEF Goto
<1>2. ASSUME cpu.at \in {"link", "posted", "net", "vat"}, l \in {"link", "posted", "net", "vat"}
      PROVE  cpu'.at = l /\ cpu'.draft = cpu.draft /\ cpu'.invoice = cpu.invoice
  BY <1>2, FrameKinds, GotoPost DEF Goto
<1>3. QED
  BY <1>1, <1>2

(* After its last shared statement a handler ends or settles a bank row.     *)
LEMMA EndsOrSettles ==
  ASSUME TypeOK, cpu.at \in PayLabel, AfterReceipt
  PROVE  \/ cpu'.at = "idle"
         \/ /\ cpu'.at = "settle" /\ cpu.tx # None
            /\ cpu'.payment = cpu.payment /\ cpu'.tx = cpu.tx
<1>1. CASE cpu.tx = None
  BY <1>1 DEF AfterReceipt, Idle
<1>2. CASE cpu.tx # None
  BY <1>2, GoesOn DEF AfterReceipt, PayLabel
<1>3. QED
  BY <1>1, <1>2

(* Setting the status of a task or of a promise keeps the table well typed.  *)
LEMMA TaskUpdate ==
  ASSUME task \in [Task -> TaskRow], NEW k, NEW s \in {"closed", "waiting-payment", "reminder-sent"}
  PROVE  [task EXCEPT ![k].status = s] \in [Task -> TaskRow]
<1>1. \A r \in TaskRow: [r EXCEPT !.status = s] \in TaskRow
  BY DEF TaskRow
<1>2. QED
  BY <1>1

LEMMA PromiseUpdate ==
  ASSUME promise \in [Promise -> PromiseRow], NEW q \in Promise,
         NEW s \in {"fulfilled", "reminder-sent"}
  PROVE  [promise EXCEPT ![q].status = s] \in [Promise -> PromiseRow]
<1>1. \A r \in PromiseRow: [r EXCEPT !.status = s] \in PromiseRow
  BY DEF PromiseRow
<1>2. QED
  BY <1>1

(* Reconciling a row sets its status and its payment, and keeps the rest.    *)
LEMMA SettleRow ==
  ASSUME NEW b \in BankRow, NEW p \in Payment
  PROVE  LET c == [[b EXCEPT !.status = "reconciled"] EXCEPT !.payments = {p}] IN
         /\ c \in BankRow
         /\ c.status = "reconciled" /\ c.payments = {p}
         /\ c.invoice = b.invoice /\ c.ref = b.ref /\ c.amount = b.amount
<1>1. DEFINE d == [b EXCEPT !.status = "reconciled"]
             c == [d EXCEPT !.payments = {p}]
<1>2. /\ d \in BankField /\ d.status = "reconciled"
      /\ d.invoice = b.invoice /\ d.ref = b.ref /\ d.amount = b.amount /\ d.period = b.period
  BY DEF BankRow, BankField
<1>. HIDE DEF d
<1>3. /\ c \in BankField /\ c.status = "reconciled" /\ c.payments = {p}
      /\ c.invoice = b.invoice /\ c.ref = b.ref /\ c.amount = b.amount /\ c.period = b.period
  BY <1>2 DEF BankField
<1>4. c \in BankRow
  BY <1>3 DEF BankRow
<1>5. QED
  BY <1>3, <1>4 DEF d

-----------------------------------------------------------------------------
(* Type correctness.                                                         *)

LEMMA InitTypes == Init => TypeOK
BY AmountsArePositive, BoundsAreNatural
   DEF Init, TypeOK, Idle, TaskRow, PromiseRow, BankRow, BankField

LEMMA StepKeepsTypes == TypeOK /\ [Next]_vars => TypeOK'
<1> SUFFICES ASSUME TypeOK, [Next]_vars PROVE TypeOK'
  OBVIOUS
<1> USE DEF TypeOK
<1>k. /\ cpu.at \in PayLabel => cpu \in PayFrame
      /\ cpu.at \in {"link", "posted", "net", "vat"} => cpu \in PostFrame
      /\ cpu.at = "close" => cpu \in CloseFrame
      /\ cpu.at \in {"promiseTask", "reminderPromise", "reminderTask"} => cpu \in PromiseFrame
  BY FrameKinds
<1>1. CASE \E p \in Period: ClosePeriod(p) \/ ReopenPeriod(p)
  BY <1>1 DEF ClosePeriod, ReopenPeriod, SetPeriod
<1>2. CASE \E d \in Draft, i \in Invoice: PostInvoice(d, i)
  <2>. PICK d \in Draft, i \in Invoice: PostInvoice(d, i)
    BY <1>2
  <2>1. cpu' \in PostFrame
    BY DEF PostInvoice, PostFrame
  <2>2. QED
    BY <2>1 DEF PostInvoice
<1>3. CASE \E i \in Invoice, r \in Reference, a \in Amount, p \in Period: PayInvoice(i, r, a, p)
  <2>. PICK i \in Invoice, r \in Reference, a \in Amount, p \in Period: PayInvoice(i, r, a, p)
    BY <1>3
  <2>. DEFINE receipt == [invoice |-> i, ref |-> r, amount |-> a, period |-> p]
  <2>1. receipt \in Payment
    BY DEF Payment
  <2>2. /\ payments' \subseteq Payment
        /\ cpu' = [at |-> "status", payment |-> receipt, tx |-> None]
    BY <2>1 DEF PayInvoice, RecordPayment
  <2>3. cpu' \in PayFrame
    BY <2>1, <2>2 DEF PayFrame
  <2>4. QED
    BY <2>2, <2>3 DEF PayInvoice
<1>4. CASE \E t \in BankTx: Reconcile(t)
  <2>. PICK t \in BankTx: Reconcile(t)
    BY <1>4
  <2>. DEFINE b == bank[t]
              receipt == [invoice |-> b.invoice, ref |-> b.ref, amount |-> b.amount,
                          period |-> b.period]
  <2>1. receipt \in Payment
    BY DEF Payment, Reconcile, BankRow
  <2>2. /\ payments' \subseteq Payment
        /\ \E p \in Payment, l \in {"status", "settle"}: cpu' = [at |-> l, payment |-> p, tx |-> t]
    BY <2>1 DEF Reconcile, RecordPayment, BySource
  <2>3. cpu' \in PayFrame
    BY <2>2 DEF PayFrame
  <2>4. QED
    BY <2>2, <2>3 DEF Reconcile
<1>5. CASE \E t \in BankTx, i \in Invoice \cup {None}, r \in Reference, a \in Amount, p \in Period:
              ImportBankTx(t, i, r, a, p)
  <2>. PICK t \in BankTx, i \in Invoice \cup {None}, r \in Reference, a \in Amount, p \in Period:
              ImportBankTx(t, i, r, a, p)
    BY <1>5
  <2>1. \E row \in BankRow: bank' = [bank EXCEPT ![t] = row]
    BY DEF ImportBankTx, BankRow, BankField
  <2>2. QED
    BY <2>1 DEF ImportBankTx
<1>6. CASE \E k \in Task, i \in Invoice: OpenTask(k, i)
  BY <1>6 DEF OpenTask, TaskRow
<1>7. CASE \E q \in Promise, k \in Task, a \in Amount: RecordPromise(q, k, a)
  BY <1>7 DEF RecordPromise, PromiseRow, PromiseFrame
<1>8. CASE \E q \in Promise, c \in Channel: SendReminder(q, c)
  BY <1>8 DEF SendReminder, PromiseFrame
<1>9. CASE PostLink
  BY <1>9, <1>k, GotoPost DEF PostLink, Goto, PostFrame
<1>10. CASE PostStatus
  BY <1>10, <1>k, GotoPost DEF PostStatus, Goto, PostFrame
<1>11. CASE PostLedger
  <2>1. cpu \in PostFrame
    BY <1>11, <1>k DEF PostLedger
  <2>2. [leg |-> cpu.at, invoice |-> cpu.invoice, period |-> DraftPeriod[cpu.draft]] \in Entry
    BY <1>11, <2>1, DraftPeriodType DEF PostLedger, PostFrame, Entry, InvoiceEntry
  <2>3. cpu' \in PostFrame \cup {Idle}
    BY <1>11, <2>1, GotoPost DEF PostLedger, Goto
  <2>4. QED
    BY <1>11, <2>2, <2>3 DEF PostLedger
<1>12. CASE PayStatus
  <2>1. cpu \in PayFrame
    BY <1>12, <1>k DEF PayStatus, PayLabel
  <2>2. cpu' \in PayFrame
    BY <1>12, <2>1, GotoPay DEF PayStatus, Goto, PayLabel
  <2>3. invoiceStatus' \in [Invoice -> {"none", "open", "partial", "paid"}]
    BY <1>12 DEF PayStatus, StatusByPayments
  <2>4. QED
    BY <1>12, <2>2, <2>3 DEF PayStatus
<1>13. CASE PayRefresh
  <2>1. cpu' \in PayFrame
    BY <1>13, <1>k, GotoPay DEF PayRefresh, Goto, PayLabel
  <2>2. QED
    BY <1>13, <2>1 DEF PayRefresh
<1>14. CASE PayCash
  <2>1. cpu \in PayFrame
    BY <1>14, <1>k DEF PayCash, PayLabel
  <2>2. cpu' \in PayFrame \cup {Idle}
    BY <1>14, <2>1, GotoPay DEF PayCash, Goto, AfterReceipt, PayLabel
  <2>3. [leg |-> "cash", payment |-> cpu.payment] \in Entry
    BY <2>1 DEF PayFrame, Entry, CashEntry
  <2>4. QED
    BY <1>14, <2>2, <2>3 DEF PayCash
<1>15. CASE \E q \in Promise: FulfilPromise(q)
  <2>. PICK q \in Promise: FulfilPromise(q)
    BY <1>15
  <2>1. cpu' \in CloseFrame
    BY <1>k DEF FulfilPromise, PayLabel, PayFrame, CloseFrame
  <2>2. promise' \in [Promise -> PromiseRow]
    BY PromiseUpdate DEF FulfilPromise
  <2>3. QED
    BY <2>1, <2>2 DEF FulfilPromise
<1>16. CASE CloseTask
  <2>1. cpu' \in PayFrame
    BY <1>16, <1>k DEF CloseTask, PayFrame, CloseFrame
  <2>2. task' \in [Task -> TaskRow]
    BY <1>16, TaskUpdate DEF CloseTask
  <2>3. QED
    BY <1>16, <2>1, <2>2 DEF CloseTask
<1>17. CASE AllFulfilled
  <2>1. cpu' \in PayFrame
    BY <1>17, <1>k, GotoPay DEF AllFulfilled, Goto, PayLabel
  <2>2. QED
    BY <1>17, <2>1 DEF AllFulfilled
<1>18. CASE Notify
  <2>1. cpu \in PayFrame
    BY <1>18, <1>k DEF Notify, PayLabel
  <2>2. [cpu EXCEPT !.at = "settle"] \in PayFrame
    BY <2>1, GotoPay DEF PayLabel
  <2>3. cpu' \in PayFrame \cup {Idle}
    BY <1>18, <2>2 DEF Notify, AfterReceipt, Goto
  <2>4. notified' \subseteq Payment /\ awaiting' \subseteq PayFrame
    BY <1>18, <2>1, <2>2 DEF Notify, PayFrame
  <2>5. QED
    BY <1>18, <2>3, <2>4 DEF Notify
<1>19. CASE \E f \in awaiting: WebhookEnds(f)
  BY <1>19 DEF WebhookEnds
<1>20. CASE Settle
  <2>1. cpu \in PayFrame
    BY <1>20, <1>k DEF Settle, PayLabel
  <2>2. bank' \in [BankTx -> BankRow]
    <3>1. cpu.payment \in Payment
      BY <2>1 DEF PayFrame
    <3>2. bank' = [bank EXCEPT ![cpu.tx] =
                     [[bank[cpu.tx] EXCEPT !.status = "reconciled"] EXCEPT !.payments = {cpu.payment}]]
      BY <1>20 DEF Settle
    <3>3. \A r \in BankRow: [[r EXCEPT !.status = "reconciled"] EXCEPT !.payments = {cpu.payment}] \in BankRow
      BY <3>1, SettleRow
    <3>4. QED
      BY <3>2, <3>3
  <2>3. QED
    BY <1>20, <2>2 DEF Settle
<1>21. CASE ReminderPromise
  <2>1. cpu \in PromiseFrame
    BY <1>21, <1>k DEF ReminderPromise
  <2>2. cpu' \in PromiseFrame
    BY <1>21, <2>1, GotoPromise DEF ReminderPromise, Goto
  <2>3. promise' \in [Promise -> PromiseRow]
    BY <1>21, <2>1, PromiseUpdate DEF ReminderPromise, PromiseFrame
  <2>4. QED
    BY <1>21, <2>2, <2>3 DEF ReminderPromise
<1>22. CASE UpdateTask
  <2>1. task' \in [Task -> TaskRow]
    BY <1>22, TaskUpdate DEF UpdateTask
  <2>2. QED
    BY <1>22, <2>1 DEF UpdateTask
<1>23. CASE Crash
  BY <1>23, BoundsAreNatural DEF Crash
<1>24. CASE UNCHANGED vars
  BY <1>24 DEF vars
<1>25. QED
  BY <1>1, <1>2, <1>3, <1>4, <1>5, <1>6, <1>7, <1>8, <1>9, <1>10, <1>11, <1>12, <1>13, <1>14,
     <1>15, <1>16, <1>17, <1>18, <1>19, <1>20, <1>21, <1>22, <1>23, <1>24
     DEF Next, Request, Statement

(* Every table, the running handler and the suspended ones stay well typed.  *)
THEOREM TypeCorrect == Spec => []TypeOK
BY InitTypes, StepKeepsTypes, PTL DEF Spec

-----------------------------------------------------------------------------
(* A closed period is frozen.                                                *)

(* A receipt and a ledger entry are written only under a test of the period  *)
(* by the statement that writes them; every other statement leaves both.     *)
LEMMA StepFreezes == [Next]_vars =>
  [/\ \A e \in journal' \ journal: IsOpen(EntryPeriod(e))
   /\ \A p \in payments' \ payments: IsOpen(p.period)]_vars
<1> SUFFICES ASSUME Next
             PROVE  /\ \A e \in journal' \ journal: IsOpen(EntryPeriod(e))
                    /\ \A p \in payments' \ payments: IsOpen(p.period)
  OBVIOUS
<1>1. CASE \E i \in Invoice, r \in Reference, a \in Amount, p \in Period: PayInvoice(i, r, a, p)
  BY <1>1 DEF PayInvoice, RecordPayment
<1>2. CASE \E t \in BankTx: Reconcile(t)
  BY <1>2 DEF Reconcile, RecordPayment
<1>3. CASE PostLedger
  BY <1>3 DEF PostLedger, EntryPeriod
<1>4. CASE PayCash
  BY <1>4 DEF PayCash, EntryPeriod
<1>5. CASE UNCHANGED <<journal, payments>>
  BY <1>5
<1>6. (\E p \in Period: ClosePeriod(p) \/ ReopenPeriod(p)) => UNCHANGED <<journal, payments>>
  BY DEF ClosePeriod, ReopenPeriod, SetPeriod
<1>7. QED
  BY <1>1, <1>2, <1>3, <1>4, <1>5, <1>6
     DEF Next, Request, Statement, PostInvoice, ImportBankTx, OpenTask, RecordPromise,
         SendReminder, PostLink, PostStatus, PayStatus, PayRefresh, FulfilPromise, CloseTask,
         AllFulfilled, Notify, WebhookEnds, Settle, ReminderPromise, UpdateTask, Crash

(* Whatever the interleaving and the crashes, no step adds a receipt or a    *)
(* ledger entry to a period that is closed when the step is taken.           *)
THEOREM FrozenPeriods == Spec => ClosedPeriodIsFrozen
BY StepFreezes, PTL DEF Spec, ClosedPeriodIsFrozen

-----------------------------------------------------------------------------
(* The ledger never refuses an entry.                                        *)

(* The period tested at the start of a handler is open until its last entry: *)
(* the handler keeps the process until then, and only a request closes one.  *)
PeriodInv ==
  /\ cpu.at \in {"link", "posted", "net", "vat"} => IsOpen(DraftPeriod[cpu.draft])
  /\ cpu.at \in {"status", "refresh", "cash"} => IsOpen(cpu.payment.period)
  /\ \A f \in awaiting: f.at = "settle"

(* A step that leaves the periods alone and ends a handler, or takes it past *)
(* its last entry, keeps the invariant.                                      *)
LEMMA LeavesPeriods ==
  ASSUME PeriodInv, UNCHANGED periodStatus, awaiting' \subseteq awaiting,
         cpu' = cpu \/ cpu'.at \notin {"link", "posted", "net", "vat", "status", "refresh", "cash"}
  PROVE  PeriodInv'
BY DEF PeriodInv, IsOpen

LEMMA StepKeepsPeriod == TypeOK /\ PeriodInv /\ [Next]_vars => PeriodInv'
<1> SUFFICES ASSUME TypeOK, PeriodInv, [Next]_vars PROVE PeriodInv'
  OBVIOUS
<1>k. /\ cpu.at \in PayLabel => cpu \in PayFrame
      /\ cpu.at \in {"link", "posted", "net", "vat"} => cpu \in PostFrame
      /\ cpu.at \in {"promiseTask", "reminderPromise", "reminderTask"} => cpu \in PromiseFrame
  BY FrameKinds
<1>1. CASE \E p \in Period: ClosePeriod(p) \/ ReopenPeriod(p)
  BY <1>1 DEF ClosePeriod, ReopenPeriod, SetPeriod, PeriodInv, Idle
<1>2. CASE \E d \in Draft, i \in Invoice: PostInvoice(d, i)
  BY <1>2 DEF PostInvoice, PeriodInv, IsOpen
<1>3. CASE \E i \in Invoice, r \in Reference, a \in Amount, p \in Period: PayInvoice(i, r, a, p)
  BY <1>3 DEF PayInvoice, RecordPayment, PeriodInv, IsOpen
<1>4. CASE \E t \in BankTx: Reconcile(t)
  BY <1>4 DEF Reconcile, RecordPayment, PeriodInv, IsOpen
<1>5. CASE PostLink \/ PostStatus \/ PostLedger
  <2>1. cpu \in PostFrame
    BY <1>5, <1>k DEF PostLink, PostStatus, PostLedger
  <2>2. \A l \in {"link", "posted", "net", "vat"}: Goto(l) => cpu'.draft = cpu.draft /\ cpu'.at = l
    BY <2>1, GotoPost DEF Goto
  <2>3. QED
    BY <1>5, <2>1, <2>2 DEF PostLink, PostStatus, PostLedger, PeriodInv, IsOpen, Idle
<1>6. CASE PayStatus \/ PayRefresh \/ PayCash \/ AllFulfilled
  <2>1. cpu \in PayFrame
    BY <1>6, <1>k DEF PayStatus, PayRefresh, PayCash, AllFulfilled, PayLabel
  <2>2. \A l \in PayLabel: Goto(l) => cpu'.payment = cpu.payment /\ cpu'.at = l
    BY <2>1, GotoPay DEF Goto
  <2>3. QED
    BY <1>6, <2>1, <2>2
       DEF PayStatus, PayRefresh, PayCash, AllFulfilled, AfterReceipt, PeriodInv, IsOpen, Idle,
           PayLabel
<1>7. CASE ReminderPromise
  <2>1. cpu'.at = "reminderTask"
    BY <1>7, <1>k DEF ReminderPromise, Goto, PromiseFrame
  <2>2. QED
    BY <1>7, <2>1, LeavesPeriods DEF ReminderPromise
<1>8. CASE \E f \in awaiting: WebhookEnds(f)
  BY <1>8, LeavesPeriods DEF WebhookEnds, PeriodInv
<1>9. CASE Notify
  <2>1. cpu \in PayFrame
    BY <1>9, <1>k DEF Notify, PayLabel
  <2>2. [cpu EXCEPT !.at = "settle"].at = "settle"
    BY <2>1, GotoPay DEF PayLabel
  <2>3. cpu' = Idle \/ cpu' = [cpu EXCEPT !.at = "settle"]
    BY <1>9 DEF Notify, AfterReceipt, Goto
  <2>4. \A f \in awaiting': f.at = "settle"
    BY <1>9, <2>2 DEF Notify, PeriodInv
  <2>5. QED
    <3>1. CASE cpu' = Idle
      BY <3>1, <2>4 DEF PeriodInv, Idle
    <3>2. CASE cpu' = [cpu EXCEPT !.at = "settle"]
      <4>1. cpu'.at = "settle"
        BY <2>2, <3>2
      <4>2. QED
        BY <2>4, <4>1 DEF PeriodInv
    <3>3. QED
      BY <2>3, <3>1, <3>2
<1>10. CASE \/ \E t \in BankTx, i \in Invoice \cup {None}, r \in Reference, a \in Amount, p \in Period:
                 ImportBankTx(t, i, r, a, p)
            \/ \E k \in Task, i \in Invoice: OpenTask(k, i)
  BY <1>10, LeavesPeriods DEF ImportBankTx, OpenTask
<1>11. ASSUME NEW q \in Promise,
               \/ \E k \in Task, a \in Amount: RecordPromise(q, k, a)
               \/ \E c \in Channel: SendReminder(q, c)
       PROVE  PeriodInv'
  <2>1. /\ \E l \in {"promiseTask", "reminderPromise"}: cpu' = [at |-> l, promise |-> q]
        /\ UNCHANGED <<periodStatus, awaiting>>
    BY <1>11 DEF RecordPromise, SendReminder
  <2>2. QED
    BY <2>1, LeavesPeriods
<1>12. CASE \E q \in Promise: FulfilPromise(q)
  BY <1>12, LeavesPeriods DEF FulfilPromise
<1>13. CASE CloseTask
  BY <1>13, LeavesPeriods DEF CloseTask
<1>14. CASE Settle \/ UpdateTask \/ Crash
  BY <1>14, LeavesPeriods DEF Settle, UpdateTask, Crash, Idle
<1>15. CASE UNCHANGED vars
  BY <1>15, LeavesPeriods DEF vars
<1>16. QED
  BY <1>1, <1>2, <1>3, <1>4, <1>5, <1>6, <1>7, <1>8, <1>9, <1>10, <1>11, <1>12, <1>13, <1>14,
     <1>15
     DEF Next, Request, Statement

(* An exception of the ledger, which would leave a half-booked invoice or    *)
(* receipt, is unreachable.                                                  *)
THEOREM LedgerNeverRefuses == Spec => []LedgerAccepts
<1>1. Init => PeriodInv
  BY DEF Init, PeriodInv, Idle
<1>2. PeriodInv => LedgerAccepts
  BY DEF PeriodInv, LedgerAccepts
<1>3. QED
  BY <1>1, <1>2, StepKeepsPeriod, TypeCorrect, PTL DEF Spec

-----------------------------------------------------------------------------
(* The revenue of a draft is booked once.                                    *)

(* The handler that posts a draft holds the only link the draft will get,    *)
(* and the ledger knows no other invoice of the draft: RevenueBookedOnce is  *)
(* not inductive without what the handler knows between its statements.      *)
PostingInv ==
  /\ cpu.at = "link" => /\ link[cpu.draft] = None
                        /\ invoiceDraft[cpu.invoice] = cpu.draft
                        /\ Exists(cpu.invoice)
  /\ cpu.at \in {"posted", "net", "vat"} => /\ link[cpu.draft] = cpu.invoice
                                            /\ invoiceDraft[cpu.invoice] = cpu.draft
                                            /\ Exists(cpu.invoice)
  /\ \A e \in journal: e.leg # "cash" => /\ e.invoice \in Invoice
                                         /\ Exists(e.invoice)
                                         /\ invoiceDraft[e.invoice] \in Draft
                                         /\ link[invoiceDraft[e.invoice]] = e.invoice

(* Most steps post nothing.                                                  *)
LEMMA PostsNothing ==
  ASSUME PostingInv, UNCHANGED <<invoiceDraft, invoiceStatus, link, journal>>,
         cpu' = cpu \/ cpu'.at \notin {"link", "posted", "net", "vat"}
  PROVE  PostingInv'
BY DEF PostingInv, Exists

LEMMA StepKeepsPosting == TypeOK /\ PeriodInv /\ PostingInv /\ [Next]_vars => PostingInv'
<1> SUFFICES ASSUME TypeOK, PeriodInv, PostingInv, [Next]_vars PROVE PostingInv'
  OBVIOUS
<1>k. /\ cpu.at \in PayLabel => cpu \in PayFrame
      /\ cpu.at \in {"link", "posted", "net", "vat"} => cpu \in PostFrame
      /\ cpu.at \in {"promiseTask", "reminderPromise", "reminderTask"} => cpu \in PromiseFrame
  BY FrameKinds
<1>1. CASE \E p \in Period: ClosePeriod(p) \/ ReopenPeriod(p)
  BY <1>1, PostsNothing DEF ClosePeriod, ReopenPeriod, SetPeriod
<1>2. ASSUME NEW d \in Draft, NEW i \in Invoice, PostInvoice(d, i) PROVE PostingInv'
  <2>1. /\ cpu'.at = "link" /\ cpu'.draft = d /\ cpu'.invoice = i
        /\ UNCHANGED <<link, journal>>
        /\ link[d] = None /\ ~Exists(i)
        /\ invoiceDraft' = [invoiceDraft EXCEPT ![i] = d]
        /\ invoiceStatus' = [invoiceStatus EXCEPT ![i] = "open"]
    BY <1>2 DEF PostInvoice, Exists
  <2>2. invoiceDraft \in [Invoice -> Draft \cup {None}] /\ DOMAIN invoiceStatus = Invoice
    BY DEF TypeOK
  <2>3. QED
    BY <2>1, <2>2 DEF PostingInv, Exists
<1>3. CASE PostLink
  <2>1. /\ cpu'.at = "posted" /\ cpu'.draft = cpu.draft /\ cpu'.invoice = cpu.invoice
        /\ cpu.draft \in Draft /\ cpu.invoice \in Invoice
    BY <1>3, <1>k, GotoPost DEF PostLink, Goto, PostFrame
  <2>2. /\ link' = [link EXCEPT ![cpu.draft] = cpu.invoice]
        /\ UNCHANGED <<invoiceDraft, invoiceStatus, journal>>
        /\ cpu.at = "link"
    BY <1>3 DEF PostLink
  <2>3. DOMAIN link = Draft /\ None \notin Invoice
    BY NoneIsNoRow DEF TypeOK
  <2>4. QED
    BY <2>1, <2>2, <2>3 DEF PostingInv, Exists
<1>4. CASE PostStatus
  <2>1. cpu'.at = "net" /\ cpu'.draft = cpu.draft /\ cpu'.invoice = cpu.invoice
    BY <1>4, <1>k, GotoPost DEF PostStatus, Goto
  <2>2. UNCHANGED <<invoiceDraft, invoiceStatus, link, journal>> /\ cpu.at = "posted"
    BY <1>4 DEF PostStatus
  <2>3. QED
    BY <2>1, <2>2 DEF PostingInv, Exists
<1>5. CASE PostLedger
  <2>1. cpu.at \in {"net", "vat"} /\ cpu.invoice \in Invoice /\ cpu.draft \in Draft
    BY <1>5, <1>k DEF PostLedger, PostFrame
  <2>2. /\ UNCHANGED <<invoiceDraft, invoiceStatus, link>>
        /\ journal' = journal \cup {[leg |-> cpu.at, invoice |-> cpu.invoice,
                                     period |-> DraftPeriod[cpu.draft]]}
    BY <1>5 DEF PostLedger
  <2>3. \/ cpu'.at = "idle"
        \/ cpu'.at = "vat" /\ cpu'.draft = cpu.draft /\ cpu'.invoice = cpu.invoice
    <3>1. cpu' = Idle \/ (cpu.at = "net" /\ Goto("vat"))
      BY <1>5 DEF PostLedger
    <3>2. QED
      BY <3>1, GoesOn DEF Idle
  <2>4. \A e \in journal': e.leg # "cash" => /\ e.invoice \in Invoice
                                            /\ Exists(e.invoice)
                                            /\ invoiceDraft[e.invoice] \in Draft
                                            /\ link[invoiceDraft[e.invoice]] = e.invoice
    BY <2>1, <2>2 DEF PostingInv
  <2>5. QED
    BY <2>1, <2>2, <2>3, <2>4 DEF PostingInv, Exists
<1>6. CASE PayStatus
  <2>1. /\ cpu'.at = "refresh"
        /\ \E s \in {"paid", "partial"}:
             invoiceStatus' = [invoiceStatus EXCEPT ![cpu.payment.invoice] = s]
        /\ UNCHANGED <<invoiceDraft, link, journal>>
    BY <1>6, GoesOn DEF PayStatus, StatusByPayments, PayLabel
  <2>2. \A i \in Invoice: Exists(i) => Exists(i)'
    BY <2>1 DEF Exists, TypeOK
  <2>3. QED
    BY <2>1, <2>2 DEF PostingInv
<1>7. CASE PayCash
  <2>1. /\ cpu'.at \in {"idle", "fulfil", "settle"}
        /\ UNCHANGED <<invoiceDraft, invoiceStatus, link>>
        /\ \A e \in journal' \ journal: e.leg = "cash"
    <3>1. cpu.at \in PayLabel /\ (Goto("fulfil") \/ AfterReceipt)
      BY <1>7 DEF PayCash, PayLabel
    <3>2. cpu'.at \in {"idle", "fulfil", "settle"}
      BY <3>1, GoesOn, EndsOrSettles DEF PayLabel
    <3>3. QED
      BY <1>7, <3>2 DEF PayCash
  <2>2. QED
    BY <2>1 DEF PostingInv, Exists
<1>8. CASE PayRefresh \/ AllFulfilled \/ ReminderPromise
  <2>1. cpu'.at \in {"cash", "notify", "reminderTask"}
    BY <1>8, <1>k, GotoPay DEF PayRefresh, AllFulfilled, ReminderPromise, Goto, PayLabel, PromiseFrame
  <2>2. UNCHANGED <<invoiceDraft, invoiceStatus, link, journal>>
    BY <1>8 DEF PayRefresh, AllFulfilled, ReminderPromise
  <2>3. QED
    BY <2>1, <2>2, PostsNothing
<1>9. CASE Notify
  <2>1. cpu.at \in PayLabel /\ (cpu' = Idle \/ AfterReceipt)
    BY <1>9 DEF Notify, PayLabel
  <2>2. cpu'.at \in {"idle", "settle"}
    BY <2>1, EndsOrSettles DEF Idle
  <2>3. UNCHANGED <<invoiceDraft, invoiceStatus, link, journal>>
    BY <1>9 DEF Notify
  <2>4. QED
    BY <2>2, <2>3, PostsNothing
<1>10. CASE \E f \in awaiting: WebhookEnds(f)
  BY <1>10, PostsNothing DEF WebhookEnds, PeriodInv
<1>11. CASE \E i \in Invoice, r \in Reference, a \in Amount, p \in Period: PayInvoice(i, r, a, p)
  BY <1>11, PostsNothing DEF PayInvoice, RecordPayment
<1>12. CASE \E t \in BankTx: Reconcile(t)
  BY <1>12, PostsNothing DEF Reconcile, RecordPayment
<1>13. CASE \/ \E t \in BankTx, i \in Invoice \cup {None}, r \in Reference, a \in Amount, p \in Period:
                 ImportBankTx(t, i, r, a, p)
            \/ \E k \in Task, i \in Invoice: OpenTask(k, i)
  BY <1>13, PostsNothing DEF ImportBankTx, OpenTask
<1>14. ASSUME NEW q \in Promise,
               \/ \E k \in Task, a \in Amount: RecordPromise(q, k, a)
               \/ \E c \in Channel: SendReminder(q, c)
       PROVE  PostingInv'
  <2>1. /\ \E l \in {"promiseTask", "reminderPromise"}: cpu' = [at |-> l, promise |-> q]
        /\ UNCHANGED <<invoiceDraft, invoiceStatus, link, journal>>
    BY <1>14 DEF RecordPromise, SendReminder
  <2>2. QED
    BY <2>1, PostsNothing
<1>15. CASE \E q \in Promise: FulfilPromise(q)
  BY <1>15, PostsNothing DEF FulfilPromise
<1>16. CASE CloseTask
  BY <1>16, PostsNothing DEF CloseTask
<1>17. CASE Settle \/ UpdateTask \/ Crash
  BY <1>17, PostsNothing DEF Settle, UpdateTask, Crash, Idle
<1>18. CASE UNCHANGED vars
  BY <1>18, PostsNothing DEF vars
<1>19. QED
  BY <1>1, <1>2, <1>3, <1>4, <1>5, <1>6, <1>7, <1>8, <1>9, <1>10, <1>11, <1>12, <1>13, <1>14,
     <1>15, <1>16, <1>17, <1>18 DEF Next, Request, Statement

(* The revenue and the VAT of a draft are booked for its linked invoice only, *)
(* although a crash between the invoice and its link leaves an orphan.        *)
THEOREM RevenueOnce == Spec => []RevenueBookedOnce
<1>1. Init => PeriodInv /\ PostingInv
  BY DEF Init, PeriodInv, PostingInv, Idle
<1>2. PostingInv => RevenueBookedOnce
  BY DEF PostingInv, RevenueBookedOnce
<1>3. QED
  BY <1>1, <1>2, StepKeepsPeriod, StepKeepsPosting, TypeCorrect, PTL DEF Spec

-----------------------------------------------------------------------------
(* A reconciled credit has its receipt.                                      *)

(* A payment handler holds a receipt that is in the table, and when it comes *)
(* from a reconciliation, the receipt is one of the credit's own source key. *)
(* This is what makes it safe not to read the row again after the await.     *)
HasReceipt(f) ==
  /\ f.payment \in payments
  /\ f.tx # None => /\ bank[f.tx].status # "none"
                    /\ SameSource(f.payment, bank[f.tx].invoice, bank[f.tx].ref, bank[f.tx].amount)

ReceiptInv ==
  /\ ReconciledIsReceipt
  /\ cpu.at \in PayLabel \cup {"close"} => HasReceipt(cpu)
  /\ cpu.at = "settle" => cpu.tx # None
  /\ \A f \in awaiting: HasReceipt(f) /\ f.at = "settle" /\ f.tx # None

(* Most steps touch neither the receipts nor the bank rows.                  *)
LEMMA SameBooks ==
  ASSUME ReceiptInv, UNCHANGED <<payments, bank>>, awaiting' \subseteq awaiting,
         \/ cpu' = cpu
         \/ cpu'.at \notin PayLabel \cup {"close"}
         \/ /\ cpu.at \in PayLabel \cup {"close"}
            /\ cpu'.payment = cpu.payment /\ cpu'.tx = cpu.tx
            /\ cpu'.at = "settle" => cpu'.tx # None
  PROVE  ReceiptInv'
<1>1. \A f: HasReceipt(f) => HasReceipt(f)'
  BY DEF HasReceipt
<1>2. ReconciledIsReceipt'
  BY DEF ReceiptInv, ReconciledIsReceipt
<1>3. \A f \in awaiting': HasReceipt(f)' /\ f.at = "settle" /\ f.tx # None
  BY <1>1 DEF ReceiptInv
<1>4. cpu'.at \in PayLabel \cup {"close"} => HasReceipt(cpu)'
  BY DEF ReceiptInv, HasReceipt
<1>5. cpu'.at = "settle" => cpu'.tx # None
  BY DEF ReceiptInv, PayLabel
<1>6. QED
  BY <1>2, <1>3, <1>4, <1>5 DEF ReceiptInv

(* A new receipt takes nothing from those that are there.                    *)
LEMMA MoreReceipts ==
  ASSUME ReceiptInv, UNCHANGED <<bank, awaiting>>, payments \subseteq payments',
         HasReceipt(cpu)', cpu'.at = "settle" => cpu'.tx # None
  PROVE  ReceiptInv'
<1>1. \A f: HasReceipt(f) => HasReceipt(f)'
  BY DEF HasReceipt
<1>2. ReconciledIsReceipt'
  BY DEF ReceiptInv, ReconciledIsReceipt
<1>3. \A f \in awaiting': HasReceipt(f)' /\ f.at = "settle" /\ f.tx # None
  BY <1>1 DEF ReceiptInv
<1>4. QED
  BY <1>2, <1>3 DEF ReceiptInv

LEMMA StepKeepsReceipt == TypeOK /\ ReceiptInv /\ [Next]_vars => ReceiptInv'
<1> SUFFICES ASSUME TypeOK, ReceiptInv, [Next]_vars PROVE ReceiptInv'
  OBVIOUS
<1>1. CASE \E p \in Period: ClosePeriod(p) \/ ReopenPeriod(p)
  BY <1>1, SameBooks DEF ClosePeriod, ReopenPeriod, SetPeriod
<1>2. CASE \E d \in Draft, i \in Invoice: PostInvoice(d, i)
  BY <1>2, SameBooks DEF PostInvoice, PayLabel
<1>3. CASE PostLink \/ PostStatus \/ PostLedger
  <2>1. cpu'.at \in {"posted", "net", "vat", "idle"}
    BY <1>3, GoesOn DEF PostLink, PostStatus, PostLedger, Idle
  <2>2. UNCHANGED <<payments, bank, awaiting>>
    BY <1>3 DEF PostLink, PostStatus, PostLedger
  <2>3. QED
    BY <2>1, <2>2, SameBooks DEF PayLabel
<1>4. ASSUME NEW i \in Invoice, NEW r \in Reference, NEW a \in Amount, NEW p \in Period,
             PayInvoice(i, r, a, p)
      PROVE  ReceiptInv'
  <2>1. /\ UNCHANGED <<bank, awaiting>> /\ payments \subseteq payments'
        /\ cpu'.payment \in payments' /\ cpu'.tx = None /\ cpu'.at = "status"
    BY <1>4 DEF PayInvoice, RecordPayment
  <2>2. QED
    BY <2>1, MoreReceipts DEF HasReceipt
<1>5. ASSUME NEW t \in BankTx, Reconcile(t) PROVE ReceiptInv'
  <2>1. /\ UNCHANGED <<bank, awaiting>> /\ payments \subseteq payments'
        /\ cpu'.payment \in payments' /\ cpu'.tx = t /\ t # None
        /\ SameSource(cpu'.payment, bank[t].invoice, bank[t].ref, bank[t].amount)
    BY <1>5, NoneIsNoRow DEF Reconcile, RecordPayment, BySource, SameSource
  <2>2. bank[t].status # "none"
    BY <1>5 DEF Reconcile
  <2>3. QED
    BY <2>1, <2>2, MoreReceipts DEF HasReceipt, SameSource
<1>6. ASSUME NEW t \in BankTx, NEW i \in Invoice \cup {None}, NEW r \in Reference, NEW a \in Amount,
             NEW p \in Period, ImportBankTx(t, i, r, a, p)
      PROVE  ReceiptInv'
  <2>1. /\ \A u \in BankTx \ {t}: bank'[u] = bank[u]
        /\ bank'[t].status # "reconciled" /\ bank[t].status = "none"
        /\ UNCHANGED <<payments, awaiting, cpu>>
    BY <1>6 DEF ImportBankTx, TypeOK
  <2>2. \A f: f.tx \in BankTx \cup {None} /\ HasReceipt(f) => HasReceipt(f)'
    BY <2>1 DEF HasReceipt, SameSource
  <2>3. cpu.at \in PayLabel \cup {"close"} => cpu.tx \in BankTx \cup {None}
    BY FrameKinds DEF PayFrame, CloseFrame
  <2>4. \A f \in awaiting: f.tx \in BankTx \cup {None}
    BY DEF TypeOK, PayFrame
  <2>5. ReconciledIsReceipt'
    BY <2>1 DEF ReceiptInv, ReconciledIsReceipt, SameSource
  <2>6. QED
    BY <2>1, <2>2, <2>3, <2>4, <2>5 DEF ReceiptInv
<1>7. CASE PayStatus \/ PayRefresh \/ AllFulfilled
  <2>1. /\ cpu.at \in PayLabel /\ UNCHANGED <<payments, bank, awaiting>>
        /\ Goto("refresh") \/ Goto("cash") \/ Goto("notify")
    BY <1>7 DEF PayStatus, PayRefresh, AllFulfilled, PayLabel
  <2>2. cpu'.at # "settle" /\ cpu'.payment = cpu.payment /\ cpu'.tx = cpu.tx
    BY <2>1, GoesOn DEF PayLabel
  <2>3. QED
    BY <2>1, <2>2, SameBooks
<1>8. CASE PayCash
  <2>1. /\ cpu.at \in PayLabel /\ UNCHANGED <<payments, bank, awaiting>>
        /\ Goto("fulfil") \/ AfterReceipt
    BY <1>8 DEF PayCash, PayLabel
  <2>2. CASE Goto("fulfil")
    <3>1. cpu'.at = "fulfil" /\ cpu'.payment = cpu.payment /\ cpu'.tx = cpu.tx
      BY <2>1, <2>2, GoesOn DEF PayLabel
    <3>2. QED
      BY <2>1, <3>1, SameBooks
  <2>3. CASE AfterReceipt
    BY <2>1, <2>3, EndsOrSettles, SameBooks DEF PayLabel
  <2>4. QED
    BY <2>1, <2>2, <2>3
<1>9. CASE Notify
  <2>1. cpu.at \in PayLabel /\ cpu \in PayFrame /\ UNCHANGED <<payments, bank>>
    BY <1>9, FrameKinds DEF Notify, PayLabel
  <2>2. CASE AfterReceipt /\ UNCHANGED awaiting
    BY <2>1, <2>2, EndsOrSettles, SameBooks DEF PayLabel
  <2>3. CASE cpu' = Idle /\ UNCHANGED awaiting
    BY <2>1, <2>3, SameBooks DEF PayLabel, Idle
  <2>4. CASE /\ cpu' = Idle /\ cpu.tx # None
             /\ awaiting' = awaiting \cup {[cpu EXCEPT !.at = "settle"]}
    <3>1. [cpu EXCEPT !.at = "settle"] = [at |-> "settle", payment |-> cpu.payment, tx |-> cpu.tx]
      BY <2>1, GotoPay DEF PayLabel
    <3>2. HasReceipt([at |-> "settle", payment |-> cpu.payment, tx |-> cpu.tx])
      BY <2>1 DEF ReceiptInv, HasReceipt
    <3>3. \A f: HasReceipt(f) => HasReceipt(f)'
      BY <2>1 DEF HasReceipt
    <3>4. \A f \in awaiting': HasReceipt(f)' /\ f.at = "settle" /\ f.tx # None
      BY <2>4, <3>1, <3>2, <3>3 DEF ReceiptInv
    <3>5. ReconciledIsReceipt'
      BY <2>1 DEF ReceiptInv, ReconciledIsReceipt
    <3>6. QED
      BY <2>4, <3>4, <3>5 DEF ReceiptInv, PayLabel, Idle
  <2>5. QED
    BY <1>9, <2>2, <2>3, <2>4 DEF Notify
<1>10. CASE \E f \in awaiting: WebhookEnds(f)
  <2>. PICK f \in awaiting: WebhookEnds(f)
    BY <1>10
  <2>1. cpu' = f /\ awaiting' \subseteq awaiting /\ UNCHANGED <<payments, bank>>
    BY DEF WebhookEnds
  <2>2. \A g: HasReceipt(g) => HasReceipt(g)'
    BY <2>1 DEF HasReceipt
  <2>3. ReconciledIsReceipt'
    BY <2>1 DEF ReceiptInv, ReconciledIsReceipt
  <2>4. QED
    BY <2>1, <2>2, <2>3 DEF ReceiptInv
<1>11. CASE Settle
  <2>1. /\ cpu.at = "settle" /\ cpu.tx \in BankTx /\ cpu.payment \in Payment
        /\ cpu.payment \in payments
        /\ SameSource(cpu.payment, bank[cpu.tx].invoice, bank[cpu.tx].ref, bank[cpu.tx].amount)
    BY <1>11, FrameKinds DEF Settle, ReceiptInv, HasReceipt, PayLabel, PayFrame
  <2>2. /\ cpu' = Idle /\ UNCHANGED <<payments, awaiting>>
        /\ bank' = [bank EXCEPT ![cpu.tx] =
             [[bank[cpu.tx] EXCEPT !.status = "reconciled"] EXCEPT !.payments = {cpu.payment}]]
    BY <1>11 DEF Settle
  <2>3. /\ bank'[cpu.tx].status = "reconciled" /\ bank'[cpu.tx].payments = {cpu.payment}
        /\ bank'[cpu.tx].invoice = bank[cpu.tx].invoice /\ bank'[cpu.tx].ref = bank[cpu.tx].ref
        /\ bank'[cpu.tx].amount = bank[cpu.tx].amount
    <3>1. bank[cpu.tx] \in BankRow /\ DOMAIN bank = BankTx
      BY <2>1 DEF TypeOK
    <3>. DEFINE c == [[bank[cpu.tx] EXCEPT !.status = "reconciled"] EXCEPT !.payments = {cpu.payment}]
    <3>2. bank'[cpu.tx] = c
      BY <2>1, <2>2, <3>1
    <3>3. /\ c.status = "reconciled" /\ c.payments = {cpu.payment}
          /\ c.invoice = bank[cpu.tx].invoice /\ c.ref = bank[cpu.tx].ref
          /\ c.amount = bank[cpu.tx].amount
      BY <2>1, <3>1, SettleRow, Zenon
    <3>. HIDE DEF c
    <3>4. QED
      BY <3>2, <3>3
  <2>4. \A u \in BankTx \ {cpu.tx}: bank'[u] = bank[u]
    BY <2>1, <2>2 DEF TypeOK
  <2>5. \A f: f.tx \in BankTx \cup {None} /\ HasReceipt(f) => HasReceipt(f)'
    BY <2>1, <2>2, <2>3, <2>4 DEF HasReceipt, SameSource
  <2>6. \A f \in awaiting: f.tx \in BankTx \cup {None}
    BY DEF TypeOK, PayFrame
  <2>7. ReconciledIsReceipt'
    BY <2>1, <2>2, <2>3, <2>4 DEF ReceiptInv, ReconciledIsReceipt, SameSource
  <2>8. QED
    BY <2>2, <2>5, <2>6, <2>7 DEF ReceiptInv, PayLabel, Idle
<1>12. CASE \E q \in Promise: FulfilPromise(q)
  <2>1. /\ cpu.at \in PayLabel /\ cpu'.at = "close"
        /\ cpu'.payment = cpu.payment /\ cpu'.tx = cpu.tx
        /\ UNCHANGED <<payments, bank, awaiting>>
    BY <1>12 DEF FulfilPromise, PayLabel
  <2>2. QED
    BY <2>1, SameBooks
<1>13. CASE CloseTask
  <2>1. /\ cpu.at = "close" /\ cpu'.at = "fulfil"
        /\ cpu'.payment = cpu.payment /\ cpu'.tx = cpu.tx
        /\ UNCHANGED <<payments, bank, awaiting>>
    BY <1>13 DEF CloseTask
  <2>2. QED
    BY <2>1, SameBooks
<1>14. ASSUME NEW q \in Promise,
               \/ \E k \in Task, a \in Amount: RecordPromise(q, k, a)
               \/ \E c \in Channel: SendReminder(q, c)
       PROVE  ReceiptInv'
  <2>1. /\ \E l \in {"promiseTask", "reminderPromise"}: cpu' = [at |-> l, promise |-> q]
        /\ UNCHANGED <<payments, bank, awaiting>>
    BY <1>14 DEF RecordPromise, SendReminder
  <2>2. QED
    BY <2>1, SameBooks DEF PayLabel
<1>15. CASE ReminderPromise
  <2>1. cpu'.at = "reminderTask"
    BY <1>15, FrameKinds DEF ReminderPromise, Goto, PromiseFrame
  <2>2. QED
    BY <1>15, <2>1, SameBooks DEF ReminderPromise, PayLabel
<1>16. CASE \E k \in Task, i \in Invoice: OpenTask(k, i)
  BY <1>16, SameBooks DEF OpenTask
<1>17. CASE UpdateTask \/ Crash
  BY <1>17, SameBooks DEF UpdateTask, Crash, PayLabel, Idle
<1>18. CASE UNCHANGED vars
  BY <1>18, SameBooks DEF vars
<1>19. QED
  BY <1>1, <1>2, <1>3, <1>4, <1>5, <1>6, <1>7, <1>8, <1>9, <1>10, <1>11, <1>12, <1>13, <1>14,
     <1>15, <1>16, <1>17, <1>18 DEF Next, Request, Statement

(* A reconciled credit names exactly one receipt, which exists and is of its *)
(* own invoice, reference and amount, although the handler that marks it     *)
(* waited for the network and did not read the row again.                    *)
THEOREM ReceiptsReconciled == Spec => []ReconciledIsReceipt
<1>1. Init => ReceiptInv
  BY DEF Init, ReceiptInv, ReconciledIsReceipt, PayLabel, Idle
<1>2. ReceiptInv => ReconciledIsReceipt
  BY DEF ReceiptInv
<1>3. QED
  BY <1>1, <1>2, StepKeepsReceipt, TypeCorrect, PTL DEF Spec

-----------------------------------------------------------------------------
(* A paid invoice was paid.                                                  *)

(* Receipts are finitely many and of posted invoices, so that their sum is a *)
(* number and a receipt more can only raise it.                              *)
PaidInv ==
  /\ IsFiniteSet(payments)
  /\ \A p \in payments: Exists(p.invoice)
  /\ PaidIsCovered

ReceiptsOf(i) == {q \in payments: q.invoice = i}

AmountsOf(S) == [p \in S |-> p.amount]

LEMMA PaidTotalIsSum ==
  \A i: PaidTotal(i) = SumFunctionOnSet(AmountsOf(ReceiptsOf(i)), ReceiptsOf(i))
<1>1. \A S: DOMAIN AmountsOf(S) = S
  BY DEF AmountsOf
<1>2. \A i: PaidTotal(i) = SumFunction(AmountsOf(ReceiptsOf(i)))
  BY DEF PaidTotal, AmountsOf, ReceiptsOf
<1>3. QED
  BY <1>1, <1>2 DEF SumFunction

LEMMA AmountIsPositive == \A p \in Payment: p.amount \in Nat /\ p.amount > 0
<1>1. \A a \in Amount: a \in Nat /\ a > 0
  BY AmountsArePositive
<1>2. QED
  BY <1>1 DEF Payment

(* What an invoice was paid is a number, positive as soon as there is a       *)
(* receipt.                                                                  *)
LEMMA PaidTotalIsNat ==
  ASSUME payments \subseteq Payment, IsFiniteSet(payments), NEW i
  PROVE  /\ PaidTotal(i) \in Nat
         /\ ReceiptsOf(i) = {} => PaidTotal(i) = 0
         /\ ReceiptsOf(i) # {} => PaidTotal(i) > 0
<1>. DEFINE S == ReceiptsOf(i)
            f == AmountsOf(S)
<1>1. IsFiniteSet(S)
  BY FS_Subset DEF ReceiptsOf
<1>2. \A p \in S: f[p] \in Nat /\ f[p] > 0
  BY AmountIsPositive DEF ReceiptsOf, AmountsOf
<1>3. PaidTotal(i) = SumFunctionOnSet(f, S)
  BY PaidTotalIsSum
<1>. HIDE DEF S, f
<1>4. PaidTotal(i) \in Nat
  BY <1>1, <1>2, <1>3, SumNat
<1>5. S = {} => PaidTotal(i) = 0
  BY <1>3, SumEmpty
<1>6. S # {} => PaidTotal(i) > 0
  <2>. SUFFICES ASSUME S # {} PROVE PaidTotal(i) > 0
    OBVIOUS
  <2>. PICK p \in S: TRUE
    OBVIOUS
  <2>1. QED
    BY <1>1, <1>2, <1>3, SumPositive
<1>7. QED
  BY <1>4, <1>5, <1>6 DEF S

(* A receipt more raises the total of its invoice and leaves the others.     *)
LEMMA ReceiptRaises ==
  ASSUME payments \subseteq Payment, IsFiniteSet(payments), NEW r \in Payment, r \notin payments,
         payments' = payments \cup {r}
  PROVE  /\ PaidTotal(r.invoice)' = r.amount + PaidTotal(r.invoice)
         /\ \A i: i # r.invoice => PaidTotal(i)' = PaidTotal(i)
<1>1. ASSUME NEW i, i # r.invoice PROVE PaidTotal(i)' = PaidTotal(i)
  <2>1. {q \in payments': q.invoice = i} = {q \in payments: q.invoice = i}
    BY <1>1
  <2>2. QED
    BY <2>1 DEF PaidTotal
<1>2. PaidTotal(r.invoice)' = r.amount + PaidTotal(r.invoice)
  <2>. DEFINE S == ReceiptsOf(r.invoice)
              T == S \cup {r}
              f == AmountsOf(S)
              g == AmountsOf(T)
  <2>1. ReceiptsOf(r.invoice)' = T
    BY DEF ReceiptsOf
  <2>2. PaidTotal(r.invoice)' = SumFunctionOnSet(g, T)
    <3>1. PaidTotal(r.invoice)' = SumFunctionOnSet(AmountsOf(ReceiptsOf(r.invoice)'), ReceiptsOf(r.invoice)')
      BY DEF PaidTotal, SumFunction, AmountsOf, ReceiptsOf
    <3>2. QED
      BY <2>1, <3>1
  <2>3. PaidTotal(r.invoice) = SumFunctionOnSet(f, S)
    BY PaidTotalIsSum
  <2>4. IsFiniteSet(S) /\ r \notin S
    BY FS_Subset DEF ReceiptsOf
  <2>5. /\ \A p \in T: g[p] \in Int
        /\ \A p \in S: g[p] = f[p]
        /\ g[r] = r.amount
    BY AmountIsPositive DEF ReceiptsOf, AmountsOf
  <2>. HIDE DEF S, f, g
  <2>6. SumFunctionOnSet(g, T) = g[r] + SumFunctionOnSet(g, S)
    BY <2>4, <2>5, SumAdd
  <2>7. SumFunctionOnSet(g, S) = SumFunctionOnSet(f, S)
    BY <2>4, <2>5, SumSame
  <2>8. QED
    BY <2>2, <2>3, <2>5, <2>6, <2>7
<1>3. QED
  BY <1>1, <1>2

(* The steps that write receipts or the status of invoices.                  *)
NewReceipt(r) ==
  /\ r \in Payment
  /\ BySource(r.invoice, r.ref, r.amount) = {}
  /\ payments' = payments \cup {r}
  /\ cpu'.at = "status" /\ cpu'.payment = r

LEMMA WhoPays ==
  ASSUME TypeOK, [Next]_vars
  PROVE  \/ UNCHANGED <<payments, invoiceStatus>>
         \/ (\E d \in Draft, i \in Invoice: PostInvoice(d, i))
         \/ /\ \E r \in Payment: Exists(r.invoice) /\ NewReceipt(r)
            /\ UNCHANGED <<ledgerVars, invoiceStatus, journal, openReceivables, crmVars, bank,
                           notified, awaiting, crashes>>
         \/ PayStatus
<1>1. ASSUME NEW i \in Invoice, NEW r \in Reference, NEW a \in Amount, NEW p \in Period,
             PayInvoice(i, r, a, p)
      PROVE  /\ \E q \in Payment: Exists(q.invoice) /\ NewReceipt(q)
             /\ UNCHANGED <<ledgerVars, invoiceStatus, journal, openReceivables, crmVars, bank,
                            notified, awaiting, crashes>>
  <2>. DEFINE q == [invoice |-> i, ref |-> r, amount |-> a, period |-> p]
  <2>1. q \in Payment
    BY DEF Payment
  <2>2. Exists(q.invoice) /\ NewReceipt(q)
    BY <1>1, <2>1 DEF PayInvoice, RecordPayment, NewReceipt
  <2>3. QED
    BY <1>1, <2>1, <2>2 DEF PayInvoice
<1>2. ASSUME NEW t \in BankTx, Reconcile(t)
      PROVE  \/ UNCHANGED <<payments, invoiceStatus>>
             \/ /\ \E q \in Payment: Exists(q.invoice) /\ NewReceipt(q)
                /\ UNCHANGED <<ledgerVars, invoiceStatus, journal, openReceivables, crmVars, bank,
                               notified, awaiting, crashes>>
  <2>. DEFINE b == bank[t]
              q == [invoice |-> b.invoice, ref |-> b.ref, amount |-> b.amount, period |-> b.period]
  <2>1. q \in Payment
    BY <1>2 DEF Payment, Reconcile, BankRow, TypeOK
  <2>2. Exists(b.invoice)
    BY <1>2 DEF Reconcile, Unpaid, Exists
  <2>3. ASSUME RecordPayment(b.invoice, b.ref, b.amount, b.period, t)
        PROVE  Exists(q.invoice) /\ NewReceipt(q)
    BY <2>1, <2>2, <2>3 DEF RecordPayment, NewReceipt
  <2>4. QED
    BY <1>2, <2>1, <2>3 DEF Reconcile
<1>3. UNCHANGED vars => UNCHANGED <<payments, invoiceStatus>>
  BY DEF vars
<1>4. QED
  BY <1>1, <1>2, <1>3
     DEF Next, Request, Statement, ClosePeriod, ReopenPeriod, SetPeriod, ImportBankTx, OpenTask,
         RecordPromise, SendReminder, PostLink, PostStatus, PostLedger, PayRefresh, PayCash,
         FulfilPromise, CloseTask, AllFulfilled, Notify, WebhookEnds, Settle, ReminderPromise,
         UpdateTask, Crash

LEMMA TotalIsPositive == Total \in Nat /\ Total > 0
BY AmountsArePositive

(* What is paid stays paid, and what is posted stays posted.                 *)
LEMMA PaidStays ==
  ASSUME TypeOK, PaidInv, [Next]_vars, NEW i \in Invoice
  PROVE  /\ invoiceStatus[i] = "paid" => invoiceStatus'[i] = "paid"
         /\ Exists(i) => Exists(i)'
<1>1. CASE \E d \in Draft, j \in Invoice: PostInvoice(d, j)
  BY <1>1 DEF PostInvoice, TypeOK, Exists
<1>2. CASE PayStatus
  <2>1. PICK j: invoiceStatus' = [invoiceStatus EXCEPT ![j] = StatusByPayments(j)]
    BY <1>2 DEF PayStatus
  <2>2. invoiceStatus[i] = "paid" => StatusByPayments(i) = "paid"
    BY DEF PaidInv, PaidIsCovered, StatusByPayments
  <2>3. StatusByPayments(j) \in {"paid", "partial"}
    BY DEF StatusByPayments
  <2>4. invoiceStatus'[i] = IF i = j THEN StatusByPayments(j) ELSE invoiceStatus[i]
    BY <2>1 DEF TypeOK
  <2>5. QED
    BY <2>2, <2>3, <2>4 DEF Exists
<1>3. CASE UNCHANGED invoiceStatus
  BY <1>3 DEF Exists
<1>4. QED
  BY <1>1, <1>2, <1>3, WhoPays

LEMMA StepKeepsPaid == TypeOK /\ PaidInv /\ [Next]_vars => PaidInv'
<1>. SUFFICES ASSUME TypeOK, PaidInv, [Next]_vars PROVE PaidInv'
  OBVIOUS
<1>0. /\ payments \subseteq Payment /\ IsFiniteSet(payments)
      /\ invoiceStatus \in [Invoice -> {"none", "open", "partial", "paid"}]
      /\ \A p \in payments: p.invoice \in Invoice
  BY DEF TypeOK, PaidInv, Payment
<1>k. \A i: PaidTotal(i) \in Nat
  BY <1>0, PaidTotalIsNat
<1>1. CASE UNCHANGED <<payments, invoiceStatus>>
  BY <1>1 DEF PaidInv, PaidIsCovered, Exists, PaidTotal
<1>2. ASSUME NEW d \in Draft, NEW i \in Invoice, PostInvoice(d, i)
      PROVE  PaidInv'
  <2>1. payments' = payments /\ invoiceStatus' = [invoiceStatus EXCEPT ![i] = "open"]
    BY <1>2 DEF PostInvoice
  <2>2. \A p \in payments': Exists(p.invoice)'
    BY <1>0, <2>1 DEF PaidInv, Exists
  <2>3. \A j \in Invoice: invoiceStatus'[j] = "paid" => invoiceStatus[j] = "paid"
    BY <1>0, <2>1
  <2>4. \A j: PaidTotal(j)' = PaidTotal(j)
    BY <2>1 DEF PaidTotal
  <2>5. QED
    BY <2>1, <2>2, <2>3, <2>4 DEF PaidInv, PaidIsCovered
<1>3. ASSUME NEW r \in Payment, Exists(r.invoice), NewReceipt(r), UNCHANGED invoiceStatus
      PROVE  PaidInv'
  <2>1. r \notin payments /\ payments' = payments \cup {r}
    BY <1>3 DEF NewReceipt, BySource, SameSource
  <2>2. IsFiniteSet(payments')
    BY <1>0, <2>1, FS_AddElement
  <2>3. \A p \in payments': Exists(p.invoice)'
    BY <1>3, <2>1 DEF PaidInv, Exists
  <2>4. \A i \in Invoice: PaidTotal(i)' >= PaidTotal(i) /\ PaidTotal(i)' \in Nat
    <3>1. /\ PaidTotal(r.invoice)' = r.amount + PaidTotal(r.invoice)
          /\ \A i: i # r.invoice => PaidTotal(i)' = PaidTotal(i)
      BY <1>0, <2>1, ReceiptRaises
    <3>2. r.amount \in Nat
      BY AmountIsPositive
    <3>3. TAKE i \in Invoice
    <3>4. CASE i = r.invoice
      BY <1>k, <3>1, <3>2, <3>4
    <3>5. CASE i # r.invoice
      BY <1>k, <3>1, <3>5
    <3>6. QED
      BY <3>4, <3>5
  <2>5. PaidIsCovered'
    <3>1. \A i \in Invoice: invoiceStatus[i] = "paid" => PaidTotal(i) >= Total
      BY DEF PaidInv, PaidIsCovered
    <3>2. ASSUME NEW i \in Invoice, invoiceStatus[i] = "paid"
          PROVE  PaidTotal(i)' >= Total
      <4>1. PaidTotal(i) >= Total /\ PaidTotal(i)' >= PaidTotal(i)
        BY <2>4, <3>1, <3>2
      <4>2. PaidTotal(i) \in Nat /\ PaidTotal(i)' \in Nat /\ Total \in Nat
        BY <1>k, <2>4, TotalIsPositive
      <4>3. QED
        BY <4>1, <4>2
    <3>3. QED
      BY <1>3, <3>2 DEF PaidIsCovered
  <2>6. QED
    BY <2>2, <2>3, <2>5 DEF PaidInv
<1>4. CASE PayStatus
  <2>1. PICK j: /\ invoiceStatus' = [invoiceStatus EXCEPT ![j] = StatusByPayments(j)]
                /\ payments' = payments
    BY <1>4 DEF PayStatus
  <2>2. \A i: PaidTotal(i)' = PaidTotal(i)
    BY <2>1 DEF PaidTotal
  <2>3. \A i \in Invoice: invoiceStatus'[i] = IF i = j THEN StatusByPayments(j) ELSE invoiceStatus[i]
    BY <1>0, <2>1
  <2>4. StatusByPayments(j) \in {"paid", "partial"}
        /\ (StatusByPayments(j) = "paid" => PaidTotal(j) >= Total)
    BY DEF StatusByPayments
  <2>5. PaidIsCovered'
    BY <2>2, <2>3, <2>4 DEF PaidIsCovered, PaidInv
  <2>6. \A p \in payments': Exists(p.invoice)'
    BY <1>0, <2>1, <2>3, <2>4 DEF PaidInv, Exists
  <2>7. QED
    BY <2>1, <2>5, <2>6 DEF PaidInv
<1>5. QED
  BY <1>1, <1>2, <1>3, <1>4, WhoPays

LEMMA PaidInvariant == Spec => []PaidInv
<1>1. Init => PaidInv
  BY FS_EmptySet DEF Init, PaidInv, PaidIsCovered
<1>2. QED
  BY <1>1, StepKeepsPaid, TypeCorrect, PTL DEF Spec

(* An invoice that is shown as paid was paid in full: whatever crashes, the  *)
(* status is written from the receipts, and no receipt goes away.            *)
THEOREM PaidMeansCovered == Spec => []PaidIsCovered
<1>1. PaidInv => PaidIsCovered
  BY DEF PaidInv
<1>2. QED
  BY <1>1, PaidInvariant, PTL

-----------------------------------------------------------------------------
(* The control of a handler: which statement brought it where it is.         *)

LEMMA Flow ==
  ASSUME TypeOK, PeriodInv, [Next]_vars, ~UNCHANGED vars, cpu'.at \notin {"idle", "settle"}
  PROVE  \/ cpu'.at = "link" /\ \E d \in Draft, i \in Invoice: PostInvoice(d, i)
         \/ /\ cpu'.draft = cpu.draft /\ cpu'.invoice = cpu.invoice
            /\ \/ cpu'.at = "posted" /\ PostLink
               \/ cpu'.at = "net" /\ PostStatus
               \/ cpu'.at = "vat" /\ PostLedger /\ cpu.at = "net"
         \/ cpu'.at = "status" /\ \E r \in Payment: Exists(r.invoice) /\ NewReceipt(r)
         \/ /\ cpu'.payment = cpu.payment
            /\ \/ cpu'.at = "refresh" /\ PayStatus
               \/ cpu'.at = "cash" /\ PayRefresh
               \/ cpu'.at = "fulfil" /\ (PayCash \/ CloseTask)
               \/ cpu'.at = "close" /\ \E q \in Promise: FulfilPromise(q) /\ cpu'.promise = q
               \/ cpu'.at = "notify" /\ AllFulfilled
         \/ \E q \in Promise:
              /\ cpu'.promise = q
              /\ \/ cpu'.at = "promiseTask" /\ \E k \in Task, a \in Amount: RecordPromise(q, k, a)
                 \/ cpu'.at = "reminderPromise" /\ \E c \in Channel: SendReminder(q, c)
                 \/ cpu'.at = "reminderTask" /\ ReminderPromise /\ q = cpu.promise
<1>1. CASE \E d \in Draft, i \in Invoice: PostInvoice(d, i)
  <2>1. \A d, i: PostInvoice(d, i) => cpu'.at = "link"
    BY DEF PostInvoice
  <2>2. QED
    BY <1>1, <2>1
<1>2. CASE PostLink
  BY <1>2, GoesOn DEF PostLink
<1>3. CASE PostStatus
  BY <1>3, GoesOn DEF PostStatus
<1>4. CASE PostLedger
  BY <1>4, GoesOn DEF PostLedger, Idle
<1>5. ASSUME NEW i \in Invoice, NEW r \in Reference, NEW a \in Amount, NEW p \in Period,
             PayInvoice(i, r, a, p)
      PROVE  cpu'.at = "status" /\ \E q \in Payment: Exists(q.invoice) /\ NewReceipt(q)
  <2>. DEFINE q == [invoice |-> i, ref |-> r, amount |-> a, period |-> p]
  <2>1. q \in Payment
    BY DEF Payment
  <2>2. Exists(q.invoice) /\ NewReceipt(q) /\ cpu'.at = "status"
    BY <1>5, <2>1 DEF PayInvoice, RecordPayment, NewReceipt
  <2>3. QED
    BY <2>1, <2>2
<1>6. ASSUME NEW t \in BankTx, Reconcile(t)
      PROVE  cpu'.at = "status" /\ \E q \in Payment: Exists(q.invoice) /\ NewReceipt(q)
  <2>. DEFINE b == bank[t]
              q == [invoice |-> b.invoice, ref |-> b.ref, amount |-> b.amount, period |-> b.period]
  <2>1. q \in Payment
    BY <1>6 DEF Payment, Reconcile, BankRow, TypeOK
  <2>2. Exists(b.invoice)
    BY <1>6 DEF Reconcile, Unpaid, Exists
  <2>3. RecordPayment(b.invoice, b.ref, b.amount, b.period, t)
    BY <1>6 DEF Reconcile
  <2>4. Exists(q.invoice) /\ NewReceipt(q) /\ cpu'.at = "status"
    BY <2>1, <2>2, <2>3 DEF RecordPayment, NewReceipt
  <2>5. QED
    BY <2>1, <2>4
<1>7. CASE PayStatus
  BY <1>7, GoesOn DEF PayStatus, PayLabel
<1>8. CASE PayRefresh
  BY <1>8, GoesOn DEF PayRefresh, PayLabel
<1>9. CASE PayCash
  <2>1. cpu.at \in PayLabel /\ (Goto("fulfil") \/ AfterReceipt)
    BY <1>9 DEF PayCash, PayLabel
  <2>2. cpu'.at = "fulfil" /\ cpu'.payment = cpu.payment
    BY <2>1, GoesOn, EndsOrSettles DEF PayLabel
  <2>3. QED
    BY <1>9, <2>2
<1>10. CASE \E q \in Promise: FulfilPromise(q)
  <2>1. \A q: FulfilPromise(q) => /\ cpu'.at = "close" /\ cpu'.promise = q
                                 /\ cpu'.payment = cpu.payment
    BY DEF FulfilPromise
  <2>2. QED
    BY <1>10, <2>1
<1>11. CASE CloseTask
  BY <1>11 DEF CloseTask
<1>12. CASE AllFulfilled
  BY <1>12, GoesOn DEF AllFulfilled, PayLabel
<1>13. ASSUME Notify PROVE FALSE
  <2>1. cpu.at \in PayLabel /\ (cpu' = Idle \/ AfterReceipt)
    BY <1>13 DEF Notify, PayLabel
  <2>2. QED
    BY <2>1, EndsOrSettles DEF Idle
<1>14. CASE \E q \in Promise, k \in Task, a \in Amount: RecordPromise(q, k, a)
  <2>1. \A q, k, a: RecordPromise(q, k, a) => cpu'.at = "promiseTask" /\ cpu'.promise = q
    BY DEF RecordPromise
  <2>2. QED
    BY <1>14, <2>1
<1>15. CASE \E q \in Promise, c \in Channel: SendReminder(q, c)
  BY <1>15 DEF SendReminder
<1>16. CASE ReminderPromise
  <2>1. cpu \in PromiseFrame /\ cpu.promise \in Promise
    BY <1>16, FrameKinds DEF ReminderPromise, PromiseFrame
  <2>2. cpu'.at = "reminderTask" /\ cpu'.promise = cpu.promise
    BY <1>16, <2>1 DEF ReminderPromise, Goto, PromiseFrame
  <2>3. QED
    BY <1>16, <2>1, <2>2
<1>17. ASSUME \E f \in awaiting: WebhookEnds(f) PROVE FALSE
  BY <1>17 DEF WebhookEnds, PeriodInv
<1>18. ASSUME \/ \E p \in Period: ClosePeriod(p) \/ ReopenPeriod(p)
              \/ \E t \in BankTx, i \in Invoice \cup {None}, r \in Reference, a \in Amount, p \in Period:
                   ImportBankTx(t, i, r, a, p)
              \/ \E k \in Task, i \in Invoice: OpenTask(k, i)
              \/ Settle \/ UpdateTask \/ Crash
       PROVE  FALSE
  BY <1>18 DEF ClosePeriod, ReopenPeriod, SetPeriod, ImportBankTx, OpenTask, Settle, UpdateTask,
               Crash, Idle
<1>19. QED
  BY <1>1, <1>2, <1>3, <1>4, <1>5, <1>6, <1>7, <1>8, <1>9, <1>10, <1>11, <1>12, <1>13, <1>14,
     <1>15, <1>16, <1>17, <1>18 DEF Next, Request, Statement

-----------------------------------------------------------------------------
(* The webhook comes after the books.                                        *)

(* Once the cash entry is written the handler knows that the invoice is paid *)
(* and counted no more; both stay true until the message is sent and after.  *)
NotifyInv ==
  /\ cpu.at \in {"fulfil", "close", "notify"} =>
       /\ invoiceStatus[cpu.payment.invoice] = "paid"
       /\ [leg |-> "cash", payment |-> cpu.payment] \in journal
  /\ cpu.at \in {"cash", "fulfil", "close", "notify"} =>
       (cpu.payment.invoice \in openReceivables => Unpaid(cpu.payment.invoice))
  /\ NotifiedHasBooks

LEMMA WhoWritesBooks ==
  ASSUME [Next]_vars
  PROVE  /\ journal \subseteq journal'
         /\ \/ openReceivables' = openReceivables
            \/ PayRefresh
         /\ \/ notified' = notified
            \/ cpu.at = "notify" /\ notified' = notified \cup {cpu.payment}
<1>1. UNCHANGED vars => UNCHANGED <<journal, openReceivables, notified>>
  BY DEF vars
<1>2. QED
  BY <1>1
     DEF Next, Request, Statement, ClosePeriod, ReopenPeriod, SetPeriod, ImportBankTx, OpenTask,
         RecordPromise, SendReminder, PostInvoice, PostLink, PostStatus, PostLedger, PayInvoice,
         Reconcile, PayStatus, PayRefresh, PayCash, FulfilPromise, CloseTask, AllFulfilled, Notify,
         WebhookEnds, Settle, ReminderPromise, UpdateTask, Crash

LEMMA StepKeepsNotify == TypeOK /\ PeriodInv /\ PaidInv /\ NotifyInv /\ [Next]_vars => NotifyInv'
<1>. SUFFICES ASSUME TypeOK, PeriodInv, PaidInv, NotifyInv, [Next]_vars PROVE NotifyInv'
  OBVIOUS
<1>1. /\ journal \subseteq journal'
      /\ openReceivables' = openReceivables \/ PayRefresh
      /\ notified' = notified \/ (cpu.at = "notify" /\ notified' = notified \cup {cpu.payment})
  BY WhoWritesBooks
<1>2. \A i \in Invoice: invoiceStatus[i] = "paid" => invoiceStatus'[i] = "paid"
  BY PaidStays
<1>3. ASSUME NEW i \in Invoice, invoiceStatus[i] = "paid", i \notin openReceivables
      PROVE  i \notin openReceivables'
  <2>1. CASE PayRefresh
    BY <1>3, <2>1 DEF PayRefresh, Unpaid
  <2>2. QED
    BY <1>1, <1>3, <2>1
<1>4. cpu.at \in PayLabel \cup {"close"} => cpu.payment \in Payment /\ cpu.payment.invoice \in Invoice
  BY FrameKinds DEF PayFrame, CloseFrame, Payment
<1>5. NotifiedHasBooks'
  <2>1. ASSUME NEW p \in notified'
        PROVE  /\ [leg |-> "cash", payment |-> p] \in journal
               /\ p.invoice \in Invoice /\ invoiceStatus[p.invoice] = "paid"
               /\ p.invoice \notin openReceivables
    <3>1. CASE p \in notified
      BY <3>1 DEF NotifyInv, NotifiedHasBooks, TypeOK, Payment
    <3>2. CASE cpu.at = "notify" /\ p = cpu.payment
      BY <1>4, <3>2 DEF NotifyInv, Unpaid, PayLabel
    <3>3. QED
      BY <1>1, <3>1, <3>2
  <2>2. QED
    BY <1>1, <1>2, <1>3, <2>1 DEF NotifiedHasBooks
<1>6. CASE UNCHANGED vars
  BY <1>5, <1>6 DEF vars, NotifyInv, Unpaid
<1>7. CASE cpu'.at \in {"idle", "settle"}
  BY <1>5, <1>7 DEF NotifyInv
<1>8. CASE cpu'.at = "cash" /\ PayRefresh /\ cpu'.payment = cpu.payment
  BY <1>5, <1>8 DEF NotifyInv, PayRefresh, Unpaid
<1>9. CASE cpu'.at = "fulfil" /\ PayCash /\ cpu'.payment = cpu.payment
  <2>1. /\ UNCHANGED <<invoiceStatus, openReceivables>>
        /\ [leg |-> "cash", payment |-> cpu.payment] \in journal'
    BY <1>9 DEF PayCash
  <2>2. PaysOff(cpu.payment.invoice)
    <3>1. ASSUME AfterReceipt PROVE cpu'.at # "fulfil"
      BY <1>9, <3>1, EndsOrSettles DEF PayCash, PayLabel
    <3>2. QED
      BY <1>9, <3>1 DEF PayCash
  <2>3. cpu.at = "cash"
    BY <1>9 DEF PayCash
  <2>4. QED
    BY <1>5, <1>9, <2>1, <2>2, <2>3 DEF NotifyInv, PaysOff, Unpaid
<1>10. CASE /\ cpu'.payment = cpu.payment /\ cpu'.at \in {"fulfil", "close", "notify"}
            /\ CloseTask \/ AllFulfilled \/ \E q \in Promise: FulfilPromise(q)
  <2>1. /\ UNCHANGED <<invoiceStatus, openReceivables, journal>>
        /\ cpu.at \in {"fulfil", "close"}
    BY <1>10 DEF CloseTask, AllFulfilled, FulfilPromise
  <2>2. QED
    BY <1>5, <1>10, <2>1 DEF NotifyInv, Unpaid
<1>11. CASE cpu'.at \notin {"cash", "fulfil", "close", "notify"}
  BY <1>5, <1>11 DEF NotifyInv
<1>12. QED
  BY <1>6, <1>7, <1>8, <1>9, <1>10, <1>11, Flow

(* A subscriber is told of a payment only after the ledger, the status and   *)
(* the receivables have it, in every order of requests and crashes.          *)
THEOREM BooksBeforeWebhooks == Spec => []NotifiedHasBooks
<1>1. Init => PeriodInv /\ NotifyInv
  BY DEF Init, PeriodInv, NotifyInv, NotifiedHasBooks, Idle
<1>2. NotifyInv => NotifiedHasBooks
  BY DEF NotifyInv
<1>3. QED
  BY <1>1, <1>2, StepKeepsPeriod, StepKeepsNotify, PaidInvariant, TypeCorrect, PTL DEF Spec

-----------------------------------------------------------------------------
(* A fulfilled promise was paid.                                             *)

(* A promise points to a task, and a task to an invoice; a handler that works *)
(* on a promise has read its row.                                            *)
PromiseInv ==
  /\ \A k \in Task: task[k].status # "none" => task[k].invoice \in Invoice
  /\ \A q \in Promise: promise[q].status # "none" =>
       promise[q].task \in Task /\ task[promise[q].task].status # "none"
  /\ cpu.at \in {"promiseTask", "reminderPromise", "reminderTask", "close"} =>
       cpu.promise \in Promise /\ promise[cpu.promise].status # "none"
  /\ FulfilledIsPaid

(* Setting the status of a row leaves its other columns alone.               *)
LEMMA TaskStatusSet ==
  ASSUME task \in [Task -> TaskRow], NEW k \in Task, NEW s,
         task' = [task EXCEPT ![k].status = s]
  PROVE  \A j \in Task: /\ task'[j].invoice = task[j].invoice
                        /\ task'[j].status = IF j = k THEN s ELSE task[j].status
<1>1. \A r \in TaskRow: LET n == [r EXCEPT !.status = s] IN n.status = s /\ n.invoice = r.invoice
  BY DEF TaskRow
<1>2. QED
  BY <1>1

LEMMA PromiseStatusSet ==
  ASSUME promise \in [Promise -> PromiseRow], NEW q \in Promise, NEW s,
         promise' = [promise EXCEPT ![q].status = s]
  PROVE  \A r \in Promise: /\ promise'[r].task = promise[r].task
                           /\ promise'[r].status = IF r = q THEN s ELSE promise[r].status
<1>1. \A r \in PromiseRow: LET n == [r EXCEPT !.status = s] IN n.status = s /\ n.task = r.task
  BY DEF PromiseRow
<1>2. QED
  BY <1>1

LEMMA WhoWritesTasks ==
  ASSUME [Next]_vars
  PROVE  task' = task \/ CloseTask \/ UpdateTask \/ \E k \in Task, i \in Invoice: OpenTask(k, i)
<1>1. UNCHANGED vars => task' = task
  BY DEF vars
<1>2. QED
  BY <1>1
     DEF Next, Request, Statement, ClosePeriod, ReopenPeriod, SetPeriod, ImportBankTx,
         RecordPromise, SendReminder, PostInvoice, PostLink, PostStatus, PostLedger, PayInvoice,
         Reconcile, PayStatus, PayRefresh, PayCash, FulfilPromise, AllFulfilled, Notify,
         WebhookEnds, Settle, ReminderPromise, Crash

LEMMA WhoWritesPromises ==
  ASSUME [Next]_vars
  PROVE  \/ promise' = promise
         \/ ReminderPromise
         \/ \E q \in Promise: FulfilPromise(q)
         \/ \E q \in Promise, k \in Task, a \in Amount: RecordPromise(q, k, a)
<1>1. UNCHANGED vars => promise' = promise
  BY DEF vars
<1>2. QED
  BY <1>1
     DEF Next, Request, Statement, ClosePeriod, ReopenPeriod, SetPeriod, ImportBankTx, OpenTask,
         SendReminder, PostInvoice, PostLink, PostStatus, PostLedger, PayInvoice,
         Reconcile, PayStatus, PayRefresh, PayCash, CloseTask, AllFulfilled, Notify,
         WebhookEnds, Settle, UpdateTask, Crash

(* A task keeps its invoice for good, and a promise its task.                *)
LEMMA TaskStep ==
  ASSUME TypeOK, PromiseInv, [Next]_vars, NEW k \in Task
  PROVE  /\ task[k].status # "none" => /\ task'[k].status # "none"
                                       /\ task'[k].invoice = task[k].invoice
         /\ task'[k].status # "none" => task'[k].invoice \in Invoice
<1>. task \in [Task -> TaskRow]
  BY DEF TypeOK
<1>0. CASE task' = task
  BY <1>0 DEF PromiseInv
<1>1. ASSUME NEW s, s # "none", cpu.at \in {"promiseTask", "reminderTask", "close"},
             task' = [task EXCEPT ![promise[cpu.promise].task].status = s]
      PROVE  /\ task[k].status # "none" => /\ task'[k].status # "none"
                                           /\ task'[k].invoice = task[k].invoice
             /\ task'[k].status # "none" => task'[k].invoice \in Invoice
  <2>1. /\ promise[cpu.promise].task \in Task
        /\ task[promise[cpu.promise].task].status # "none"
    BY <1>1 DEF PromiseInv
  <2>2. /\ task'[k].invoice = task[k].invoice
        /\ task'[k].status = IF k = promise[cpu.promise].task THEN s ELSE task[k].status
    BY <1>1, <2>1, TaskStatusSet
  <2>3. QED
    BY <1>1, <2>1, <2>2 DEF PromiseInv
<1>2. CASE CloseTask
  BY <1>1, <1>2 DEF CloseTask
<1>3. CASE UpdateTask
  BY <1>1, <1>3 DEF UpdateTask
<1>4. ASSUME NEW j \in Task, NEW i \in Invoice, OpenTask(j, i)
      PROVE  /\ task[k].status # "none" => /\ task'[k].status # "none"
                                           /\ task'[k].invoice = task[k].invoice
             /\ task'[k].status # "none" => task'[k].invoice \in Invoice
  <2>1. /\ task[j].status = "none"
        /\ task'[k] = IF k = j THEN [status |-> "open", invoice |-> i] ELSE task[k]
    BY <1>4 DEF OpenTask
  <2>2. QED
    BY <2>1 DEF PromiseInv
<1>5. QED
  BY <1>0, <1>2, <1>3, <1>4, WhoWritesTasks

LEMMA PromiseStep ==
  ASSUME TypeOK, PromiseInv, [Next]_vars, NEW q \in Promise
  PROVE  /\ promise[q].status # "none" => /\ promise'[q].status # "none"
                                          /\ promise'[q].task = promise[q].task
         /\ (promise[q].status = "none" /\ promise'[q].status # "none") =>
              /\ promise'[q].status = "scheduled"
              /\ promise'[q].task \in Task /\ task[promise'[q].task].status # "none"
         /\ promise'[q].status = "fulfilled" => promise[q].status = "fulfilled" \/ FulfilPromise(q)
<1>. promise \in [Promise -> PromiseRow]
  BY DEF TypeOK
<1>0. CASE promise' = promise
  BY <1>0
<1>1. CASE ReminderPromise
  <2>1. /\ promise' = [promise EXCEPT ![cpu.promise].status = "reminder-sent"]
        /\ cpu.promise \in Promise /\ promise[cpu.promise].status # "none"
    BY <1>1 DEF ReminderPromise, PromiseInv
  <2>2. /\ promise'[q].task = promise[q].task
        /\ promise'[q].status = IF q = cpu.promise THEN "reminder-sent" ELSE promise[q].status
    BY <2>1, PromiseStatusSet
  <2>3. QED
    BY <2>1, <2>2
<1>2. ASSUME NEW r \in Promise, FulfilPromise(r)
      PROVE  /\ promise[q].status # "none" => /\ promise'[q].status # "none"
                                              /\ promise'[q].task = promise[q].task
             /\ (promise[q].status = "none" => promise'[q].status = "none")
             /\ promise'[q].status = "fulfilled" => promise[q].status = "fulfilled" \/ q = r
  <2>1. /\ promise' = [promise EXCEPT ![r].status = "fulfilled"]
        /\ promise[r].status # "none"
    BY <1>2 DEF FulfilPromise, Unfulfilled
  <2>2. /\ promise'[q].task = promise[q].task
        /\ promise'[q].status = IF q = r THEN "fulfilled" ELSE promise[q].status
    BY <2>1, PromiseStatusSet
  <2>3. QED
    BY <2>1, <2>2
<1>3. ASSUME NEW r \in Promise, NEW k \in Task, NEW a \in Amount, RecordPromise(r, k, a)
      PROVE  \/ promise'[q] = promise[q]
             \/ /\ promise[q].status = "none" /\ promise'[q].status = "scheduled"
                /\ promise'[q].task = k /\ task[k].status # "none"
  <2>1. /\ promise[r].status = "none" /\ task[k].status # "none"
        /\ promise'[q] = IF q = r THEN [status |-> "scheduled", task |-> k, amount |-> a]
                                  ELSE promise[q]
    BY <1>3 DEF RecordPromise
  <2>2. QED
    BY <2>1
<1>4. QED
  BY <1>0, <1>1, <1>2, <1>3, WhoWritesPromises

LEMMA StepKeepsPromise ==
  TypeOK /\ PeriodInv /\ PaidInv /\ NotifyInv /\ PromiseInv /\ [Next]_vars => PromiseInv'
<1>. SUFFICES ASSUME TypeOK, PeriodInv, PaidInv, NotifyInv, PromiseInv, [Next]_vars
              PROVE  PromiseInv'
  OBVIOUS
<1>1. \A k \in Task: task'[k].status # "none" => task'[k].invoice \in Invoice
  BY TaskStep
<1>2. ASSUME NEW q \in Promise, promise'[q].status # "none"
      PROVE  promise'[q].task \in Task /\ task'[promise'[q].task].status # "none"
  <2>1. promise'[q].task \in Task /\ task[promise'[q].task].status # "none"
    BY <1>2, PromiseStep DEF PromiseInv
  <2>2. QED
    BY <2>1, TaskStep
<1>3. ASSUME NEW q \in Promise, promise'[q].status = "fulfilled"
      PROVE  invoiceStatus'[task'[promise'[q].task].invoice] = "paid"
  <2>1. /\ promise[q].status # "none"
        /\ invoiceStatus[PromiseInvoice(q)] = "paid"
    <3>1. CASE promise[q].status = "fulfilled"
      BY <3>1 DEF PromiseInv, FulfilledIsPaid
    <3>2. CASE FulfilPromise(q)
      <4>1. cpu.at = "fulfil" /\ q \in Unfulfilled(cpu.payment.invoice)
        BY <3>2 DEF FulfilPromise
      <4>2. invoiceStatus[cpu.payment.invoice] = "paid"
        BY <4>1 DEF NotifyInv
      <4>3. QED
        BY <4>1, <4>2 DEF Unfulfilled
    <3>3. QED
      BY <1>3, <3>1, <3>2, PromiseStep
  <2>2. /\ promise[q].task \in Task /\ task[promise[q].task].status # "none"
        /\ task[promise[q].task].invoice \in Invoice
    BY <2>1 DEF PromiseInv
  <2>3. promise'[q].task = promise[q].task
    BY <2>1, PromiseStep
  <2>4. task'[promise[q].task].invoice = task[promise[q].task].invoice
    BY <2>2, TaskStep
  <2>5. QED
    BY <2>1, <2>2, <2>3, <2>4, PaidStays DEF PromiseInvoice
<1>4. FulfilledIsPaid'
  BY <1>3 DEF FulfilledIsPaid, PromiseInvoice
<1>5. ASSUME cpu'.at \in {"promiseTask", "reminderPromise", "reminderTask", "close"}
      PROVE  cpu'.promise \in Promise /\ promise'[cpu'.promise].status # "none"
  <2>0. CASE UNCHANGED vars
    BY <1>5, <2>0 DEF vars, PromiseInv
  <2>1. \/ \E q \in Promise: FulfilPromise(q) /\ cpu'.promise = q
        \/ \E q \in Promise:
             /\ cpu'.promise = q
             /\ \/ \E k \in Task, a \in Amount: RecordPromise(q, k, a)
                \/ \E c \in Channel: SendReminder(q, c)
                \/ ReminderPromise /\ q = cpu.promise
        \/ UNCHANGED vars
    BY <1>5, Flow
  <2>2. ASSUME NEW q \in Promise, FulfilPromise(q) PROVE promise[q].status # "none"
    BY <2>2 DEF FulfilPromise, Unfulfilled
  <2>3. ASSUME NEW q \in Promise, NEW c, SendReminder(q, c) PROVE promise[q].status # "none"
    BY <2>3 DEF SendReminder
  <2>4. ASSUME ReminderPromise PROVE promise[cpu.promise].status # "none"
    BY <2>4 DEF ReminderPromise, PromiseInv
  <2>5. ASSUME NEW q \in Promise, NEW k \in Task, NEW a \in Amount, RecordPromise(q, k, a)
        PROVE  promise'[q].status # "none"
    BY <2>5 DEF RecordPromise, TypeOK
  <2>6. QED
    BY <2>0, <2>1, <2>2, <2>3, <2>4, <2>5, PromiseStep
<1>6. QED
  BY <1>1, <1>2, <1>4, <1>5 DEF PromiseInv

(* A promise counts as kept only when its invoice is paid: the handler marks *)
(* it statements after it read the status, and the task of the promise leads *)
(* to the same invoice for good.                                             *)
THEOREM KeptPromisesArePaid == Spec => []FulfilledIsPaid
<1>1. Init => PeriodInv /\ NotifyInv /\ PromiseInv
  BY DEF Init, PeriodInv, NotifyInv, NotifiedHasBooks, PromiseInv, FulfilledIsPaid, Idle
<1>2. PromiseInv => FulfilledIsPaid
  BY DEF PromiseInv
<1>3. QED
  BY <1>1, <1>2, StepKeepsPeriod, StepKeepsNotify, StepKeepsPromise, PaidInvariant, TypeCorrect,
     PTL DEF Spec

-----------------------------------------------------------------------------
(* The books are complete.                                                   *)

PostLabel == {"link", "posted", "net", "vat"}

Posting(i) == cpu.at \in PostLabel /\ cpu.invoice = i

(* The parts of BooksComplete while a handler runs: what the handler has not *)
(* written yet is what it is going to write.  L are the invoices and C the   *)
(* receipts whose handlers crashes have cut off.                             *)
PostedBooks(L) ==
  \A i \in Invoice \ L: Exists(i) =>
    LET d == invoiceDraft[i] IN
    /\ d \in Draft
    /\ link[d] = i \/ (Posting(i) /\ cpu.at = "link")
    /\ draftStatus[d] = "posted" \/ (Posting(i) /\ cpu.at \in {"link", "posted"})
    /\ \/ [leg |-> "net", invoice |-> i, period |-> DraftPeriod[d]] \in journal
       \/ Posting(i) /\ cpu.at # "vat"
    /\ \/ [leg |-> "vat", invoice |-> i, period |-> DraftPeriod[d]] \in journal
       \/ Posting(i)

StatusBooks(C) ==
  \A i \in Invoice: Exists(i) =>
    \/ invoiceStatus[i] = StatusByReceipts(i)
    \/ cpu.at = "status" /\ cpu.payment.invoice = i
    \/ \E p \in C: p.invoice = i

Booking(p) == cpu.at \in {"status", "refresh", "cash"} /\ cpu.payment = p

CashBooks(C) == \A p \in payments \ C: Booked(p) \/ Booking(p)

CountedBooks(C) ==
  C = {} =>
    \/ cpu.at = "refresh"
    \/ \A i \in Invoice: /\ i \in openReceivables => Unpaid(i)
                         /\ invoiceStatus[i] = "partial" => i \in openReceivables

(* A receipt that was left without its cash entry gets none any more.        *)
LostReceipts(C) == \A p \in C: p \in payments /\ ~Booked(p) /\ ~Booking(p)

Books(L, C) ==
  /\ IsFiniteSet(L) /\ IsFiniteSet(C) /\ Cardinality(L) + Cardinality(C) <= crashes
  /\ PostedBooks(L) /\ StatusBooks(C) /\ CashBooks(C) /\ CountedBooks(C) /\ LostReceipts(C)

BookInv == \E L, C: Books(L, C)

LEMMA StepOrCrash ==
  ASSUME [Next]_vars
  PROVE  Crash \/ crashes' = crashes
<1>1. UNCHANGED vars => crashes' = crashes
  BY DEF vars
<1>2. QED
  BY <1>1
     DEF Next, Request, Statement, ClosePeriod, ReopenPeriod, SetPeriod, ImportBankTx, OpenTask,
         RecordPromise, SendReminder, PostInvoice, PostLink, PostStatus, PostLedger, PayInvoice,
         Reconcile, PayStatus, PayRefresh, PayCash, FulfilPromise, CloseTask, AllFulfilled, Notify,
         WebhookEnds, Settle, ReminderPromise, UpdateTask

(* A handler in the middle of its statements is the one that goes on.        *)
LEMMA Departs ==
  ASSUME Next, ~Crash
  PROVE  /\ cpu.at = "link" => PostLink
         /\ cpu.at = "posted" => PostStatus
         /\ cpu.at \in {"net", "vat"} => PostLedger
         /\ cpu.at = "status" => PayStatus
         /\ cpu.at = "refresh" => PayRefresh
         /\ cpu.at = "cash" => PayCash
<1>1. cpu = Idle => cpu.at = "idle"
  BY DEF Idle
<1>2. Request => cpu = Idle
  BY DEF Request, ClosePeriod, ReopenPeriod, SetPeriod, ImportBankTx, OpenTask, RecordPromise,
         SendReminder, PostInvoice, PayInvoice, Reconcile
<1>3. (\E f \in awaiting: WebhookEnds(f)) => cpu = Idle
  BY DEF WebhookEnds
<1>4. Statement =>
        \/ PostLink \/ PostStatus \/ PostLedger \/ PayStatus \/ PayRefresh \/ PayCash
        \/ cpu.at \in {"fulfil", "close", "notify", "settle", "reminderPromise", "promiseTask",
                       "reminderTask"}
  BY DEF Statement, FulfilPromise, CloseTask, AllFulfilled, Notify, Settle, ReminderPromise, UpdateTask
<1>5. /\ PostLink => cpu.at = "link"
      /\ PostStatus => cpu.at = "posted"
      /\ PostLedger => cpu.at \in {"net", "vat"}
      /\ PayStatus => cpu.at = "status"
      /\ PayRefresh => cpu.at = "refresh"
      /\ PayCash => cpu.at = "cash"
  BY DEF PostLink, PostStatus, PostLedger, PayStatus, PayRefresh, PayCash
<1>6. Statement \/ cpu.at = "idle"
  BY <1>1, <1>2, <1>3 DEF Next
<1>7. QED
  BY <1>4, <1>5, <1>6

(* The receipt a handler works on is in the table, of a posted invoice.      *)
LEMMA StatusHasReceipt ==
  ASSUME TypeOK, ReceiptInv, PaidInv, cpu.at = "status"
  PROVE  /\ cpu.payment \in payments /\ cpu.payment.invoice \in Invoice
         /\ Exists(cpu.payment.invoice)
BY DEF ReceiptInv, HasReceipt, PayLabel, PaidInv, TypeOK, Payment

LEMMA StatusWritten ==
  ASSUME TypeOK, PayStatus
  PROVE  \A i \in Invoice: invoiceStatus'[i] =
           IF i = cpu.payment.invoice THEN StatusByPayments(i) ELSE invoiceStatus[i]
<1>1. PICK j \in {cpu.payment.invoice}:
           invoiceStatus' = [invoiceStatus EXCEPT ![j] = StatusByPayments(j)]
  BY DEF PayStatus
<1>2. QED
  BY <1>1 DEF TypeOK

(* An invoice appears only when a draft is posted.                           *)
LEMMA WhoPosts ==
  ASSUME TypeOK, ReceiptInv, PaidInv, [Next]_vars, ~Crash
  PROVE  \/ \E d \in Draft, j \in Invoice: PostInvoice(d, j)
         \/ PostLink \/ PostStatus \/ PostLedger
         \/ /\ UNCHANGED <<invoiceDraft, link, draftStatus>>
            /\ \A i \in Invoice: Exists(i)' <=> Exists(i)
            /\ cpu' = cpu \/ cpu.at \notin PostLabel
<1>1. UNCHANGED vars => UNCHANGED <<invoiceDraft, link, draftStatus, invoiceStatus, cpu>>
  BY DEF vars
<1>2. PayStatus => \A i \in Invoice: Exists(i)' <=> Exists(i)
  <2>1. \A i \in Invoice: StatusByPayments(i) # "none"
    BY DEF StatusByPayments
  <2>2. PayStatus => cpu.at = "status"
    BY DEF PayStatus
  <2>3. QED
    BY <2>1, <2>2, StatusWritten, StatusHasReceipt DEF Exists
<1>3. \/ \E d \in Draft, j \in Invoice: PostInvoice(d, j)
      \/ PostLink \/ PostStatus \/ PostLedger \/ PayStatus
      \/ UNCHANGED <<invoiceDraft, link, draftStatus, invoiceStatus>>
  BY <1>1
     DEF Next, Request, Statement, ClosePeriod, ReopenPeriod, SetPeriod, ImportBankTx, OpenTask,
         RecordPromise, SendReminder, PayInvoice, Reconcile, PayRefresh, PayCash, FulfilPromise,
         CloseTask, AllFulfilled, Notify, WebhookEnds, Settle, ReminderPromise, UpdateTask
<1>4. PayStatus => UNCHANGED <<invoiceDraft, link, draftStatus>>
  BY DEF PayStatus
<1>5. UNCHANGED invoiceStatus => \A i \in Invoice: Exists(i)' <=> Exists(i)
  BY DEF Exists
<1>6. \/ PostLink \/ PostStatus \/ PostLedger
      \/ cpu' = cpu \/ cpu.at \notin PostLabel
  BY <1>1, Departs DEF PostLabel
<1>7. QED
  BY <1>2, <1>3, <1>4, <1>5, <1>6

LEMMA StepKeepsPostedBooks ==
  ASSUME NEW L, TypeOK, PostingInv, ReceiptInv, PaidInv, PostedBooks(L), [Next]_vars, ~Crash
  PROVE  PostedBooks(L)'
<1>j. journal \subseteq journal'
  BY WhoWritesBooks
<1>t. /\ invoiceDraft \in [Invoice -> Draft \cup {None}]
      /\ link \in [Draft -> Invoice \cup {None}]
      /\ draftStatus \in [Draft -> {"draft", "posted"}]
      /\ None \notin Invoice
      /\ cpu.at \in PostLabel => cpu \in PostFrame /\ cpu.draft \in Draft /\ cpu.invoice \in Invoice
  BY FrameKinds, NoneIsNoRow DEF TypeOK, PostLabel, PostFrame
<1>1. ASSUME NEW d \in Draft, NEW j \in Invoice, PostInvoice(d, j) PROVE PostedBooks(L)'
  <2>1. /\ cpu = Idle /\ cpu'.at = "link" /\ cpu'.invoice = j
        /\ UNCHANGED <<link, draftStatus, journal>>
        /\ invoiceDraft' = [invoiceDraft EXCEPT ![j] = d]
        /\ invoiceStatus' = [invoiceStatus EXCEPT ![j] = "open"]
    BY <1>1 DEF PostInvoice
  <2>2. \A i \in Invoice: ~Posting(i)
    BY <2>1 DEF Posting, PostLabel, Idle
  <2>3. \A i \in Invoice: /\ invoiceDraft'[i] = IF i = j THEN d ELSE invoiceDraft[i]
                          /\ i # j => (Exists(i)' <=> Exists(i))
    BY <2>1, <1>t DEF Exists, TypeOK
  <2>4. Posting(j)'
    BY <2>1 DEF Posting, PostLabel
  <2>5. QED
    BY <2>1, <2>2, <2>3, <2>4 DEF PostedBooks
<1>2. CASE PostLink
  <2>1. /\ cpu.at = "link" /\ link' = [link EXCEPT ![cpu.draft] = cpu.invoice]
        /\ UNCHANGED <<invoiceDraft, invoiceStatus, draftStatus, journal>>
        /\ cpu'.at = "posted" /\ cpu'.invoice = cpu.invoice
    BY <1>2, GoesOn DEF PostLink
  <2>2. link[cpu.draft] = None /\ invoiceDraft[cpu.invoice] = cpu.draft
    BY <2>1 DEF PostingInv
  <2>3. \A d \in Draft: link'[d] = IF d = cpu.draft THEN cpu.invoice ELSE link[d]
    BY <2>1, <1>t
  <2>4. \A i: Posting(i)' <=> Posting(i)
    BY <2>1 DEF Posting, PostLabel
  <2>5. ASSUME NEW i \in Invoice \ L, Exists(i)
        PROVE  link'[invoiceDraft[i]] = i
    <3>1. CASE i = cpu.invoice
      BY <1>t, <2>1, <2>2, <2>3, <3>1 DEF PostLabel
    <3>2. CASE i # cpu.invoice
      <4>1. link[invoiceDraft[i]] = i /\ invoiceDraft[i] \in Draft
        BY <2>5, <3>2 DEF PostedBooks, Posting
      <4>2. QED
        BY <1>t, <2>2, <2>3, <4>1
    <3>3. QED
      BY <3>1, <3>2
  <2>6. QED
    BY <2>1, <2>4, <2>5 DEF PostedBooks, Exists
<1>3. CASE PostStatus
  <2>1. /\ cpu.at = "posted" /\ draftStatus' = [draftStatus EXCEPT ![cpu.draft] = "posted"]
        /\ UNCHANGED <<invoiceDraft, invoiceStatus, link, journal>>
        /\ cpu'.at = "net" /\ cpu'.invoice = cpu.invoice
    BY <1>3, GoesOn DEF PostStatus
  <2>2. invoiceDraft[cpu.invoice] = cpu.draft
    BY <2>1 DEF PostingInv
  <2>3. \A d \in Draft: draftStatus'[d] = IF d = cpu.draft THEN "posted" ELSE draftStatus[d]
    BY <2>1, <1>t
  <2>4. \A i: Posting(i)' <=> Posting(i)
    BY <2>1 DEF Posting, PostLabel
  <2>5. QED
    BY <2>1, <2>2, <2>3, <2>4 DEF PostedBooks, Exists, Posting
<1>4. CASE PostLedger
  <2>1. /\ cpu.at \in {"net", "vat"}
        /\ [leg |-> cpu.at, invoice |-> cpu.invoice, period |-> DraftPeriod[cpu.draft]] \in journal'
        /\ UNCHANGED <<invoiceDraft, invoiceStatus, link, draftStatus>>
        /\ \/ cpu.at = "net" /\ cpu'.at = "vat" /\ cpu'.invoice = cpu.invoice
           \/ cpu.at = "vat"
    BY <1>4, GoesOn DEF PostLedger
  <2>2. invoiceDraft[cpu.invoice] = cpu.draft
    BY <2>1 DEF PostingInv
  <2>3. cpu.at = "net" => \A i: Posting(i)' <=> Posting(i)
    BY <2>1 DEF Posting, PostLabel
  <2>4. QED
    BY <1>j, <2>1, <2>2, <2>3 DEF PostedBooks, Exists, Posting
<1>5. ASSUME UNCHANGED <<invoiceDraft, link, draftStatus>>,
             \A i \in Invoice: Exists(i)' <=> Exists(i),
             cpu' = cpu \/ cpu.at \notin PostLabel
      PROVE  PostedBooks(L)'
  <2>1. \A i: Posting(i) => Posting(i)' /\ cpu' = cpu
    BY <1>5 DEF Posting
  <2>2. QED
    BY <1>j, <1>5, <2>1 DEF PostedBooks
<1>6. QED
  BY <1>1, <1>2, <1>3, <1>4, <1>5, WhoPosts

(* The status of an invoice follows its receipts, but for the one receipt    *)
(* whose handler is about to write it.                                       *)
LEMMA StepKeepsStatusBooks ==
  ASSUME NEW C, TypeOK, ReceiptInv, PaidInv, StatusBooks(C), [Next]_vars, ~Crash
  PROVE  StatusBooks(C)'
<1>p. payments \subseteq Payment /\ IsFiniteSet(payments)
  BY DEF TypeOK, PaidInv
<1>1. ASSUME NEW d \in Draft, NEW j \in Invoice, PostInvoice(d, j) PROVE StatusBooks(C)'
  <2>1. /\ cpu = Idle /\ ~Exists(j) /\ UNCHANGED payments
        /\ \A i \in Invoice: invoiceStatus'[i] = IF i = j THEN "open" ELSE invoiceStatus[i]
    BY <1>1 DEF PostInvoice, TypeOK, Exists
  <2>2. \A i: PaidTotal(i)' = PaidTotal(i)
    BY <2>1 DEF PaidTotal
  <2>3. ReceiptsOf(j) = {}
    BY <2>1 DEF ReceiptsOf, PaidInv
  <2>4. PaidTotal(j) = 0
    BY <1>p, <2>3, PaidTotalIsNat
  <2>5. \A i \in Invoice: Exists(i) =>
          invoiceStatus[i] = StatusByReceipts(i) \/ \E p \in C: p.invoice = i
    BY <2>1 DEF StatusBooks, Idle
  <2>6. ASSUME NEW i \in Invoice, Exists(i)'
        PROVE  invoiceStatus'[i] = StatusByReceipts(i)' \/ \E p \in C: p.invoice = i
    BY <2>1, <2>2, <2>4, <2>5, <2>6 DEF Exists, StatusByReceipts, StatusByPayments
  <2>7. QED
    BY <2>6 DEF StatusBooks
<1>2. ASSUME NEW r \in Payment, Exists(r.invoice), NewReceipt(r), UNCHANGED invoiceStatus
      PROVE  StatusBooks(C)'
  <2>1. /\ payments' = payments \cup {r} /\ r \notin payments
        /\ cpu'.at = "status" /\ cpu'.payment = r
    BY <1>2 DEF NewReceipt, BySource, SameSource
  <2>2. \A i: i # r.invoice => PaidTotal(i)' = PaidTotal(i)
    BY <1>p, <2>1, ReceiptRaises
  <2>3. cpu.at # "status"
    <3>1. cpu.at = "status" => PayStatus \/ UNCHANGED vars
      BY Departs
    <3>2. PayStatus => payments' = payments
      BY DEF PayStatus
    <3>3. UNCHANGED vars => payments' = payments
      BY DEF vars
    <3>4. QED
      BY <2>1, <3>1, <3>2, <3>3
  <2>4. ASSUME NEW i \in Invoice, Exists(i)', i # r.invoice
        PROVE  invoiceStatus'[i] = StatusByReceipts(i)' \/ \E p \in C: p.invoice = i
    BY <1>2, <2>2, <2>3, <2>4 DEF StatusBooks, Exists, StatusByReceipts, StatusByPayments
  <2>5. QED
    BY <2>1, <2>4 DEF StatusBooks
<1>3. CASE PayStatus
  <2>. DEFINE j == cpu.payment.invoice
  <2>1. cpu.at = "status" /\ UNCHANGED payments
    BY <1>3 DEF PayStatus
  <2>2. \A i: PaidTotal(i)' = PaidTotal(i)
    BY <2>1 DEF PaidTotal
  <2>3. PaidTotal(j) > 0 /\ PaidTotal(j) \in Nat
    <3>1. cpu.payment \in ReceiptsOf(j)
      BY <2>1, StatusHasReceipt DEF ReceiptsOf
    <3>2. QED
      BY <1>p, <3>1, PaidTotalIsNat
  <2>4. \A i \in Invoice: invoiceStatus'[i] = IF i = j THEN StatusByPayments(i) ELSE invoiceStatus[i]
    BY <1>3, StatusWritten
  <2>5. \A i \in Invoice: StatusByPayments(i)' = StatusByPayments(i)
    BY <2>2 DEF StatusByPayments
  <2>6. ASSUME NEW i \in Invoice, Exists(i)'
        PROVE  invoiceStatus'[i] = StatusByReceipts(i)' \/ \E p \in C: p.invoice = i
    <3>1. CASE i = j
      BY <2>2, <2>3, <2>4, <2>5, <3>1 DEF StatusByReceipts
    <3>2. CASE i # j
      BY <2>1, <2>2, <2>4, <2>5, <2>6, <3>2 DEF StatusBooks, Exists, StatusByReceipts
    <3>3. QED
      BY <3>1, <3>2
  <2>7. QED
    BY <2>6 DEF StatusBooks
<1>4. CASE UNCHANGED <<payments, invoiceStatus>>
  <2>1. \A i \in Invoice: PaidTotal(i)' = PaidTotal(i) /\ StatusByPayments(i)' = StatusByPayments(i)
    BY <1>4 DEF PaidTotal, StatusByPayments
  <2>2. cpu.at = "status" => PayStatus \/ cpu' = cpu
    BY Departs DEF vars
  <2>3. QED
    BY <1>3, <1>4, <2>1, <2>2 DEF StatusBooks, Exists, StatusByReceipts
<1>5. QED
  BY <1>1, <1>2, <1>3, <1>4, WhoPays

(* A receipt has its cash entry, or a handler that is going to write it.     *)
LEMMA StepKeepsCashBooks ==
  ASSUME NEW C, TypeOK, CashBooks(C), [Next]_vars, ~Crash
  PROVE  CashBooks(C)'
<1>j. journal \subseteq journal'
  BY WhoWritesBooks
<1>c. \/ cpu' = cpu
      \/ cpu.at \notin {"status", "refresh", "cash"}
      \/ cpu.at = "status" /\ PayStatus
      \/ cpu.at = "refresh" /\ PayRefresh
      \/ cpu.at = "cash" /\ PayCash
  BY Departs DEF vars
<1>1. ASSUME NEW p \in payments, cpu.at \in {"status", "refresh", "cash"}, cpu.payment = p
      PROVE  \/ [leg |-> "cash", payment |-> p] \in journal'
             \/ cpu'.at \in {"status", "refresh", "cash"} /\ cpu'.payment = p
  <2>1. CASE PayStatus
    <3>1. cpu.at = "status" /\ Goto("refresh")
      BY <2>1 DEF PayStatus
    <3>2. QED
      BY <1>1, <3>1, GoesOn DEF PayLabel
  <2>2. CASE PayRefresh
    <3>1. cpu.at = "refresh" /\ Goto("cash")
      BY <2>2 DEF PayRefresh
    <3>2. QED
      BY <1>1, <3>1, GoesOn DEF PayLabel
  <2>3. CASE PayCash
    BY <1>1, <2>3 DEF PayCash
  <2>4. QED
    BY <1>1, <1>c, <2>1, <2>2, <2>3
<1>2. ASSUME NEW p \in payments \ C
      PROVE  \/ [leg |-> "cash", payment |-> p] \in journal'
             \/ cpu'.at \in {"status", "refresh", "cash"} /\ cpu'.payment = p
  BY <1>j, <1>1 DEF CashBooks, Booked, Booking
<1>3. ASSUME NEW r \in Payment, NewReceipt(r) PROVE CashBooks(C)'
  <2>1. payments' = payments \cup {r} /\ cpu'.at = "status" /\ cpu'.payment = r
    BY <1>3 DEF NewReceipt
  <2>2. QED
    BY <1>2, <2>1 DEF CashBooks, Booked, Booking
<1>4. (\E d \in Draft, j \in Invoice: PostInvoice(d, j)) \/ PayStatus => payments' = payments
  BY DEF PostInvoice, PayStatus
<1>5. payments' = payments => CashBooks(C)'
  BY <1>2 DEF CashBooks, Booked, Booking
<1>6. QED
  BY <1>3, <1>4, <1>5, WhoPays

(* Once refreshed, the total counts no paid invoice and every partial one.    *)
LEMMA StepKeepsCountedBooks ==
  ASSUME NEW C, TypeOK, CountedBooks(C), [Next]_vars, ~Crash
  PROVE  CountedBooks(C)'
<1>1. ASSUME NEW d \in Draft, NEW j \in Invoice, PostInvoice(d, j) PROVE CountedBooks(C)'
  <2>1. /\ cpu = Idle /\ UNCHANGED openReceivables /\ openReceivables \subseteq Invoice
        /\ \A i \in Invoice: invoiceStatus'[i] = IF i = j THEN "open" ELSE invoiceStatus[i]
    BY <1>1 DEF PostInvoice, TypeOK
  <2>2. QED
    BY <2>1 DEF CountedBooks, Unpaid, Idle
<1>2. CASE PayStatus
  <2>1. cpu.at = "status" /\ Goto("refresh")
    BY <1>2 DEF PayStatus
  <2>2. QED
    BY <2>1, GoesOn DEF CountedBooks, PayLabel
<1>3. CASE UNCHANGED invoiceStatus
  <2>1. CASE PayRefresh
    BY <2>1 DEF PayRefresh, CountedBooks, Unpaid
  <2>2. CASE UNCHANGED openReceivables
    <3>1. cpu.at = "refresh" => PayRefresh \/ cpu' = cpu
      BY Departs DEF vars
    <3>2. QED
      BY <1>3, <2>1, <2>2, <3>1 DEF CountedBooks, Unpaid
  <2>3. QED
    BY <2>1, <2>2, WhoWritesBooks
<1>4. QED
  BY <1>1, <1>2, <1>3, WhoPays

(* A cash entry is written for the receipt of the running handler only.      *)
LEMMA WhoCashes ==
  ASSUME [Next]_vars
  PROVE  \A p: Booked(p)' => Booked(p) \/ (PayCash /\ Booking(p))
<1>1. PayCash => /\ cpu.at = "cash"
                 /\ journal' = journal \cup {[leg |-> "cash", payment |-> cpu.payment]}
  BY DEF PayCash
<1>2. PostLedger => \E e: journal' = journal \cup {e} /\ e.leg # "cash"
  <2>1. PostLedger => LET e == [leg |-> cpu.at, invoice |-> cpu.invoice, period |-> DraftPeriod[cpu.draft]]
                      IN  journal' = journal \cup {e} /\ e.leg # "cash"
    BY DEF PostLedger
  <2>2. QED
    BY <2>1
<1>3. PostLedger => \A p: Booked(p)' => Booked(p)
  BY <1>2 DEF Booked
<1>4. UNCHANGED vars => journal' = journal
  BY DEF vars
<1>5. PayCash \/ PostLedger \/ journal' = journal
  BY <1>4
     DEF Next, Request, Statement, ClosePeriod, ReopenPeriod, SetPeriod, ImportBankTx, OpenTask,
         RecordPromise, SendReminder, PostInvoice, PostLink, PostStatus, PayInvoice, Reconcile,
         PayStatus, PayRefresh, FulfilPromise, CloseTask, AllFulfilled, Notify, WebhookEnds,
         Settle, ReminderPromise, UpdateTask, Crash
<1>6. \A p, q: [leg |-> "cash", payment |-> p] = [leg |-> "cash", payment |-> q] => p = q
  OBVIOUS
<1>7. QED
  BY <1>1, <1>3, <1>5, <1>6 DEF Booked, Booking

(* A handler begins with a receipt that is new and goes on with it.          *)
LEMMA WhoBooks ==
  ASSUME TypeOK, PeriodInv, [Next]_vars
  PROVE  \A p \in payments: Booking(p)' => Booking(p)
<1>. SUFFICES ASSUME NEW p \in payments, Booking(p)' PROVE Booking(p)
  OBVIOUS
<1>1. cpu'.at \in {"status", "refresh", "cash"} /\ cpu'.payment = p
  BY DEF Booking
<1>2. CASE UNCHANGED vars
  BY <1>1, <1>2 DEF vars, Booking
<1>3. \A r: NewReceipt(r) => r \notin payments /\ cpu'.payment = r
  BY DEF NewReceipt, BySource, SameSource
<1>4. /\ PayStatus => cpu.at = "status"
      /\ PayRefresh => cpu.at = "refresh"
  BY DEF PayStatus, PayRefresh
<1>5. CASE ~UNCHANGED vars
  <2>1. \/ \E r \in Payment: NewReceipt(r)
        \/ cpu'.payment = cpu.payment /\ (PayStatus \/ PayRefresh)
    BY <1>1, <1>5, Flow
  <2>2. QED
    BY <1>1, <1>3, <1>4, <2>1 DEF Booking
<1>6. QED
  BY <1>2, <1>5

LEMMA ReceiptsStay ==
  ASSUME TypeOK, [Next]_vars
  PROVE  payments \subseteq payments'
BY WhoPays DEF PostInvoice, NewReceipt, PayStatus

(* What has a cash entry is a receipt, and no handler is about to write it.  *)
BookingInv == \A p: Booked(p) => p \in payments /\ ~Booking(p)

LEMMA StepKeepsBooking ==
  TypeOK /\ PeriodInv /\ ReceiptInv /\ BookingInv /\ [Next]_vars => BookingInv'
<1>. SUFFICES ASSUME TypeOK, PeriodInv, ReceiptInv, BookingInv, [Next]_vars,
                     NEW p, Booked(p)'
              PROVE  p \in payments' /\ ~Booking(p)'
  BY DEF BookingInv
<1>1. CASE Booked(p)
  BY <1>1, WhoBooks, ReceiptsStay DEF BookingInv
<1>2. CASE PayCash /\ Booking(p)
  <2>1. cpu.at = "cash" /\ cpu.payment = p /\ payments' = payments
        /\ (Goto("fulfil") \/ AfterReceipt)
    BY <1>2 DEF PayCash, Booking
  <2>2. p \in payments
    BY <2>1 DEF ReceiptInv, HasReceipt, PayLabel
  <2>3. cpu'.at \in {"fulfil", "idle", "settle"}
    BY <2>1, GoesOn, EndsOrSettles DEF PayLabel
  <2>4. QED
    BY <2>1, <2>2, <2>3 DEF Booking
<1>3. QED
  BY <1>1, <1>2, WhoCashes

LEMMA StepKeepsLost ==
  ASSUME NEW C, TypeOK, PeriodInv, LostReceipts(C), [Next]_vars
  PROVE  LostReceipts(C)'
BY WhoCashes, WhoBooks, ReceiptsStay DEF LostReceipts

LEMMA StepKeepsBooks ==
  ASSUME NEW L, NEW C, TypeOK, PeriodInv, PostingInv, ReceiptInv, PaidInv, Books(L, C),
         [Next]_vars, ~Crash
  PROVE  BookInv'
<1>1. crashes' = crashes
  BY StepOrCrash
<1>2. PostedBooks(L)'
  BY StepKeepsPostedBooks DEF Books
<1>3. StatusBooks(C)'
  BY StepKeepsStatusBooks DEF Books
<1>4. CashBooks(C)' /\ CountedBooks(C)' /\ LostReceipts(C)'
  BY StepKeepsCashBooks, StepKeepsCountedBooks, StepKeepsLost DEF Books
<1>5. Books(L, C)'
  BY <1>1, <1>2, <1>3, <1>4 DEF Books
<1>6. QED
  BY <1>5 DEF BookInv

(* A crash cuts off the handler of one invoice or of one receipt.            *)
LEMMA CrashKeepsBooks ==
  ASSUME NEW L, NEW C, TypeOK, ReceiptInv, BookingInv, Books(L, C), Crash
  PROVE  BookInv'
<1>. PICK L1: L1 = IF cpu.at \in PostLabel THEN L \cup {cpu.invoice} ELSE L
  OBVIOUS
<1>. PICK C1: C1 = IF cpu.at \in {"status", "refresh", "cash"} THEN C \cup {cpu.payment} ELSE C
  OBVIOUS
<1>1. /\ cpu' = Idle /\ crashes' = crashes + 1 /\ crashes \in Nat
      /\ UNCHANGED <<ledgerVars, invoiceStatus, payments, journal, openReceivables>>
  BY BoundsAreNatural DEF Crash, TypeOK
<1>2. IsFiniteSet(L1) /\ IsFiniteSet(C1) /\ Cardinality(L1) + Cardinality(C1) <= crashes'
  <2>1. IsFiniteSet(L) /\ IsFiniteSet(C) /\ Cardinality(L) + Cardinality(C) <= crashes
    BY DEF Books
  <2>2. Cardinality(L) \in Nat /\ Cardinality(C) \in Nat
    BY <2>1, FS_CardinalityType
  <2>3. ASSUME NEW S \in {L, C}, NEW x
        PROVE  /\ IsFiniteSet(S \cup {x}) /\ Cardinality(S \cup {x}) \in Nat
               /\ Cardinality(S \cup {x}) <= Cardinality(S) + 1
    <3>1. /\ IsFiniteSet(S \cup {x})
          /\ Cardinality(S \cup {x}) = IF x \in S THEN Cardinality(S) ELSE Cardinality(S) + 1
      BY <2>1, FS_AddElement
    <3>2. QED
      BY <2>2, <3>1
  <2>4. crashes' = crashes + 1 /\ crashes \in Nat
    BY <1>1
  <2>5. PostLabel \cap {"status", "refresh", "cash"} = {}
    BY DEF PostLabel
  <2>6. CASE cpu.at \in PostLabel
    <3>1. L1 = L \cup {cpu.invoice} /\ C1 = C
      BY <2>5, <2>6
    <3>2. /\ IsFiniteSet(L1) /\ Cardinality(L1) \in Nat
          /\ Cardinality(L1) <= Cardinality(L) + 1
      BY <2>3, <3>1
    <3>3. IsFiniteSet(C1) /\ Cardinality(C1) = Cardinality(C)
      BY <2>1, <3>1
    <3>4. Cardinality(L1) + Cardinality(C1) <= crashes'
      <4>1. Cardinality(L1) + Cardinality(C1) <= Cardinality(L) + Cardinality(C) + 1
        BY <2>2, <3>2, <3>3
      <4>2. QED
        BY <2>1, <2>2, <2>4, <3>2, <3>3, <4>1
    <3>5. QED
      BY <3>2, <3>3, <3>4
  <2>7. CASE cpu.at \in {"status", "refresh", "cash"}
    <3>1. L1 = L /\ C1 = C \cup {cpu.payment}
      BY <2>5, <2>7
    <3>2. /\ IsFiniteSet(C1) /\ Cardinality(C1) \in Nat
          /\ Cardinality(C1) <= Cardinality(C) + 1
      BY <2>3, <3>1
    <3>3. IsFiniteSet(L1) /\ Cardinality(L1) = Cardinality(L)
      BY <2>1, <3>1
    <3>4. Cardinality(L1) + Cardinality(C1) <= crashes'
      <4>1. Cardinality(L1) + Cardinality(C1) <= Cardinality(L) + Cardinality(C) + 1
        BY <2>2, <3>2, <3>3
      <4>2. QED
        BY <2>1, <2>2, <2>4, <3>2, <3>3, <4>1
    <3>5. QED
      BY <3>2, <3>3, <3>4
  <2>8. QED
    BY <1>1, <2>1, <2>2, <2>6, <2>7
<1>3. PostedBooks(L1)'
  <2>1. \A i \in Invoice \ L1: i \notin L /\ ~Posting(i)
    BY DEF Posting
  <2>2. QED
    BY <1>1, <2>1 DEF Books, PostedBooks, Exists, ledgerVars
<1>4. StatusBooks(C1)'
  <2>1. C \subseteq C1 /\ (cpu.at = "status" => cpu.payment \in C1)
    OBVIOUS
  <2>2. \A i \in Invoice: Exists(i) =>
          invoiceStatus[i] = StatusByReceipts(i) \/ \E p \in C1: p.invoice = i
    BY <2>1 DEF Books, StatusBooks
  <2>3. \A i \in Invoice: StatusByReceipts(i)' = StatusByReceipts(i)
    BY <1>1 DEF StatusByReceipts, StatusByPayments, PaidTotal
  <2>4. QED
    BY <1>1, <2>2, <2>3 DEF StatusBooks, Exists
<1>5. CashBooks(C1)'
  <2>1. \A p \in payments \ C1: p \notin C /\ ~Booking(p)
    BY DEF Booking
  <2>2. QED
    BY <1>1, <2>1 DEF Books, CashBooks, Booked
<1>6. CountedBooks(C1)'
  <2>1. C1 = {} => C = {} /\ cpu.at # "refresh"
    OBVIOUS
  <2>2. QED
    BY <1>1, <2>1 DEF Books, CountedBooks, Unpaid
<1>7. LostReceipts(C1)'
  <2>1. cpu.at \in {"status", "refresh", "cash"} => cpu.payment \in payments /\ ~Booked(cpu.payment)
    BY DEF ReceiptInv, HasReceipt, PayLabel, BookingInv, Booking
  <2>2. \A p \in C1: p \in payments /\ ~Booked(p)
    BY <2>1 DEF Books, LostReceipts
  <2>3. QED
    BY <1>1, <2>2 DEF LostReceipts, Booked, Booking, Idle
<1>8. Books(L1, C1)'
  BY <1>2, <1>3, <1>4, <1>5, <1>6, <1>7 DEF Books
<1>9. QED
  BY <1>8 DEF BookInv

LEMMA BookStep ==
  /\ TypeOK /\ PeriodInv /\ PostingInv /\ ReceiptInv /\ PaidInv /\ BookingInv
  /\ BookInv /\ [Next]_vars
  => BookInv'
<1>. SUFFICES ASSUME TypeOK, PeriodInv, PostingInv, ReceiptInv, PaidInv, BookingInv, [Next]_vars,
                     NEW L, NEW C, Books(L, C)
              PROVE  BookInv'
  BY DEF BookInv
<1>1. QED
  BY StepKeepsBooks, CrashKeepsBooks

LEMMA BookInit == Init => BookInv /\ BookingInv
<1>. SUFFICES ASSUME Init PROVE BookInv /\ BookingInv
  OBVIOUS
<1>1. IsFiniteSet({}) /\ Cardinality({}) = 0
  BY FS_EmptySet
<1>2. Books({}, {})
  BY <1>1 DEF Init, Books, PostedBooks, StatusBooks, CashBooks, CountedBooks, LostReceipts, Exists
<1>3. BookingInv
  BY DEF Init, BookingInv, Booked
<1>4. QED
  BY <1>2, <1>3 DEF BookInv

(* BooksComplete: whenever no handler runs, at most one row per crash is left *)
(* half written, no order of the requests leaves any other link, status or   *)
(* entry behind, and the customer's total counts no paid invoice and every   *)
(* partial one unless a receipt was cut off.                                 *)
THEOREM CompleteBooks == Spec => []BooksComplete
<1>1. Init => PeriodInv /\ PostingInv /\ ReceiptInv
  BY DEF Init, PeriodInv, PostingInv, ReceiptInv, ReconciledIsReceipt, Idle, PayLabel
<1>2. TypeOK /\ BookInv => BooksComplete
  <2>. SUFFICES ASSUME TypeOK, NEW L, NEW C, Books(L, C), cpu = Idle PROVE BooksComplete
    BY DEF BookInv, BooksComplete
  <2>. DEFINE U == {i \in Invoice: Exists(i) /\ ~Posted(i)}
              V == {p \in payments: ~Booked(p)}
  <2>1. /\ cpu.at = "idle"
        /\ \A i: ~Posting(i)
        /\ \A p: ~Booking(p)
    BY DEF Idle, Posting, PostLabel, Booking
  <2>2. /\ PostedBooks(L) /\ StatusBooks(C) /\ CashBooks(C) /\ CountedBooks(C) /\ LostReceipts(C)
        /\ IsFiniteSet(L) /\ IsFiniteSet(C) /\ Cardinality(L) + Cardinality(C) <= crashes
    BY DEF Books
  <2>3. U \subseteq L
    BY <2>1, <2>2 DEF PostedBooks, Posted
  <2>4. V \subseteq C
    BY <2>1, <2>2 DEF CashBooks
  <2>5. Cardinality(U) + Cardinality(V) <= crashes
    <3>. HIDE DEF U, V
    <3>1. IsFiniteSet(U) /\ Cardinality(U) <= Cardinality(L)
      BY <2>2, <2>3, FS_Subset
    <3>2. IsFiniteSet(V) /\ Cardinality(V) <= Cardinality(C)
      BY <2>2, <2>4, FS_Subset
    <3>3. /\ Cardinality(U) \in Nat /\ Cardinality(L) \in Nat
          /\ Cardinality(V) \in Nat /\ Cardinality(C) \in Nat /\ crashes \in Nat
      BY <2>2, <3>1, <3>2, FS_CardinalityType, BoundsAreNatural DEF TypeOK
    <3>4. QED
      BY <2>2, <3>1, <3>2, <3>3
  <2>6. \A i \in Invoice: Exists(i) /\ (\A p \in payments: p.invoice = i => Booked(p)) =>
          invoiceStatus[i] = StatusByReceipts(i)
    BY <2>1, <2>2 DEF StatusBooks, LostReceipts
  <2>7. (\A p \in payments: Booked(p)) =>
          \A i \in Invoice: /\ i \in openReceivables => Unpaid(i)
                            /\ invoiceStatus[i] = "partial" => i \in openReceivables
    BY <2>1, <2>2 DEF CountedBooks, LostReceipts
  <2>8. QED
    BY <2>5, <2>6, <2>7 DEF BooksComplete
<1>3. QED
  BY <1>1, <1>2, BookInit, BookStep, StepKeepsPeriod, StepKeepsPosting, StepKeepsReceipt,
     StepKeepsBooking, PaidInvariant, TypeCorrect, PTL DEF Spec

=============================================================================
