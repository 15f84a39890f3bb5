---------------------------- MODULE PurchaseToPay ----------------------------
(***************************************************************************)
(* The purchase side of A1 Suite: orders from request for quotation to     *)
(* vendor bill, partial receipts into the main warehouse, returns to the   *)
(* supplier, the stock of the warehouse, and the payment of bills.         *)
(*                                                                         *)
(* Receiving, returning and billing run inside BEGIN ... COMMIT: a line    *)
(* that fails rolls the whole request back, so each of them is one step.   *)
(* The payment of a bill is not: its INSERT, the status of the bill and    *)
(* the ledger entry commit one after the other, and `cpu' holds the        *)
(* payment that is under way.  Prices and average costs are left out.      *)
(***************************************************************************)
EXTENDS Integers, Sequences, FiniteSets, Functions

CONSTANTS
  Order,        (* purchase orders                                           *)
  Line,         (* purchase order lines                                      *)
  Item,         (* stock-tracked catalog items                               *)
  LineOrder,    (* the order of a line                                       *)
  LineItem,     (* the item of a line                                        *)
  Ordered,      (* the quantity of a line                                    *)
  Bill,         (* ids available to vendor bills                             *)
  Period,       (* finance periods                                           *)
  Reference,    (* references of bill payments                               *)
  Amount,       (* amounts a bill payment may have                           *)
  Total,        (* the total of every bill                                   *)
  None,
  MaxQuantity,  (* the largest quantity a request may name                   *)
  MaxRequests,  (* bound: receipts, and returns, of one order                *)
  MaxStock,     (* bound: stock up to which other moves fill the warehouse   *)
  MaxCrashes    (* bound: process crashes                                    *)

ASSUME OrdersHaveLines ==
  /\ LineOrder \in [Line -> Order] /\ LineItem \in [Line -> Item]
  /\ \A o \in Order: \E l \in Line: LineOrder[l] = o
ASSUME LinesAreFinite == IsFiniteSet(Line)
ASSUME QuantitiesArePositive ==
  /\ MaxQuantity \in Nat /\ Ordered \in [Line -> 1..MaxQuantity]
  /\ Amount \subseteq Nat \ {0} /\ Total \in Nat \ {0}
ASSUME BoundsAreNatural == MaxRequests \in Nat /\ MaxStock \in Nat /\ MaxCrashes \in Nat
ASSUME NoneIsNoRow == None \notin Order \cup Bill \cup Period

VARIABLES
  periodStatus,   (* finance_periods.status                                  *)
  active,         (* catalog_items that are active and tracked               *)
  status,         (* purchase_orders.status                                  *)
  orderBill,      (* purchase_orders.bill_id                                 *)
  received,       (* purchase_order_lines.received_quantity                  *)
  receipts,       (* purchase_receipts, one record per request               *)
  returns,        (* purchase_returns, one record per request                *)
  onHand,         (* stock_quants of the main warehouse                      *)
  moved,          (* net of the stock moves that no order asked for          *)
  bill,           (* bills                                                   *)
  payments,       (* bill_payments                                           *)
  journal,        (* ledger_journal                                          *)
  cpu,            (* the running payment and its next statement              *)
  crashes

stockVars == <<onHand, moved>>
orderVars == <<status, orderBill, received, receipts, returns>>
apVars    == <<bill, payments, journal>>
vars == <<periodStatus, active, stockVars, orderVars, apVars, cpu, crashes>>

-----------------------------------------------------------------------------
Lines(o) == {l \in Line: LineOrder[l] = o}

(* The lines a request names and the quantity of each: at least one line, no  *)
(* line twice, no quantity of zero.                                          *)
Plan    == UNION {[S -> 1..MaxQuantity]: S \in (SUBSET Line) \ {{}}}

(* A reference is a number n: the text the server derives for the n-th        *)
(* request of an order.  own: the caller wrote it.                           *)
Request == [ref: Nat, own: BOOLEAN, lines: Plan]

BillRow      == [status: {"none", "open", "partial", "paid"}, order: Order \cup {None},
                 period: Period \cup {None}]
Payment      == [bill: Bill, ref: Reference, amount: Amount, period: Period]
BillEntry    == [kind: {"bill"}, bill: Bill, period: Period]
PaymentEntry == [kind: {"payment"}, payment: Payment]
Idle         == [at |-> "idle"]

TypeOK ==
  /\ periodStatus \in [Period -> {"open", "closed"}]
  /\ active \subseteq Item
  /\ status \in [Order -> {"none", "rfq", "confirmed", "partial", "received", "billed"}]
  /\ orderBill \in [Order -> Bill \cup {None}]
  /\ received \in [Line -> Nat]
  /\ receipts \in [Order -> Seq(Request)]
  /\ returns \in [Order -> Seq(Request)]
  /\ onHand \in [Item -> Nat]
  /\ moved \in [Item -> Int]
  /\ bill \in [Bill -> BillRow]
  /\ payments \subseteq Payment
  /\ journal \subseteq BillEntry \cup PaymentEntry
  /\ cpu \in {Idle} \cup [at: {"status", "ledger"}, payment: Payment]
  /\ crashes \in 0..MaxCrashes

Init ==
  /\ periodStatus = [p \in Period |-> "open"]
  /\ active = Item
  /\ status = [o \in Order |-> "none"]
  /\ orderBill = [o \in Order |-> None]
  /\ received = [l \in Line |-> 0]
  /\ receipts = [o \in Order |-> <<>>]
  /\ returns = [o \in Order |-> <<>>]
  /\ onHand = [i \in Item |-> 0]
  /\ moved = [i \in Item |-> 0]
  /\ bill = [b \in Bill |-> [status |-> "none", order |-> None, period |-> None]]
  /\ payments = {} /\ journal = {}
  /\ cpu = Idle /\ crashes = 0

-----------------------------------------------------------------------------
IsOpen(p) == periodStatus[p] = "open"

AskedOf(plan, i) == SumFunctionOnSet(plan, {l \in DOMAIN plan: LineItem[l] = i})
References(log)  == {log[k].ref: k \in DOMAIN log}

(* Mutant: the reference of a caller is not looked for.                      *)
MayReferAgain(log, ref, own) == own \/ ref = Cardinality(References(log)) + 1

(* A caller's reference must be new.  The one of                             *)
(* resolvePurchaseReceiptReference counts those in use, and the caller may    *)
(* have used it before.                                                      *)
MayRefer(log, ref, own) ==
  IF own THEN ref \notin References(log) ELSE ref = Cardinality(References(log)) + 1

(* Mutant: the quantities are not compared with what is left.                *)
PlansAnyway(o, limit) == {plan \in Plan: DOMAIN plan \subseteq Lines(o)}

(* buildPurchaseReceiptPlan and buildPurchaseReturnPlan, for the lines of the *)
(* caller or for all that is left of the order.                              *)
PlansWithin(o, limit) ==
  {plan \in Plan: DOMAIN plan \subseteq Lines(o) /\ \A l \in DOMAIN plan: plan[l] <= limit[l]}

Remaining == [l \in Line |-> Ordered[l] - received[l]]

FullyReceived(o, lines) == \A l \in Lines(o): lines[l] >= Ordered[l]

-----------------------------------------------------------------------------
(* Periods, catalog and the other stock moves.                               *)

SetPeriod(p, to) ==
  /\ cpu = Idle
  /\ periodStatus' = [periodStatus EXCEPT ![p] = to]
  /\ UNCHANGED <<active, stockVars, orderVars, apVars, cpu, crashes>>

(* updateCatalogItem: orders are not looked at.                              *)
UpdateItem(i, isActive) ==
  /\ cpu = Idle
  /\ active' = IF isActive THEN active \cup {i} ELSE active \ {i}
  /\ UNCHANGED <<periodStatus, stockVars, orderVars, apVars, cpu, crashes>>

(* createStockMove into and out of the main warehouse, whatever its reason:   *)
(* inbound, transfer, delivery, scrap, adjustment.                           *)
MoveIn(i, n) ==
  /\ cpu = Idle
  /\ i \in active
  /\ onHand[i] + n <= MaxStock
  /\ onHand' = [onHand EXCEPT ![i] = @ + n]
  /\ moved' = [moved EXCEPT ![i] = @ + n]
  /\ UNCHANGED <<periodStatus, active, orderVars, apVars, cpu, crashes>>

MoveOut(i, n) ==
  /\ cpu = Idle
  /\ i \in active
  /\ n <= onHand[i]
  /\ onHand' = [onHand EXCEPT ![i] = @ - n]
  /\ moved' = [moved EXCEPT ![i] = @ - n]
  /\ UNCHANGED <<periodStatus, active, orderVars, apVars, cpu, crashes>>

-----------------------------------------------------------------------------
(* Orders.                                                                   *)

SetOrder(o, to) ==
  /\ cpu = Idle
  /\ status' = [status EXCEPT ![o] = to]
  /\ UNCHANGED <<periodStatus, active, stockVars, orderBill, received, receipts, returns,
                 apVars, cpu, crashes>>

(* createPurchaseOrder                                                       *)
CreateOrder(o) ==
  /\ status[o] = "none"
  /\ \A l \in Lines(o): LineItem[l] \in active
  /\ SetOrder(o, "rfq")

(* awardRfq makes an order of a vendor's quotes and looks at no item.         *)
AwardOrder(o) ==
  /\ status[o] = "none"
  /\ SetOrder(o, "rfq")

ConfirmOrder(o) ==
  /\ status[o] = "rfq"
  /\ SetOrder(o, "confirmed")

AfterReceipt(o, lines) == IF FullyReceived(o, lines) THEN "received" ELSE "partial"

(* Mutant: a receipt is stocked once for each item, not for each line.        *)
StockedOnce(plan) ==
  [i \in Item |-> IF \E l \in DOMAIN plan: LineItem[l] = i
                  THEN onHand[i] + plan[CHOOSE l \in DOMAIN plan: LineItem[l] = i] ELSE onHand[i]]

Stocked(plan) == [i \in Item |-> onHand[i] + AskedOf(plan, i)]

Arrived(plan) ==
  [l \in Line |-> IF l \in DOMAIN plan THEN received[l] + plan[l] ELSE received[l]]

(* receivePurchaseOrder.  A reference that was used is answered with its      *)
(* receipts or with a conflict, an order that is complete as it is.          *)
Receive(o, plan, ref, own) ==
  /\ cpu = Idle
  /\ status[o] \in {"confirmed", "partial"}
  /\ Len(receipts[o]) < MaxRequests
  /\ MayRefer(receipts[o], ref, own)
  /\ \A l \in DOMAIN plan: LineItem[l] \in active
  /\ received' = Arrived(plan)
  /\ status' = [status EXCEPT ![o] = AfterReceipt(o, Arrived(plan))]
  /\ onHand' = Stocked(plan)
  /\ receipts' = [receipts EXCEPT ![o] = Append(@, [ref |-> ref, own |-> own, lines |-> plan])]
  /\ UNCHANGED <<periodStatus, active, moved, orderBill, returns, apVars, cpu, crashes>>

(* Mutant: an order whose goods went back entirely stays partial.            *)
AfterReturnPartial(o, lines) == IF FullyReceived(o, lines) THEN "received" ELSE "partial"

AfterReturn(o, lines) ==
  IF FullyReceived(o, lines) THEN "received"
  ELSE IF \E l \in Lines(o): lines[l] > 0 THEN "partial" ELSE "confirmed"

(* Mutant: a return takes the whole line back.                               *)
LeftNothing(plan) == [l \in Line |-> IF l \in DOMAIN plan THEN 0 ELSE received[l]]

Left(plan) ==
  [l \in Line |-> IF l \in DOMAIN plan THEN received[l] - plan[l] ELSE received[l]]

(* returnPurchaseOrder: the warehouse must still have the goods of all lines. *)
Return(o, plan, ref, own) ==
  /\ cpu = Idle
  /\ status[o] \in {"partial", "received"}
  /\ Len(returns[o]) < MaxRequests
  /\ MayRefer(returns[o], ref, own)
  /\ \A l \in DOMAIN plan: LineItem[l] \in active
  /\ \A i \in Item: AskedOf(plan, i) <= onHand[i]
  /\ received' = Left(plan)
  /\ status' = [status EXCEPT ![o] = AfterReturn(o, Left(plan))]
  /\ onHand' = [i \in Item |-> onHand[i] - AskedOf(plan, i)]
  /\ returns' = [returns EXCEPT ![o] = Append(@, [ref |-> ref, own |-> own, lines |-> plan])]
  /\ UNCHANGED <<periodStatus, active, moved, orderBill, receipts, apVars, cpu, crashes>>

-----------------------------------------------------------------------------
(* Vendor bills.                                                             *)

(* createFinanceBillFromInput and ledger.postBillPosted, in the caller's      *)
(* transaction.                                                              *)
PostBill(b, o, p) ==
  /\ IsOpen(p)
  /\ bill[b].status = "none"
  /\ bill' = [bill EXCEPT ![b] = [status |-> "open", order |-> o, period |-> p]]
  /\ journal' = journal \cup {[kind |-> "bill", bill |-> b, period |-> p]}

(* Mutant: what has arrived so far is enough for the bill.                   *)
BillPartialOrder(o, b, p) ==
  /\ cpu = Idle
  /\ status[o] \in {"partial", "received"}
  /\ PostBill(b, o, p)
  /\ status' = [status EXCEPT ![o] = "billed"]
  /\ orderBill' = [orderBill EXCEPT ![o] = b]
  /\ UNCHANGED <<periodStatus, active, stockVars, received, receipts, returns, payments,
                 cpu, crashes>>

(* billPurchaseOrder; a billed order is answered with its bill.              *)
BillOrder(o, b, p) ==
  /\ cpu = Idle
  /\ status[o] = "received"
  /\ PostBill(b, o, p)
  /\ status' = [status EXCEPT ![o] = "billed"]
  /\ orderBill' = [orderBill EXCEPT ![o] = b]
  /\ UNCHANGED <<periodStatus, active, stockVars, received, receipts, returns, payments,
                 cpu, crashes>>

(* createFinanceBill: a bill that no order asked for.                        *)
CreateBill(b, p) ==
  /\ cpu = Idle
  /\ PostBill(b, None, p)
  /\ UNCHANGED <<periodStatus, active, stockVars, orderVars, payments, cpu, crashes>>

PaidTotal(b) == SumFunction([p \in {q \in payments: q.bill = b} |-> p.amount])

StatusByPayments(b) == IF PaidTotal(b) >= Total THEN "paid" ELSE "partial"

(* payFinanceBill: the bill may be paid already, and a payment with the same  *)
(* amount and reference is answered with the payment that is there.          *)
PayBill(b, r, a, p) ==
  LET payment == [bill |-> b, ref |-> r, amount |-> a, period |-> p] IN
  /\ cpu = Idle
  /\ bill[b].status # "none"
  /\ IsOpen(p)
  /\ ~\E q \in payments: q.bill = b /\ q.ref = r /\ q.amount = a
  /\ payments' = payments \cup {payment}
  /\ cpu' = [at |-> "status", payment |-> payment]
  /\ UNCHANGED <<periodStatus, active, stockVars, orderVars, bill, journal, crashes>>

(* Mutant: a payment that does not settle the bill is not booked.            *)
PayBillStatusOnly ==
  /\ cpu.at = "status"
  /\ LET b == cpu.payment.bill IN
     /\ bill' = [bill EXCEPT ![b].status = StatusByPayments(b)]
     /\ cpu' = IF StatusByPayments(b) = "paid" THEN [cpu EXCEPT !.at = "ledger"] ELSE Idle
  /\ UNCHANGED <<periodStatus, active, stockVars, orderVars, payments, journal, crashes>>

PayBillStatus ==
  /\ cpu.at = "status"
  /\ LET b == cpu.payment.bill IN
       bill' = [bill EXCEPT ![b].status = StatusByPayments(b)]
  /\ cpu' = [cpu EXCEPT !.at = "ledger"]
  /\ UNCHANGED <<periodStatus, active, stockVars, orderVars, payments, journal, crashes>>

(* ledger.postBillPayment                                                    *)
PayBillLedger ==
  /\ cpu.at = "ledger"
  /\ IsOpen(cpu.payment.period)
  /\ journal' = journal \cup {[kind |-> "payment", payment |-> cpu.payment]}
  /\ cpu' = Idle
  /\ UNCHANGED <<periodStatus, active, stockVars, orderVars, bill, payments, crashes>>

(* The process dies: what runs in a transaction is rolled back, a payment     *)
(* keeps the statements that are behind it.                                  *)
Crash ==
  /\ cpu # Idle
  /\ crashes < MaxCrashes
  /\ crashes' = crashes + 1
  /\ cpu' = Idle
  /\ UNCHANGED <<periodStatus, active, stockVars, orderVars, apVars>>

Next ==
  \/ \E p \in Period: SetPeriod(p, "open") \/ SetPeriod(p, "closed")
  \/ \E i \in Item: UpdateItem(i, TRUE) \/ UpdateItem(i, FALSE)
  \/ \E i \in Item, n \in 1..MaxStock: MoveIn(i, n) \/ MoveOut(i, n)
  \/ \E o \in Order: CreateOrder(o) \/ AwardOrder(o) \/ ConfirmOrder(o)
  \/ \E o \in Order, r \in 1..MaxRequests, own \in BOOLEAN:
       \/ \E plan \in PlansWithin(o, Remaining): Receive(o, plan, r, own)
       \/ \E plan \in PlansWithin(o, received): Return(o, plan, r, own)
  \/ \E o \in Order, b \in Bill, p \in Period: BillOrder(o, b, p)
  \/ \E b \in Bill, p \in Period: CreateBill(b, p)
  \/ \E b \in Bill, r \in Reference, a \in Amount, p \in Period: PayBill(b, r, a, p)
  \/ PayBillStatus \/ PayBillLedger \/ Crash

Spec == Init /\ [][Next]_vars

-----------------------------------------------------------------------------
(* Properties.                                                               *)

(* The status of an order says what arrived, after any sequence of partial    *)
(* receipts and returns: nothing, something, or all of every line; and never  *)
(* more than was ordered.                                                    *)
StatusFollowsLines ==
  \A o \in Order:
    /\ \A l \in Lines(o): received[l] <= Ordered[l]
    /\ status[o] \in {"none", "rfq", "confirmed"} => \A l \in Lines(o): received[l] = 0
    /\ status[o] = "partial" => /\ \E l \in Lines(o): received[l] > 0
                               /\ ~FullyReceived(o, received)
    /\ status[o] \in {"received", "billed"} => FullyReceived(o, received)

Sum(log, l) ==
  SumFunction([k \in {j \in DOMAIN log: l \in DOMAIN log[j].lines} |-> log[k].lines[l]])

(* The received quantity of a line is what its receipts brought less what its *)
(* returns took.                                                             *)
EvidenceAddsUp ==
  \A l \in Line:
    received[l] = Sum(receipts[LineOrder[l]], l) - Sum(returns[LineOrder[l]], l)

(* A receipt or a return of a new reference is a new one: the server answers  *)
(* a request that repeats a caller's reference from the log, and derives the  *)
(* reference of an earlier request only if a caller had already taken it.    *)
ReferencesTellApart ==
  \A o \in Order: \A log \in {receipts[o], returns[o]}:
    \A j, k \in DOMAIN log: j < k /\ log[j].ref = log[k].ref =>
      /\ ~log[k].own
      /\ \E i \in 1..j: log[i].own /\ log[i].ref = log[k].ref

(* The warehouse holds what the orders received, more or less what the other  *)
(* stock moves brought or took: no receipt, return or failed line of either   *)
(* loses or creates stock.                                                   *)
StockIsConserved ==
  \A i \in Item:
    onHand[i] = moved[i] + SumFunctionOnSet(received, {l \in Line: LineItem[l] = i})

(* A bill that was made from an order is the only bill of that order, which   *)
(* has all of its goods and keeps them: no second bill, no bill for a part,   *)
(* no return after the bill.                                                 *)
ThreeWayMatch ==
  \A b \in Bill: LET o == bill[b].order IN
    o # None => status[o] = "billed" /\ orderBill[o] = b /\ FullyReceived(o, received)

EntryPeriod(e) == IF e.kind = "bill" THEN e.period ELSE e.payment.period

(* No step books a bill or a payment into a closed period.                   *)
ClosedPeriodIsFrozen ==
  [][/\ \A e \in journal' \ journal: IsOpen(EntryPeriod(e))
     /\ \A p \in payments' \ payments: IsOpen(p.period)]_vars

Booked(p) == [kind |-> "payment", payment |-> p] \in journal

(* The payables agree whenever no payment runs, but for what crashes cut off: *)
(* each leaves at most one payment out of the ledger, which no repeated       *)
(* request brings back (app.js:57962), and a bill whose payments are all in   *)
(* the ledger has the status that they give it.                              *)
PayablesComplete ==
  cpu = Idle =>
    /\ Cardinality({p \in payments: ~Booked(p)}) <= crashes
    /\ \A b \in Bill:
         bill[b].status # "none" /\ (\A p \in payments: p.bill = b => Booked(p)) =>
           bill[b].status = IF PaidTotal(b) = 0 THEN "open" ELSE StatusByPayments(b)
=============================================================================
