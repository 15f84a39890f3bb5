------------------------- MODULE PurchaseToPayProofs -------------------------
(***************************************************************************)
(* Proofs about PurchaseToPay, for any number of orders, lines, bills,     *)
(* payments, requests and crashes.                                         *)
(***************************************************************************)
EXTENDS PurchaseToPay, SumTheorems

(* The part of TypeOK that the status of orders depends on.                  *)
OrderTypes ==
  /\ status \in [Order -> {"none", "rfq", "confirmed", "partial", "received", "billed"}]
  /\ orderBill \in [Order -> Bill \cup {None}]
  /\ received \in [Line -> Nat]
  /\ bill \in [Bill -> BillRow]

OrderInv == OrderTypes /\ StatusFollowsLines /\ ThreeWayMatch

-----------------------------------------------------------------------------
(* What a plan may name.                                                     *)
LEMMA PlanShape ==
  ASSUME NEW o \in Order, NEW limit, NEW plan \in PlansWithin(o, limit)
  PROVE  /\ DOMAIN plan \subseteq Lines(o)
         /\ \E l \in DOMAIN plan: TRUE
         /\ \A l \in DOMAIN plan: plan[l] \in 1..MaxQuantity /\ plan[l] <= limit[l]
PROOF
<1>1. plan \in Plan /\ DOMAIN plan \subseteq Lines(o) /\ \A l \in DOMAIN plan: plan[l] <= limit[l]
  BY DEF PlansWithin
<1>2. PICK S \in (SUBSET Line) \ {{}}: plan \in [S -> 1..MaxQuantity]
  BY <1>1 DEF Plan
<1> QED
  BY <1>1, <1>2

LEMMA OrderedIsPositive ==
  \A l \in Line: Ordered[l] \in Nat /\ Ordered[l] > 0
  BY QuantitiesArePositive

(* A receipt within what remains keeps every line within its order, and its   *)
(* lines above zero.                                                         *)
LEMMA ArrivedWithin ==
  ASSUME OrderInv, NEW o \in Order, NEW plan \in PlansWithin(o, Remaining)
  PROVE  /\ Arrived(plan) \in [Line -> Nat]
         /\ \A l \in Lines(o): Arrived(plan)[l] <= Ordered[l]
         /\ \E l \in Lines(o): Arrived(plan)[l] > 0
         /\ \A l \in Line \ Lines(o): Arrived(plan)[l] = received[l]
PROOF
<1>1. /\ DOMAIN plan \subseteq Lines(o)
      /\ \E l \in DOMAIN plan: TRUE
      /\ \A l \in DOMAIN plan: plan[l] \in 1..MaxQuantity /\ plan[l] <= Remaining[l]
  BY PlanShape
<1>2. Lines(o) \subseteq Line
  BY DEF Lines
<1>3. \A l \in Line: received[l] \in Nat
  BY DEF OrderInv, OrderTypes
<1>4. \A l \in Lines(o): received[l] <= Ordered[l]
  BY DEF OrderInv, StatusFollowsLines
<1>5. \A l \in DOMAIN plan: /\ plan[l] \in Nat /\ plan[l] > 0
                            /\ received[l] + plan[l] <= Ordered[l]
  <2>1. \A l \in DOMAIN plan: Remaining[l] = Ordered[l] - received[l]
    BY <1>1, <1>2 DEF Remaining
  <2> QED
    BY <1>1, <1>2, <1>3, <2>1, OrderedIsPositive, QuantitiesArePositive
<1>6. \A l \in Line: Arrived(plan)[l] =
        IF l \in DOMAIN plan THEN received[l] + plan[l] ELSE received[l]
  BY DEF Arrived
<1>7. Arrived(plan) \in [Line -> Nat]
  <2>1. \A l \in Line: (IF l \in DOMAIN plan THEN received[l] + plan[l] ELSE received[l]) \in Nat
    BY <1>3, <1>5
  <2> QED
    BY <2>1 DEF Arrived
<1>8. \A l \in Lines(o): Arrived(plan)[l] <= Ordered[l]
  BY <1>2, <1>4, <1>5, <1>6
<1>9. \E l \in Lines(o): Arrived(plan)[l] > 0
  <2>1. PICK l \in DOMAIN plan: TRUE
    BY <1>1
  <2>2. l \in Lines(o) /\ l \in Line
    BY <1>1, <1>2
  <2>3. Arrived(plan)[l] = received[l] + plan[l]
    BY <1>6, <2>2
  <2> QED
    BY <1>3, <1>5, <2>2, <2>3
<1> QED
  BY <1>1, <1>6, <1>7, <1>8, <1>9

(* A return within what was received leaves every line between nothing and    *)
(* what it had.                                                              *)
LEMMA LeftWithin ==
  ASSUME OrderInv, NEW o \in Order, NEW plan \in PlansWithin(o, received)
  PROVE  /\ Left(plan) \in [Line -> Nat]
         /\ \A l \in Lines(o): Left(plan)[l] <= Ordered[l]
         /\ \A l \in Line \ Lines(o): Left(plan)[l] = received[l]
PROOF
<1>1. /\ DOMAIN plan \subseteq Lines(o)
      /\ \A l \in DOMAIN plan: plan[l] \in 1..MaxQuantity /\ plan[l] <= received[l]
  BY PlanShape
<1>2. Lines(o) \subseteq Line
  BY DEF Lines
<1>3. \A l \in Line: received[l] \in Nat
  BY DEF OrderInv, OrderTypes
<1>4. \A l \in Lines(o): received[l] <= Ordered[l]
  BY DEF OrderInv, StatusFollowsLines
<1>5. \A l \in DOMAIN plan: received[l] - plan[l] \in Nat /\ received[l] - plan[l] <= received[l]
  BY <1>1, <1>2, <1>3, QuantitiesArePositive
<1>6. \A l \in Line: Left(plan)[l] =
        IF l \in DOMAIN plan THEN received[l] - plan[l] ELSE received[l]
  BY DEF Left
<1>7. Left(plan) \in [Line -> Nat]
  <2>1. \A l \in Line: (IF l \in DOMAIN plan THEN received[l] - plan[l] ELSE received[l]) \in Nat
    BY <1>3, <1>5
  <2> QED
    BY <2>1 DEF Left
<1>8. \A l \in Lines(o): Left(plan)[l] <= Ordered[l]
  BY <1>2, <1>3, <1>4, <1>5, <1>6, OrderedIsPositive
<1> QED
  BY <1>1, <1>6, <1>7, <1>8

(* No line belongs to two orders.                                            *)
LEMMA LinesApart ==
  \A o, q \in Order: o # q => \A l \in Lines(q): l \in Line \ Lines(o)
  BY DEF Lines

(* What StatusFollowsLines says of one order.                                *)
Fits(o, s, lines) ==
  /\ \A l \in Lines(o): lines[l] <= Ordered[l]
  /\ s \in {"none", "rfq", "confirmed"} => \A l \in Lines(o): lines[l] = 0
  /\ s = "partial" => (\E l \in Lines(o): lines[l] > 0) /\ ~FullyReceived(o, lines)
  /\ s \in {"received", "billed"} => FullyReceived(o, lines)

LEMMA FitsEverywhere ==
  StatusFollowsLines <=> \A o \in Order: Fits(o, status[o], received)
  BY DEF StatusFollowsLines, Fits

LEMMA FitsByLines ==
  ASSUME NEW o, NEW s, NEW lines, NEW others, Fits(o, s, lines),
         \A l \in Lines(o): others[l] = lines[l]
  PROVE  Fits(o, s, others)
  BY DEF Fits, FullyReceived

-----------------------------------------------------------------------------
(* A step that gives one unbilled order a status that fits its lines.        *)
LEMMA OrderMoves ==
  ASSUME OrderInv, NEW o \in Order, status[o] # "billed",
         NEW s \in {"rfq", "confirmed", "partial", "received"},
         status' = [status EXCEPT ![o] = s],
         received' \in [Line -> Nat],
         \A l \in Line \ Lines(o): received'[l] = received[l],
         Fits(o, s, received'),
         bill' = bill, orderBill' = orderBill
  PROVE  OrderInv'
PROOF
<1> USE DEF OrderInv
<1>1. status \in [Order -> {"none", "rfq", "confirmed", "partial", "received", "billed"}]
  BY DEF OrderTypes
<1>2. OrderTypes'
  BY <1>1 DEF OrderTypes
<1>3. status'[o] = s /\ \A q \in Order \ {o}: status'[q] = status[q]
  BY <1>1
<1>4. ASSUME NEW q \in Order  PROVE Fits(q, status'[q], received')
  <2>1. CASE q = o
    BY <1>3, <2>1
  <2>2. CASE q # o
    <3>1. \A l \in Lines(q): received'[l] = received[l]
      BY <2>2, LinesApart
    <3>2. Fits(q, status[q], received)
      BY FitsEverywhere
    <3> QED
      BY <1>3, <2>2, <3>1, <3>2, FitsByLines
  <2> QED
    BY <2>1, <2>2
<1>5. StatusFollowsLines'
  BY <1>4 DEF StatusFollowsLines, Fits
<1>6. ASSUME NEW b \in Bill, bill'[b].order # None
      PROVE  /\ status'[bill'[b].order] = "billed"
             /\ orderBill'[bill'[b].order] = b
             /\ FullyReceived(bill'[b].order, received')
  <2>1. bill[b].order \in Order
    BY <1>6 DEF OrderTypes, BillRow
  <2>2. status[bill[b].order] = "billed" /\ orderBill[bill[b].order] = b
    BY <1>6 DEF ThreeWayMatch
  <2>3. status'[bill[b].order] = "billed"
    BY <1>3, <2>1, <2>2
  <2>4. FullyReceived(bill[b].order, received')
    BY <1>4, <2>1, <2>3 DEF Fits
  <2> QED
    BY <2>2, <2>3, <2>4
<1>7. ThreeWayMatch'
  BY <1>6 DEF ThreeWayMatch
<1> QED
  BY <1>2, <1>5, <1>7

(* A new bill, of a received order or of none.                               *)
LEMMA BillAppears ==
  ASSUME OrderInv, NEW b \in Bill, NEW o \in Order \cup {None}, NEW p \in Period,
         bill' = [bill EXCEPT ![b] = [status |-> "open", order |-> o, period |-> p]],
         received' = received,
         o = None => status' = status /\ orderBill' = orderBill,
         o # None => /\ status[o] = "received"
                     /\ status' = [status EXCEPT ![o] = "billed"]
                     /\ orderBill' = [orderBill EXCEPT ![o] = b]
  PROVE  OrderInv'
PROOF
<1> USE DEF OrderInv
<1>1. \A q \in Order: status'[q] = IF q = o THEN "billed" ELSE status[q]
  BY NoneIsNoRow DEF OrderTypes
<1>2. \A q \in Order: orderBill'[q] = IF q = o THEN b ELSE orderBill[q]
  BY NoneIsNoRow DEF OrderTypes
<1>3. OrderTypes'
  <2>1. [status |-> "open", order |-> o, period |-> p] \in BillRow
    BY DEF BillRow
  <2>2. bill' \in [Bill -> BillRow]
    BY <2>1 DEF OrderTypes
  <2>3. status' \in [Order -> {"none", "rfq", "confirmed", "partial", "received", "billed"}]
    BY DEF OrderTypes
  <2>4. orderBill' \in [Order -> Bill \cup {None}]
    BY DEF OrderTypes
  <2> QED
    BY <2>2, <2>3, <2>4 DEF OrderTypes
<1>4. ASSUME NEW q \in Order  PROVE Fits(q, status'[q], received')
  <2>1. Fits(q, status[q], received)
    BY FitsEverywhere
  <2>2. CASE q = o
    <3>1. status[q] = "received" /\ status'[q] = "billed"
      BY <1>1, <2>2, NoneIsNoRow
    <3> QED
      BY <2>1, <3>1 DEF Fits
  <2>3. CASE q # o
    BY <1>1, <2>1, <2>3
  <2> QED
    BY <2>2, <2>3
<1>5. StatusFollowsLines'
  BY <1>4 DEF StatusFollowsLines, Fits
<1>6. ASSUME NEW c \in Bill, bill'[c].order # None
      PROVE  /\ status'[bill'[c].order] = "billed"
             /\ orderBill'[bill'[c].order] = c
             /\ FullyReceived(bill'[c].order, received')
  <2>1. \A q \in Order: status'[q] = "billed" => FullyReceived(q, received')
    BY <1>4 DEF Fits
  <2>2. CASE c = b
    <3>1. bill'[c].order = o
      BY <2>2 DEF OrderTypes
    <3> QED
      BY <1>1, <1>2, <1>6, <2>1, <2>2, <3>1
  <2>3. CASE c # b
    <3>1. bill'[c] = bill[c]
      BY <2>3 DEF OrderTypes
    <3>2. bill[c].order \in Order
      BY <1>6, <3>1 DEF OrderTypes, BillRow
    <3>3. status[bill[c].order] = "billed" /\ orderBill[bill[c].order] = c
      BY <1>6, <3>1 DEF ThreeWayMatch
    <3>4. bill[c].order # o
      BY <3>2, <3>3, NoneIsNoRow
    <3> QED
      BY <1>1, <1>2, <2>1, <3>1, <3>2, <3>3, <3>4
  <2> QED
    BY <2>2, <2>3
<1>7. ThreeWayMatch'
  BY <1>6 DEF ThreeWayMatch
<1> QED
  BY <1>3, <1>5, <1>7

(* A step that leaves the orders and what the bills say of them.             *)
LEMMA OrdersStay ==
  ASSUME OrderInv, status' = status, orderBill' = orderBill, received' = received,
         bill' \in [Bill -> BillRow], \A b \in Bill: bill'[b].order = bill[b].order
  PROVE  OrderInv'
  BY DEF OrderInv, OrderTypes, StatusFollowsLines, ThreeWayMatch, FullyReceived

-----------------------------------------------------------------------------
LEMMA OrderInit == Init => OrderInv
PROOF
<1> SUFFICES ASSUME Init PROVE OrderInv
  OBVIOUS
<1>1. [status |-> "none", order |-> None, period |-> None] \in BillRow
  BY DEF BillRow
<1>2. OrderTypes
  BY <1>1 DEF Init, OrderTypes
<1>3. StatusFollowsLines
  BY OrderedIsPositive DEF Init, StatusFollowsLines, Lines
<1>4. ThreeWayMatch
  BY DEF Init, ThreeWayMatch
<1> QED
  BY <1>2, <1>3, <1>4 DEF OrderInv

(* A receipt leaves an order partial or received, and says which.            *)
LEMMA ReceiveKeeps ==
  ASSUME OrderInv, NEW o \in Order, NEW plan \in PlansWithin(o, Remaining),
         NEW r, NEW own, Receive(o, plan, r, own)
  PROVE  OrderInv'
PROOF
<1>1. /\ Arrived(plan) \in [Line -> Nat]
      /\ \A l \in Lines(o): Arrived(plan)[l] <= Ordered[l]
      /\ \E l \in Lines(o): Arrived(plan)[l] > 0
      /\ \A l \in Line \ Lines(o): Arrived(plan)[l] = received[l]
  BY ArrivedWithin
<1> DEFINE s == AfterReceipt(o, Arrived(plan))
<1>2. s \in {"rfq", "confirmed", "partial", "received"} /\ Fits(o, s, Arrived(plan))
  BY <1>1 DEF AfterReceipt, Fits
<1>3. /\ status[o] # "billed" /\ status' = [status EXCEPT ![o] = s]
      /\ received' = Arrived(plan) /\ bill' = bill /\ orderBill' = orderBill
  BY DEF Receive, apVars
<1> HIDE DEF s
<1> QED
  BY <1>1, <1>2, <1>3, OrderMoves

(* A return leaves an order received, partial or as it was confirmed.        *)
LEMMA ReturnKeeps ==
  ASSUME OrderInv, NEW o \in Order, NEW plan \in PlansWithin(o, received),
         NEW r, NEW own, Return(o, plan, r, own)
  PROVE  OrderInv'
PROOF
<1>1. /\ Left(plan) \in [Line -> Nat]
      /\ \A l \in Lines(o): Left(plan)[l] <= Ordered[l]
      /\ \A l \in Line \ Lines(o): Left(plan)[l] = received[l]
  BY LeftWithin
<1> DEFINE s == AfterReturn(o, Left(plan))
<1>2. s \in {"rfq", "confirmed", "partial", "received"} /\ Fits(o, s, Left(plan))
  <2>1. CASE FullyReceived(o, Left(plan))
    BY <1>1, <2>1 DEF AfterReturn, Fits
  <2>2. CASE ~FullyReceived(o, Left(plan)) /\ \E l \in Lines(o): Left(plan)[l] > 0
    BY <1>1, <2>2 DEF AfterReturn, Fits
  <2>3. CASE ~FullyReceived(o, Left(plan)) /\ ~\E l \in Lines(o): Left(plan)[l] > 0
    <3>1. \A l \in Lines(o): Left(plan)[l] = 0
      BY <1>1, <2>3 DEF Lines
    <3> QED
      BY <1>1, <2>3, <3>1 DEF AfterReturn, Fits
  <2> QED
    BY <2>1, <2>2, <2>3
<1>3. /\ status[o] # "billed" /\ status' = [status EXCEPT ![o] = s]
      /\ received' = Left(plan) /\ bill' = bill /\ orderBill' = orderBill
  BY DEF Return, apVars
<1> HIDE DEF s
<1> QED
  BY <1>1, <1>2, <1>3, OrderMoves

(* An order that is requested, awarded or confirmed has received nothing.     *)
LEMMA SetOrderKeeps ==
  ASSUME OrderInv, NEW o \in Order, NEW s \in {"rfq", "confirmed"},
         status[o] \in {"none", "rfq"}, SetOrder(o, s)
  PROVE  OrderInv'
PROOF
<1>1. Fits(o, status[o], received)
  BY FitsEverywhere DEF OrderInv
<1>2. Fits(o, s, received)
  BY <1>1 DEF Fits
<1>3. /\ status[o] # "billed" /\ status' = [status EXCEPT ![o] = s]
      /\ received' = received /\ bill' = bill /\ orderBill' = orderBill
  BY DEF SetOrder, apVars
<1>4. received' \in [Line -> Nat]
  BY <1>3 DEF OrderInv, OrderTypes
<1> QED
  BY <1>2, <1>3, <1>4, OrderMoves

LEMMA OrderStep == OrderInv /\ [Next]_vars => OrderInv'
PROOF
<1> SUFFICES ASSUME OrderInv, [Next]_vars PROVE OrderInv'
  OBVIOUS
<1> USE DEF vars, stockVars, orderVars, apVars
<1>0. bill \in [Bill -> BillRow]
  BY DEF OrderInv, OrderTypes
<1>1. CASE /\ UNCHANGED <<orderVars, bill>>
           /\ \/ UNCHANGED vars
              \/ \E p \in Period: SetPeriod(p, "open") \/ SetPeriod(p, "closed")
              \/ \E i \in Item: UpdateItem(i, TRUE) \/ UpdateItem(i, FALSE)
              \/ \E i \in Item, n \in 1..MaxStock: MoveIn(i, n) \/ MoveOut(i, n)
              \/ \E b \in Bill, r \in Reference, a \in Amount, p \in Period: PayBill(b, r, a, p)
              \/ PayBillLedger \/ Crash
  BY <1>0, <1>1, OrdersStay
<1>2. CASE \E o \in Order: CreateOrder(o) \/ AwardOrder(o) \/ ConfirmOrder(o)
  BY <1>2, SetOrderKeeps DEF CreateOrder, AwardOrder, ConfirmOrder
<1>3. ASSUME NEW o \in Order, NEW r, NEW own,
             NEW plan \in PlansWithin(o, Remaining), Receive(o, plan, r, own)
      PROVE  OrderInv'
  BY <1>3, ReceiveKeeps
<1>4. ASSUME NEW o \in Order, NEW r, NEW own,
             NEW plan \in PlansWithin(o, received), Return(o, plan, r, own)
      PROVE  OrderInv'
  BY <1>4, ReturnKeeps
<1>5. ASSUME NEW o \in Order, NEW b \in Bill, NEW p \in Period, BillOrder(o, b, p)
      PROVE  OrderInv'
  BY <1>5, BillAppears, NoneIsNoRow DEF BillOrder, PostBill
<1>6. ASSUME NEW b \in Bill, NEW p \in Period, CreateBill(b, p)
      PROVE  OrderInv'
  BY <1>6, BillAppears DEF CreateBill, PostBill
<1>7. CASE PayBillStatus
  <2> DEFINE b == cpu.payment.bill
  <2>1. bill' = [bill EXCEPT ![b].status = StatusByPayments(b)] /\ UNCHANGED orderVars
    BY <1>7 DEF PayBillStatus
  <2>2. StatusByPayments(b) \in {"partial", "paid"}
    BY DEF StatusByPayments
  <2>3. ASSUME NEW c \in Bill  PROVE bill'[c] \in BillRow /\ bill'[c].order = bill[c].order
    <3>1. bill[c] \in BillRow
      BY <1>0
    <3>2. bill'[c] = IF c = b THEN [bill[c] EXCEPT !.status = StatusByPayments(b)] ELSE bill[c]
      BY <1>0, <2>1
    <3> HIDE DEF b
    <3> QED
      BY <2>2, <3>1, <3>2 DEF BillRow
  <2>4. bill' \in [Bill -> BillRow]
    BY <1>0, <2>1, <2>3
  <2> QED
    BY <2>1, <2>3, <2>4, OrdersStay
<1>8. QED
  BY <1>1, <1>2, <1>3, <1>4, <1>5, <1>6, <1>7
     DEF Next, SetPeriod, UpdateItem, MoveIn, MoveOut, PayBill, PayBillLedger, Crash

LEMMA OrdersInvariant == Spec => []OrderInv
  BY OrderInit, OrderStep, PTL DEF Spec

(* The status of every order follows its lines (receivePurchaseOrder,         *)
(* returnPurchaseOrder).                                                      *)
THEOREM StatusIsRight == Spec => []StatusFollowsLines
  BY OrdersInvariant, PTL DEF OrderInv

(* One bill for an order, which has and keeps all of its goods                *)
(* (billPurchaseOrder).                                                       *)
THEOREM OrdersMatchBills == Spec => []ThreeWayMatch
  BY OrdersInvariant, PTL DEF OrderInv

(* No step books into a closed period: a payment suspended between its        *)
(* statements tests the period again in the ledger.                           *)
THEOREM FrozenPeriods == Spec => ClosedPeriodIsFrozen
PROOF
<1> DEFINE Open == /\ \A e \in journal' \ journal: IsOpen(EntryPeriod(e))
                   /\ \A p \in payments' \ payments: IsOpen(p.period)
<1>1. ASSUME [Next]_vars  PROVE [Open]_vars
  <2> SUFFICES ASSUME Next PROVE Open
    BY <1>1
  <2> USE DEF vars, stockVars, orderVars, apVars
  <2>1. CASE UNCHANGED <<journal, payments>>
    BY <2>1
  <2>2. ASSUME NEW b \in Bill, NEW p \in Period, NEW o, PostBill(b, o, p), payments' = payments
        PROVE  Open
    BY <2>2 DEF PostBill, EntryPeriod
  <2>3. ASSUME NEW b \in Bill, NEW r \in Reference, NEW a \in Amount, NEW p \in Period,
               PayBill(b, r, a, p)
        PROVE  Open
    BY <2>3 DEF PayBill
  <2>4. CASE PayBillLedger
    BY <2>4 DEF PayBillLedger, EntryPeriod
  <2>5. CASE \/ \E p \in Period: SetPeriod(p, "open") \/ SetPeriod(p, "closed")
             \/ \E i \in Item: UpdateItem(i, TRUE) \/ UpdateItem(i, FALSE)
             \/ \E i \in Item, n \in 1..MaxStock: MoveIn(i, n) \/ MoveOut(i, n)
             \/ \E o \in Order: CreateOrder(o) \/ AwardOrder(o) \/ ConfirmOrder(o)
             \/ PayBillStatus \/ Crash
    BY <2>1, <2>5 DEF SetPeriod, UpdateItem, MoveIn, MoveOut, CreateOrder, AwardOrder,
                      ConfirmOrder, SetOrder, PayBillStatus, Crash
  <2>6. ASSUME NEW o, NEW plan, NEW r, NEW own,
               Receive(o, plan, r, own) \/ Return(o, plan, r, own)
        PROVE  Open
    BY <2>1, <2>6 DEF Receive, Return
  <2>7. ASSUME NEW o, NEW b \in Bill, NEW p \in Period, BillOrder(o, b, p) \/ CreateBill(b, p)
        PROVE  Open
    <3>1. payments' = payments /\ (PostBill(b, o, p) \/ PostBill(b, None, p))
      BY <2>7 DEF BillOrder, CreateBill
    <3> QED
      BY <2>2, <3>1
  <2> HIDE DEF Open
  <2> QED
    BY <2>3, <2>4, <2>5, <2>6, <2>7 DEF Next
<1> QED
  BY <1>1, PTL DEF Spec, ClosedPeriodIsFrozen

-----------------------------------------------------------------------------
(* What a request asks of the warehouse.                                     *)

ItemLines(i) == {l \in Line: LineItem[l] = i}

LEMMA PlanType ==
  ASSUME NEW plan \in Plan
  PROVE  /\ DOMAIN plan \subseteq Line
         /\ IsFiniteSet(DOMAIN plan)
         /\ \A l \in DOMAIN plan: plan[l] \in Nat /\ plan[l] > 0
<1>1. PICK S \in (SUBSET Line) \ {{}}: plan \in [S -> 1..MaxQuantity]
  BY DEF Plan
<1>2. IsFiniteSet(S)
  BY <1>1, LinesAreFinite, FS_Subset
<1>3. QED
  BY <1>1, <1>2, QuantitiesArePositive

LEMMA AskedIsNat == ASSUME NEW plan \in Plan, NEW i PROVE AskedOf(plan, i) \in Nat
<1>1. /\ IsFiniteSet({l \in DOMAIN plan: LineItem[l] = i})
      /\ \A l \in {l \in DOMAIN plan: LineItem[l] = i}: plan[l] \in Nat
  BY PlanType, FS_Subset
<1>2. QED
  BY <1>1, SumNat DEF AskedOf

(* When the lines of a plan grow by what the plan names, the lines of an     *)
(* item grow by what the plan asks of the item.                              *)
LEMMA LinesGrow ==
  ASSUME NEW a \in [Line -> Nat], NEW b \in [Line -> Nat], NEW plan \in Plan,
         \A l \in Line: b[l] = IF l \in DOMAIN plan THEN a[l] + plan[l] ELSE a[l],
         NEW i
  PROVE  SumFunctionOnSet(b, ItemLines(i)) = SumFunctionOnSet(a, ItemLines(i)) + AskedOf(plan, i)
<1>. DEFINE S == ItemLines(i)
            T == {l \in DOMAIN plan: LineItem[l] = i}
            g == [l \in Line |-> IF l \in DOMAIN plan THEN plan[l] ELSE 0]
<1>1. IsFiniteSet(S) /\ S \subseteq Line
  BY LinesAreFinite, FS_Subset DEF ItemLines
<1>2. T \in SUBSET S /\ IsFiniteSet(T)
  BY <1>1, PlanType, FS_Subset DEF ItemLines
<1>3. /\ \A l \in S: a[l] \in Int /\ g[l] \in Int /\ b[l] = a[l] + g[l]
      /\ \A l \in S \ T: g[l] = 0
      /\ \A l \in T: g[l] = plan[l]
  BY <1>1, PlanType DEF ItemLines
<1>. HIDE DEF S, T, g
<1>4. SumFunctionOnSet(b, S) = SumFunctionOnSet(a, S) + SumFunctionOnSet(g, S)
  BY <1>1, <1>3, SumPlus
<1>5. SumFunctionOnSet(g, S) = SumFunctionOnSet(g, T)
  BY <1>1, <1>2, <1>3, SumOfPart
<1>6. SumFunctionOnSet(g, T) = SumFunctionOnSet(plan, T)
  BY <1>2, <1>3, SumSame
<1>7. QED
  BY <1>4, <1>5, <1>6 DEF S, T, AskedOf

-----------------------------------------------------------------------------
(* The steps by what they do to the quantities.                              *)

(* Stock moves that no order asked for; receipts; returns; the rest.         *)
LEMMA WhoMoves ==
  ASSUME [Next]_vars
  PROVE  \/ UNCHANGED <<received, receipts, returns, onHand, moved>>
         \/ /\ UNCHANGED <<received, receipts, returns>>
            /\ \E i \in Item, n \in 1..MaxStock: MoveIn(i, n) \/ MoveOut(i, n)
         \/ \E o \in Order, r \in 1..MaxRequests, own \in BOOLEAN:
              \E plan \in PlansWithin(o, Remaining): Receive(o, plan, r, own)
         \/ \E o \in Order, r \in 1..MaxRequests, own \in BOOLEAN:
              \E plan \in PlansWithin(o, received): Return(o, plan, r, own)
BY DEF Next, vars, stockVars, orderVars, SetPeriod, UpdateItem, MoveIn, MoveOut, CreateOrder,
       AwardOrder, ConfirmOrder, SetOrder, BillOrder, CreateBill, PayBill, PayBillStatus,
       PayBillLedger, Crash

LEMMA RequestType ==
  ASSUME NEW o, NEW limit, NEW plan \in PlansWithin(o, limit), NEW r \in 1..MaxRequests,
         NEW own \in BOOLEAN
  PROVE  [ref |-> r, own |-> own, lines |-> plan] \in Request
BY DEF PlansWithin, Request

(* What a return does to the quantities.                                     *)
LEMMA ReturnLines ==
  ASSUME OrderInv, NEW o \in Order, NEW plan \in PlansWithin(o, received), received' = Left(plan)
  PROVE  /\ received' \in [Line -> Nat]
         /\ \A l \in Line: received[l] = IF l \in DOMAIN plan THEN received'[l] + plan[l]
                                                               ELSE received'[l]
<1>1. plan \in Plan
  BY DEF PlansWithin
<1>2. Left(plan) \in [Line -> Nat] /\ received \in [Line -> Nat]
  BY LeftWithin DEF OrderInv, OrderTypes
<1>3. \A l \in Line: received'[l] = IF l \in DOMAIN plan THEN received[l] - plan[l]
                                                          ELSE received[l]
  BY DEF Left
<1>4. QED
  BY <1>1, <1>2, <1>3, PlanType

-----------------------------------------------------------------------------
(* Type correctness.                                                         *)

(* The part of TypeOK that is not in OrderTypes.                             *)
StockTypes == /\ onHand \in [Item -> Nat]
              /\ moved \in [Item -> Int]
              /\ receipts \in [Order -> Seq(Request)]
              /\ returns \in [Order -> Seq(Request)]

PayableTypes == /\ payments \subseteq Payment
                /\ journal \subseteq BillEntry \cup PaymentEntry
                /\ cpu \in {Idle} \cup [at: {"status", "ledger"}, payment: Payment]
                /\ crashes \in 0..MaxCrashes

LEMMA StepKeepsStock == OrderInv /\ StockTypes /\ [Next]_vars => StockTypes'
<1>. SUFFICES ASSUME OrderInv, StockTypes, [Next]_vars PROVE StockTypes'
  OBVIOUS
<1>1. CASE UNCHANGED <<received, receipts, returns, onHand, moved>>
  BY <1>1 DEF StockTypes
<1>2. ASSUME NEW i \in Item, NEW n \in 1..MaxStock, MoveIn(i, n) \/ MoveOut(i, n),
             UNCHANGED <<receipts, returns>>
      PROVE  StockTypes'
  <2>1. n \in Nat
    BY BoundsAreNatural
  <2>2. CASE MoveIn(i, n)
    BY <1>2, <2>1, <2>2 DEF MoveIn, StockTypes
  <2>3. CASE MoveOut(i, n)
    BY <1>2, <2>1, <2>3 DEF MoveOut, StockTypes
  <2>4. QED
    BY <1>2, <2>2, <2>3
<1>3. ASSUME NEW o \in Order, NEW r \in 1..MaxRequests, NEW own \in BOOLEAN,
             NEW plan \in PlansWithin(o, Remaining), Receive(o, plan, r, own)
      PROVE  StockTypes'
  <2>1. plan \in Plan
    BY DEF PlansWithin
  <2>2. \A i \in Item: AskedOf(plan, i) \in Nat
    BY <2>1, AskedIsNat
  <2>. DEFINE request == [ref |-> r, own |-> own, lines |-> plan]
  <2>3. /\ onHand' = [i \in Item |-> onHand[i] + AskedOf(plan, i)]
        /\ receipts' = [receipts EXCEPT ![o] = Append(@, request)]
        /\ UNCHANGED <<moved, returns>>
    BY <1>3 DEF Receive, Stocked
  <2>4. onHand' \in [Item -> Nat]
    BY <2>2, <2>3 DEF StockTypes
  <2>5. request \in Request
    BY RequestType
  <2>. HIDE DEF request
  <2>6. receipts' \in [Order -> Seq(Request)]
    BY <2>3, <2>5 DEF StockTypes
  <2>7. QED
    BY <2>3, <2>4, <2>6 DEF StockTypes
<1>4. ASSUME NEW o \in Order, NEW r \in 1..MaxRequests, NEW own \in BOOLEAN,
             NEW plan \in PlansWithin(o, received), Return(o, plan, r, own)
      PROVE  StockTypes'
  <2>1. plan \in Plan
    BY DEF PlansWithin
  <2>2. \A i \in Item: AskedOf(plan, i) \in Nat
    BY <2>1, AskedIsNat
  <2>. DEFINE request == [ref |-> r, own |-> own, lines |-> plan]
  <2>3. /\ onHand' = [i \in Item |-> onHand[i] - AskedOf(plan, i)]
        /\ returns' = [returns EXCEPT ![o] = Append(@, request)]
        /\ UNCHANGED <<moved, receipts>>
    BY <1>4 DEF Return
  <2>g. \A i \in Item: AskedOf(plan, i) <= onHand[i]
    BY <1>4 DEF Return
  <2>4. onHand' \in [Item -> Nat]
    BY <2>2, <2>3, <2>g DEF StockTypes
  <2>5. request \in Request
    BY RequestType
  <2>. HIDE DEF request
  <2>6. returns' \in [Order -> Seq(Request)]
    BY <2>3, <2>5 DEF StockTypes
  <2>7. QED
    BY <2>3, <2>4, <2>6 DEF StockTypes
<1>5. QED
  BY <1>1, <1>2, <1>3, <1>4, WhoMoves

LEMMA WhoPays ==
  ASSUME [Next]_vars
  PROVE  \/ UNCHANGED <<bill, payments, journal, cpu, crashes>>
         \/ \E b \in Bill, o \in Order \cup {None}, p \in Period:
              /\ cpu = Idle /\ PostBill(b, o, p) /\ UNCHANGED <<payments, cpu, crashes>>
         \/ \E b \in Bill, r \in Reference, a \in Amount, p \in Period: PayBill(b, r, a, p)
         \/ PayBillStatus \/ PayBillLedger \/ Crash
<1>1. ASSUME NEW b \in Bill, NEW o \in Order, NEW p \in Period, BillOrder(o, b, p)
      PROVE  cpu = Idle /\ PostBill(b, o, p) /\ UNCHANGED <<payments, cpu, crashes>>
  BY <1>1 DEF BillOrder
<1>2. ASSUME NEW b \in Bill, NEW p \in Period, CreateBill(b, p)
      PROVE  cpu = Idle /\ PostBill(b, None, p) /\ UNCHANGED <<payments, cpu, crashes>>
  BY <1>2 DEF CreateBill
<1>r. \A o, plan, r, own: Receive(o, plan, r, own) \/ Return(o, plan, r, own) =>
        UNCHANGED <<bill, payments, journal, cpu, crashes>>
  BY DEF Receive, Return, apVars
<1>3. \/ UNCHANGED <<bill, payments, journal, cpu, crashes>>
      \/ \E o \in Order, b \in Bill, p \in Period: BillOrder(o, b, p)
      \/ \E b \in Bill, p \in Period: CreateBill(b, p)
      \/ \E b \in Bill, r \in Reference, a \in Amount, p \in Period: PayBill(b, r, a, p)
      \/ PayBillStatus \/ PayBillLedger \/ Crash
  BY <1>r
     DEF Next, vars, apVars, SetPeriod, UpdateItem, MoveIn, MoveOut, CreateOrder, AwardOrder,
         ConfirmOrder, SetOrder
<1>4. QED
  BY <1>1, <1>2, <1>3

LEMMA StepKeepsPayables == PayableTypes /\ [Next]_vars => PayableTypes'
<1>. SUFFICES ASSUME PayableTypes, [Next]_vars PROVE PayableTypes'
  OBVIOUS
<1>. USE DEF PayableTypes
<1>0. cpu.at # "idle" => cpu \in [at: {"status", "ledger"}, payment: Payment]
  BY DEF Idle
<1>1. CASE UNCHANGED <<bill, payments, journal, cpu, crashes>>
  BY <1>1
<1>2. ASSUME NEW b \in Bill, NEW o, NEW p \in Period, PostBill(b, o, p),
             UNCHANGED <<payments, cpu, crashes>>
      PROVE  PayableTypes'
  <2>1. [kind |-> "bill", bill |-> b, period |-> p] \in BillEntry
    BY DEF BillEntry
  <2>2. QED
    BY <1>2, <2>1 DEF PostBill
<1>3. ASSUME NEW b \in Bill, NEW r \in Reference, NEW a \in Amount, NEW p \in Period,
             PayBill(b, r, a, p)
      PROVE  PayableTypes'
  <2>. DEFINE q == [bill |-> b, ref |-> r, amount |-> a, period |-> p]
  <2>1. q \in Payment
    BY DEF Payment
  <2>2. /\ payments' = payments \cup {q} /\ cpu' = [at |-> "status", payment |-> q]
        /\ UNCHANGED <<journal, crashes>>
    BY <1>3 DEF PayBill
  <2>. HIDE DEF q
  <2>3. QED
    BY <2>1, <2>2
<1>4. CASE PayBillStatus
  BY <1>0, <1>4 DEF PayBillStatus
<1>5. CASE PayBillLedger
  BY <1>0, <1>5 DEF PayBillLedger, PaymentEntry
<1>6. CASE Crash
  BY <1>6, BoundsAreNatural DEF Crash, apVars
<1>7. QED
  BY <1>1, <1>2, <1>3, <1>4, <1>5, <1>6, WhoPays

LEMMA StepKeepsSwitches ==
  ASSUME periodStatus \in [Period -> {"open", "closed"}], active \subseteq Item, [Next]_vars
  PROVE  periodStatus' \in [Period -> {"open", "closed"}] /\ active' \subseteq Item
<1>0. \A o, plan, r, own: Receive(o, plan, r, own) \/ Return(o, plan, r, own) =>
        UNCHANGED <<periodStatus, active>>
  BY DEF Receive, Return
<1>1. \/ UNCHANGED <<periodStatus, active>>
      \/ \E p \in Period: SetPeriod(p, "open") \/ SetPeriod(p, "closed")
      \/ \E i \in Item: \E b: UpdateItem(i, b)
  BY <1>0
     DEF Next, vars, MoveIn, MoveOut, CreateOrder, AwardOrder, ConfirmOrder, SetOrder,
         BillOrder, CreateBill, PayBill, PayBillStatus, PayBillLedger, Crash
<1>2. QED
  BY <1>1 DEF SetPeriod, UpdateItem

LEMMA TypeParts ==
  TypeOK <=> /\ OrderTypes /\ StockTypes /\ PayableTypes
             /\ periodStatus \in [Period -> {"open", "closed"}] /\ active \subseteq Item
BY DEF TypeOK, OrderTypes, StockTypes, PayableTypes

(* Quantities and stock never fall below zero, in any sequence of receipts,   *)
(* returns and other moves, and a payment that is under way is a row.        *)
THEOREM TypeCorrect == Spec => []TypeOK
<1>1. Init => TypeOK
  <2>. SUFFICES ASSUME Init PROVE TypeOK
    OBVIOUS
  <2>1. OrderTypes
    BY OrderInit DEF OrderInv
  <2>2. StockTypes
    BY DEF Init, StockTypes
  <2>3. PayableTypes
    BY BoundsAreNatural DEF Init, PayableTypes
  <2>4. QED
    BY <2>1, <2>2, <2>3, TypeParts DEF Init
<1>2. OrderInv /\ TypeOK /\ [Next]_vars => TypeOK'
  <2>. SUFFICES ASSUME OrderInv, TypeOK, [Next]_vars PROVE TypeOK'
    OBVIOUS
  <2>1. StockTypes /\ PayableTypes
    BY TypeParts
  <2>2. StockTypes' /\ PayableTypes' /\ OrderInv'
    BY <2>1, StepKeepsStock, StepKeepsPayables, OrderStep
  <2>3. periodStatus' \in [Period -> {"open", "closed"}] /\ active' \subseteq Item
    BY StepKeepsSwitches DEF TypeOK
  <2>4. QED
    BY <2>2, <2>3 DEF TypeOK, OrderInv, OrderTypes, StockTypes, PayableTypes
<1>3. QED
  BY <1>1, <1>2, OrdersInvariant, PTL DEF Spec

-----------------------------------------------------------------------------
(* The stock of the warehouse.                                               *)

LEMMA StepKeepsConserved ==
  OrderInv /\ StockTypes /\ StockIsConserved /\ [Next]_vars => StockIsConserved'
<1>. SUFFICES ASSUME OrderInv, StockTypes, StockIsConserved, [Next]_vars PROVE StockIsConserved'
  OBVIOUS
<1>t. /\ onHand \in [Item -> Nat] /\ moved \in [Item -> Int] /\ received \in [Line -> Nat]
  BY DEF OrderInv, OrderTypes, StockTypes
<1>i. \A i \in Item: onHand[i] = moved[i] + SumFunctionOnSet(received, ItemLines(i))
  BY DEF StockIsConserved, ItemLines
<1>s. ASSUME NEW i \in Item PROVE SumFunctionOnSet(received, ItemLines(i)) \in Nat
  <2>1. IsFiniteSet(ItemLines(i)) /\ \A l \in ItemLines(i): received[l] \in Nat
    BY <1>t, LinesAreFinite, FS_Subset DEF ItemLines
  <2>2. QED
    BY <2>1, SumNat
<1>1. CASE UNCHANGED <<received, receipts, returns, onHand, moved>>
  BY <1>1 DEF StockIsConserved
<1>2. ASSUME NEW j \in Item, NEW n \in 1..MaxStock, MoveIn(j, n) \/ MoveOut(j, n),
             UNCHANGED received
      PROVE  StockIsConserved'
  <2>1. n \in Nat
    BY BoundsAreNatural
  <2>2. ASSUME NEW i \in Item
        PROVE  onHand'[i] = moved'[i] + SumFunctionOnSet(received, ItemLines(i))
    <3>1. CASE MoveIn(j, n)
      <4>1. /\ onHand'[i] = IF i = j THEN onHand[i] + n ELSE onHand[i]
            /\ moved'[i] = IF i = j THEN moved[i] + n ELSE moved[i]
        BY <1>t, <3>1 DEF MoveIn
      <4>2. QED
        BY <1>t, <1>i, <1>s, <2>1, <4>1
    <3>2. CASE MoveOut(j, n)
      <4>1. /\ onHand'[i] = IF i = j THEN onHand[i] - n ELSE onHand[i]
            /\ moved'[i] = IF i = j THEN moved[i] - n ELSE moved[i]
        BY <1>t, <3>2 DEF MoveOut
      <4>2. QED
        BY <1>t, <1>i, <1>s, <2>1, <4>1
    <3>3. QED
      BY <1>2, <3>1, <3>2
  <2>3. QED
    BY <1>2, <2>2 DEF StockIsConserved, ItemLines
<1>3. ASSUME NEW o \in Order, NEW r, NEW own,
             NEW plan \in PlansWithin(o, Remaining), Receive(o, plan, r, own)
      PROVE  StockIsConserved'
  <2>0. /\ onHand' = [i \in Item |-> onHand[i] + AskedOf(plan, i)]
        /\ moved' = moved
    BY <1>3 DEF Receive, Stocked
  <2>a. received' = Arrived(plan) /\ plan \in Plan
    BY <1>3 DEF Receive, PlansWithin
  <2>b. Arrived(plan) \in [Line -> Nat]
    BY ArrivedWithin
  <2>1. /\ plan \in Plan /\ received' \in [Line -> Nat]
        /\ \A l \in Line: received'[l] = IF l \in DOMAIN plan THEN received[l] + plan[l]
                                                               ELSE received[l]
    BY <2>a, <2>b DEF Arrived
  <2>2. ASSUME NEW i \in Item
        PROVE  onHand'[i] = moved'[i] + SumFunctionOnSet(received', ItemLines(i))
    <3>1. SumFunctionOnSet(received', ItemLines(i)) =
            SumFunctionOnSet(received, ItemLines(i)) + AskedOf(plan, i)
      BY <1>t, <2>1, LinesGrow
    <3>2. AskedOf(plan, i) \in Nat
      BY <2>1, AskedIsNat
    <3>3. QED
      BY <1>t, <1>i, <1>s, <2>0, <3>1, <3>2
  <2>3. QED
    BY <2>2 DEF StockIsConserved, ItemLines
<1>4. ASSUME NEW o \in Order, NEW r, NEW own,
             NEW plan \in PlansWithin(o, received), Return(o, plan, r, own)
      PROVE  StockIsConserved'
  <2>0. /\ onHand' = [i \in Item |-> onHand[i] - AskedOf(plan, i)]
        /\ moved' = moved
    BY <1>4 DEF Return
  <2>1. /\ plan \in Plan /\ received' \in [Line -> Nat]
        /\ \A l \in Line: received[l] = IF l \in DOMAIN plan THEN received'[l] + plan[l]
                                                              ELSE received'[l]
    BY <1>4, ReturnLines DEF Return, PlansWithin
  <2>2. ASSUME NEW i \in Item
        PROVE  onHand'[i] = moved'[i] + SumFunctionOnSet(received', ItemLines(i))
    <3>1. SumFunctionOnSet(received, ItemLines(i)) =
            SumFunctionOnSet(received', ItemLines(i)) + AskedOf(plan, i)
      BY <1>t, <2>1, LinesGrow
    <3>2. AskedOf(plan, i) \in Nat
      BY <2>1, AskedIsNat
    <3>3. SumFunctionOnSet(received', ItemLines(i)) \in Nat
      <4>1. IsFiniteSet(ItemLines(i)) /\ \A l \in ItemLines(i): received'[l] \in Nat
        BY <2>1, LinesAreFinite, FS_Subset DEF ItemLines
      <4>2. QED
        BY <4>1, SumNat
    <3>4. QED
      BY <1>t, <1>i, <1>s, <2>0, <3>1, <3>2, <3>3
  <2>3. QED
    BY <2>2 DEF StockIsConserved, ItemLines
<1>5. QED
  BY <1>1, <1>2, <1>3, <1>4, WhoMoves

LEMMA StockInvariant == Spec => [](OrderInv /\ StockTypes)
<1>1. TypeOK => StockTypes
  BY TypeParts
<1>2. QED
  BY <1>1, TypeCorrect, OrdersInvariant, PTL

(* The warehouse holds what the orders received and what other moves brought, *)
(* for any number of lines per item, receipts, returns and other moves.      *)
THEOREM StockConserved == Spec => []StockIsConserved
<1>1. Init => StockIsConserved
  <2>. SUFFICES ASSUME Init, NEW i \in Item
                PROVE  onHand[i] = moved[i] + SumFunctionOnSet(received, ItemLines(i))
    BY DEF StockIsConserved, ItemLines
  <2>1. IsFiniteSet(ItemLines(i)) /\ {} \in SUBSET ItemLines(i)
    BY LinesAreFinite, FS_Subset DEF ItemLines
  <2>2. \A l \in ItemLines(i): received[l] = 0
    BY DEF Init, ItemLines
  <2>3. SumFunctionOnSet(received, ItemLines(i)) = SumFunctionOnSet(received, {})
    BY <2>1, <2>2, SumOfPart
  <2>4. SumFunctionOnSet(received, ItemLines(i)) = 0
    BY <2>3, SumEmpty
  <2>5. QED
    BY <2>4 DEF Init
<1>2. QED
  BY <1>1, StepKeepsConserved, StockInvariant, PTL DEF Spec

-----------------------------------------------------------------------------
(* The logs of receipts and returns.                                         *)

Named(log, l)  == {j \in DOMAIN log: l \in DOMAIN log[j].lines}
Column(log, l) == [k \in Named(log, l) |-> log[k].lines[l]]

LEMMA SumIsColumn ==
  ASSUME NEW log, NEW l
  PROVE  Sum(log, l) = SumFunctionOnSet(Column(log, l), Named(log, l))
<1>1. Sum(log, l) = SumFunction(Column(log, l))
  BY DEF Sum, Column, Named
<1>2. DOMAIN Column(log, l) = Named(log, l)
  BY DEF Column
<1>3. QED
  BY <1>1, <1>2 DEF SumFunction

LEMMA NamedIsFinite ==
  ASSUME NEW log \in Seq(Request), NEW l
  PROVE  /\ IsFiniteSet(Named(log, l)) /\ Named(log, l) \subseteq 1..Len(log)
         /\ \A k \in Named(log, l): log[k].lines[l] \in Nat
<1>1. IsFiniteSet(1..Len(log))
  BY FS_Interval
<1>2. Named(log, l) \subseteq 1..Len(log)
  BY DEF Named
<1>0. \A k \in DOMAIN log: log[k] \in Request
  OBVIOUS
<1>3. \A k \in DOMAIN log: log[k].lines \in Plan
  BY <1>0 DEF Request
<1>4. \A k \in Named(log, l): log[k].lines[l] \in Nat
  BY <1>3, PlanType DEF Named
<1>5. QED
  BY <1>1, <1>2, <1>4, FS_Subset

LEMMA SumIsNat ==
  ASSUME NEW log \in Seq(Request), NEW l
  PROVE  Sum(log, l) \in Nat
<1>1. \A k \in Named(log, l): Column(log, l)[k] \in Nat
  BY NamedIsFinite DEF Column
<1>2. QED
  BY <1>1, NamedIsFinite, SumNat, SumIsColumn

LEMMA SumOfNothing == \A l: Sum(<<>>, l) = 0
<1>1. \A l: Named(<<>>, l) = {}
  BY DEF Named
<1>2. QED
  BY <1>1, SumIsColumn, SumEmpty

(* A new request adds the quantity it names.                                 *)
LEMMA SumAppends ==
  ASSUME NEW log \in Seq(Request), NEW request \in Request, NEW l
  PROVE  Sum(Append(log, request), l) =
           Sum(log, l) + IF l \in DOMAIN request.lines THEN request.lines[l] ELSE 0
<1>. DEFINE n == Len(log) + 1
            more == Append(log, request)
            S == Named(log, l)
            f == Column(log, l)
            g == Column(more, l)
<1>1. /\ more \in Seq(Request) /\ DOMAIN more = DOMAIN log \cup {n} /\ n \notin DOMAIN log
      /\ \A k \in DOMAIN log: more[k] = log[k]
      /\ more[n] = request
  OBVIOUS
<1>2. IsFiniteSet(S) /\ n \notin S /\ \A k \in S: f[k] \in Int
  <2>1. IsFiniteSet(S) /\ S \subseteq DOMAIN log /\ \A k \in S: log[k].lines[l] \in Nat
    BY NamedIsFinite DEF Named
  <2>2. \A k \in S: f[k] = log[k].lines[l]
    BY DEF Column
  <2>. HIDE DEF S, f, n
  <2>3. QED
    BY <1>1, <2>1, <2>2
<1>3. Named(more, l) = IF l \in DOMAIN request.lines THEN S \cup {n} ELSE S
  BY <1>1 DEF Named
<1>4. /\ \A k \in S: g[k] = f[k]
      /\ l \in DOMAIN request.lines => g[n] = request.lines[l]
  BY <1>1, <1>3 DEF Column, Named
<1>5. request.lines \in Plan
  BY DEF Request
<1>6. Sum(more, l) = SumFunctionOnSet(g, Named(more, l)) /\ Sum(log, l) = SumFunctionOnSet(f, S)
  BY SumIsColumn
<1>7. SumFunctionOnSet(g, S) = SumFunctionOnSet(f, S)
  <2>. HIDE DEF S, f, g, more
  <2>1. QED
    BY <1>2, <1>4, SumSame
<1>8. SumFunctionOnSet(f, S) \in Int
  <2>. HIDE DEF S, f
  <2>1. QED
    BY <1>2, SumInt
<1>9. CASE l \in DOMAIN request.lines
  <2>1. request.lines[l] \in Int
    BY <1>5, <1>9, PlanType
  <2>2. SumFunctionOnSet(g, S \cup {n}) = g[n] + SumFunctionOnSet(g, S)
    <3>1. \A k \in S \cup {n}: g[k] \in Int
      BY <1>2, <1>4, <1>9, <2>1
    <3>. HIDE DEF S, g, n
    <3>2. QED
      BY <1>2, <3>1, SumAdd
  <2>. HIDE DEF S, f, g, n, more
  <2>3. Sum(more, l) = Sum(log, l) + request.lines[l]
    BY <1>3, <1>4, <1>6, <1>7, <1>8, <1>9, <2>1, <2>2
  <2>4. QED
    BY <1>9, <2>3 DEF more
<1>10. CASE l \notin DOMAIN request.lines
  <2>. HIDE DEF S, f, g, n, more
  <2>1. Sum(more, l) = Sum(log, l) + 0
    BY <1>3, <1>6, <1>7, <1>8, <1>10
  <2>2. QED
    BY <1>10, <2>1 DEF more
<1>11. QED
  BY <1>9, <1>10

LEMMA StepKeepsEvidence ==
  OrderInv /\ StockTypes /\ EvidenceAddsUp /\ [Next]_vars => EvidenceAddsUp'
<1>. SUFFICES ASSUME OrderInv, StockTypes, EvidenceAddsUp, [Next]_vars PROVE EvidenceAddsUp'
  OBVIOUS
<1>t. /\ receipts \in [Order -> Seq(Request)] /\ returns \in [Order -> Seq(Request)]
      /\ received \in [Line -> Nat]
      /\ \A l \in Line: LineOrder[l] \in Order
  BY OrdersHaveLines DEF OrderInv, OrderTypes, StockTypes
<1>e. \A l \in Line:
        received[l] = Sum(receipts[LineOrder[l]], l) - Sum(returns[LineOrder[l]], l)
  BY DEF EvidenceAddsUp
<1>s. \A l \in Line: /\ Sum(receipts[LineOrder[l]], l) \in Nat
                     /\ Sum(returns[LineOrder[l]], l) \in Nat
  BY <1>t, SumIsNat
<1>1. CASE UNCHANGED <<received, receipts, returns>>
  BY <1>1 DEF EvidenceAddsUp
<1>2. ASSUME NEW o \in Order, NEW r \in 1..MaxRequests, NEW own \in BOOLEAN,
             NEW plan \in PlansWithin(o, Remaining), Receive(o, plan, r, own)
      PROVE  EvidenceAddsUp'
  <2>. DEFINE request == [ref |-> r, own |-> own, lines |-> plan]
  <2>1. /\ receipts' = [receipts EXCEPT ![o] = Append(@, request)] /\ returns' = returns
    BY <1>2 DEF Receive
  <2>2. request \in Request /\ request.lines = plan
    BY RequestType
  <2>a. plan \in Plan /\ DOMAIN plan \subseteq Lines(o)
    BY DEF PlansWithin
  <2>b. received' = Arrived(plan)
    BY <1>2 DEF Receive
  <2>c. \A l \in Line: received'[l] = IF l \in DOMAIN plan THEN received[l] + plan[l]
                                                          ELSE received[l]
    BY <2>b DEF Arrived
  <2>3. /\ plan \in Plan /\ DOMAIN plan \subseteq Lines(o)
        /\ \A l \in Line: received'[l] = IF l \in DOMAIN plan THEN received[l] + plan[l]
                                                               ELSE received[l]
    BY <2>a, <2>c
  <2>. HIDE DEF request
  <2>4. ASSUME NEW l \in Line
        PROVE  received'[l] = Sum(receipts'[LineOrder[l]], l) - Sum(returns'[LineOrder[l]], l)
    <3>1. CASE LineOrder[l] = o
      <4>1. receipts'[o] = Append(receipts[o], request) /\ receipts[o] \in Seq(Request)
        BY <1>t, <2>1
      <4>2. Sum(receipts'[o], l) = Sum(receipts[o], l) + IF l \in DOMAIN plan THEN plan[l] ELSE 0
        BY <2>2, <4>1, SumAppends
      <4>3. l \in DOMAIN plan => plan[l] \in Nat
        BY <2>3, PlanType
      <4>4. QED
        BY <1>t, <1>e, <1>s, <2>1, <2>3, <3>1, <4>2, <4>3
    <3>2. CASE LineOrder[l] # o
      <4>1. receipts'[LineOrder[l]] = receipts[LineOrder[l]] /\ l \notin DOMAIN plan
        BY <1>t, <2>1, <2>3, <3>2 DEF Lines
      <4>2. QED
        BY <1>e, <2>1, <2>3, <4>1
    <3>3. QED
      BY <3>1, <3>2
  <2>5. QED
    BY <2>4 DEF EvidenceAddsUp
<1>3. ASSUME NEW o \in Order, NEW r \in 1..MaxRequests, NEW own \in BOOLEAN,
             NEW plan \in PlansWithin(o, received), Return(o, plan, r, own)
      PROVE  EvidenceAddsUp'
  <2>. DEFINE request == [ref |-> r, own |-> own, lines |-> plan]
  <2>1. /\ returns' = [returns EXCEPT ![o] = Append(@, request)] /\ receipts' = receipts
    BY <1>3 DEF Return
  <2>2. request \in Request /\ request.lines = plan
    BY RequestType
  <2>3. plan \in Plan /\ DOMAIN plan \subseteq Lines(o) /\ received' \in [Line -> Nat]
    BY <1>3, LeftWithin DEF PlansWithin, Return
  <2>r. \A l \in Line: received[l] = IF l \in DOMAIN plan THEN received'[l] + plan[l]
                                                           ELSE received'[l]
    BY <1>3, ReturnLines DEF Return
  <2>. HIDE DEF request
  <2>4. ASSUME NEW l \in Line
        PROVE  received'[l] = Sum(receipts'[LineOrder[l]], l) - Sum(returns'[LineOrder[l]], l)
    <3>1. CASE LineOrder[l] = o
      <4>1. returns'[o] = Append(returns[o], request) /\ returns[o] \in Seq(Request)
        BY <1>t, <2>1
      <4>2. Sum(returns'[o], l) = Sum(returns[o], l) + IF l \in DOMAIN plan THEN plan[l] ELSE 0
        BY <2>2, <4>1, SumAppends
      <4>3. l \in DOMAIN plan => plan[l] \in Nat
        BY <2>3, PlanType
      <4>4. CASE l \in DOMAIN plan
        <5>1. /\ Sum(returns'[o], l) = Sum(returns[o], l) + plan[l]
              /\ received[l] = received'[l] + plan[l]
          BY <2>r, <4>2, <4>4
        <5>2. received[l] = Sum(receipts[o], l) - Sum(returns[o], l)
          BY <1>e, <3>1
        <5>3. /\ received'[l] \in Nat /\ plan[l] \in Nat
              /\ Sum(receipts[o], l) \in Nat /\ Sum(returns[o], l) \in Nat
          BY <1>s, <2>3, <3>1, <4>3, <4>4
        <5>4. received'[l] = Sum(receipts[o], l) - Sum(returns'[o], l)
          BY <5>1, <5>2, <5>3
        <5>5. QED
          BY <2>1, <3>1, <5>4
      <4>5. CASE l \notin DOMAIN plan
        <5>1. Sum(returns'[o], l) = Sum(returns[o], l) /\ received[l] = received'[l]
          BY <1>s, <2>r, <3>1, <4>2, <4>5
        <5>2. QED
          BY <1>e, <2>1, <3>1, <5>1
      <4>6. QED
        BY <4>4, <4>5
    <3>2. CASE LineOrder[l] # o
      <4>1. returns'[LineOrder[l]] = returns[LineOrder[l]] /\ l \notin DOMAIN plan
        BY <1>t, <2>1, <2>3, <3>2 DEF Lines
      <4>2. QED
        BY <1>e, <2>1, <2>r, <4>1
    <3>3. QED
      BY <3>1, <3>2
  <2>5. QED
    BY <2>4 DEF EvidenceAddsUp
<1>4. QED
  BY <1>1, <1>2, <1>3, WhoMoves

(* The received quantity of a line is what its receipts brought less what its *)
(* returns took, however long the logs are.                                  *)
THEOREM QuantitiesHaveEvidence == Spec => []EvidenceAddsUp
<1>1. Init => EvidenceAddsUp
  <2>. SUFFICES ASSUME Init, NEW l \in Line
                PROVE  received[l] = Sum(receipts[LineOrder[l]], l) - Sum(returns[LineOrder[l]], l)
    BY DEF EvidenceAddsUp
  <2>1. received[l] = 0 /\ receipts[LineOrder[l]] = <<>> /\ returns[LineOrder[l]] = <<>>
    BY OrdersHaveLines DEF Init
  <2>2. QED
    BY <2>1, SumOfNothing
<1>2. QED
  BY <1>1, StepKeepsEvidence, StockInvariant, PTL DEF Spec

-----------------------------------------------------------------------------
(* The references of a log.                                                  *)

RefsBefore(log, k) == {log[j].ref: j \in 1..(k - 1)}

(* What was true of a reference when its request was written: a caller's was  *)
(* new, a derived one was the number of those in use and one.                *)
LogInv(log) ==
  \A k \in DOMAIN log:
    IF log[k].own THEN log[k].ref \notin RefsBefore(log, k)
                  ELSE log[k].ref = Cardinality(RefsBefore(log, k)) + 1

LEMMA RefsBeforeFinite == \A log: \A k \in Nat: IsFiniteSet(RefsBefore(log, k))
<1>. SUFFICES ASSUME NEW log, NEW k \in Nat PROVE IsFiniteSet(RefsBefore(log, k))
  OBVIOUS
<1>. DEFINE f == [j \in 1..(k - 1) |-> log[j].ref]
<1>1. IsFiniteSet(1..(k - 1))
  BY FS_Interval
<1>2. f \in Surjection(1..(k - 1), RefsBefore(log, k))
  BY DEF RefsBefore, Surjection
<1>3. QED
  BY <1>1, <1>2, FS_Surjection

(* The first request of a reference.                                         *)
LEMMA FirstUse ==
  ASSUME NEW log, NEW k \in Nat, k > 0
  PROVE  \E i \in 1..k: log[i].ref = log[k].ref /\ log[i].ref \notin RefsBefore(log, i)
<1>. DEFINE B == {s \in SUBSET (1..k): \E i \in 1..k: s = 1..i /\ log[i].ref = log[k].ref}
<1>0. 1..k \in B
  OBVIOUS
<1>1. B # {} /\ B \in SUBSET (SUBSET (1..k))
  BY <1>0
<1>2. PICK s \in B: \A t \in B: t \subseteq s => t = s
  <2>. DEFINE S == 1..k
  <2>. HIDE DEF B, S
  <2>1. B # {} /\ B \in SUBSET (SUBSET S) /\ IsFiniteSet(S)
    BY <1>1, FS_Interval DEF S
  <2>2. QED
    BY <2>1, MinimalSubset
<1>3. PICK i \in 1..k: s = 1..i /\ log[i].ref = log[k].ref
  OBVIOUS
<1>4. ASSUME NEW j \in 1..(i - 1), log[j].ref = log[i].ref PROVE FALSE
  <2>1. 1..j \in B /\ 1..j \subseteq s
    BY <1>3, <1>4
  <2>2. i \in s /\ i \notin 1..j
    BY <1>3
  <2>3. QED
    BY <1>2, <2>1, <2>2
<1>5. log[i].ref \notin RefsBefore(log, i)
  BY <1>4 DEF RefsBefore
<1>6. QED
  BY <1>3, <1>5

(* If a derived reference was taken, then by a caller: the first request that *)
(* had it, were it derived too, would leave one reference more in use.       *)
LEMMA LogTellsApart ==
  ASSUME NEW log \in Seq(Request), LogInv(log),
         NEW j \in DOMAIN log, NEW k \in DOMAIN log, j < k, log[j].ref = log[k].ref
  PROVE  ~log[k].own /\ \E i \in 1..j: log[i].own /\ log[i].ref = log[k].ref
<1>1. /\ j \in Nat /\ k \in Nat /\ j > 0 /\ j <= k - 1
      /\ \A i \in 1..j: i \in DOMAIN log
      /\ j \in 1..(k - 1)
  OBVIOUS
<1>2. log[k].ref \in RefsBefore(log, k)
  BY <1>1 DEF RefsBefore
<1>3. ~log[k].own /\ log[k].ref = Cardinality(RefsBefore(log, k)) + 1
  BY <1>2 DEF LogInv
<1>4. PICK i \in 1..j: log[i].ref = log[j].ref /\ log[i].ref \notin RefsBefore(log, i)
  BY <1>1, FirstUse
<1>5. ASSUME ~log[i].own PROVE FALSE
  <2>. DEFINE A == RefsBefore(log, i)
              C == RefsBefore(log, k)
              r == log[k].ref
  <2>1. r = Cardinality(A) + 1
    BY <1>1, <1>4, <1>5 DEF LogInv
  <2>2. IsFiniteSet(A) /\ IsFiniteSet(C) /\ i \in Nat
    BY <1>1, RefsBeforeFinite
  <2>3. A \cup {r} \subseteq C
    BY <1>1, <1>2 DEF RefsBefore
  <2>4. r \notin A
    BY <1>4
  <2>5. r = Cardinality(C) + 1
    BY <1>3
  <2>. HIDE DEF A, C, r
  <2>6. Cardinality(A \cup {r}) = Cardinality(A) + 1 /\ IsFiniteSet(A \cup {r})
    BY <2>2, <2>4, FS_AddElement
  <2>7. Cardinality(A \cup {r}) <= Cardinality(C)
    BY <2>2, <2>3, FS_Subset
  <2>8. Cardinality(A) \in Nat /\ Cardinality(C) \in Nat
    BY <2>2, FS_CardinalityType
  <2>9. QED
    BY <2>1, <2>5, <2>6, <2>7, <2>8
<1>6. QED
  BY <1>3, <1>4, <1>5

LEMMA LogAppends ==
  ASSUME NEW log \in Seq(Request), LogInv(log), NEW request \in Request,
         MayRefer(log, request.ref, request.own)
  PROVE  LogInv(Append(log, request))
<1>. DEFINE n == Len(log) + 1
            more == Append(log, request)
<1>1. /\ DOMAIN more = DOMAIN log \cup {n}
      /\ \A k \in DOMAIN log: more[k] = log[k]
      /\ more[n] = request /\ DOMAIN log = 1..Len(log) /\ Len(log) \in Nat
  OBVIOUS
<1>. HIDE DEF more
<1>2. \A k \in DOMAIN log: \A j \in 1..(k - 1): j \in DOMAIN log
  BY <1>1
<1>3. \A k \in DOMAIN log: RefsBefore(more, k) = RefsBefore(log, k)
  BY <1>1, <1>2 DEF RefsBefore
<1>4. RefsBefore(more, n) = References(log)
  BY <1>1 DEF RefsBefore, References
<1>5. IF more[n].own THEN more[n].ref \notin RefsBefore(more, n)
                     ELSE more[n].ref = Cardinality(RefsBefore(more, n)) + 1
  BY <1>1, <1>4 DEF MayRefer
<1>. HIDE DEF n
<1>6. QED
  BY <1>1, <1>3, <1>5 DEF LogInv, more

LEMMA LogsAppend ==
  ASSUME NEW logs \in [Order -> Seq(Request)], \A q \in Order: LogInv(logs[q]),
         NEW o \in Order, NEW request \in Request, MayRefer(logs[o], request.ref, request.own),
         NEW more, more = [logs EXCEPT ![o] = Append(@, request)]
  PROVE  \A q \in Order: LogInv(more[q])
<1>1. \A q \in Order: more[q] = IF q = o THEN Append(logs[o], request) ELSE logs[q]
  OBVIOUS
<1>2. LogInv(Append(logs[o], request))
  BY LogAppends
<1>3. QED
  BY <1>1, <1>2

LogsInv == \A o \in Order: LogInv(receipts[o]) /\ LogInv(returns[o])

LEMMA StepKeepsLogs == OrderInv /\ StockTypes /\ LogsInv /\ [Next]_vars => LogsInv'
<1>. SUFFICES ASSUME OrderInv, StockTypes, LogsInv, [Next]_vars PROVE LogsInv'
  OBVIOUS
<1>t. receipts \in [Order -> Seq(Request)] /\ returns \in [Order -> Seq(Request)]
  BY DEF StockTypes
<1>1. CASE UNCHANGED <<receipts, returns>>
  BY <1>1 DEF LogsInv
<1>3. ASSUME NEW o \in Order, NEW r \in 1..MaxRequests, NEW own \in BOOLEAN,
             NEW plan \in PlansWithin(o, Remaining), Receive(o, plan, r, own)
      PROVE  LogsInv'
  <2>. DEFINE request == [ref |-> r, own |-> own, lines |-> plan]
  <2>1. /\ receipts' = [receipts EXCEPT ![o] = Append(@, request)]
        /\ MayRefer(receipts[o], request.ref, request.own) /\ returns' = returns
    BY <1>3 DEF Receive
  <2>2. request \in Request
    BY RequestType
  <2>3. \A q \in Order: LogInv(receipts[q])
    BY DEF LogsInv
  <2>. HIDE DEF request
  <2>4. \A q \in Order: LogInv(receipts'[q])
    BY <1>t, <2>1, <2>2, <2>3, LogsAppend
  <2>5. QED
    BY <2>1, <2>4 DEF LogsInv
<1>4. ASSUME NEW o \in Order, NEW r \in 1..MaxRequests, NEW own \in BOOLEAN,
             NEW plan \in PlansWithin(o, received), Return(o, plan, r, own)
      PROVE  LogsInv'
  <2>. DEFINE request == [ref |-> r, own |-> own, lines |-> plan]
  <2>1. /\ returns' = [returns EXCEPT ![o] = Append(@, request)]
        /\ MayRefer(returns[o], request.ref, request.own) /\ receipts' = receipts
    BY <1>4 DEF Return
  <2>2. request \in Request
    BY RequestType
  <2>3. \A q \in Order: LogInv(returns[q])
    BY DEF LogsInv
  <2>. HIDE DEF request
  <2>4. \A q \in Order: LogInv(returns'[q])
    BY <1>t, <2>1, <2>2, <2>3, LogsAppend
  <2>5. QED
    BY <2>1, <2>4 DEF LogsInv
<1>5. QED
  BY <1>1, <1>3, <1>4, WhoMoves

(* A new request is not taken for an old one by its reference, unless the    *)
(* caller of an earlier one wrote what the server derives now.               *)
THEOREM ReferencesApart == Spec => []ReferencesTellApart
<1>1. Init => LogsInv
  BY DEF Init, LogsInv, LogInv
<1>2. StockTypes /\ LogsInv => ReferencesTellApart
  <2>. SUFFICES ASSUME StockTypes, LogsInv, NEW o \in Order, NEW log \in {receipts[o], returns[o]},
                       NEW j \in DOMAIN log, NEW k \in DOMAIN log, j < k, log[j].ref = log[k].ref
                PROVE  ~log[k].own /\ \E i \in 1..j: log[i].own /\ log[i].ref = log[k].ref
    BY DEF ReferencesTellApart
  <2>1. log \in Seq(Request) /\ LogInv(log)
    BY DEF StockTypes, LogsInv
  <2>2. QED
    BY <2>1, LogTellsApart
<1>3. QED
  BY <1>1, <1>2, StepKeepsLogs, StockInvariant, PTL DEF Spec

-----------------------------------------------------------------------------
(* The payables.                                                             *)

(* The parts of PayablesComplete while a payment runs.  What the running      *)
(* payment has not written yet is what it is going to write; a payment that   *)
(* is neither booked nor running is lost, and there is a crash for each.      *)
Running(p) == cpu.at \in {"status", "ledger"} /\ cpu.payment = p

Lost == {p \in payments: ~Booked(p) /\ ~Running(p)}

BillSettled(b) == bill[b].status = IF PaidTotal(b) = 0 THEN "open" ELSE StatusByPayments(b)

StatusBooks ==
  \A b \in Bill: bill[b].status # "none" =>
    \/ BillSettled(b)
    \/ cpu.at = "status" /\ cpu.payment.bill = b
    \/ \E p \in Lost: p.bill = b

PayablesInv ==
  /\ IsFiniteSet(payments)
  /\ \A p \in payments: bill[p.bill].status # "none"
  /\ \A p: Booked(p) => p \in payments
  /\ cpu.at \in {"status", "ledger"} => cpu.payment \in payments /\ ~Booked(cpu.payment)
  /\ Cardinality(Lost) <= crashes
  /\ StatusBooks

PaymentsOf(b) == {q \in payments: q.bill = b}

LEMMA PaidTotalIsNat ==
  ASSUME payments \subseteq Payment, IsFiniteSet(payments), NEW b
  PROVE  /\ PaidTotal(b) \in Nat
         /\ PaymentsOf(b) = {} => PaidTotal(b) = 0
         /\ PaymentsOf(b) # {} => PaidTotal(b) > 0
<1>1. IsFiniteSet(PaymentsOf(b))
  BY FS_Subset DEF PaymentsOf
<1>2. \A p \in PaymentsOf(b): p.amount \in Nat /\ p.amount > 0
  <2>1. \A a \in Amount: a \in Nat /\ a > 0
    BY QuantitiesArePositive
  <2>2. QED
    BY <2>1 DEF PaymentsOf, Payment
<1>3. PaidTotal(b) = SumFunction([p \in PaymentsOf(b) |-> p.amount])
  BY DEF PaidTotal, PaymentsOf
<1>4. QED
  BY <1>1, <1>2, <1>3, AmountsAddUp

(* A bill that appears was never paid.                                       *)
LEMMA BillKeepsPayables ==
  ASSUME OrderTypes, PayableTypes, PayablesInv, NEW b \in Bill, NEW o, NEW p,
         PostBill(b, o, p), UNCHANGED <<payments, cpu, crashes>>
  PROVE  PayablesInv'
<1>1. /\ bill[b].status = "none" /\ journal \subseteq journal'
      /\ \A c \in Bill: bill'[c] = IF c = b THEN [status |-> "open", order |-> o, period |-> p]
                                            ELSE bill[c]
  BY DEF PostBill, OrderTypes
<1>2. payments \subseteq Payment /\ \A q \in payments: q.bill \in Bill
  BY DEF PayableTypes, Payment
<1>3. \A c: PaidTotal(c)' = PaidTotal(c) /\ StatusByPayments(c)' = StatusByPayments(c)
  BY DEF PaidTotal, StatusByPayments
<1>4. PaidTotal(b) = 0
  <2>1. PaymentsOf(b) = {}
    BY <1>1 DEF PaymentsOf, PayablesInv
  <2>2. QED
    BY <1>2, <2>1, PaidTotalIsNat DEF PayablesInv
<1>5. \A q \in payments': bill'[q.bill].status # "none"
  BY <1>1, <1>2 DEF PayablesInv
<1>6. \A q: Booked(q)' <=> Booked(q)
  BY DEF PostBill, Booked
<1>7. Lost' = Lost
  BY <1>6 DEF Lost, Running
<1>8. StatusBooks'
  <2>1. ASSUME NEW c \in Bill, bill'[c].status # "none"
        PROVE  \/ bill'[c].status = IF PaidTotal(c) = 0 THEN "open" ELSE StatusByPayments(c)
               \/ cpu.at = "status" /\ cpu.payment.bill = c
               \/ \E q \in Lost: q.bill = c
    BY <1>1, <1>4, <2>1 DEF PayablesInv, StatusBooks, BillSettled
  <2>2. QED
    BY <1>3, <1>7, <2>1 DEF StatusBooks, BillSettled
<1>9. QED
  BY <1>5, <1>6, <1>7, <1>8 DEF PayablesInv

LEMMA PayBillKeepsPayables ==
  ASSUME OrderTypes, PayableTypes, PayablesInv,
         NEW b \in Bill, NEW r \in Reference, NEW a \in Amount, NEW p \in Period,
         PayBill(b, r, a, p)
  PROVE  PayablesInv'
<1>. DEFINE q == [bill |-> b, ref |-> r, amount |-> a, period |-> p]
<1>1. /\ cpu = Idle /\ q \notin payments /\ bill[b].status # "none"
      /\ payments' = payments \cup {q} /\ cpu' = [at |-> "status", payment |-> q]
      /\ UNCHANGED <<bill, journal, crashes>>
  BY DEF PayBill
<1>2. q.bill = b
  OBVIOUS
<1>. HIDE DEF q
<1>3. IsFiniteSet(payments')
  BY <1>1, FS_AddElement DEF PayablesInv
<1>4. \A c: c # b => PaidTotal(c)' = PaidTotal(c)
  <2>1. \A c: c # b => {s \in payments': s.bill = c} = {s \in payments: s.bill = c}
    BY <1>1, <1>2
  <2>2. QED
    BY <2>1 DEF PaidTotal
<1>5. /\ \A s: Booked(s)' <=> Booked(s)
      /\ ~Booked(q)
  BY <1>1 DEF Booked, PayablesInv
<1>6. Lost' = Lost
  BY <1>1, <1>5 DEF Lost, Running, Idle
<1>7. StatusBooks'
  <2>1. ASSUME NEW c \in Bill, bill'[c].status # "none", c # b
        PROVE  BillSettled(c)' \/ \E s \in Lost: s.bill = c
    <3>1. BillSettled(c) \/ \E s \in Lost: s.bill = c
      BY <1>1, <2>1 DEF PayablesInv, StatusBooks, Idle
    <3>2. PaidTotal(c)' = PaidTotal(c)
      BY <1>4, <2>1
    <3>3. QED
      BY <1>1, <3>1, <3>2 DEF BillSettled, StatusByPayments
  <2>2. QED
    BY <1>1, <1>2, <1>6, <2>1 DEF StatusBooks
<1>8. QED
  BY <1>1, <1>2, <1>3, <1>5, <1>6, <1>7 DEF PayablesInv

LEMMA StatusKeepsPayables ==
  ASSUME OrderTypes, PayableTypes, PayablesInv, PayBillStatus
  PROVE  PayablesInv'
<1>1. /\ cpu.at = "status" /\ cpu'.at = "ledger" /\ cpu'.payment = cpu.payment
      /\ UNCHANGED <<payments, journal, crashes>>
  BY DEF PayBillStatus, PayableTypes, Idle
<1>2. cpu.payment \in payments /\ cpu.payment.bill \in Bill
  BY <1>1 DEF PayablesInv, PayableTypes, Payment
<1>3. PICK b \in {cpu.payment.bill}: bill' = [bill EXCEPT ![b].status = StatusByPayments(b)]
  BY DEF PayBillStatus
<1>4. \A c \in Bill: bill'[c].status = IF c = b THEN StatusByPayments(b) ELSE bill[c].status
  <2>1. \A row \in BillRow: \A s: [row EXCEPT !.status = s].status = s
    BY DEF BillRow
  <2>2. QED
    BY <1>3, <2>1 DEF OrderTypes
<1>5. \A c: PaidTotal(c)' = PaidTotal(c) /\ StatusByPayments(c)' = StatusByPayments(c)
  BY <1>1 DEF PaidTotal, StatusByPayments
<1>6. PaidTotal(b) > 0 /\ PaidTotal(b) \in Nat
  <2>1. cpu.payment \in PaymentsOf(b)
    BY <1>2, <1>3 DEF PaymentsOf
  <2>2. QED
    BY <2>1, PaidTotalIsNat DEF PayablesInv, PayableTypes
<1>7. \A s \in payments: s.bill \in Bill /\ bill'[s.bill].status # "none"
  <2>1. StatusByPayments(b) # "none"
    BY DEF StatusByPayments
  <2>2. QED
    BY <1>4, <2>1 DEF PayablesInv, PayableTypes, Payment
<1>8. \A s: Booked(s)' <=> Booked(s)
  BY <1>1 DEF Booked
<1>9. Lost' = Lost
  BY <1>1, <1>8 DEF Lost, Running
<1>10. StatusBooks'
  <2>1. ASSUME NEW c \in Bill, bill'[c].status # "none"
        PROVE  \/ bill'[c].status = IF PaidTotal(c) = 0 THEN "open" ELSE StatusByPayments(c)
               \/ \E s \in Lost: s.bill = c
    <3>1. CASE c = b
      BY <1>4, <1>6, <3>1
    <3>2. CASE c # b
      BY <1>3, <1>4, <2>1, <3>2 DEF PayablesInv, StatusBooks, BillSettled
    <3>3. QED
      BY <3>1, <3>2
  <2>2. QED
    BY <1>5, <1>9, <2>1 DEF StatusBooks, BillSettled
<1>11. QED
  BY <1>1, <1>2, <1>7, <1>8, <1>9, <1>10 DEF PayablesInv

(* What the process was at when it died is what is lost.                     *)
LEMMA CrashKeepsPayables ==
  ASSUME PayableTypes, PayablesInv, Crash
  PROVE  PayablesInv'
<1>1. /\ cpu.at \in {"status", "ledger"} /\ cpu'.at = "idle" /\ crashes' = crashes + 1
      /\ UNCHANGED <<bill, payments, journal>>
  BY DEF Crash, apVars, Idle, PayableTypes
<1>2. PICK q \in payments: q = cpu.payment
  BY <1>1 DEF PayablesInv
<1>3. \A s: Booked(s)' <=> Booked(s)
  BY <1>1 DEF Booked
<1>4. Lost' = Lost \cup {q}
  BY <1>1, <1>2, <1>3 DEF Lost, Running, PayablesInv
<1>5. IsFiniteSet(Lost)
  BY FS_Subset DEF Lost, PayablesInv
<1>6. Cardinality(Lost') <= crashes'
  <2>1. Cardinality(Lost) \in Nat /\ crashes \in Nat
    BY <1>5, FS_CardinalityType, BoundsAreNatural DEF PayableTypes
  <2>2. Cardinality(Lost \cup {q}) = IF q \in Lost THEN Cardinality(Lost) ELSE Cardinality(Lost) + 1
    BY <1>5, FS_AddElement
  <2>3. Cardinality(Lost \cup {q}) <= crashes + 1
    BY <2>1, <2>2 DEF PayablesInv
  <2>4. QED
    BY <1>1, <1>4, <2>3
<1>7. StatusBooks'
  <2>1. \A b: BillSettled(b)' <=> BillSettled(b)
    BY <1>1 DEF BillSettled, PaidTotal, StatusByPayments
  <2>2. QED
    BY <1>1, <1>2, <1>4, <2>1 DEF PayablesInv, StatusBooks
<1>8. QED
  BY <1>1, <1>3, <1>6, <1>7 DEF PayablesInv

(* The entry that a payment was waiting for.                                 *)
LEMMA LedgerKeepsPayables ==
  ASSUME PayableTypes, PayablesInv, PayBillLedger
  PROVE  PayablesInv'
<1>1. /\ cpu.at = "ledger" /\ cpu'.at = "idle" /\ UNCHANGED <<bill, payments, crashes>>
      /\ journal' = journal \cup {[kind |-> "payment", payment |-> cpu.payment]}
  BY DEF PayBillLedger, Idle
<1>2. PICK q \in payments: q = cpu.payment
  BY <1>1 DEF PayablesInv
<1>3. \A s: Booked(s)' <=> Booked(s) \/ s = q
  BY <1>1, <1>2 DEF Booked
<1>4. Lost' = Lost
  BY <1>1, <1>2, <1>3 DEF Lost, Running
<1>5. StatusBooks'
  <2>1. \A b: BillSettled(b)' <=> BillSettled(b)
    BY <1>1 DEF BillSettled, PaidTotal, StatusByPayments
  <2>2. QED
    BY <1>1, <1>4, <2>1 DEF PayablesInv, StatusBooks
<1>6. QED
  BY <1>1, <1>2, <1>3, <1>4, <1>5 DEF PayablesInv

LEMMA StepKeepsPayablesInv ==
  OrderTypes /\ PayableTypes /\ PayablesInv /\ [Next]_vars => PayablesInv'
<1>. SUFFICES ASSUME OrderTypes, PayableTypes, PayablesInv, [Next]_vars PROVE PayablesInv'
  OBVIOUS
<1>1. CASE UNCHANGED <<bill, payments, journal, cpu, crashes>>
  <2>1. \A s: Booked(s)' <=> Booked(s)
    BY <1>1 DEF Booked
  <2>2. Lost' = Lost /\ \A b: BillSettled(b)' <=> BillSettled(b)
    BY <1>1, <2>1 DEF Lost, Running, BillSettled, PaidTotal, StatusByPayments
  <2>3. QED
    BY <1>1, <2>1, <2>2 DEF PayablesInv, StatusBooks
<1>2. QED
  BY <1>1, WhoPays, BillKeepsPayables, PayBillKeepsPayables, StatusKeepsPayables,
     LedgerKeepsPayables, CrashKeepsPayables

(* No sequence of bills, payments and repeated requests leaves a payment      *)
(* outside the ledger, but one for each crash, or a bill whose payments are   *)
(* all booked with a status that they do not give it.                        *)
THEOREM PayablesAgree == Spec => []PayablesComplete
<1>1. Init => PayablesInv
  <2>. SUFFICES ASSUME Init PROVE PayablesInv
    OBVIOUS
  <2>1. Lost = {} /\ payments = {} /\ crashes = 0 /\ cpu.at = "idle"
    BY DEF Init, Lost, Idle
  <2>2. \A p: ~Booked(p)
    BY DEF Init, Booked
  <2>3. \A b \in Bill: bill[b].status = "none"
    BY DEF Init
  <2>4. QED
    BY <2>1, <2>2, <2>3, FS_EmptySet DEF PayablesInv, StatusBooks
<1>2. PayablesInv => PayablesComplete
  <2>. SUFFICES ASSUME PayablesInv, cpu = Idle
                PROVE  /\ Cardinality({p \in payments: ~Booked(p)}) <= crashes
                       /\ \A b \in Bill:
                            bill[b].status # "none" /\ (\A p \in payments: p.bill = b => Booked(p)) =>
                              BillSettled(b)
    BY DEF PayablesComplete, BillSettled
  <2>1. Lost = {p \in payments: ~Booked(p)}
    BY DEF Lost, Running, Idle
  <2>2. QED
    BY <2>1 DEF PayablesInv, StatusBooks, Idle
<1>3. TypeOK => OrderTypes /\ PayableTypes
  BY TypeParts
<1>4. QED
  BY <1>1, <1>2, <1>3, StepKeepsPayablesInv, TypeCorrect, PTL DEF Spec

=============================================================================
