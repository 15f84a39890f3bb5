------------------------ MODULE WebhookDeliveryProofs ------------------------
(***************************************************************************)
(* What TLAPS proves of the delivery log, for any number of events,         *)
(* endpoints and retries of the owner.                                      *)
(***************************************************************************)
EXTENDS WebhookDelivery, FiniteSetTheorems, TLAPS

(* An attempt that began is for a delivery that has a row.                   *)
Begun(a) == attempt[a].at # "none"

LogInv ==
  /\ TypeOK
  /\ \A a \in Attempt: Begun(a) => attempt[a].delivery \in Delivery
                                   /\ row[attempt[a].delivery] # None
  /\ \A a \in Attempt: attempt[a].at = "ok" => attempt[a].delivery \in received
  /\ DeliveredWasReceived

LEMMA PostType ==
  ASSUME attempt \in [Attempt -> AttemptState], NEW a \in Attempt, NEW d \in Delivery,
         NEW count \in Nat, Post(a, d, count)
  PROVE  /\ attempt' \in [Attempt -> AttemptState]
         /\ attempt'[a] = [at |-> "waiting", delivery |-> d, count |-> count]
         /\ \A b \in Attempt \ {a}: attempt'[b] = attempt[b]
<1>1. [at |-> "waiting", delivery |-> d, count |-> count] \in AttemptState
  BY DEF AttemptState
<1> QED  BY <1>1 DEF Post

(* Changing the stage of an attempt changes nothing else of it.              *)
LEMMA StageType ==
  ASSUME attempt \in [Attempt -> AttemptState], NEW a \in Attempt,
         NEW stage \in {"ok", "error", "over"}, attempt' = [attempt EXCEPT ![a].at = stage]
  PROVE  /\ attempt' \in [Attempt -> AttemptState]
         /\ attempt'[a].at = stage
         /\ attempt'[a].delivery = attempt[a].delivery /\ attempt'[a].count = attempt[a].count
         /\ \A b \in Attempt \ {a}: attempt'[b] = attempt[b]
<1>1. attempt[a] \in AttemptState  OBVIOUS
<1>2. [attempt[a] EXCEPT !.at = stage] \in AttemptState  BY <1>1 DEF AttemptState
<1>3. attempt' = [attempt EXCEPT ![a] = [attempt[a] EXCEPT !.at = stage]]  OBVIOUS
<1>4. attempt'[a] = [attempt[a] EXCEPT !.at = stage]  BY <1>3
<1>5. [attempt[a] EXCEPT !.at = stage].at = stage
      /\ [attempt[a] EXCEPT !.at = stage].delivery = attempt[a].delivery
      /\ [attempt[a] EXCEPT !.at = stage].count = attempt[a].count
  BY <1>1 DEF AttemptState
<1> QED  BY <1>2, <1>3, <1>4, <1>5

(* A crash loses what is in flight and nothing else.                         *)
LEMMA CrashType ==
  ASSUME attempt \in [Attempt -> AttemptState], Crash
  PROVE  /\ attempt' \in [Attempt -> AttemptState]
         /\ \A a \in Attempt:
              /\ attempt'[a].delivery = attempt[a].delivery
              /\ attempt'[a].count = attempt[a].count
              /\ attempt'[a].at = IF InFlight(a) THEN "lost" ELSE attempt[a].at
<1>1. ASSUME NEW a \in Attempt
      PROVE  LET lost == [attempt[a] EXCEPT !.at = "lost"] IN
             /\ lost \in AttemptState
             /\ lost.delivery = attempt[a].delivery /\ lost.count = attempt[a].count
             /\ lost.at = "lost"
  <2>1. attempt[a] \in AttemptState  OBVIOUS
  <2> QED  BY <2>1 DEF AttemptState
<1>2. attempt' = [a \in Attempt |-> IF InFlight(a) THEN [attempt[a] EXCEPT !.at = "lost"]
                                                   ELSE attempt[a]]
  BY DEF Crash
<1> QED  BY <1>1, <1>2

LEMMA InsertType ==
  ASSUME LogInv, NEW e \in Event, NEW n \in Endpoint, Deliver(e, n)
  PROVE  /\ <<e, n>> \in Delivery /\ <<e, n>> \in Attempt
         /\ row[<<e, n>>] = None
         /\ row' \in [Delivery -> Row \cup {None}]
         /\ row'[<<e, n>>] = [status |-> "pending", count |-> 0, delivered |-> FALSE]
         /\ \A d \in Delivery \ {<<e, n>>}: row'[d] = row[d]
         /\ Post(<<e, n>>, <<e, n>>, 0)
         /\ UNCHANGED received
<1>1. <<e, n>> \in Delivery /\ <<e, n>> \in Attempt  BY DEF Delivery, Attempt
<1>2. row[<<e, n>>] = None  BY DEF Deliver, IsNext, Untried
<1>3. [status |-> "pending", count |-> 0, delivered |-> FALSE] \in Row  BY DEF Row
<1>4. row' = [row EXCEPT ![<<e, n>>] = [status |-> "pending", count |-> 0, delivered |-> FALSE]]
  BY DEF Deliver, InsertDelivery
<1>5. Post(<<e, n>>, <<e, n>>, 0) /\ UNCHANGED received  BY DEF Deliver, InsertDelivery
<1> QED  BY <1>1, <1>2, <1>3, <1>4, <1>5 DEF LogInv, TypeOK

(* What the end of an attempt makes of the row of its delivery.              *)
LEMMA RecordType ==
  ASSUME LogInv, NEW a \in Attempt, Record(a)
  PROVE  LET d == attempt[a].delivery IN
         /\ d \in Delivery /\ row[d] \in Row
         /\ row' \in [Delivery -> Row \cup {None}]
         /\ row'[d] \in Row
         /\ row'[d].status = IF attempt[a].at = "ok" THEN "succeeded" ELSE "failed"
         /\ row'[d].count = attempt[a].count + 1
         /\ row'[d].delivered = (attempt[a].at = "ok" \/ row[d].delivered)
         /\ \A c \in Delivery \ {d}: row'[c] = row[c]
<1> DEFINE d == attempt[a].delivery
<1>1. d \in Delivery /\ row[d] # None  BY DEF LogInv, Record, Begun
<1>2. row[d] \in Row  BY <1>1 DEF LogInv, TypeOK
<1>3. attempt[a].count \in Nat  BY DEF LogInv, TypeOK, AttemptState
<1>4. row[d].delivered \in BOOLEAN  BY <1>2 DEF Row
<1>5. Outcome(row[d], attempt[a]) \in Row  BY <1>3, <1>4 DEF Outcome, Row
<1>6. row' = [row EXCEPT ![d] = Outcome(row[d], attempt[a])]  BY DEF Record
<1>7. row'[d] = Outcome(row[d], attempt[a])  BY <1>1, <1>6 DEF LogInv, TypeOK
<1>8. row' \in [Delivery -> Row \cup {None}]  BY <1>5, <1>6 DEF LogInv, TypeOK
<1>9. \A c \in Delivery \ {d}: row'[c] = row[c]  BY <1>6 DEF LogInv, TypeOK
<1> QED  BY <1>1, <1>2, <1>5, <1>7, <1>8, <1>9 DEF Outcome
-----------------------------------------------------------------------------
LEMMA LogInit == Init => LogInv
<1> SUFFICES ASSUME Init PROVE LogInv  OBVIOUS
<1>1. attempt \in [Attempt -> AttemptState]  BY DEF Init, AttemptState
<1>2. TypeOK  BY <1>1 DEF Init, TypeOK
<1>3. \A a \in Attempt: attempt[a].at = "none"  BY DEF Init
<1>4. \A d \in Delivery: row[d] = None  BY DEF Init
<1> QED  BY <1>2, <1>3, <1>4 DEF LogInv, Begun, DeliveredWasReceived

(* The steps that touch neither the log nor an attempt.                      *)
LEMMA QuietStep ==
  ASSUME LogInv, UNCHANGED <<row, attempt, received>>, TypeOK'
  PROVE  LogInv'
BY DEF LogInv, Begun, DeliveredWasReceived

LEMMA DeliverStep ==
  ASSUME LogInv, NEW e \in Event, NEW n \in Endpoint, Deliver(e, n)
  PROVE  LogInv'
<1> DEFINE d == <<e, n>>
<1> HIDE DEF d
<1>1. /\ d \in Delivery /\ d \in Attempt /\ row[d] = None
      /\ row' \in [Delivery -> Row \cup {None}]
      /\ row'[d] = [status |-> "pending", count |-> 0, delivered |-> FALSE]
      /\ \A c \in Delivery \ {d}: row'[c] = row[c]
      /\ Post(d, d, 0) /\ UNCHANGED received
  BY InsertType DEF d
<1>2. /\ attempt' \in [Attempt -> AttemptState]
      /\ attempt'[d] = [at |-> "waiting", delivery |-> d, count |-> 0]
      /\ \A b \in Attempt \ {d}: attempt'[b] = attempt[b]
  BY <1>1, PostType DEF LogInv, TypeOK
<1>3. TypeOK'  BY <1>1, <1>2 DEF LogInv, TypeOK, Deliver
<1>4. row'[d] \in Row /\ row'[d] # None
  <2>1. row'[d] \in Row  BY <1>1 DEF Row
  <2> QED  BY <2>1, NamesAreDistinct
<1>5. \A c \in Delivery: row[c] # None => row'[c] # None  BY <1>1, <1>4
<1>6. ASSUME NEW a \in Attempt, Begun(a)'
      PROVE  attempt'[a].delivery \in Delivery /\ row'[attempt'[a].delivery] # None
  <2>1. CASE a = d  BY <1>1, <1>2, <1>4, <2>1
  <2>2. CASE a # d  BY <1>2, <1>5, <1>6, <2>2 DEF LogInv, Begun
  <2> QED  BY <2>1, <2>2
<1>7. ASSUME NEW a \in Attempt, attempt'[a].at = "ok" PROVE attempt'[a].delivery \in received'
  <2>1. a # d  BY <1>2, <1>7
  <2> QED  BY <1>1, <1>2, <1>7, <2>1 DEF LogInv
<1>8. DeliveredWasReceived'
  BY <1>1 DEF LogInv, DeliveredWasReceived
<1> QED  BY <1>3, <1>6, <1>7, <1>8 DEF LogInv

LEMMA RetryStep ==
  ASSUME LogInv, NEW r \in RetryId, NEW d \in Delivery, Retry(r, d)
  PROVE  LogInv'
<1>1. r \in Attempt /\ row[d] # None /\ row[d] \in Row
  BY DEF Retry, LogInv, TypeOK, Attempt
<1>2. row[d].count \in Nat  BY <1>1 DEF Row
<1>3. /\ attempt' \in [Attempt -> AttemptState]
      /\ attempt'[r] = [at |-> "waiting", delivery |-> d, count |-> row[d].count]
      /\ \A b \in Attempt \ {r}: attempt'[b] = attempt[b]
  BY <1>1, <1>2, PostType DEF Retry, LogInv, TypeOK
<1>4. UNCHANGED <<row, received>>  BY DEF Retry
<1>5. TypeOK'  BY <1>3, <1>4 DEF LogInv, TypeOK, Retry
<1>6. ASSUME NEW a \in Attempt, Begun(a)'
      PROVE  attempt'[a].delivery \in Delivery /\ row'[attempt'[a].delivery] # None
  <2>1. CASE a = r  BY <1>1, <1>3, <1>4, <2>1
  <2>2. CASE a # r  BY <1>3, <1>4, <1>6, <2>2 DEF LogInv, Begun
  <2> QED  BY <2>1, <2>2
<1>7. ASSUME NEW a \in Attempt, attempt'[a].at = "ok" PROVE attempt'[a].delivery \in received'
  <2>1. a # r  BY <1>3, <1>7
  <2> QED  BY <1>3, <1>4, <1>7, <2>1 DEF LogInv
<1> QED  BY <1>4, <1>5, <1>6, <1>7 DEF LogInv, DeliveredWasReceived

LEMMA ReceiveStep ==
  ASSUME LogInv, NEW a \in Attempt, NEW accepts \in BOOLEAN, NEW answer \in {"ok", "error"},
         Receive(a, accepts, answer)
  PROVE  LogInv'
<1>1. /\ attempt' \in [Attempt -> AttemptState]
      /\ attempt'[a].at = answer
      /\ attempt'[a].delivery = attempt[a].delivery
      /\ \A b \in Attempt \ {a}: attempt'[b] = attempt[b]
  BY StageType DEF Receive, LogInv, TypeOK
<1>2. Begun(a) /\ attempt[a].delivery \in Delivery  BY DEF Receive, Begun, LogInv
<1>3. received \subseteq received' /\ received' \subseteq Delivery /\ UNCHANGED row
  BY <1>2 DEF Receive, LogInv, TypeOK
<1>4. answer = "ok" => attempt[a].delivery \in received'  BY DEF Receive
<1>5. TypeOK'  BY <1>1, <1>3 DEF LogInv, TypeOK, Receive
<1>6. \A b \in Attempt: Begun(b)' => attempt'[b].delivery = attempt[b].delivery /\ Begun(b)
  BY <1>1, <1>2 DEF Begun
<1>7. ASSUME NEW b \in Attempt, attempt'[b].at = "ok" PROVE attempt'[b].delivery \in received'
  <2>1. CASE b = a  BY <1>1, <1>4, <1>7, <2>1
  <2>2. CASE b # a  BY <1>1, <1>3, <1>7, <2>2 DEF LogInv
  <2> QED  BY <2>1, <2>2
<1>8. DeliveredWasReceived'  BY <1>3 DEF LogInv, DeliveredWasReceived
<1>9. \A b \in Attempt: Begun(b)' => attempt'[b].delivery \in Delivery
                                     /\ row'[attempt'[b].delivery] # None
  BY <1>3, <1>6 DEF LogInv
<1> QED  BY <1>5, <1>7, <1>8, <1>9 DEF LogInv

LEMMA RecordStep ==
  ASSUME LogInv, NEW a \in Attempt, Record(a)
  PROVE  LogInv'
<1> DEFINE d == attempt[a].delivery
<1>1. /\ d \in Delivery /\ row[d] \in Row
      /\ row' \in [Delivery -> Row \cup {None}]
      /\ row'[d] \in Row
      /\ row'[d].status = IF attempt[a].at = "ok" THEN "succeeded" ELSE "failed"
      /\ row'[d].delivered = (attempt[a].at = "ok" \/ row[d].delivered)
      /\ \A c \in Delivery \ {d}: row'[c] = row[c]
  BY RecordType
<1>2. /\ attempt' \in [Attempt -> AttemptState]
      /\ attempt'[a].at = "over"
      /\ attempt'[a].delivery = d
      /\ \A b \in Attempt \ {a}: attempt'[b] = attempt[b]
  BY StageType DEF Record, LogInv, TypeOK
<1> HIDE DEF d
<1>3. UNCHANGED received  BY DEF Record
<1>4. TypeOK'  BY <1>1, <1>2 DEF LogInv, TypeOK, Record
<1>5. \A c \in Delivery: row[c] # None => row'[c] # None  BY <1>1, NamesAreDistinct
<1>6. ASSUME NEW b \in Attempt, Begun(b)'
      PROVE  attempt'[b].delivery \in Delivery /\ row'[attempt'[b].delivery] # None
  <2>1. CASE b = a  BY <1>1, <1>2, <2>1, NamesAreDistinct
  <2>2. CASE b # a  BY <1>2, <1>5, <1>6, <2>2 DEF LogInv, Begun
  <2> QED  BY <2>1, <2>2
<1>7. ASSUME NEW b \in Attempt, attempt'[b].at = "ok" PROVE attempt'[b].delivery \in received'
  <2>1. b # a  BY <1>2, <1>7
  <2> QED  BY <1>2, <1>3, <1>7, <2>1 DEF LogInv
<1>8. attempt[a].at = "ok" => d \in received  BY DEF LogInv, d
<1>9. row[d] # None  BY <1>1, NamesAreDistinct
<1>10. row[d].delivered => d \in received  BY <1>1, <1>9 DEF LogInv, DeliveredWasReceived
<1>11. DeliveredWasReceived'
  <2> SUFFICES ASSUME NEW c \in Delivery, row'[c] # None
               PROVE  /\ row'[c].status = "succeeded" => row'[c].delivered
                      /\ row'[c].delivered => c \in received'
    BY DEF DeliveredWasReceived
  <2>1. CASE c = d  BY <1>1, <1>3, <1>8, <1>10, <2>1
  <2>2. CASE c # d  BY <1>1, <1>3, <2>2 DEF LogInv, DeliveredWasReceived
  <2> QED  BY <2>1, <2>2
<1> QED  BY <1>4, <1>6, <1>7, <1>11 DEF LogInv

LEMMA CrashStep ==
  ASSUME LogInv, Crash
  PROVE  LogInv'
<1>1. /\ attempt' \in [Attempt -> AttemptState]
      /\ \A a \in Attempt: /\ attempt'[a].delivery = attempt[a].delivery
                           /\ attempt'[a].at = IF InFlight(a) THEN "lost" ELSE attempt[a].at
  BY CrashType DEF LogInv, TypeOK
<1>2. UNCHANGED <<row, received>>  BY DEF Crash
<1>3. TypeOK'  BY <1>1, <1>2 DEF LogInv, TypeOK, Crash
<1>4. \A a \in Attempt: Begun(a)' => Begun(a)  BY <1>1 DEF Begun, InFlight
<1>5. \A a \in Attempt: attempt'[a].at # "ok"  BY <1>1 DEF InFlight
<1>6. DeliveredWasReceived'  BY <1>2 DEF LogInv, DeliveredWasReceived
<1>7. \A a \in Attempt: Begun(a)' => attempt'[a].delivery \in Delivery
                                     /\ row'[attempt'[a].delivery] # None
  BY <1>1, <1>2, <1>4 DEF LogInv
<1> QED  BY <1>3, <1>5, <1>6, <1>7 DEF LogInv

LEMMA LogStep == LogInv /\ [Next]_vars => LogInv'
<1> SUFFICES ASSUME LogInv, [Next]_vars PROVE LogInv'  OBVIOUS
<1>1. ASSUME NEW n \in Endpoint, CreateEndpoint(n) PROVE LogInv'
  <2>1. TypeOK'  BY <1>1 DEF CreateEndpoint, LogInv, TypeOK
  <2> QED  BY <1>1, <2>1, QuietStep DEF CreateEndpoint
<1>2. ASSUME NEW e \in Event, Happen(e) \/ Return(e) PROVE LogInv'
  <2>1. TypeOK'  BY <1>2 DEF Happen, Return, LogInv, TypeOK
  <2> QED  BY <1>2, <2>1, QuietStep DEF Happen, Return
<1>3. ASSUME NEW e \in Event, NEW n \in Endpoint, Deliver(e, n) PROVE LogInv'
  BY <1>3, DeliverStep
<1>4. ASSUME NEW r \in RetryId, NEW d \in Delivery, Retry(r, d) PROVE LogInv'
  BY <1>4, RetryStep
<1>5. ASSUME NEW a \in Attempt, Respond(a) PROVE LogInv'
  BY <1>5, ReceiveStep DEF Respond
<1>6. ASSUME NEW a \in Attempt, Record(a) PROVE LogInv'
  BY <1>6, RecordStep
<1>7. CASE Crash
  BY <1>7, CrashStep
<1>8. CASE UNCHANGED vars
  <2>1. TypeOK'  BY <1>8 DEF vars, LogInv, TypeOK
  <2> QED  BY <1>8, <2>1, QuietStep DEF vars
<1> QED  BY <1>1, <1>2, <1>3, <1>4, <1>5, <1>6, <1>7, <1>8 DEF Next

LEMMA Logged == Spec => []LogInv
BY LogInit, LogStep, PTL DEF Spec

(* The log and the attempts keep their type.                                 *)
THEOREM TypeCorrect == Spec => []TypeOK
BY Logged, PTL DEF LogInv

(* The log claims a delivery only if the receiver accepted it.               *)
THEOREM DeliveriesReceived == Spec => []DeliveredWasReceived
BY Logged, PTL DEF LogInv

(* A time of delivery is never taken back.                                   *)
THEOREM DeliveriesStay == Spec => DeliveredStays
<1>1. ASSUME LogInv, [Next]_vars, NEW d \in Delivery, row[d] # None, row[d].delivered
      PROVE  row'[d] # None /\ row'[d].delivered
  <2>1. ASSUME UNCHANGED row PROVE row'[d] # None /\ row'[d].delivered
    BY <1>1, <2>1
  <2>2. ASSUME NEW e \in Event, NEW n \in Endpoint, Deliver(e, n)
        PROVE  row'[d] # None /\ row'[d].delivered
    <3>1. row[<<e, n>>] = None /\ \A c \in Delivery \ {<<e, n>>}: row'[c] = row[c]
      BY <1>1, <2>2, InsertType
    <3> QED  BY <1>1, <3>1
  <2>3. ASSUME NEW a \in Attempt, Record(a) PROVE row'[d] # None /\ row'[d].delivered
    <3>1. CASE d = attempt[a].delivery
      BY <1>1, <2>3, <3>1, RecordType, NamesAreDistinct
    <3>2. CASE d # attempt[a].delivery
      BY <1>1, <2>3, <3>2, RecordType
    <3> QED  BY <3>1, <3>2
  <2> QED
    BY <1>1, <2>1, <2>2, <2>3
    DEF Next, vars, CreateEndpoint, Happen, Return, Retry, Respond, Receive, Crash
<1>2. LogInv /\ [Next]_vars =>
        [\A d \in Delivery: row[d] # None /\ row[d].delivered
           => row'[d] # None /\ row'[d].delivered]_vars
  BY <1>1
<1> QED  BY <1>2, Logged, PTL DEF Spec, DeliveredStays


-----------------------------------------------------------------------------
(* The attempt count.  Attempts overlap and each writes the count it read,    *)
(* plus one; what it read was at most what had been recorded by then, and its  *)
(* own record is one more.  The first attempt of a delivery goes by its name,  *)
(* so that no later one takes a record back.                                  *)
CountInv ==
  /\ \A d \in Delivery: Begun(d) => attempt[d].delivery = d
  /\ \A d \in Delivery: IsFiniteSet(Recorded(d))
  /\ NeverOvercounts
  /\ \A a \in Attempt, d \in Delivery: InFlight(a) /\ attempt[a].delivery = d =>
       attempt[a].count <= Cardinality(Recorded(d))

LEMMA CountInit == Init => CountInv
<1> SUFFICES ASSUME Init PROVE CountInv  OBVIOUS
<1>1. \A a \in Attempt: attempt[a].at = "none"  BY DEF Init
<1>2. \A d \in Delivery: row[d] = None  BY DEF Init
<1>3. \A d \in Delivery: Recorded(d) = {}  BY <1>1 DEF Recorded
<1>4. \A d \in Delivery: d \in Attempt  BY DEF Attempt
<1> QED
  BY <1>1, <1>2, <1>3, <1>4, FS_EmptySet DEF CountInv, Begun, InFlight, NeverOvercounts

(* The steps that write no outcome and begin no attempt.                     *)
LEMMA CountQuiet ==
  ASSUME LogInv, CountInv, UNCHANGED row,
         \A a \in Attempt: /\ attempt'[a].delivery = attempt[a].delivery
                           /\ attempt'[a].count = attempt[a].count
                           /\ Begun(a)' => Begun(a)
                           /\ InFlight(a)' => InFlight(a)
                           /\ attempt'[a].at = "over" <=> attempt[a].at = "over"
  PROVE  CountInv'
<1>1. \A d: Recorded(d)' = Recorded(d)  BY DEF Recorded
<1>2. \A d \in Delivery: d \in Attempt  BY DEF Attempt
<1>3. ASSUME NEW a \in Attempt, NEW d \in Delivery, InFlight(a)', attempt'[a].delivery = d
      PROVE  attempt'[a].count <= Cardinality(Recorded(d)')
  BY <1>1, <1>3 DEF CountInv
<1> QED  BY <1>1, <1>2, <1>3 DEF CountInv, NeverOvercounts

(* An attempt begins with a count that is at most what is recorded.          *)
LEMMA CountPost ==
  ASSUME LogInv, CountInv, NEW a \in Attempt, NEW d \in Delivery, NEW count \in Nat,
         attempt[a].at = "none", a \in Delivery => a = d,
         Post(a, d, count), count <= Cardinality(Recorded(d)),
         \A c \in Delivery: row'[c] # None => row'[c].count <= Cardinality(Recorded(c))
  PROVE  CountInv'
<1>1. /\ attempt'[a] = [at |-> "waiting", delivery |-> d, count |-> count]
      /\ \A b \in Attempt \ {a}: attempt'[b] = attempt[b]
  BY PostType DEF LogInv, TypeOK
<1>2. /\ attempt'[a].at = "waiting" /\ attempt'[a].delivery = d /\ attempt'[a].count = count
  BY <1>1
<1>3. \A c: Recorded(c)' = Recorded(c)
  BY <1>1, <1>2 DEF Recorded
<1>4. ASSUME NEW c \in Delivery, Begun(c)' PROVE attempt'[c].delivery = c
  <2>1. c \in Attempt  BY DEF Attempt
  <2>2. CASE c = a  BY <1>2, <2>2
  <2>3. CASE c # a  BY <1>1, <1>4, <2>1, <2>3 DEF CountInv, Begun
  <2> QED  BY <2>2, <2>3
<1>5. ASSUME NEW b \in Attempt, NEW c \in Delivery, InFlight(b)', attempt'[b].delivery = c
      PROVE  attempt'[b].count <= Cardinality(Recorded(c)')
  <2>2. CASE b = a  BY <1>2, <1>3, <1>5, <2>2
  <2>3. CASE b # a
    <3>1. attempt'[b] = attempt[b] /\ InFlight(b)  BY <1>1, <1>5, <2>3 DEF InFlight
    <3> QED  BY <1>3, <1>5, <3>1 DEF CountInv
  <2> QED  BY <2>2, <2>3
<1> QED  BY <1>3, <1>4, <1>5 DEF CountInv, NeverOvercounts

LEMMA CountDeliver ==
  ASSUME LogInv, CountInv, NEW e \in Event, NEW n \in Endpoint, Deliver(e, n)
  PROVE  CountInv'
<1> DEFINE d == <<e, n>>
<1> HIDE DEF d
<1>1. /\ d \in Delivery /\ d \in Attempt /\ row[d] = None
      /\ row'[d] = [status |-> "pending", count |-> 0, delivered |-> FALSE]
      /\ \A c \in Delivery \ {d}: row'[c] = row[c]
      /\ Post(d, d, 0)
  BY InsertType DEF d
<1>2. attempt[d].at = "none"
  BY <1>1 DEF LogInv, CountInv, Begun
<1>3. \A c \in Delivery: Cardinality(Recorded(c)) \in Nat
  BY FS_CardinalityType DEF CountInv
<1>4. row'[d].count = 0
  BY <1>1
<1>5. \A c \in Delivery: row'[c] # None => row'[c].count <= Cardinality(Recorded(c))
  BY <1>1, <1>3, <1>4 DEF CountInv, NeverOvercounts
<1>6. 0 <= Cardinality(Recorded(d))
  BY <1>1, <1>3
<1> QED  BY <1>1, <1>2, <1>5, <1>6, CountPost

LEMMA CountRetry ==
  ASSUME LogInv, CountInv, NEW r \in RetryId, NEW d \in Delivery, Retry(r, d)
  PROVE  CountInv'
<1>1. r \in Attempt /\ r \notin Delivery /\ row[d] # None /\ row[d] \in Row
  BY NamesAreDistinct DEF Retry, LogInv, TypeOK, Attempt
<1>2. row[d].count \in Nat  BY <1>1 DEF Row
<1>3. attempt[r].at = "none" /\ Post(r, d, row[d].count) /\ UNCHANGED row  BY DEF Retry
<1>4. row[d].count <= Cardinality(Recorded(d))  BY <1>1 DEF CountInv, NeverOvercounts
<1>5. \A c \in Delivery: row'[c] # None => row'[c].count <= Cardinality(Recorded(c))
  BY <1>3 DEF CountInv, NeverOvercounts
<1> QED  BY <1>1, <1>2, <1>3, <1>4, <1>5, CountPost

(* The end of an attempt is one record more of its delivery, of no other.    *)
LEMMA CountRecord ==
  ASSUME LogInv, CountInv, NEW a \in Attempt, Record(a)
  PROVE  CountInv'
<1>0. PICK d \in Delivery: d = attempt[a].delivery
  BY RecordType
<1>1. /\ d \in Delivery /\ row[d] \in Row
      /\ row'[d].count = attempt[a].count + 1
      /\ \A c \in Delivery \ {d}: row'[c] = row[c]
  BY <1>0, RecordType
<1>2. /\ attempt'[a].at = "over"
      /\ attempt'[a].delivery = d /\ attempt'[a].count = attempt[a].count
      /\ \A b \in Attempt \ {a}: attempt'[b] = attempt[b]
  BY <1>0, StageType DEF Record, LogInv, TypeOK
<1>3. InFlight(a) /\ Begun(a) /\ attempt[a].at # "over"  BY DEF Record, InFlight, Begun
<1>4. attempt[a].count \in Nat /\ attempt[a].count <= Cardinality(Recorded(d))
  BY <1>0, <1>3 DEF CountInv, LogInv, TypeOK, AttemptState
<1>5. a \notin Recorded(d)
  BY <1>3 DEF Recorded
<1>6. ASSUME NEW c \in Delivery, c # d PROVE Recorded(c)' = Recorded(c)
  <2>1. attempt[a].delivery # c /\ attempt'[a].delivery # c  BY <1>0, <1>2, <1>6
  <2> QED  BY <1>2, <2>1 DEF Recorded
<1>7. \A c \in Delivery: IsFiniteSet(Recorded(c))  BY DEF CountInv
<1>8. IsFiniteSet(Recorded(d) \cup {a})
      /\ Cardinality(Recorded(d) \cup {a}) = Cardinality(Recorded(d)) + 1
  BY <1>1, <1>5, <1>7, FS_AddElement
<1>9. \A c \in Delivery: Cardinality(Recorded(c)) \in Nat
  BY <1>7, FS_CardinalityType
<1>10. ASSUME NEW c \in Delivery
       PROVE  IsFiniteSet(Recorded(c)') /\ Cardinality(Recorded(c)) <= Cardinality(Recorded(c)')
  <2>1. CASE c = d
    <3>1. Recorded(c)' = Recorded(d) \cup {a}  BY <1>0, <1>2, <1>3, <2>1 DEF Recorded
    <3> QED  BY <1>8, <1>9, <2>1, <3>1
  <2>2. CASE c # d  BY <1>6, <1>7, <1>9, <2>2
  <2> QED  BY <2>1, <2>2
<1>11. ASSUME NEW c \in Delivery, row'[c] # None PROVE row'[c].count <= Cardinality(Recorded(c)')
  <2>1. CASE c = d
    <3>1. Recorded(c)' = Recorded(d) \cup {a}  BY <1>0, <1>2, <1>3, <2>1 DEF Recorded
    <3> QED  BY <1>1, <1>4, <1>8, <1>9, <2>1, <3>1
  <2>2. CASE c # d  BY <1>1, <1>6, <1>11, <2>2 DEF CountInv, NeverOvercounts
  <2> QED  BY <2>1, <2>2
<1>12. ASSUME NEW b \in Attempt, NEW c \in Delivery, InFlight(b)', attempt'[b].delivery = c
       PROVE  attempt'[b].count <= Cardinality(Recorded(c)')
  <2>1. b # a  BY <1>2, <1>12 DEF InFlight
  <2>2. attempt'[b] = attempt[b] /\ InFlight(b)  BY <1>2, <1>12, <2>1 DEF InFlight
  <2>3. attempt[b].count \in Nat  BY DEF LogInv, TypeOK, AttemptState
  <2>4. attempt[b].count <= Cardinality(Recorded(c))  BY <1>12, <2>2 DEF CountInv
  <2>5. Cardinality(Recorded(c)) <= Cardinality(Recorded(c)')
        /\ Cardinality(Recorded(c)) \in Nat /\ Cardinality(Recorded(c)') \in Nat
    <3>1. IsFiniteSet(Recorded(c)')  BY <1>10
    <3>2. Cardinality(Recorded(c)') \in Nat  BY <3>1, FS_CardinalityType
    <3> QED  BY <1>9, <1>10, <3>2
  <2> QED  BY <2>2, <2>3, <2>4, <2>5
<1>13. ASSUME NEW c \in Delivery, Begun(c)' PROVE attempt'[c].delivery = c
  <2>1. c \in Attempt  BY DEF Attempt
  <2>2. CASE c = a  BY <1>0, <1>2, <1>3, <2>2 DEF CountInv
  <2>3. CASE c # a  BY <1>2, <1>13, <2>1, <2>3 DEF CountInv, Begun
  <2> QED  BY <2>2, <2>3
<1> QED  BY <1>10, <1>11, <1>12, <1>13 DEF CountInv, NeverOvercounts

LEMMA CountStep == LogInv /\ CountInv /\ [Next]_vars => CountInv'
<1> SUFFICES ASSUME LogInv, CountInv, [Next]_vars PROVE CountInv'  OBVIOUS
<1>1. ASSUME UNCHANGED <<row, attempt>> PROVE CountInv'
  BY <1>1, CountQuiet DEF Begun, InFlight
<1>2. ASSUME NEW e \in Event, NEW n \in Endpoint, Deliver(e, n) PROVE CountInv'
  BY <1>2, CountDeliver
<1>3. ASSUME NEW r \in RetryId, NEW d \in Delivery, Retry(r, d) PROVE CountInv'
  BY <1>3, CountRetry
<1>4. ASSUME NEW a \in Attempt, NEW accepts \in BOOLEAN, NEW answer \in {"ok", "error"},
             Receive(a, accepts, answer)
      PROVE  CountInv'
  <2>1. /\ attempt'[a].at = answer
        /\ attempt'[a].delivery = attempt[a].delivery /\ attempt'[a].count = attempt[a].count
        /\ \A b \in Attempt \ {a}: attempt'[b] = attempt[b]
    BY <1>4, StageType DEF Receive, LogInv, TypeOK
  <2>2. attempt[a].at = "waiting" /\ UNCHANGED row  BY <1>4 DEF Receive
  <2> QED  BY <2>1, <2>2, CountQuiet DEF Begun, InFlight
<1>5. ASSUME NEW a \in Attempt, Record(a) PROVE CountInv'
  BY <1>5, CountRecord
<1>6. CASE Crash
  <2>1. \A a \in Attempt: /\ attempt'[a].delivery = attempt[a].delivery
                          /\ attempt'[a].count = attempt[a].count
                          /\ attempt'[a].at = IF InFlight(a) THEN "lost" ELSE attempt[a].at
    BY <1>6, CrashType DEF LogInv, TypeOK
  <2>2. UNCHANGED row  BY <1>6 DEF Crash
  <2> QED  BY <2>1, <2>2, CountQuiet DEF Begun, InFlight
<1> QED
  BY <1>1, <1>2, <1>3, <1>4, <1>5, <1>6
  DEF Next, vars, CreateEndpoint, Happen, Return, Respond

(* The attempt count never exceeds the attempts that were recorded, although  *)
(* each writes a count that it read before the answer.                       *)
THEOREM CountsAreRecorded == Spec => []NeverOvercounts
BY LogInit, LogStep, CountInit, CountStep, PTL DEF Spec, CountInv
=============================================================================
