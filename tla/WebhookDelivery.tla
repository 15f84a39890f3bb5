--------------------------- MODULE WebhookDelivery ---------------------------
(***************************************************************************)
(* Outbound connector webhooks: an event is posted to every endpoint that  *)
(* was enabled when it happened, one after the other, and the owner can    *)
(* post a delivery again.  The request awaits the answer of the receiver,  *)
(* so attempts of several requests overlap; each read the attempt count    *)
(* before it posted and writes the whole outcome after the answer.         *)
(***************************************************************************)
EXTENDS Naturals, FiniteSets

CONSTANTS
  Event,      (* occurrences of connector events                             *)
  Endpoint,   (* positions of endpoints in order of creation                 *)
  RetryId,    (* bound: requests of the owner to post a delivery again       *)
  None

ASSUME EndpointsAreOrdered == Endpoint \subseteq Nat

Delivery == Event \X Endpoint

(* The first attempt of a delivery goes by the delivery's name.              *)
Attempt == Delivery \cup RetryId

Row == [status: {"pending", "failed", "succeeded"}, count: Nat, delivered: BOOLEAN]

ASSUME NamesAreDistinct == Delivery \cap RetryId = {} /\ None \notin Delivery \cup Row

VARIABLES
  endpoints,   (* webhook_endpoints that are enabled for the events          *)
  wanted,      (* endpoints an event found when it happened                  *)
  running,     (* events whose request still goes through its endpoints      *)
  row,         (* webhook_deliveries                                         *)
  attempt,     (* attempts and what they know                                *)
  received,    (* deliveries that the receiver accepted                      *)
  crashed      (* the process died                                           *)

vars == <<endpoints, wanted, running, row, attempt, received, crashed>>

(* An attempt waits for the answer, has it, or is over; "none" has not begun. *)
AttemptState == [at: {"none", "waiting", "ok", "error", "over", "lost"},
                 delivery: Delivery \cup {None}, count: Nat]

TypeOK ==
  /\ endpoints \subseteq Endpoint
  /\ wanted \in [Event -> SUBSET Endpoint]
  /\ running \subseteq Event
  /\ row \in [Delivery -> Row \cup {None}]
  /\ attempt \in [Attempt -> AttemptState]
  /\ received \subseteq Delivery
  /\ crashed \in BOOLEAN

Init ==
  /\ endpoints = {}
  /\ wanted = [e \in Event |-> {}]
  /\ running = {}
  /\ row = [d \in Delivery |-> None]
  /\ attempt = [a \in Attempt |-> [at |-> "none", delivery |-> None, count |-> 0]]
  /\ received = {}
  /\ crashed = FALSE

-----------------------------------------------------------------------------
InFlight(a) == attempt[a].at \in {"waiting", "ok", "error"}

Post(a, d, count) ==
  attempt' = [attempt EXCEPT ![a] = [at |-> "waiting", delivery |-> d, count |-> count]]

(* createWebhookEndpoint                                                     *)
CreateEndpoint(n) ==
  /\ n \notin endpoints
  /\ \A k \in endpoints: k < n
  /\ endpoints' = endpoints \cup {n}
  /\ UNCHANGED <<wanted, running, row, attempt, received, crashed>>

(* deliverWebhookEvent reads the endpoints once.                             *)
Happen(e) ==
  /\ e \notin running
  /\ wanted[e] = {}
  /\ endpoints # {}
  /\ wanted' = [wanted EXCEPT ![e] = endpoints]
  /\ running' = running \cup {e}
  /\ UNCHANGED <<endpoints, row, attempt, received, crashed>>

Untried(e) == {n \in wanted[e]: row[<<e, n>>] = None}

(* Mutant: an endpoint that fails ends the loop.                             *)
IsNextIfNoneFailed(e, n) ==
  /\ e \in running
  /\ n \in Untried(e)
  /\ \A k \in Untried(e): n <= k
  /\ \A k \in wanted[e]: ~InFlight(<<e, k>>)
  /\ \A k \in wanted[e] \ Untried(e): row[<<e, k>>].status # "failed"

(* The endpoint whose turn it is, once the attempts before it are over.       *)
IsNext(e, n) ==
  /\ e \in running
  /\ n \in Untried(e)
  /\ \A k \in Untried(e): n <= k
  /\ \A k \in wanted[e]: ~InFlight(<<e, k>>)

(* Mutant: the row is inserted with its first attempt counted.               *)
InsertCounted(d) ==
  /\ row' = [row EXCEPT ![d] = [status |-> "pending", count |-> 1, delivered |-> FALSE]]
  /\ Post(d, d, 1)

InsertDelivery(d) ==
  /\ row' = [row EXCEPT ![d] = [status |-> "pending", count |-> 0, delivered |-> FALSE]]
  /\ Post(d, d, 0)

(* One turn of the loop: INSERT INTO webhook_deliveries and the first attempt. *)
Deliver(e, n) ==
  /\ IsNext(e, n)
  /\ InsertDelivery(<<e, n>>)
  /\ UNCHANGED <<endpoints, wanted, running, received, crashed>>

(* The loop is over and the request goes on.                                 *)
Return(e) ==
  /\ e \in running
  /\ Untried(e) = {}
  /\ \A k \in wanted[e]: ~InFlight(<<e, k>>)
  /\ running' = running \ {e}
  /\ UNCHANGED <<endpoints, wanted, row, attempt, received, crashed>>

(* POST /api/integrations/webhook-deliveries/:id/retry looks at no status.    *)
Retry(r, d) ==
  /\ attempt[r].at = "none"
  /\ row[d] # None
  /\ Post(r, d, row[d].count)
  /\ UNCHANGED <<endpoints, wanted, running, row, received, crashed>>

(* The receiver: it accepts and its answer arrives, or it accepts and the     *)
(* answer is lost, or it refuses or is not reached.                          *)
Receive(a, accepts, answer) ==
  /\ attempt[a].at = "waiting"
  /\ answer = "ok" => accepts
  /\ attempt' = [attempt EXCEPT ![a].at = answer]
  /\ received' = IF accepts THEN received \cup {attempt[a].delivery} ELSE received
  /\ UNCHANGED <<endpoints, wanted, running, row, crashed>>

(* Mutant: any answer is a success.                                          *)
AnyOutcome(old, known) ==
  [status |-> "succeeded", count |-> known.count + 1, delivered |-> TRUE]

(* Mutant: the outcome replaces delivered_at as well.                        *)
LastOutcome(old, known) ==
  [status    |-> IF known.at = "ok" THEN "succeeded" ELSE "failed",
   count     |-> known.count + 1,
   delivered |-> known.at = "ok"]

(* What the UPDATE of an attempt makes of the row: the count it read, plus    *)
(* one, and the time of delivery unless it has none (COALESCE).              *)
Outcome(old, known) ==
  [status    |-> IF known.at = "ok" THEN "succeeded" ELSE "failed",
   count     |-> known.count + 1,
   delivered |-> known.at = "ok" \/ old.delivered]

(* The second half of attemptWebhookDelivery; exceptions are caught.         *)
Record(a) ==
  LET known == attempt[a] IN
  /\ known.at \in {"ok", "error"}
  /\ row' = [row EXCEPT ![known.delivery] = Outcome(@, known)]
  /\ attempt' = [attempt EXCEPT ![a].at = "over"]
  /\ UNCHANGED <<endpoints, wanted, running, received, crashed>>

(* The process dies: nothing goes on with a delivery that is pending.        *)
Crash ==
  /\ ~crashed
  /\ crashed' = TRUE
  /\ running' = {}
  /\ attempt' = [a \in Attempt |-> IF InFlight(a) THEN [attempt[a] EXCEPT !.at = "lost"]
                                                  ELSE attempt[a]]
  /\ UNCHANGED <<endpoints, wanted, row, received>>

Respond(a) == \E accepts \in BOOLEAN, answer \in {"ok", "error"}: Receive(a, accepts, answer)

Next ==
  \/ \E n \in Endpoint: CreateEndpoint(n)
  \/ \E e \in Event: Happen(e) \/ Return(e)
  \/ \E e \in Event, n \in Endpoint: Deliver(e, n)
  \/ \E r \in RetryId, d \in Delivery: Retry(r, d)
  \/ \E a \in Attempt: Respond(a) \/ Record(a)
  \/ Crash

Spec == Init /\ [][Next]_vars

(* The event loop runs what is ready, and a request gets an answer or an      *)
(* error in the end.                                                         *)
Fairness ==
  /\ \A e \in Event, n \in Endpoint: WF_vars(Deliver(e, n))
  /\ \A a \in Attempt: WF_vars(Respond(a)) /\ WF_vars(Record(a))

FairSpec == Spec /\ Fairness

-----------------------------------------------------------------------------
(* Properties.                                                               *)

Settled(d) == row[d] # None /\ row[d].status # "pending"

Recorded(d) == {a \in Attempt: attempt[a].delivery = d /\ attempt[a].at = "over"}

(* The log claims a delivery only if the receiver accepted it, whatever the   *)
(* overlapping attempts overwrote: status and delivered_at of                *)
(* attemptWebhookDelivery.                                                   *)
DeliveredWasReceived ==
  \A d \in Delivery: row[d] # None =>
    /\ row[d].status = "succeeded" => row[d].delivered
    /\ row[d].delivered => d \in received

(* The attempt count never exceeds the attempts that were recorded, although  *)
(* every attempt writes a count it read before the answer.                   *)
NeverOvercounts ==
  \A d \in Delivery: row[d] # None => row[d].count <= Cardinality(Recorded(d))

(* A time of delivery is never taken back, not by an attempt that fails after *)
(* another one succeeded.                                                    *)
DeliveredStays ==
  [][\A d \in Delivery:
       row[d] # None /\ row[d].delivered => row'[d] # None /\ row'[d].delivered]_vars

(* An endpoint that is down or slow does not keep an event from the others:   *)
(* every endpoint the event found gets an outcome, unless the process dies.  *)
EventReachesAll ==
  \A e \in Event, n \in Endpoint: n \in wanted[e] ~> (Settled(<<e, n>>) \/ crashed)
=============================================================================
