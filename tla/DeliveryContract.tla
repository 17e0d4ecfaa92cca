--------------------------- MODULE DeliveryContract ---------------------------
(***************************************************************************)
(* What webhook delivery promises, whatever its dispatchers, processors,   *)
(* reapers, queue and faults do: an event is fanned out once, to the       *)
(* endpoints that are active at that moment; nothing but its rows is ever  *)
(* POSTed; and what a row says happened did happen.  A record may replace  *)
(* another that was made meanwhile, for there is no compare-and-set, and   *)
(* POSTs may repeat: delivery is at least once.  WebhookDelivery is        *)
(* checked and proved to implement this specification.                     *)
(***************************************************************************)
EXTENDS Naturals

CONSTANTS Events, Endpoints, Budget

Deliveries == Events \X Endpoints

VARIABLES
  outbox,      \* of each event: "none", "undispatched" or "dispatched"
  endpoint,    \* of each endpoint: "none", "active" or "inactive"
  status,      \* of each delivery, "none" where there is no row
  received,    \* deliveries a receiver has processed
  failedPosts  \* POSTs that failed for the sender, up to the budget

deliveryVars == <<outbox, endpoint, status, received, failedPosts>>

Init ==
  /\ outbox = [e \in Events |-> "none"]
  /\ endpoint = [p \in Endpoints |-> "none"]
  /\ status = [d \in Deliveries |-> "none"]
  /\ received = {}
  /\ failedPosts = [d \in Deliveries |-> 0]

Emit(e) ==
  /\ outbox[e] = "none"
  /\ outbox' = [outbox EXCEPT ![e] = "undispatched"]
  /\ UNCHANGED <<endpoint, status, received, failedPosts>>

(* An endpoint that was removed does not come back. *)
Register(p) ==
  /\ endpoint[p] = "none"
  /\ endpoint' = [endpoint EXCEPT ![p] = "active"]
  /\ UNCHANGED <<outbox, status, received, failedPosts>>

Remove(p) ==
  /\ endpoint[p] = "active"
  /\ endpoint' = [endpoint EXCEPT ![p] = "inactive"]
  /\ UNCHANGED <<outbox, status, received, failedPosts>>

(* The only way to a row. *)
FanOut(S) ==
  /\ \A e \in S : outbox[e] = "undispatched"
  /\ outbox' = [e \in Events |-> IF e \in S THEN "dispatched" ELSE outbox[e]]
  /\ status' = [d \in Deliveries |-> IF d[1] \in S /\ endpoint[d[2]] = "active"
                                     THEN "pending" ELSE status[d]]
  /\ UNCHANGED <<endpoint, received, failedPosts>>

(* A POST reaches the receiver or fails for the sender, or both. *)
Post(d) ==
  /\ status[d] # "none"
  /\ received' \in {received, received \cup {d}}
  /\ \/ UNCHANGED failedPosts
     \/ /\ failedPosts[d] < Budget
        /\ failedPosts' = [failedPosts EXCEPT ![d] = @ + 1]
  /\ UNCHANGED <<outbox, endpoint, status>>

(* What makes a status true. *)
Earned(d, s) ==
  \/ s = "delivered" /\ d \in received
  \/ s = "failed" /\ failedPosts[d] > 0
  \/ s = "dead" /\ failedPosts[d] >= Budget

Record(d, s) ==
  /\ status[d] # "none"
  /\ Earned(d, s)
  /\ status' = [status EXCEPT ![d] = s]
  /\ UNCHANGED <<outbox, endpoint, received, failedPosts>>

Next ==
  \/ \E e \in Events : Emit(e)
  \/ \E p \in Endpoints : Register(p) \/ Remove(p)
  \/ \E S \in SUBSET Events : FanOut(S)
  \/ \E d \in Deliveries : Post(d)
  \/ \E d \in Deliveries, s \in {"delivered", "failed", "dead"} : Record(d, s)

Spec == Init /\ [][Next]_deliveryVars

===============================================================================
