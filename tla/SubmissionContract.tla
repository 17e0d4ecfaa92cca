-------------------------- MODULE SubmissionContract --------------------------
(***************************************************************************)
(* What POST /payments promises its clients, whatever its handlers, their  *)
(* transactions and their processes do: the first valid request of a       *)
(* customer's key creates the payment, once, and every 202 or 409 is about *)
(* that payment.  A request that is told 400 or 409 created nothing and    *)
(* never will.  A 500 is no verdict: the request may have created its      *)
(* payment, or still create it, like one that was never answered, and the  *)
(* client finds out by a retry under the same key.  Submission is checked  *)
(* and proved to implement this specification, and the payment drawer of   *)
(* PaymentForm relies on it.                                               *)
(***************************************************************************)
CONSTANTS
  Requests,     \* records [id, customer, key, body]
  NoKey,
  Invalid,      \* bodies that the DTO refuses
  Unparseable,  \* bodies that cannot be converted
  None

VARIABLES
  payments,     \* payments, named by the request that created them
  response      \* what each request was told, None before that

contractVars == <<payments, response>>

SameKey(a, b) == a.customer = b.customer /\ a.key = b.key

Init == payments = {} /\ response = [r \in Requests |-> None]

Refused(r) == r.key = NoKey \/ r.body \in Invalid

Valid(r) == ~Refused(r) /\ r.body \notin Unparseable

Undecided(r) == response[r] = None \/ response[r].status = 500

Create(r) ==
  /\ Undecided(r)
  /\ Valid(r)
  /\ \A p \in payments : ~SameKey(p, r)
  /\ payments' = payments \cup {r}
  /\ UNCHANGED response

Tell(r, code, p) ==
  /\ response[r] = None
  /\ response' = [response EXCEPT ![r] = [status |-> code, payment |-> p]]
  /\ UNCHANGED payments

(* Created by this request or by another with the same key and body. *)
Accepted(r, p) == SameKey(p, r) /\ p.body = r.body /\ Tell(r, 202, p)

Conflicting(r, p) == SameKey(p, r) /\ p.body # r.body /\ Tell(r, 409, None)

Rejected(r) == Refused(r) /\ Tell(r, 400, None)

Failed(r) == ~Refused(r) /\ Tell(r, 500, None)

Next ==
  \E r \in Requests :
    \/ Create(r) \/ Rejected(r) \/ Failed(r)
    \/ \E p \in payments : Accepted(r, p) \/ Conflicting(r, p)

Spec == Init /\ [][Next]_contractVars

===============================================================================
