------------------------------ MODULE Submission ------------------------------
(***************************************************************************)
(* POST /payments: concurrent requests, some of them retries under the     *)
(* same Idempotency-Key, each run the submission transaction.  The unique  *)
(* index on (customer_id, idempotency_key) makes the second inserter of a  *)
(* key wait for the first one's commit or rollback; a loser looks the      *)
(* winner's stored answer up.  API processes may die, and the connection   *)
(* to Postgres may break, with the transaction open or after its COMMIT    *)
(* was sent: then Postgres decides alone, and a 500 may hide a payment.    *)
(***************************************************************************)
EXTENDS Naturals, FiniteSets

CONSTANTS
  Requests,         \* records [id, customer, key, body]
  NoKey,            \* the key of a request without the header
  Invalid,          \* bodies that the DTO refuses
  Unparseable,      \* bodies whose amount passes the DTO but not convAmountToUnits
  None

ASSUME SubmissionAssumption == None \notin Requests

VARIABLES
  pc,               \* each request's position in create_payment / insert_txn
  response,         \* what the client has been told, None before that
  payments,         \* committed payment rows, named by their request
  idempotencyKeys,  \* committed key rows: [customer, key, hash, payment]
  outbox            \* payments with a committed payment.submitted row

vars == <<pc, response, payments, idempotencyKeys, outbox>>

------------------------------------------------------------------------------
(* The columns of the unique index, and the fingerprint of the body. *)
SameKey(a, b) == a.customer = b.customer /\ a.key = b.key

requestHash(r) == r.body

KeyRow(r) == [customer |-> r.customer, key |-> r.key, hash |-> requestHash(r), payment |-> r]

ReplayAs200(code, p) == [status |-> IF p = None THEN code ELSE 200, payment |-> p]

Answer(code, p) == [status |-> code, payment |-> p]

Codes == {202, 400, 409, 500}

(* The type invariant of the tables and the handlers. *)
TypeOK ==
  /\ pc \in [Requests -> {"received", "begin", "open", "committed", "conflict", "indoubt", "done"}]
  /\ response \in [Requests -> {None} \cup [status : Codes, payment : Requests \cup {None}]]
  /\ payments \subseteq Requests
  /\ idempotencyKeys \subseteq {KeyRow(r) : r \in Requests}
  /\ outbox \subseteq Requests

Init ==
  /\ pc = [r \in Requests |-> "received"]
  /\ response = [r \in Requests |-> None]
  /\ payments = {}
  /\ idempotencyKeys = {}
  /\ outbox = {}

------------------------------------------------------------------------------
Respond(r, code, p) ==
  /\ response' = [response EXCEPT ![r] = Answer(code, p)]
  /\ pc' = [pc EXCEPT ![r] = "done"]

Begin(r) == pc' = [pc EXCEPT ![r] = "begin"] /\ UNCHANGED response

ValidateHeaderUnchecked(r) ==
  /\ pc[r] = "received"
  /\ IF r.body \in Invalid THEN Respond(r, 400, None)
     ELSE IF r.body \in Unparseable THEN Respond(r, 500, None)
     ELSE Begin(r)
  /\ UNCHANGED <<payments, idempotencyKeys, outbox>>

(* The ValidationPipe and the controller: a body that the DTO refuses or no *)
(* header is a 400; an amount that convAmountToUnits rejects throws outside *)
(* the try and is a 500.                                                    *)
Validate(r) ==
  /\ pc[r] = "received"
  /\ IF r.body \in Invalid \/ r.key = NoKey THEN Respond(r, 400, None)
     ELSE IF r.body \in Unparseable THEN Respond(r, 500, None)
     ELSE Begin(r)
  /\ UNCHANGED <<payments, idempotencyKeys, outbox>>

Taken(r) == \E k \in idempotencyKeys : SameKey(k, r)

NoUniqueIndex(r) == FALSE

LockLeaks(r) == \E q \in Requests \ {r} : pc[q] \in {"open", "indoubt", "done"} /\ SameKey(q, r)

(* Another transaction has inserted the key and is not over. *)
Blocked(r) == \E q \in Requests \ {r} : pc[q] \in {"open", "indoubt"} /\ SameKey(q, r)

(* The transaction's inserts, up to the key.  The unique index lets it      *)
(* through only when nobody else has the key, committed or in flight.       *)
InsertKey(r) ==
  /\ pc[r] = "begin"
  /\ ~Blocked(r)
  /\ ~Taken(r)
  /\ pc' = [pc EXCEPT ![r] = "open"]
  /\ UNCHANGED <<response, payments, idempotencyKeys, outbox>>

FailsWithoutWaiting(r) ==
  /\ pc[r] = "begin"
  /\ Taken(r) \/ Blocked(r)
  /\ pc' = [pc EXCEPT ![r] = "conflict"]
  /\ UNCHANGED <<response, payments, idempotencyKeys, outbox>>

(* 23505: the transaction is rolled back. *)
UniqueViolation(r) ==
  /\ pc[r] = "begin"
  /\ Taken(r)
  /\ pc' = [pc EXCEPT ![r] = "conflict"]
  /\ UNCHANGED <<response, payments, idempotencyKeys, outbox>>

(* The rows of the transaction become visible at once. *)
MakeDurable(r) ==
  /\ payments' = payments \cup {r}
  /\ idempotencyKeys' = idempotencyKeys \cup {KeyRow(r)}
  /\ outbox' = outbox \cup {r}

(* The outbox insert and the COMMIT, as Postgres carries it out. *)
Commit(r) ==
  /\ pc[r] = "open"
  /\ MakeDurable(r)
  /\ pc' = [pc EXCEPT ![r] = "committed"]
  /\ UNCHANGED response

(* The acknowledgement of the COMMIT arrives, and the client is answered. *)
RespondAccepted(r) ==
  /\ pc[r] = "committed"
  /\ Respond(r, 202, r)
  /\ UNCHANGED <<payments, idempotencyKeys, outbox>>

HashIgnored(k, r) == TRUE

HashMatches(k, r) == k.hash = requestHash(r)

(* The loser reads the winner's row: the stored answer, or a 409. *)
Lookup(r) ==
  /\ pc[r] = "conflict"
  /\ \E k \in idempotencyKeys :
       /\ SameKey(k, r)
       /\ IF HashMatches(k, r) THEN Respond(r, 202, k.payment) ELSE Respond(r, 409, None)
  /\ UNCHANGED <<payments, idempotencyKeys, outbox>>

(* A statement fails, the loser's SELECT included: rolled back, 500. *)
Abort(r) ==
  /\ pc[r] \in {"begin", "open", "conflict"}
  /\ Respond(r, 500, None)
  /\ UNCHANGED <<payments, idempotencyKeys, outbox>>

(* The handler is gone; its transaction, if open, is left to Postgres, which *)
(* may already have been sent the COMMIT.                                   *)
Leave(r) == pc' = [pc EXCEPT ![r] = IF @ = "open" THEN "indoubt" ELSE "done"]

(* The connection breaks before the COMMIT is acknowledged: db.transaction  *)
(* throws, the error is no 23505 and is rethrown, 500.                      *)
LoseConnection(r) ==
  /\ pc[r] \in {"open", "committed"}
  /\ response' = [response EXCEPT ![r] = Answer(500, None)]
  /\ Leave(r)
  /\ UNCHANGED <<payments, idempotencyKeys, outbox>>

(* The API process dies, and the client hears nothing. *)
Die(r) ==
  /\ pc[r] \in {"begin", "open", "committed", "conflict"}
  /\ Leave(r)
  /\ UNCHANGED <<response, payments, idempotencyKeys, outbox>>

(* Postgres, whose client is gone: the COMMIT had reached it and is carried *)
(* out, or the transaction is rolled back.                                  *)
Resolve(r) ==
  /\ pc[r] = "indoubt"
  /\ MakeDurable(r) \/ UNCHANGED <<payments, idempotencyKeys, outbox>>
  /\ pc' = [pc EXCEPT ![r] = "done"]
  /\ UNCHANGED response

Handle(r) ==
  \/ Validate(r) \/ InsertKey(r) \/ UniqueViolation(r) \/ Commit(r)
  \/ RespondAccepted(r) \/ Lookup(r)

Next ==
  \E r \in Requests : Handle(r) \/ Abort(r) \/ LoseConnection(r) \/ Die(r) \/ Resolve(r)

Spec == Init /\ [][Next]_vars

(* Every handler keeps running until it answers or its process dies, and    *)
(* Postgres ends the transactions of clients that are gone.                 *)
FairSpec == Spec /\ \A r \in Requests : WF_vars(Handle(r)) /\ WF_vars(Resolve(r))

------------------------------------------------------------------------------
(* However its requests race, retry, abort and die, a customer's            *)
(* Idempotency-Key creates at most one payment.                             *)
OnePaymentPerKey ==
  \A x, y \in payments : SameKey(x, y) => x = y

(* A 202 is a promise: it names a committed payment of that customer and    *)
(* key, submitted with the same body, and its outbox row is there, so the   *)
(* relay will see it.                                                       *)
AcceptedIsDurable ==
  \A r \in Requests : response[r] # None =>
    (response[r].status = 202 =>
       LET p == response[r].payment
       IN /\ p \in payments
          /\ p \in outbox
          /\ SameKey(p, r) /\ requestHash(p) = requestHash(r))

(* Requests that race under one key and body are all told of the same       *)
(* payment, and a 409 is only given to a body that differs from the one     *)
(* that won.                                                                *)
ConsistentAnswers ==
  \A r, q \in Requests :
    response[r] # None /\ response[q] # None /\ SameKey(r, q) /\ response[q].status = 202 =>
      /\ response[r].status = 202 => response[r].payment = response[q].payment
      /\ response[r].status = 409 => requestHash(r) # requestHash(q)

(* The "did not exist" error behind a unique violation is unreachable: the  *)
(* row that caused it is committed when the loser looks.                    *)
LookupFinds ==
  \A r \in Requests : pc[r] = "conflict" => Taken(r)

Contract == INSTANCE SubmissionContract

(* The API keeps its contract: at every step of any handler the payments    *)
(* and answers change as the contract allows.  Only a valid request that    *)
(* was told nothing or a 500 creates a payment, and only the first of its   *)
(* key, so that a retry under the same key is safe after a 500 and after    *)
(* silence, though either may hide a payment (create_payment, insert_txn).  *)
ImplementsContract == Contract!Spec

(* Nobody waits for ever on the unique index: every request is answered     *)
(* unless its process dies.                                                 *)
EveryRequestEnds ==
  \A r \in Requests : <>(pc[r] = "done")

===============================================================================
