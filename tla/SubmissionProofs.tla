--------------------------- MODULE SubmissionProofs ---------------------------
(***************************************************************************)
(* Idempotent submission, for any set of requests, customers and keys.     *)
(***************************************************************************)
EXTENDS Submission, TLAPS

(* The three tables are written by one commit. *)
TablesAgree ==
  /\ outbox = payments
  /\ idempotencyKeys = {KeyRow(p) : p \in payments}

(* A transaction that is not over, also when its client is gone, holds its  *)
(* key alone, against the committed rows and against the others.            *)
Holds(r) == pc[r] \in {"open", "indoubt"}

KeyHeld ==
  \A r \in Requests : Holds(r) =>
    /\ \A p \in payments : ~SameKey(p, r)
    /\ \A q \in Requests : q # r /\ Holds(q) => ~SameKey(q, r)

CommitKnown ==
  /\ \A r \in Requests : pc[r] = "committed" => r \in payments
  /\ \A r \in Requests : pc[r] = "conflict" => \E p \in payments : SameKey(p, r)

(* A 409 is the trace of a payment with another body under the key. *)
RefusedDiffers ==
  \A r \in Requests : response[r] # None /\ response[r].status = 409 =>
    \E p \in payments : SameKey(p, r) /\ requestHash(p) # requestHash(r)

Inv ==
  /\ TypeOK
  /\ TablesAgree
  /\ KeyHeld
  /\ CommitKnown
  /\ OnePaymentPerKey
  /\ AcceptedIsDurable
  /\ RefusedDiffers

(* The invariant holds at the start.                                        *)
LEMMA InvInit == Init => Inv
BY DEF Init, Inv, TypeOK, TablesAgree, KeyHeld, Holds, CommitKnown, OnePaymentPerKey, AcceptedIsDurable,
     RefusedDiffers

(* A key that is taken is the key of a committed payment. *)
LEMMA TakenMeansPaid ==
  ASSUME TablesAgree, NEW r \in Requests
  PROVE  /\ Taken(r) <=> \E p \in payments : SameKey(p, r)
         /\ \A k \in idempotencyKeys : SameKey(k, r) =>
              /\ k.payment \in payments
              /\ SameKey(k.payment, r)
              /\ HashMatches(k, r) <=> requestHash(k.payment) = requestHash(r)
<1>1. ASSUME NEW p \in payments
      PROVE  /\ KeyRow(p) \in idempotencyKeys
             /\ SameKey(KeyRow(p), r) <=> SameKey(p, r)
             /\ KeyRow(p).payment = p
             /\ HashMatches(KeyRow(p), r) <=> requestHash(p) = requestHash(r)
  BY DEF TablesAgree, KeyRow, SameKey, HashMatches
<1>2. \A k \in idempotencyKeys : \E p \in payments : k = KeyRow(p)
  BY DEF TablesAgree
<1>3. QED
  BY <1>1, <1>2 DEF Taken

(* Where a step that writes no row may lead a handler. *)
Moves(r, position) ==
  /\ pc' = [pc EXCEPT ![r] = position]
  /\ position \in {"begin", "conflict", "indoubt", "done"}
  /\ position = "conflict" => \E p \in payments : SameKey(p, r)
  /\ position = "indoubt" => Holds(r)
  /\ UNCHANGED <<payments, idempotencyKeys, outbox>>

LEMMA MoveStep ==
  ASSUME Inv, NEW r \in Requests, NEW position, Moves(r, position)
  PROVE  TablesAgree' /\ KeyHeld' /\ CommitKnown' /\ OnePaymentPerKey'
BY DEF Moves, Inv, TypeOK, TablesAgree, KeyHeld, Holds, CommitKnown, OnePaymentPerKey

(* Steps that leave the tables alone and answer nothing. *)
LEMMA QuietStep ==
  ASSUME Inv, NEW r \in Requests, NEW position, Moves(r, position), UNCHANGED response
  PROVE  Inv'
<1>1. TablesAgree' /\ KeyHeld' /\ CommitKnown' /\ OnePaymentPerKey'
  BY MoveStep
<1>2. TypeOK' /\ AcceptedIsDurable' /\ RefusedDiffers'
  BY DEF Moves, Inv, TypeOK, AcceptedIsDurable, RefusedDiffers
<1> QED BY <1>1, <1>2 DEF Inv

(* Steps that answer and leave the tables alone. *)
Told(r, code, p) == response' = [response EXCEPT ![r] = Answer(code, p)]

LEMMA AnswerStep ==
  ASSUME Inv, NEW r \in Requests, NEW position \in {"indoubt", "done"},
         NEW code \in Codes, NEW p \in Requests \cup {None},
         Moves(r, position), Told(r, code, p),
         code = 202 => p \in payments /\ SameKey(p, r) /\ requestHash(p) = requestHash(r),
         code = 409 => \E x \in payments : SameKey(x, r) /\ requestHash(x) # requestHash(r)
  PROVE  Inv'
<1>1. /\ Answer(code, p) \in [status : Codes, payment : Requests \cup {None}]
      /\ Answer(code, p).status = code /\ Answer(code, p).payment = p
  BY DEF Answer
<1>2. TypeOK'
  BY <1>1 DEF Moves, Told, Inv, TypeOK
<1>3. TablesAgree' /\ KeyHeld' /\ CommitKnown' /\ OnePaymentPerKey'
  BY MoveStep
<1>4. AcceptedIsDurable'
  BY <1>1 DEF Moves, Told, Inv, TypeOK, AcceptedIsDurable, TablesAgree
<1>5. RefusedDiffers'
  BY <1>1 DEF Moves, Told, Inv, TypeOK, RefusedDiffers
<1>6. QED
  BY <1>2, <1>3, <1>4, <1>5 DEF Inv

LEMMA RespondStep ==
  ASSUME Inv, NEW r \in Requests, NEW code \in Codes, NEW p \in Requests \cup {None},
         Respond(r, code, p), UNCHANGED <<payments, idempotencyKeys, outbox>>,
         code = 202 => p \in payments /\ SameKey(p, r) /\ requestHash(p) = requestHash(r),
         code = 409 => \E x \in payments : SameKey(x, r) /\ requestHash(x) # requestHash(r)
  PROVE  Inv'
<1>1. Moves(r, "done") /\ Told(r, code, p)
  BY DEF Moves, Respond, Told
<1> QED BY <1>1, AnswerStep

(* The commit, by the handler or by Postgres alone. *)
LEMMA DurableStep ==
  ASSUME Inv, NEW r \in Requests, NEW position \in {"committed", "done"}, Holds(r),
         MakeDurable(r), pc' = [pc EXCEPT ![r] = position], UNCHANGED response
  PROVE  Inv'
<1>t. TypeOK /\ TablesAgree /\ KeyHeld /\ CommitKnown /\ OnePaymentPerKey /\ AcceptedIsDurable /\ RefusedDiffers
  BY DEF Inv
<1>1. TypeOK' /\ TablesAgree'
  BY <1>t DEF MakeDurable, TypeOK, TablesAgree
<1>2. KeyHeld'
  BY <1>t DEF MakeDurable, TypeOK, KeyHeld, Holds, SameKey
<1>3. CommitKnown'
  BY <1>t DEF MakeDurable, TypeOK, CommitKnown
<1>4. OnePaymentPerKey'
  BY <1>t DEF MakeDurable, KeyHeld, OnePaymentPerKey, SameKey
<1>5. AcceptedIsDurable' /\ RefusedDiffers'
  BY <1>t DEF MakeDurable, AcceptedIsDurable, RefusedDiffers
<1> QED BY <1>1, <1>2, <1>3, <1>4, <1>5 DEF Inv

(* A handler that is gone leaves its open transaction behind. *)
LEMMA LeaveMoves ==
  ASSUME Inv, NEW r \in Requests, Leave(r), UNCHANGED <<payments, idempotencyKeys, outbox>>
  PROVE  \E position \in {"indoubt", "done"} : Moves(r, position)
<1>1. CASE pc[r] = "open"
  <2>1. Moves(r, "indoubt")
    BY <1>1 DEF Leave, Moves, Holds, Inv, TypeOK
  <2> QED BY <2>1
<1>2. CASE pc[r] # "open"
  <2>1. Moves(r, "done")
    BY <1>2 DEF Leave, Moves, Inv, TypeOK
  <2> QED BY <2>1
<1> QED BY <1>1, <1>2

(* The invariant is inductive: one step per step of the handler.            *)
LEMMA InvStep == Inv /\ [Next]_vars => Inv'
<1> SUFFICES ASSUME Inv, [Next]_vars PROVE Inv'
  OBVIOUS
<1>t. TypeOK /\ TablesAgree /\ KeyHeld /\ CommitKnown /\ OnePaymentPerKey /\ AcceptedIsDurable /\ RefusedDiffers
  BY DEF Inv
<1>1. ASSUME NEW r \in Requests, Validate(r) PROVE Inv'
  <2>1. CASE Respond(r, 400, None) \/ Respond(r, 500, None)
    BY <1>1, <2>1, RespondStep DEF Validate, Codes
  <2>2. CASE Begin(r)
    <3>1. Moves(r, "begin") /\ UNCHANGED response
      BY <1>1, <2>2 DEF Validate, Begin, Moves
    <3> QED BY <3>1, QuietStep
  <2>3. QED
    BY <1>1, <2>1, <2>2 DEF Validate
<1>2. ASSUME NEW r \in Requests, InsertKey(r) PROVE Inv'
  <2>1. \A p \in payments : ~SameKey(p, r)
    BY <1>2, <1>t, TakenMeansPaid DEF InsertKey
  <2>2. \A q \in Requests : q # r /\ Holds(q) => ~SameKey(q, r) /\ ~SameKey(r, q)
    BY <1>2 DEF InsertKey, Blocked, Holds, SameKey
  <2>3. KeyHeld'
    BY <1>2, <1>t, <2>1, <2>2 DEF InsertKey, KeyHeld, Holds, TypeOK
  <2>4. TypeOK' /\ TablesAgree' /\ CommitKnown' /\ OnePaymentPerKey' /\ AcceptedIsDurable' /\ RefusedDiffers'
    BY <1>2, <1>t DEF InsertKey, TypeOK, TablesAgree, CommitKnown, OnePaymentPerKey, AcceptedIsDurable,
       RefusedDiffers
  <2>5. QED
    BY <2>3, <2>4 DEF Inv
<1>3. ASSUME NEW r \in Requests, UniqueViolation(r) PROVE Inv'
  <2>1. Moves(r, "conflict") /\ UNCHANGED response
    BY <1>3, <1>t, TakenMeansPaid DEF UniqueViolation, Moves
  <2> QED BY <2>1, QuietStep
<1>4. ASSUME NEW r \in Requests, Commit(r) PROVE Inv'
  BY <1>4, DurableStep DEF Commit, Holds
<1>5. ASSUME NEW r \in Requests, RespondAccepted(r) PROVE Inv'
  <2>1. r \in payments /\ SameKey(r, r)
    BY <1>5, <1>t DEF RespondAccepted, CommitKnown, SameKey
  <2>2. QED
    BY <1>5, <2>1, RespondStep DEF RespondAccepted, Codes
<1>6. ASSUME NEW r \in Requests, Lookup(r) PROVE Inv'
  <2>1. PICK k \in idempotencyKeys :
          /\ SameKey(k, r)
          /\ IF HashMatches(k, r) THEN Respond(r, 202, k.payment) ELSE Respond(r, 409, None)
    BY <1>6 DEF Lookup
  <2>2. PICK p \in payments : /\ p = k.payment /\ SameKey(p, r)
                              /\ HashMatches(k, r) <=> requestHash(p) = requestHash(r)
    BY <1>t, <2>1, TakenMeansPaid
  <2>3. p \in Requests
    BY <1>t DEF TypeOK
  <2>4. CASE HashMatches(k, r)
    BY <1>6, <2>1, <2>2, <2>3, <2>4, RespondStep DEF Lookup, Codes
  <2>5. CASE ~HashMatches(k, r)
    BY <1>6, <2>1, <2>2, <2>5, RespondStep DEF Lookup, Codes
  <2>6. QED
    BY <2>4, <2>5
<1>7. ASSUME NEW r \in Requests, Abort(r) PROVE Inv'
  BY <1>7, RespondStep DEF Abort, Codes
<1>8. ASSUME NEW r \in Requests, LoseConnection(r) PROVE Inv'
  <2>1. PICK position \in {"indoubt", "done"} : Moves(r, position)
    BY <1>8, LeaveMoves DEF LoseConnection
  <2>2. Told(r, 500, None)
    BY <1>8 DEF LoseConnection, Told
  <2> QED BY <2>1, <2>2, AnswerStep DEF Codes
<1>9. ASSUME NEW r \in Requests, Die(r) PROVE Inv'
  BY <1>9, LeaveMoves, QuietStep DEF Die
<1>10. ASSUME NEW r \in Requests, Resolve(r) PROVE Inv'
  <2>1. CASE MakeDurable(r)
    BY <1>10, <2>1, DurableStep DEF Resolve, Holds
  <2>2. CASE UNCHANGED <<payments, idempotencyKeys, outbox>>
    <3>1. Moves(r, "done") /\ UNCHANGED response
      BY <1>10, <2>2 DEF Resolve, Moves
    <3> QED BY <3>1, QuietStep
  <2> QED BY <1>10, <2>1, <2>2 DEF Resolve
<1>11. CASE UNCHANGED vars
  BY <1>11, <1>t DEF vars, Inv, TypeOK, TablesAgree, KeyHeld, Holds, CommitKnown, OnePaymentPerKey,
     AcceptedIsDurable, RefusedDiffers
<1> QED
  BY <1>1, <1>2, <1>3, <1>4, <1>5, <1>6, <1>7, <1>8, <1>9, <1>10, <1>11 DEF Next, Handle

(* Every reachable state of the submission handlers and tables satisfies    *)
(* the inductive invariant: a key row, its payment and its outbox row exist *)
(* together, and a transaction that is not over has its key to itself.      *)
THEOREM Invariance == Spec => []Inv
BY InvInit, InvStep, PTL DEF Spec

(* Every reachable state of the submission handlers and tables is well      *)
(* typed: insert_txn writes a payment, its key and its outbox row of the    *)
(* same request, and the handlers answer with one of the documented codes.  *)
THEOREM SubmissionTypes == Spec => []TypeOK
<1>1. Inv => TypeOK
  BY DEF Inv
<1>2. QED
  BY <1>1, Invariance, PTL

(* A 202 of create names a payment that is committed, with the caller's key *)
(* and body, also when the request lost the race and found another's row.   *)
THEOREM AcceptedDurable == Spec => []AcceptedIsDurable
<1>1. Inv => AcceptedIsDurable
  BY DEF Inv
<1>2. QED
  BY <1>1, Invariance, PTL

(* A customer's Idempotency-Key creates at most one payment, and a 202      *)
(* names a durable one with the same body.                                  *)
THEOREM SubmittedOnce == Spec => [](OnePaymentPerKey /\ AcceptedIsDurable)
<1>1. Inv => OnePaymentPerKey /\ AcceptedIsDurable
  BY DEF Inv
<1>2. QED
  BY <1>1, Invariance, PTL

(* The loser of the race for a key finds the winner's row. *)
THEOREM LoserFinds == Spec => []LookupFinds
<1>1. Inv => LookupFinds
  BY TakenMeansPaid DEF Inv, CommitKnown, LookupFinds
<1>2. QED
  BY <1>1, Invariance, PTL

(* Requests under one key are given answers that agree. *)
THEOREM AnswersAgree == Spec => []ConsistentAnswers
<1>1. ASSUME Inv PROVE ConsistentAnswers
  <2> SUFFICES ASSUME NEW r \in Requests, NEW q \in Requests, response[r] # None, response[q] # None,
                      SameKey(r, q), response[q].status = 202
               PROVE  /\ response[r].status = 202 => response[r].payment = response[q].payment
                      /\ response[r].status = 409 => requestHash(r) # requestHash(q)
    BY DEF ConsistentAnswers
  <2>1. /\ response[q].payment \in payments
        /\ SameKey(response[q].payment, q) /\ requestHash(response[q].payment) = requestHash(q)
    BY <1>1 DEF Inv, AcceptedIsDurable
  <2>2. \A p \in payments : SameKey(p, r) => p = response[q].payment
    BY <1>1, <2>1 DEF Inv, OnePaymentPerKey, SameKey
  <2>3. CASE response[r].status = 202
    BY <1>1, <2>2, <2>3 DEF Inv, AcceptedIsDurable
  <2>4. CASE response[r].status = 409
    BY <1>1, <2>1, <2>2, <2>4 DEF Inv, RefusedDiffers
  <2>5. QED
    BY <2>3, <2>4
<1>2. QED
  BY <1>1, Invariance, PTL

------------------------------------------------------------------------------
(* The contract needs to know, besides, where a handler stands: one that    *)
(* was answered is done, or was told 500 while its transaction is in doubt; *)
(* and it has validated its request before it reaches the tables.           *)
Placed ==
  \A r \in Requests :
    /\ response[r] # None =>
         pc[r] = "done" \/ (pc[r] = "indoubt" /\ response[r].status = 500)
    /\ pc[r] \in {"begin", "open", "committed", "conflict", "indoubt"} => Contract!Valid(r)

LEMMA PlacedStep == TypeOK /\ Placed /\ [Next]_vars => Placed'
<1> SUFFICES ASSUME TypeOK, Placed, [Next]_vars PROVE Placed'
  OBVIOUS
<1>1. ASSUME NEW r \in Requests, Validate(r) PROVE Placed'
  BY <1>1 DEF Validate, Begin, Respond, Placed, TypeOK, Contract!Valid, Contract!Refused
<1>2. ASSUME NEW r \in Requests, InsertKey(r) \/ UniqueViolation(r) \/ Commit(r) PROVE Placed'
  BY <1>2 DEF InsertKey, UniqueViolation, Commit, Placed, TypeOK
<1>3. ASSUME NEW r \in Requests, RespondAccepted(r) \/ Lookup(r) \/ Abort(r) PROVE Placed'
  BY <1>3 DEF RespondAccepted, Lookup, Abort, Respond, Placed, TypeOK
<1>4. ASSUME NEW r \in Requests, LoseConnection(r) PROVE Placed'
  BY <1>4 DEF LoseConnection, Leave, Answer, Placed, TypeOK
<1>5. ASSUME NEW r \in Requests, Die(r) \/ Resolve(r) PROVE Placed'
  BY <1>5 DEF Die, Leave, Resolve, Placed, TypeOK
<1>6. CASE UNCHANGED vars
  BY <1>6 DEF vars, Placed
<1> QED BY <1>1, <1>2, <1>3, <1>4, <1>5, <1>6 DEF Next, Handle

(* An answer is the contract's. *)
LEMMA ContractTell ==
  ASSUME Placed, NEW r \in Requests, NEW code, NEW p,
         pc[r] \notin {"done", "indoubt"},
         response' = [response EXCEPT ![r] = Answer(code, p)], UNCHANGED payments
  PROVE  Contract!Tell(r, code, p)
BY DEF Placed, Answer, Contract!Tell

(* So is a commit, also one that follows a 500. *)
LEMMA ContractCreate ==
  ASSUME Inv, Placed, NEW r \in Requests, Holds(r), MakeDurable(r), UNCHANGED response
  PROVE  Contract!Next
<1>1. Contract!Undecided(r) /\ Contract!Valid(r)
  BY DEF Holds, Placed, Contract!Undecided
<1>2. \A p \in payments : ~Contract!SameKey(p, r)
  BY DEF Inv, KeyHeld, Contract!SameKey, SameKey
<1>3. Contract!Create(r)
  BY <1>1, <1>2 DEF MakeDurable, Contract!Create
<1> QED BY <1>3 DEF Contract!Next

LEMMA ContractStep == Inv /\ Placed /\ [Next]_vars => [Contract!Next]_(Contract!contractVars)
<1> SUFFICES ASSUME Inv, Placed, [Next]_vars
             PROVE  Contract!Next \/ UNCHANGED <<payments, response>>
  BY DEF Contract!contractVars
<1>t. TypeOK /\ TablesAgree /\ CommitKnown
  BY DEF Inv
<1>1. ASSUME NEW r \in Requests, Validate(r)
      PROVE  Contract!Next \/ UNCHANGED <<payments, response>>
  <2>1. pc[r] = "received" /\ UNCHANGED payments
    BY <1>1 DEF Validate
  <2>2. CASE r.key = NoKey \/ r.body \in Invalid
    BY <1>1, <2>1, <2>2, ContractTell
    DEF Validate, Respond, Contract!Next, Contract!Rejected, Contract!Refused
  <2>3. CASE ~(r.key = NoKey \/ r.body \in Invalid) /\ r.body \in Unparseable
    BY <1>1, <2>1, <2>3, ContractTell
    DEF Validate, Respond, Contract!Next, Contract!Failed, Contract!Refused
  <2>4. CASE ~(r.key = NoKey \/ r.body \in Invalid) /\ r.body \notin Unparseable
    BY <1>1, <2>1, <2>4 DEF Validate, Begin
  <2> QED BY <2>2, <2>3, <2>4
<1>2. ASSUME NEW r \in Requests, Commit(r) PROVE Contract!Next
  BY <1>2, ContractCreate DEF Commit, Holds
<1>3. ASSUME NEW r \in Requests, RespondAccepted(r) PROVE Contract!Next
  <2>1. r \in payments /\ Contract!Tell(r, 202, r)
    BY <1>3, <1>t, ContractTell DEF RespondAccepted, Respond, CommitKnown
  <2>2. Contract!Accepted(r, r)
    BY <2>1 DEF Contract!Accepted, Contract!SameKey
  <2> QED BY <2>1, <2>2 DEF Contract!Next
<1>4. ASSUME NEW r \in Requests, Lookup(r) PROVE Contract!Next
  <2>1. PICK k \in idempotencyKeys :
          /\ SameKey(k, r)
          /\ IF HashMatches(k, r) THEN Respond(r, 202, k.payment) ELSE Respond(r, 409, None)
    BY <1>4 DEF Lookup
  <2>2. PICK p \in payments : /\ p = k.payment /\ SameKey(p, r)
                              /\ HashMatches(k, r) <=> p.body = r.body
    BY <1>t, <2>1, TakenMeansPaid DEF requestHash
  <2>3. CASE HashMatches(k, r)
    <3>1. Contract!Tell(r, 202, p)
      BY <1>4, <2>1, <2>2, <2>3, ContractTell DEF Lookup, Respond
    <3>2. Contract!Accepted(r, p)
      BY <2>2, <2>3, <3>1 DEF Contract!Accepted, Contract!SameKey, SameKey
    <3> QED BY <3>2 DEF Contract!Next
  <2>4. CASE ~HashMatches(k, r)
    <3>1. Contract!Tell(r, 409, None)
      BY <1>4, <2>1, <2>4, ContractTell DEF Lookup, Respond
    <3>2. Contract!Conflicting(r, p)
      BY <2>2, <2>4, <3>1 DEF Contract!Conflicting, Contract!SameKey, SameKey
    <3> QED BY <3>2 DEF Contract!Next
  <2> QED BY <2>3, <2>4
<1>5. ASSUME NEW r \in Requests, Abort(r) \/ LoseConnection(r) PROVE Contract!Next
  <2>1. ~Contract!Refused(r) /\ Contract!Tell(r, 500, None)
    BY <1>5, ContractTell DEF Abort, LoseConnection, Respond, Placed, Contract!Valid
  <2> QED BY <2>1 DEF Contract!Next, Contract!Failed
<1>6. ASSUME NEW r \in Requests, Resolve(r)
      PROVE  Contract!Next \/ UNCHANGED <<payments, response>>
  BY <1>6, ContractCreate DEF Resolve, Holds
<1>7. ASSUME NEW r \in Requests, InsertKey(r) \/ UniqueViolation(r) \/ Die(r)
      PROVE  UNCHANGED <<payments, response>>
  BY <1>7 DEF InsertKey, UniqueViolation, Die
<1>8. CASE UNCHANGED vars
  BY <1>8 DEF vars
<1> QED BY <1>1, <1>2, <1>3, <1>4, <1>5, <1>6, <1>7, <1>8 DEF Next, Handle

(* POST /payments implements its contract: handlers that race, wait on the  *)
(* unique index, abort, die or lose the acknowledgement of their COMMIT     *)
(* never answer 202 or 409 against what is committed, a 400 or 409 is given *)
(* to requests that created nothing and never will, and what a 500 hides is *)
(* at most the one payment of its key.                                      *)
THEOREM SubmissionRefines == Spec => ImplementsContract
<1>1. Init => Contract!Init /\ Placed
  BY DEF Init, Contract!Init, Placed
<1>2. Inv => TypeOK
  BY DEF Inv
<1>3. Spec => []Placed
  BY <1>1, <1>2, PlacedStep, Invariance, PTL DEF Spec
<1> QED BY <1>1, <1>3, ContractStep, Invariance, PTL DEF Spec, ImplementsContract, Contract!Spec

===============================================================================
