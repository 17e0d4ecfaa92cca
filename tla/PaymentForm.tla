------------------------------ MODULE PaymentForm ------------------------------
(* The dashboard's payment drawer (web components/SubmitPaymentForm.tsx,        *)
(* opened by app/page.tsx) in front of POST /v1/payments. The operator types,   *)
(* submits, retries under the same or another Idempotency-Key, and closes the   *)
(* drawer whenever they like; requests and answers get lost.                    *)
(*                                                                             *)
(* The API is the contract that module Submission shows it to keep: a payment   *)
(* is named by its key, since it has one customer here.                         *)
EXTENDS Money

CONSTANTS
  Keys,      \* keys that randomId() may produce
  NoKey,     \* the empty key
  Amounts,   \* texts the operator may type
  Default,   \* DEFAULTS.amount
  MaxOrphans,\* requests without a drawer followed at a time
  None

\* What the operator types is a text or is refused by its pattern.
ASSUME TextsAssumption ==
  /\ Default \in Amounts
  /\ \A a \in Amounts : a = Malformed \/ IsText(a)

\* null is neither a row nor one of the words below.
ASSUME NoneAssumption ==
  /\ NoKey \notin Keys
  /\ None \notin {"accepted", "failed", "error", "Duplicate ignored"}
  /\ None \notin [body : Amounts, units : Nat]

VARIABLES
  open,        \* drawerOpen
  amount, key, \* what is in the form
  used,        \* keys randomId() has produced
  submitting,
  result,      \* what the form shows of its last request
  createdIds,  \* payments this drawer was told of
  req,         \* its request in flight
  orphans,     \* requests that no drawer waits for any more
  payments     \* the API's: the payment of each key

vars == <<open, amount, key, used, submitting, result, createdIds, req, orphans, payments>>
api == <<payments>>
form == <<open, amount, key, used, submitting, result, createdIds>>

\* CreatePaymentDto and insert_txn: a text that the pattern refuses or that does not
\* convert is refused.
Units == [a \in Amounts |-> convAmountToUnits(a)]

Init ==
  /\ open = FALSE
  /\ amount = Default /\ key = NoKey /\ used = {}
  /\ submitting = FALSE /\ result = None /\ createdIds = {}
  /\ req = None /\ orphans = {}
  /\ payments = [k \in Keys |-> None]

--------------------------------------------------------------------------------
(* The operator.                                                                *)

\* A UUID: one that was never produced before.
randomId == \E k \in Keys \ used : key' = k /\ used' = used \cup {k}

\* "New payment": a fresh component with fresh state.
Open ==
  /\ ~open
  /\ open' = TRUE
  /\ randomId
  /\ amount' = Default
  /\ submitting' = FALSE /\ result' = None /\ createdIds' = {}
  /\ UNCHANGED <<req, orphans, payments>>

\* Escape, the backdrop or the cross unmount the component; its request goes on.
Close ==
  /\ open
  /\ open' = FALSE
  /\ req = None \/ Cardinality(orphans) < MaxOrphans
  /\ req' = None
  /\ orphans' = IF req = None THEN orphans ELSE orphans \cup {req}
  /\ amount' = Default /\ key' = NoKey
  /\ submitting' = FALSE /\ result' = None /\ createdIds' = {}
  /\ UNCHANGED <<used, payments>>

\* The fields are never disabled, also not while a request is in flight.
EditAmount(a) ==
  /\ open /\ a # amount
  /\ amount' = a
  /\ UNCHANGED <<open, key, used, submitting, result, createdIds, req, orphans, payments>>

EditKey(k) ==
  /\ open /\ k # key
  /\ key' = k
  /\ UNCHANGED <<open, amount, used, submitting, result, createdIds, req, orphans, payments>>

\* The "New" button.
NewKey ==
  /\ open
  /\ randomId
  /\ UNCHANGED <<open, amount, submitting, result, createdIds, req, orphans, payments>>

\* The button is outside the form element: the inputs' patterns are not enforced.
\* It is disabled while a request is in flight.
CanSubmit == open /\ ~submitting

handleSubmit ==
  /\ CanSubmit
  /\ submitting' = TRUE
  /\ result' = None
  /\ req' = [key |-> key, amount |-> amount, made |-> FALSE, answer |-> None]
  /\ UNCHANGED <<open, amount, key, used, createdIds, orphans, payments>>

--------------------------------------------------------------------------------
(* The API and the network.                                                     *)

AnyBody(r, paid) == TRUE

\* The request hashes are equal.
SameBody(r, paid) == paid[r.key].body = r.amount

\* create_payment: 400 without a key or a well-formed amount, 500 if the amount does
\* not convert; otherwise the first request of a key creates the payment, one with
\* the same body is told of it, and one with another body is refused (409).
Handled(r, paid) ==
  CASE r.key = NoKey \/ Units[r.amount] = Error -> [r EXCEPT !.answer = "failed"]
    [] OTHER ->
         [r EXCEPT !.made = paid[r.key] = None,
                   !.answer = IF paid[r.key] = None \/ SameBody(r, paid)
                              THEN "accepted" ELSE "failed"]

Stored(r, paid) ==
  IF Handled(r, paid).made
  THEN [paid EXCEPT ![r.key] = [body |-> r.amount, units |-> Units[r.amount]]]
  ELSE paid

Handle ==
  /\ req # None /\ req.answer = None
  /\ req' = Handled(req, payments)
  /\ payments' = Stored(req, payments)
  /\ UNCHANGED <<orphans, form>>

\* What nobody waits for any more is handled, or lost, all the same.
HandleOrphan ==
  /\ \E r \in orphans :
       /\ orphans' = orphans \ {r}
       /\ payments' = IF r.answer = None THEN Stored(r, payments) ELSE payments
  /\ UNCHANGED <<req, form>>

\* The API, or Postgres behind it, may still be at work on a request without answer.
Abandon ==
  \/ UNCHANGED orphans
  \/ /\ req.answer = None
     /\ Cardinality(orphans) < MaxOrphans
     /\ orphans' = orphans \cup {req}

\* fetch() throws, since the request was lost on its way or its answer was; or a 500:
\* rolled back, or a COMMIT without acknowledgement that counts all the same.
Lose ==
  /\ req # None /\ req.answer # "failed"
  /\ req' = [req EXCEPT !.answer = "failed"]
  /\ Abandon
  /\ UNCHANGED <<form, api>>

LoseOrphan ==
  /\ \E r \in orphans : orphans' = orphans \ {r}
  /\ UNCHANGED <<req, form, api>>

AddedFirst(r) == r.key \in createdIds \cup {r.key}

\* What the drawer was told of before is a duplicate.
replayed(r) == r.key \in createdIds

NoFinally == req' = None /\ UNCHANGED submitting

Finally == req' = None /\ submitting' = FALSE

\* submitPayment returns or throws, and handleSubmit goes on.
Settle ==
  /\ req # None /\ req.answer # None
  /\ Finally
  /\ IF req.answer = "accepted"
     THEN /\ result' = [kind |-> IF replayed(req) THEN "replay" ELSE "new",
                        id |-> req.key, amount |-> req.amount, made |-> req.made]
          /\ createdIds' = createdIds \cup {req.key}
     ELSE /\ result' = [kind |-> "error"]
          /\ UNCHANGED createdIds
  /\ UNCHANGED <<open, amount, key, used, orphans, payments>>

Next ==
  \/ Open \/ Close \/ NewKey \/ handleSubmit
  \/ \E a \in Amounts : EditAmount(a)
  \/ \E k \in Keys \cup {NoKey} : EditKey(k)
  \/ Handle \/ HandleOrphan \/ Lose \/ LoseOrphan \/ Settle

Spec == Init /\ [][Next]_vars

\* The browser ends every request, and the promise's continuation runs.
FairSpec == Spec /\ WF_vars(Handle \/ Lose) /\ WF_vars(Settle)

--------------------------------------------------------------------------------
(* Properties.                                                                  *)

\* What the drawer shows below its fields.
Note ==
  IF result = None THEN None
  ELSE CASE result.kind = "error"  -> "error"
         [] result.kind = "replay" -> "Duplicate ignored"
         [] result.kind = "new"    -> "Accepted for processing"

\* The note "Duplicate ignored" is only shown for a request
\* that created nothing, although the form decides it by its own memory and the
\* operator may retry, edit or reopen at any time.
ReplayIsDuplicate == Note = "Duplicate ignored" => ~result.made

\* What the form reports as accepted is stored, under the amount that was submitted
\* and to the cent, though the key may name an earlier payment, the fields may have
\* been edited meanwhile, and the amount may be at the limit of what a number holds
\* (convAmountToUnits).
ResultIsStored ==
  Note \notin {None, "error"} =>
     /\ payments[result.id] # None
     /\ payments[result.id].units = Exact(result.amount)

\* The button does not stay disabled: a submission ends, whatever is lost, or the
\* drawer is closed (setSubmitting in the finally).
SubmitEnds == submitting ~> ~submitting

================================================================================
