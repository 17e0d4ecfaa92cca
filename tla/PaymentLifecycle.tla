--------------------------- MODULE PaymentLifecycle ---------------------------
(***************************************************************************)
(* What the payment pipeline promises, whatever its workers, relays, queue *)
(* and faults do: a payment walks the shared state machine, leaves one     *)
(* history entry per step, is charged at most once and never before it is  *)
(* claimed, is COMPLETED only after the charge, and announces a bank's     *)
(* verdict exactly once.  PaymentPipeline is checked and proved to         *)
(* implement this specification when the bank honours idempotency keys.    *)
(***************************************************************************)
EXTENDS Naturals, Sequences, PaymentStatus

CONSTANT Payments

VARIABLES
  status,    \* the status of each payment, "NONE" before it is accepted
  history,   \* the statuses each payment has had, oldest first
  charges,   \* how often each payment's money has moved
  announced  \* the terminal events written for each payment

lifecycleVars == <<status, history, charges, announced>>

Init ==
  /\ status = [p \in Payments |-> "NONE"]
  /\ history = [p \in Payments |-> <<>>]
  /\ charges = [p \in Payments |-> 0]
  /\ announced = [p \in Payments |-> <<>>]

(* Move the payments of S together to status to. *)
Step(S, to) ==
  /\ status' = [p \in Payments |-> IF p \in S THEN to ELSE status[p]]
  /\ history' = [p \in Payments |-> IF p \in S THEN Append(history[p], to) ELSE history[p]]

Accept(p) ==
  /\ status[p] = "NONE"
  /\ Step({p}, "PENDING")
  /\ UNCHANGED <<charges, announced>>

Claim(p) ==
  /\ status[p] \in {"PENDING", "RETRYING"}
  /\ Step({p}, "PROCESSING")
  /\ UNCHANGED <<charges, announced>>

(* The bank moves the money, possibly long after the caller gave up on it. *)
Charge(p) ==
  /\ status[p] \notin {"NONE", "PENDING"}
  /\ charges[p] = 0
  /\ charges' = [charges EXCEPT ![p] = 1]
  /\ UNCHANGED <<status, history, announced>>

Complete(p) ==
  /\ status[p] = "PROCESSING"
  /\ charges[p] = 1
  /\ Step({p}, "COMPLETED")
  /\ announced' = [announced EXCEPT ![p] = Append(@, "payment.completed")]
  /\ UNCHANGED charges

Decline(p) ==
  /\ status[p] = "PROCESSING"
  /\ Step({p}, "FAILED")
  /\ announced' = [announced EXCEPT ![p] = Append(@, "payment.failed")]
  /\ UNCHANGED charges

(* Retries exhausted: the one way to end without an announcement. *)
GiveUp(p) ==
  /\ status[p] = "PROCESSING"
  /\ Step({p}, "FAILED")
  /\ UNCHANGED <<charges, announced>>

(* One worker sends one payment back, the reaper a whole batch. *)
Retry(S) ==
  /\ \A p \in S : status[p] = "PROCESSING"
  /\ Step(S, "RETRYING")
  /\ UNCHANGED <<charges, announced>>

Next ==
  \/ \E p \in Payments :
       Accept(p) \/ Claim(p) \/ Charge(p) \/ Complete(p) \/ Decline(p) \/ GiveUp(p)
  \/ \E S \in SUBSET Payments : Retry(S)

Spec == Init /\ [][Next]_lifecycleVars

===============================================================================
