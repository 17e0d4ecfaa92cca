---------------------------- MODULE CircuitBreaker ----------------------------
(***************************************************************************)
(* The CircuitBreaker class as operators on its private fields.  A breaker *)
(* is a record of its state and its failure count; openedAt is left to the *)
(* caller, which says whether OPEN_MS have elapsed since (PaymentPipeline  *)
(* allows both).  The count is only ever compared with FAILURE_THRESHOLD   *)
(* and only a success resets it, so it saturates there.                    *)
(***************************************************************************)
EXTENDS Naturals

CONSTANT FAILURE_THRESHOLD

ASSUME ThresholdAssumption == FAILURE_THRESHOLD \in Nat \ {0}

Breakers == [state : {"CLOSED", "OPEN", "HALF-OPEN"}, failures : 0..FAILURE_THRESHOLD]

NewBreaker == [state |-> "CLOSED", failures |-> 0]

Saturate(n) == IF n > FAILURE_THRESHOLD THEN FAILURE_THRESHOLD ELSE n

(* What allow() answers, given whether OPEN_MS have elapsed since openedAt. *)
allow(b, elapsed) ==
  \/ b.state = "CLOSED"
  \/ b.state = "OPEN" /\ elapsed

(* What allow() leaves behind: the caller it lets through an open breaker   *)
(* is the one probe.                                                        *)
afterAllow(b, elapsed) ==
  IF b.state = "OPEN" /\ elapsed THEN [b EXCEPT !.state = "HALF-OPEN"] ELSE b

TripsOpen(b) == b.state = "HALF-OPEN" \/ b.failures + 1 >= FAILURE_THRESHOLD

record(b, success) ==
  IF success
  THEN NewBreaker
  ELSE [state    |-> IF TripsOpen(b) THEN "OPEN" ELSE b.state,
        failures |-> Saturate(b.failures + 1)]

===============================================================================
