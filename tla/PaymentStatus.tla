---------------------------- MODULE PaymentStatus ----------------------------
(***************************************************************************)
(* The payment state machine shared by the API, the worker and the web     *)
(* client (packages/shared/src/index.ts).                                  *)
(***************************************************************************)

PAYMENT_STATUS == {"PENDING", "PROCESSING", "COMPLETED", "FAILED", "RETRYING"}

transitionMap ==
  [PENDING    |-> {"PROCESSING"},
   PROCESSING |-> {"COMPLETED", "FAILED", "RETRYING"},
   RETRYING   |-> {"PROCESSING"},
   COMPLETED  |-> {},
   FAILED     |-> {}]

canTransition(from, to) == to \in transitionMap[from]

Terminal == {"COMPLETED", "FAILED"}

(* The statuses the reaper looks for (reaper.service.ts). *)
InFlight == {"PROCESSING", "RETRYING"}

==============================================================================
