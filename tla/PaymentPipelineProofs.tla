------------------------ MODULE PaymentPipelineProofs ------------------------
(***************************************************************************)
(* Proofs about PaymentPipeline, for every set of payments, workers and    *)
(* relays, every retry limit, every bound on the faults: type correctness, *)
(* the safety properties, and that it implements PaymentLifecycle when the *)
(* bank honours idempotency keys.                                          *)
(***************************************************************************)
EXTENDS PaymentPipeline, FiniteSetTheorems, TLAPS

------------------------------------------------------------------------------
(***************************************************************************)
(* Type correctness.                                                       *)
(***************************************************************************)
(* The breaker operators map breakers to breakers. *)
LEMMA BreakerType ==
  ASSUME NEW b \in Breakers, NEW x \in BOOLEAN
  PROVE  afterAllow(b, x) \in Breakers /\ record(b, x) \in Breakers /\ NewBreaker \in Breakers
BY ThresholdAssumption DEF Breakers, afterAllow, record, NewBreaker, Saturate, TripsOpen

(* The three shapes of job id. *)
LEMMA JobIdType ==
  /\ \A p \in Payments : SubmittedJob(p) \in JobIds
  /\ \A p \in Payments, k \in 1..MAX_RETRIES : RetryJob(p, k) \in JobIds
  /\ \A p \in Payments, k \in 1..MaxReapJobs : ReapJob(p, k) \in JobIds
  /\ \A j \in JobIds : j.payment \in Payments
BY DEF JobIds, SubmittedJob, RetryJob, ReapJob

(* Every step keeps the types of the tables, the queue and the processes. *)
LEMMA TypeStep == TypeOK /\ [Next]_vars => TypeOK'
<1> SUFFICES ASSUME TypeOK, [Next]_vars PROVE TypeOK'
  OBVIOUS
<1> USE PipelineAssumption
<1>t. RowType /\ RelayType /\ QueueType /\ WorkerType /\ WorkerReady /\ BankType /\ faults \in 0..MaxFaults
  BY DEF TypeOK
<1>p. \A w \in Workers : pc[w] # "idle" => Payment(w) \in Payments
  BY <1>t, JobIdType DEF WorkerReady, Payment
<1>1. ASSUME NEW p \in Payments, Submit(p) PROVE TypeOK'
  <2>1. RowType'
    BY <1>1, <1>t DEF Submit, RowType, Event, Events, PAYMENT_STATUS, rowVars
  <2>2. RelayType'
    BY <1>1, <1>t DEF Submit, RelayType, relayVars
  <2>3. QueueType' /\ WorkerType' /\ WorkerReady' /\ BankType' /\ faults' \in 0..MaxFaults
    BY <1>1, <1>t DEF Submit, QueueType, WorkerType, WorkerReady, BankType, bankVars, queueVars,
         workerVars
  <2>4. QED
    BY <2>1, <2>2, <2>3 DEF TypeOK
<1>2. ASSUME NEW p \in Payments, Age(p) PROVE TypeOK'
  <2>1. RowType'
    BY <1>2, <1>t DEF Age, RowType, rowVars
  <2>2. RelayType' /\ QueueType' /\ WorkerType' /\ WorkerReady' /\ BankType' /\ faults' \in 0..MaxFaults
    BY <1>2, <1>t DEF Age, RelayType, QueueType, WorkerType, WorkerReady, BankType, bankVars,
         queueVars, relayVars, workerVars
  <2>3. QED
    BY <2>1, <2>2 DEF TypeOK
<1>3. ASSUME NEW r \in Relays, RelaySelect(r) PROVE TypeOK'
  <2>1. RelayType'
    BY <1>3, <1>t DEF RelaySelect, RelayType, RelaySelectable, relayVars
  <2>2. RowType' /\ QueueType' /\ WorkerType' /\ WorkerReady' /\ BankType' /\ faults' \in 0..MaxFaults
    BY <1>3, <1>t DEF RelaySelect, RowType, QueueType, WorkerType, WorkerReady, BankType,
         bankVars, queueVars, rowVars, workerVars
  <2>3. QED
    BY <2>1, <2>2 DEF TypeOK
<1>4. ASSUME NEW r \in Relays, NEW p \in Payments, RelayAdd(r, p) PROVE TypeOK'
  <2>1. RelayType'
    BY <1>4, <1>t DEF RelayAdd, RelayType, relayVars
  <2>2. QueueType'
    BY <1>4, <1>t, JobIdType DEF RelayAdd, QueueType, QueueAdd, queueVars
  <2>3. RowType' /\ WorkerType' /\ WorkerReady' /\ BankType' /\ faults' \in 0..MaxFaults
    BY <1>4, <1>t DEF RelayAdd, RowType, WorkerType, WorkerReady, BankType, bankVars, rowVars,
         workerVars
  <2>4. QED
    BY <2>1, <2>2, <2>3 DEF TypeOK
<1>5. ASSUME NEW r \in Relays, RelayPublish(r) PROVE TypeOK'
  <2>1. RelayType'
    BY <1>5, <1>t DEF RelayPublish, RelayType, relayVars
  <2>2. RowType' /\ QueueType' /\ WorkerType' /\ WorkerReady' /\ BankType' /\ faults' \in 0..MaxFaults
    BY <1>5, <1>t DEF RelayPublish, RowType, QueueType, WorkerType, WorkerReady, BankType,
         bankVars, queueVars, rowVars, workerVars
  <2>3. QED
    BY <2>1, <2>2 DEF TypeOK
<1>6. ASSUME NEW r \in Relays, RelayAbort(r) PROVE TypeOK'
  <2>1. RelayType'
    BY <1>6, <1>t DEF RelayAbort, RelayType, relayVars
  <2>2. RowType' /\ QueueType' /\ WorkerType' /\ WorkerReady' /\ BankType'
    BY <1>6, <1>t DEF RelayAbort, RowType, QueueType, WorkerType, WorkerReady, BankType,
         bankVars, queueVars, rowVars, workerVars
  <2>3. faults' \in 0..MaxFaults
    BY <1>6, <1>t DEF RelayAbort, Fault
  <2>4. QED
    BY <2>1, <2>2, <2>3 DEF TypeOK
<1>7. ASSUME NEW r \in Relays, Reap(r) PROVE TypeOK'
  <2>1. RowType'
    <3> DEFINE e == Event("PROCESSING", "RETRYING")
    <3>1. e \in Events
      BY DEF Event, Events, PAYMENT_STATUS
    <3>2. PICK S \in SUBSET Stuck : SendBack(Unstrand(S))
      BY <1>7 DEF Reap
    <3> DEFINE R == Unstrand(S)
    <3>3. paymentEvents' = [p \in Payments |->
                              IF p \in R THEN Append(paymentEvents[p], e) ELSE paymentEvents[p]]
      BY <3>2 DEF SendBack
    <3>4. /\ status' = [p \in Payments |-> IF p \in R THEN "RETRYING" ELSE status[p]]
          /\ attemptCount' = [p \in Payments |->
                                IF p \in R THEN attemptCount[p] + 1 ELSE attemptCount[p]]
          /\ version' = [p \in Payments |-> IF p \in R THEN version[p] + 1 ELSE version[p]]
          /\ overdue' = overdue \ R
      BY <3>2 DEF SendBack
    <3>5. terminalEvents' = terminalEvents
      BY <1>7 DEF Reap
    <3> HIDE DEF e, R
    <3>6. paymentEvents' \in [Payments -> Seq(Events)]
      BY <1>t, <3>1, <3>3 DEF RowType
    <3>7. QED
      BY <1>t, <3>4, <3>5, <3>6 DEF RowType, PAYMENT_STATUS
  <2>2. RelayType'
    BY <1>7, <1>t DEF Reap, RelayType, Stuck, RowType, relayVars
  <2>3. QueueType' /\ WorkerType' /\ WorkerReady' /\ BankType' /\ faults' \in 0..MaxFaults
    BY <1>7, <1>t DEF Reap, QueueType, WorkerType, WorkerReady, BankType, bankVars, queueVars,
         workerVars
  <2>4. QED
    BY <2>1, <2>2, <2>3 DEF TypeOK
<1>8. ASSUME NEW r \in Relays, NEW p \in Payments, ReapEnqueue(r, p) PROVE TypeOK'
  <2>1. RelayType'
    BY <1>8, <1>t DEF ReapEnqueue, RelayType, relayVars
  <2>2. QueueType'
    BY <1>8, <1>t, JobIdType DEF ReapEnqueue, QueueType, queueVars
  <2>3. RowType' /\ WorkerType' /\ WorkerReady' /\ BankType' /\ faults' \in 0..MaxFaults
    BY <1>8, <1>t DEF ReapEnqueue, RowType, WorkerType, WorkerReady, BankType, bankVars,
         rowVars, workerVars
  <2>4. QED
    BY <2>1, <2>2, <2>3 DEF TypeOK
<1>9. ASSUME NEW r \in Relays, ReapLost(r) PROVE TypeOK'
  <2>1. RelayType'
    BY <1>9, <1>t DEF ReapLost, RelayType, relayVars
  <2>2. RowType' /\ QueueType' /\ WorkerType' /\ WorkerReady' /\ BankType'
    BY <1>9, <1>t DEF ReapLost, RowType, QueueType, WorkerType, WorkerReady, BankType,
         bankVars, queueVars, rowVars, workerVars
  <2>3. faults' \in 0..MaxFaults
    BY <1>9, <1>t DEF ReapLost, Fault
  <2>4. QED
    BY <2>1, <2>2, <2>3 DEF TypeOK
<1>10. ASSUME NEW w \in Workers, NEW j \in JobIds, Dequeue(w, j) PROVE TypeOK'
  <2>1. QueueType'
    BY <1>10, <1>t DEF Dequeue, QueueType, queueVars
  <2>2. WorkerType'
    BY <1>10, <1>t DEF Dequeue, WorkerType, Goto, Positions, workerVars
  <2>3. WorkerReady'
    BY <1>10, <1>t DEF Dequeue, WorkerReady, Goto, Positions, WorkerType, workerVars
  <2>4. RowType' /\ RelayType' /\ BankType' /\ faults' \in 0..MaxFaults
    BY <1>10, <1>t DEF Dequeue, RowType, RelayType, BankType, bankVars, relayVars, rowVars
  <2>5. QED
    BY <2>1, <2>2, <2>3, <2>4 DEF TypeOK
<1>11. ASSUME NEW w \in Workers, ReadStatus(w) PROVE TypeOK'
  <2>1. WorkerType'
    BY <1>11, <1>t, JobIdType DEF ReadStatus, WorkerType, Goto, Positions, Payment, RowType,
         WorkerReady, workerVars
  <2>2. WorkerReady'
    BY <1>11, <1>t DEF ReadStatus, WorkerReady, Goto, Positions, WorkerType, workerVars
  <2>3. RowType' /\ RelayType' /\ QueueType' /\ BankType' /\ faults' \in 0..MaxFaults
    BY <1>11, <1>t DEF ReadStatus, RowType, RelayType, QueueType, BankType, bankVars, queueVars,
         relayVars, rowVars
  <2>4. QED
    BY <2>1, <2>2, <2>3 DEF TypeOK
<1>12. ASSUME NEW w \in Workers, Claim(w) PROVE TypeOK'
  <2>1. RowType'
    <3>1. Payment(w) \in Payments /\ Event(seen[w], "PROCESSING") \in Events
      BY <1>12, <1>t, JobIdType DEF Claim, Payment, WorkerType, WorkerReady, Event, Events,
           PAYMENT_STATUS
    <3>2. QED
      BY <1>12, <1>t, <3>1 DEF Claim, RowType, Transition, PAYMENT_STATUS
  <2>2. WorkerType'
    BY <1>12, <1>t DEF Claim, WorkerType, Goto, Positions, workerVars
  <2>3. WorkerReady'
    BY <1>12, <1>t DEF Claim, WorkerReady, Goto, Positions, WorkerType, workerVars
  <2>4. RelayType' /\ QueueType' /\ BankType' /\ faults' \in 0..MaxFaults
    BY <1>12, <1>t DEF Claim, RelayType, QueueType, BankType, bankVars, queueVars, relayVars
  <2>5. QED
    BY <2>1, <2>2, <2>3, <2>4 DEF TypeOK
<1>13. ASSUME NEW w \in Workers, ClaimMissed(w) PROVE TypeOK'
  <2>1. WorkerType'
    BY <1>13, <1>t DEF ClaimMissed, WorkerType, Goto, Positions, workerVars
  <2>2. WorkerReady'
    BY <1>13, <1>t DEF ClaimMissed, WorkerReady, Goto, Positions, WorkerType, workerVars
  <2>3. RowType' /\ RelayType' /\ QueueType' /\ BankType' /\ faults' \in 0..MaxFaults
    BY <1>13, <1>t DEF ClaimMissed, RowType, RelayType, QueueType, BankType, bankVars,
         queueVars, relayVars, rowVars
  <2>4. QED
    BY <2>1, <2>2, <2>3 DEF TypeOK
<1>14. ASSUME NEW w \in Workers, Gate(w) PROVE TypeOK'
  <2>1. WorkerType'
    BY <1>14, <1>t DEF Gate, WorkerType, Goto, Positions, PAYMENT_STATUS, workerVars
  <2>2. WorkerReady'
    BY <1>14, <1>t DEF Gate, WorkerReady, Goto, Positions, WorkerType, workerVars
  <2>3. BankType'
    BY <1>14, <1>t, BreakerType DEF Gate, BankType, bankVars
  <2>4. RowType' /\ RelayType' /\ QueueType' /\ faults' \in 0..MaxFaults
    BY <1>14, <1>t DEF Gate, RowType, RelayType, QueueType, queueVars, relayVars, rowVars
  <2>5. QED
    BY <2>1, <2>2, <2>3, <2>4 DEF TypeOK
<1>15. ASSUME NEW w \in Workers, BankAnswer(w) PROVE TypeOK'
  <2>1. WorkerType'
    BY <1>15, <1>t DEF BankAnswer, WorkerType, Goto, Positions, Outcomes, TargetOf, Terminal,
         workerVars
  <2>2. WorkerReady'
    BY <1>15, <1>t DEF BankAnswer, WorkerReady, Goto, Positions, WorkerType, Outcomes, TargetOf,
         workerVars
  <2>3. BankType'
    <3>1. PICK outcome : /\ Authorize(w, Payment(w), outcome)
                         /\ breaker' = [breaker EXCEPT ![w] = record(@, outcome # "error")]
                         /\ late' = late
      BY <1>15 DEF BankAnswer
    <3>2. breaker' \in [Workers -> Breakers]
      <4>1. breaker[w] \in Breakers /\ (outcome # "error") \in BOOLEAN
        BY <1>t DEF BankType
      <4>2. record(breaker[w], outcome # "error") \in Breakers
        BY <4>1, BreakerType
      <4>3. QED
        BY <1>t, <3>1, <4>2 DEF BankType
    <3>3. Payment(w) \in Payments
      BY <1>15, <1>p DEF BankAnswer
    <3>4. store' \in [Workers -> SUBSET Payments] /\ charges' \in [Payments -> Nat]
      BY <1>t, <3>1, <3>3 DEF BankType, Authorize
    <3>5. QED
      BY <1>t, <3>1, <3>2, <3>4 DEF BankType
  <2>4. RowType' /\ RelayType' /\ QueueType' /\ faults' \in 0..MaxFaults
    BY <1>15, <1>t DEF BankAnswer, RowType, RelayType, QueueType, queueVars, relayVars, rowVars
  <2>5. QED
    BY <2>1, <2>2, <2>3, <2>4 DEF TypeOK
<1>16. ASSUME NEW w \in Workers, BankTimeout(w) PROVE TypeOK'
  <2>1. WorkerType'
    BY <1>16, <1>t DEF BankTimeout, WorkerType, Goto, Positions, workerVars
  <2>2. WorkerReady'
    BY <1>16, <1>t DEF BankTimeout, WorkerReady, Goto, Positions, WorkerType, workerVars
  <2>3. BankType'
    <3>1. Payment(w) \in Payments
      BY <1>16, <1>p DEF BankTimeout
    <3>2. record(breaker[w], FALSE) \in Breakers
      BY <1>t, BreakerType DEF BankType
    <3>3. breaker' \in [Workers -> Breakers]
      BY <1>16, <1>t, <3>2 DEF BankTimeout, BankType
    <3>4. late' \subseteq Workers \X Payments
      BY <1>16, <1>t, <3>1 DEF BankTimeout, BankType
    <3>5. QED
      BY <1>16, <1>t, <3>3, <3>4 DEF BankTimeout, BankType
  <2>4. RowType' /\ RelayType' /\ QueueType' /\ faults' \in 0..MaxFaults
    BY <1>16, <1>t DEF BankTimeout, RowType, RelayType, QueueType, queueVars, relayVars, rowVars
  <2>5. QED
    BY <2>1, <2>2, <2>3, <2>4 DEF TypeOK
<1>17. ASSUME NEW w \in Workers, NEW p \in Payments, LateAnswer(w, p) PROVE TypeOK'
  <2>1. BankType'
    BY <1>17, <1>t DEF LateAnswer, BankType, Authorize, Shares, bankVars
  <2>2. RowType' /\ RelayType' /\ QueueType' /\ WorkerType' /\ WorkerReady' /\ faults' \in 0..MaxFaults
    BY <1>17, <1>t DEF LateAnswer, RowType, RelayType, QueueType, WorkerType, WorkerReady,
         queueVars, relayVars, rowVars, workerVars
  <2>3. QED
    BY <2>1, <2>2 DEF TypeOK
<1>18. ASSUME NEW w \in Workers, ScheduleRetry(w) PROVE TypeOK'
  <2>1. RowType'
    <3>1. Payment(w) \in Payments
      BY <1>18, <1>p DEF ScheduleRetry
    <3>2. Event("PROCESSING", "RETRYING") \in Events
      BY DEF Event, Events, PAYMENT_STATUS
    <3>3. QED
      BY <1>18, <1>t, <3>1, <3>2 DEF ScheduleRetry, RowType, Transition, PAYMENT_STATUS
  <2>2. WorkerType'
    BY <1>18, <1>t, JobIdType DEF ScheduleRetry, WorkerType, Goto, Positions, Payment,
         Exhausted, RowType, WorkerReady, workerVars
  <2>3. WorkerReady'
    BY <1>18, <1>t, JobIdType DEF ScheduleRetry, WorkerReady, Goto, Positions, WorkerType,
         RowType, Payment, workerVars
  <2>4. RelayType' /\ QueueType' /\ BankType' /\ faults' \in 0..MaxFaults
    BY <1>18, <1>t DEF ScheduleRetry, RelayType, QueueType, BankType, bankVars, queueVars,
         relayVars
  <2>5. QED
    BY <2>1, <2>2, <2>3, <2>4 DEF TypeOK
<1>19. ASSUME NEW w \in Workers, GiveUp(w) PROVE TypeOK'
  <2>1. RowType'
    <3>1. Payment(w) \in Payments
      BY <1>19, <1>p DEF GiveUp
    <3>2. Event("PROCESSING", "FAILED") \in Events
      BY DEF Event, Events, PAYMENT_STATUS
    <3>3. QED
      BY <1>19, <1>t, <3>1, <3>2 DEF GiveUp, RowType, Transition, PAYMENT_STATUS
  <2>2. WorkerType'
    BY <1>19, <1>t DEF GiveUp, WorkerType, Goto, Positions, workerVars
  <2>3. WorkerReady'
    BY <1>19, <1>t DEF GiveUp, WorkerReady, Goto, Positions, WorkerType, workerVars
  <2>4. RelayType' /\ QueueType' /\ BankType' /\ faults' \in 0..MaxFaults
    BY <1>19, <1>t DEF GiveUp, RelayType, QueueType, BankType, bankVars, queueVars, relayVars
  <2>5. QED
    BY <2>1, <2>2, <2>3, <2>4 DEF TypeOK
<1>20. ASSUME NEW w \in Workers, EnqueueRetry(w) PROVE TypeOK'
  <2>1. QueueType'
    BY <1>20, <1>t, JobIdType DEF EnqueueRetry, QueueType, QueueAdd, Payment, WorkerType,
         WorkerReady, queueVars
  <2>2. WorkerType'
    BY <1>20, <1>t DEF EnqueueRetry, WorkerType, Goto, Positions, workerVars
  <2>3. WorkerReady'
    BY <1>20, <1>t DEF EnqueueRetry, WorkerReady, Goto, Positions, WorkerType, workerVars
  <2>4. RowType' /\ RelayType' /\ BankType' /\ faults' \in 0..MaxFaults
    BY <1>20, <1>t DEF EnqueueRetry, RowType, RelayType, BankType, bankVars, relayVars, rowVars
  <2>5. QED
    BY <2>1, <2>2, <2>3, <2>4 DEF TypeOK
<1>21. ASSUME NEW w \in Workers, Finalize(w) PROVE TypeOK'
  <2>1. RowType'
    <3>1. Payment(w) \in Payments /\ target[w] \in Terminal
      BY <1>21, <1>t, JobIdType DEF Finalize, Payment, WorkerType, WorkerReady
    <3>2. /\ target[w] \in PAYMENT_STATUS
          /\ Event("PROCESSING", target[w]) \in Events
          /\ EventType(target[w]) \in {"payment.completed", "payment.failed"}
      BY <3>1 DEF Terminal, PAYMENT_STATUS, Event, Events, EventType
    <3>3. QED
      BY <1>21, <1>t, <3>1, <3>2 DEF Finalize, RowType, Transition
  <2>2. WorkerType'
    BY <1>21, <1>t DEF Finalize, WorkerType, Goto, Positions, workerVars
  <2>3. WorkerReady'
    BY <1>21, <1>t DEF Finalize, WorkerReady, Goto, Positions, WorkerType, workerVars
  <2>4. RelayType' /\ QueueType' /\ BankType' /\ faults' \in 0..MaxFaults
    BY <1>21, <1>t DEF Finalize, RelayType, QueueType, BankType, bankVars, queueVars, relayVars
  <2>5. QED
    BY <2>1, <2>2, <2>3, <2>4 DEF TypeOK
<1>22. ASSUME NEW w \in Workers, EndMissed(w) PROVE TypeOK'
  <2>1. WorkerType'
    BY <1>22, <1>t DEF EndMissed, WorkerType, Goto, Positions, workerVars
  <2>2. WorkerReady'
    BY <1>22, <1>t DEF EndMissed, WorkerReady, Goto, Positions, WorkerType, workerVars
  <2>3. RowType' /\ RelayType' /\ QueueType' /\ BankType' /\ faults' \in 0..MaxFaults
    BY <1>22, <1>t DEF EndMissed, RowType, RelayType, QueueType, BankType, bankVars, queueVars,
         relayVars, rowVars
  <2>4. QED
    BY <2>1, <2>2, <2>3 DEF TypeOK
<1>23. ASSUME NEW w \in Workers, Ack(w) PROVE TypeOK'
  <2>1. QueueType'
    BY <1>23, <1>t DEF Ack, QueueType, Release, WorkerReady, queueVars
  <2>2. WorkerType'
    BY <1>23, <1>t DEF Ack, WorkerType, Goto, Positions, Release, workerVars
  <2>3. WorkerReady'
    BY <1>23, <1>t DEF Ack, WorkerReady, Goto, Positions, Release, WorkerType, workerVars
  <2>4. RowType' /\ RelayType' /\ BankType' /\ faults' \in 0..MaxFaults
    BY <1>23, <1>t DEF Ack, RowType, RelayType, BankType, bankVars, relayVars, rowVars
  <2>5. QED
    BY <2>1, <2>2, <2>3, <2>4 DEF TypeOK
<1>24. ASSUME NEW w \in Workers, JobFails(w) PROVE TypeOK'
  <2>1. QueueType'
    BY <1>24, <1>t DEF JobFails, QueueType, Release, WorkerReady, queueVars
  <2>2. WorkerType'
    BY <1>24, <1>t DEF JobFails, WorkerType, Goto, Positions, Release, workerVars
  <2>3. WorkerReady'
    BY <1>24, <1>t DEF JobFails, WorkerReady, Goto, Positions, Release, WorkerType, workerVars
  <2>4. RowType' /\ RelayType' /\ BankType' /\ faults' \in 0..MaxFaults
    BY <1>24, <1>t DEF JobFails, RowType, RelayType, BankType, bankVars, relayVars, rowVars,
         Fault
  <2>5. QED
    BY <2>1, <2>2, <2>3, <2>4 DEF TypeOK
<1>25. ASSUME NEW w \in Workers, Crash(w) PROVE TypeOK'
  <2>1. QueueType'
    BY <1>25, <1>t DEF Crash, QueueType, Release, WorkerReady, queueVars
  <2>2. WorkerType'
    <3>1. CASE pc[w] = "idle"
      BY <1>25, <1>t, <3>1 DEF Crash, WorkerType, workerVars
    <3>2. CASE pc[w] # "idle"
      <4>1. Release(w, "stalled")
        BY <1>25, <3>2 DEF Crash
      <4>2. QED
        BY <1>t, <4>1 DEF WorkerType, Goto, Positions, Release
    <3>3. QED
      BY <3>1, <3>2
  <2>3. WorkerReady'
    BY <1>25, <1>t DEF Crash, WorkerReady, Goto, Positions, Release, WorkerType, workerVars
  <2>4. BankType'
    BY <1>25, <1>t, BreakerType, JobIdType DEF Crash, BankType, WorkerReady, Payment, bankVars
  <2>5. RowType' /\ RelayType' /\ faults' \in 0..MaxFaults
    BY <1>25, <1>t DEF Crash, RowType, RelayType, relayVars, rowVars, Fault
  <2>6. QED
    BY <2>1, <2>2, <2>3, <2>4, <2>5 DEF TypeOK
<1>26. ASSUME NEW w \in Workers, LockLost(w) PROVE TypeOK'
  <2>1. QueueType'
    BY <1>26, <1>t DEF LockLost, QueueType, WorkerReady, queueVars
  <2>2. WorkerType'
    BY <1>26, <1>t DEF LockLost, WorkerType, workerVars
  <2>3. WorkerReady'
    BY <1>26, <1>t DEF LockLost, WorkerReady, WorkerType, workerVars
  <2>4. RowType' /\ RelayType' /\ BankType' /\ faults' \in 0..MaxFaults
    BY <1>26, <1>t DEF LockLost, RowType, RelayType, BankType, bankVars, relayVars, rowVars,
         Fault
  <2>5. QED
    BY <2>1, <2>2, <2>3, <2>4 DEF TypeOK
<1>27. ASSUME NEW j \in JobIds, RecoverStalled(j) PROVE TypeOK'
  <2>1. QueueType'
    BY <1>27, <1>t DEF RecoverStalled, QueueType, queueVars
  <2>2. RowType' /\ RelayType' /\ WorkerType' /\ WorkerReady' /\ BankType' /\ faults' \in 0..MaxFaults
    BY <1>27, <1>t DEF RecoverStalled, RowType, RelayType, WorkerType, WorkerReady, BankType,
         bankVars, relayVars, rowVars, workerVars
  <2>3. QED
    BY <2>1, <2>2 DEF TypeOK
<1>28. CASE BrokerLoss
  <2>1. QueueType'
    BY <1>28, <1>t DEF BrokerLoss, QueueType, queueVars
  <2>2. WorkerType'
    BY <1>28, <1>t DEF BrokerLoss, WorkerType, workerVars
  <2>3. WorkerReady'
    BY <1>28, <1>t DEF BrokerLoss, WorkerReady, workerVars
  <2>4. RowType' /\ RelayType' /\ BankType' /\ faults' \in 0..MaxFaults
    BY <1>28, <1>t DEF BrokerLoss, RowType, RelayType, BankType, bankVars, relayVars, rowVars,
         Fault
  <2>5. QED
    BY <2>1, <2>2, <2>3, <2>4 DEF TypeOK
<1>29. CASE UNCHANGED vars
  BY <1>29, <1>t DEF TypeOK, RowType, RelayType, QueueType, WorkerType, WorkerReady, BankType,
     vars, rowVars, relayVars, queueVars, workerVars, bankVars
<1>30. QED
  BY <1>1, <1>2, <1>3, <1>4, <1>5, <1>6, <1>7, <1>8, <1>9, <1>10, <1>11, <1>12, <1>13, <1>14,
     <1>15, <1>16, <1>17, <1>18, <1>19, <1>20, <1>21, <1>22, <1>23, <1>24, <1>25, <1>26, <1>27,
     <1>28, <1>29 DEF Next, RelayStep, ReaperStep, WorkerStep

(* The types hold at the start. *)
LEMMA TypeInit == Init => TypeOK
BY PipelineAssumption, ThresholdAssumption DEF Init, TypeOK, RowType, RelayType, QueueType,
     WorkerType, WorkerReady, BankType, NewBreaker, Breakers, Positions

(* Type correctness: every reachable state of the pipeline is well typed. *)
THEOREM TypeCorrect == Spec => []TypeOK
BY TypeInit, TypeStep, PTL DEF Spec

------------------------------------------------------------------------------
(***************************************************************************)
(* Safety.                                                                 *)
(***************************************************************************)
(***************************************************************************)
(* The inductive invariant behind the safety properties.  A worker goes on *)
(* after a claim it did not make, and a bank call goes on after its worker *)
(* gave up on it, so what they rely on is not in the row they read but in  *)
(* what the row can no longer become: Claimed is never lost.               *)
(***************************************************************************)
Claimed(p) == status[p] \notin {"NONE", "PENDING"}

(* Whatever names a payment names an accepted one. *)
NamesAccepted ==
  /\ \A p \in Payments : outbox[p] # "none" => status[p] # "NONE"
  /\ \A r \in Relays : \A p \in held[r] \cup toReap[r] : status[p] # "NONE"
  /\ \A j \in JobIds : job[j] # "absent" => status[j.payment] # "NONE"
  /\ \A w \in Workers : pc[w] # "idle" => status[Payment(w)] # "NONE"

(* Whoever may call the bank for a payment does so after it was claimed, by *)
(* this worker or by the one that made its claim miss.                      *)
WorkersClaimed ==
  /\ \A w \in Workers :
       /\ pc[w] = "claim" => \/ seen[w] = "PENDING"
                             \/ seen[w] = "RETRYING" /\ Claimed(Payment(w))
       /\ pc[w] \notin {"idle", "read", "claim"} => Claimed(Payment(w))
  /\ \A w \in Workers, p \in Payments : <<w, p>> \in late => Claimed(p)

(* What the bank, its workers and the rows know of a charge. *)
ChargesKnown ==
  /\ \A p \in Payments : charges[p] > 0 => Claimed(p)
  /\ \A p \in Payments : status[p] = "COMPLETED" => charges[p] > 0
  /\ \A w \in Workers : \A p \in store[w] : charges[p] > 0
  /\ \A w \in Workers : pc[w] = "final" /\ target[w] = "COMPLETED" => charges[Payment(w)] > 0

(* A bank that honours idempotency keys: every process sees every key. *)
KeysHonoured ==
  DurableBank => \A p \in Payments : charges[p] > 0 => charges[p] = 1 /\ \A w \in Workers : p \in store[w]

(* Retry ids are handed out in increasing order and used once. *)
RetryIdsUsed ==
  /\ \A p \in Payments, k \in 1..MAX_RETRIES :
       job[RetryJob(p, k)] # "absent" => k <= attemptCount[p]
  /\ \A w \in Workers : pc[w] = "enqueue" =>
       /\ scheduledAttempt[w] <= attemptCount[Payment(w)]
       /\ job[RetryJob(Payment(w), scheduledAttempt[w])] = "absent"
  /\ \A v, w \in Workers :
       v # w /\ pc[v] = "enqueue" /\ pc[w] = "enqueue" /\ Payment(v) = Payment(w)
         => scheduledAttempt[v] # scheduledAttempt[w]

(* A locked job is active, and the lock is held by one worker. *)
OneOwner ==
  /\ \A w \in Workers : owns[w] => job[cur[w]] = "active"
  /\ \A v, w \in Workers : v # w /\ owns[v] /\ owns[w] => cur[v] # cur[w]

Inv ==
  /\ TypeOK
  /\ OneOwner
  /\ NamesAccepted
  /\ WorkersClaimed
  /\ ChargesKnown
  /\ KeysHonoured
  /\ RetryIdsUsed

------------------------------------------------------------------------------
(* The six things a step can do to a payment's row.  Every other module     *)
(* variable is free to change beside them.                                  *)
Moved(p, from, to) ==
  /\ status[p] = from
  /\ status'[p] = to
  /\ paymentEvents'[p] = Append(paymentEvents[p], Event(from, to))

RowKept(p) ==
  /\ status'[p] = status[p]
  /\ version'[p] = version[p]
  /\ attemptCount'[p] = attemptCount[p]
  /\ paymentEvents'[p] = paymentEvents[p]
  /\ terminalEvents'[p] = terminalEvents[p]

RowAccepted(p) ==
  /\ Moved(p, "NONE", "PENDING")
  /\ UNCHANGED <<version[p], attemptCount[p], terminalEvents[p]>>

RowClaimed(p) ==
  /\ Moved(p, "PENDING", "PROCESSING") \/ Moved(p, "RETRYING", "PROCESSING")
  /\ version'[p] = version[p] + 1
  /\ UNCHANGED <<attemptCount[p], terminalEvents[p]>>

RowReturned(p) ==
  /\ Moved(p, "PROCESSING", "RETRYING")
  /\ version'[p] = version[p] + 1
  /\ attemptCount'[p] = attemptCount[p] + 1
  /\ UNCHANGED <<terminalEvents[p]>>

RowGivenUp(p) ==
  /\ Moved(p, "PROCESSING", "FAILED")
  /\ version'[p] = version[p] + 1
  /\ attemptCount'[p] = attemptCount[p] + 1
  /\ attemptCount'[p] > MAX_RETRIES
  /\ UNCHANGED <<terminalEvents[p]>>

RowFinalized(p) ==
  \E t \in Terminal :
    /\ Moved(p, "PROCESSING", t)
    /\ version'[p] = version[p] + 1
    /\ t = "COMPLETED" => charges[p] > 0
    /\ terminalEvents'[p] = Append(terminalEvents[p], EventType(t))
    /\ UNCHANGED <<attemptCount[p]>>

RowStep(p) ==
  \/ RowKept(p) \/ RowAccepted(p) \/ RowClaimed(p)
  \/ RowReturned(p) \/ RowGivenUp(p) \/ RowFinalized(p)

(* Whatever a step does, each payment's row is kept or moves in one of the  *)
(* five ways above.                                                         *)
LEMMA RowSteps ==
  ASSUME Inv, [Next]_vars, NEW p \in Payments
  PROVE  RowStep(p)
<1> USE PipelineAssumption
<1>t. RowType /\ WorkerType /\ WorkerReady /\ WorkersClaimed /\ ChargesKnown
  BY DEF Inv, TypeOK
<1>p. \A w \in Workers : pc[w] # "idle" => Payment(w) \in Payments
  BY <1>t, JobIdType DEF WorkerReady, Payment
<1>1. ASSUME NEW q \in Payments, Submit(q) PROVE RowStep(p)
  BY <1>1, <1>t DEF Submit, RowStep, RowKept, RowAccepted, Moved, RowType
<1>2. ASSUME NEW q \in Payments, Age(q) PROVE RowStep(p)
  BY <1>2 DEF Age, RowStep, RowKept
<1>3. ASSUME NEW r \in Relays, Reap(r) PROVE RowStep(p)
  <2>1. PICK S \in SUBSET Stuck : SendBack(Unstrand(S))
    BY <1>3 DEF Reap
  <2>2. CASE p \in Unstrand(S)
    BY <1>3, <1>t, <2>1, <2>2 DEF Reap, SendBack, Unstrand, RowStep, RowReturned, Moved, RowType
  <2>3. CASE p \notin Unstrand(S)
    BY <1>3, <1>t, <2>1, <2>3 DEF Reap, SendBack, RowStep, RowKept, RowType
  <2>4. QED
    BY <2>2, <2>3
<1>4. ASSUME NEW w \in Workers, Claim(w) PROVE RowStep(p)
  <2>1. Payment(w) \in Payments /\ seen[w] \in {"PENDING", "RETRYING"}
    BY <1>4, <1>t, <1>p DEF Claim, WorkersClaimed
  <2>2. QED
    BY <1>4, <1>t, <2>1 DEF Claim, StatusAsSeen, Transition, RowStep, RowKept, RowClaimed, Moved, RowType
<1>5. ASSUME NEW w \in Workers, ScheduleRetry(w) PROVE RowStep(p)
  <2>1. Payment(w) \in Payments
    BY <1>5, <1>p DEF ScheduleRetry
  <2>2. QED
    BY <1>5, <1>t, <2>1 DEF ScheduleRetry, StillProcessing, Transition, RowStep, RowKept, RowReturned, Moved, RowType
<1>6. ASSUME NEW w \in Workers, GiveUp(w) PROVE RowStep(p)
  <2>1. Payment(w) \in Payments
    BY <1>6, <1>p DEF GiveUp
  <2>2. QED
    BY <1>6, <1>t, <2>1 DEF GiveUp, StillProcessing, Exhausted, Transition, RowStep, RowKept, RowGivenUp, Moved, RowType
<1>7. ASSUME NEW w \in Workers, Finalize(w) PROVE RowStep(p)
  <2>1. Payment(w) \in Payments /\ target[w] \in Terminal /\ (target[w] = "COMPLETED" => charges[Payment(w)] > 0)
    BY <1>7, <1>t, <1>p DEF Finalize, WorkerType, WorkerReady, ChargesKnown
  <2>2. QED
    BY <1>7, <1>t, <2>1 DEF Finalize, StillProcessing, Transition, RowStep, RowKept, RowFinalized, Moved, RowType
<1>8. CASE UNCHANGED rowVars
  BY <1>8 DEF rowVars, RowStep, RowKept
<1>9. QED
  BY <1>1, <1>2, <1>3, <1>4, <1>5, <1>6, <1>7, <1>8
     DEF Next, RelayStep, ReaperStep, WorkerStep, RelaySelect, RelayAdd, RelayPublish, RelayAbort,
         ReapEnqueue, ReapLost, ReadStatus, ClaimMissed, Gate, BankAnswer, BankTimeout,
         EnqueueRetry, EndMissed, Ack, JobFails, Crash, LockLost, Dequeue, LateAnswer,
         RecoverStalled, BrokerLoss, vars

(* What a row never loses: its existence, its claim and its attempts. *)
LEMMA NeverForgotten ==
  ASSUME Inv, [Next]_vars
  PROVE  \A p \in Payments : /\ status[p] # "NONE" => status'[p] # "NONE"
                             /\ Claimed(p) => Claimed(p)'
                             /\ attemptCount'[p] >= attemptCount[p]
<1> SUFFICES ASSUME NEW p \in Payments
             PROVE  /\ status[p] # "NONE" => status'[p] # "NONE"
                    /\ Claimed(p) => Claimed(p)'
                    /\ attemptCount'[p] >= attemptCount[p]
  OBVIOUS
<1>1. attemptCount[p] \in Nat
  BY DEF Inv, TypeOK, RowType
<1>2. QED
  BY RowSteps, <1>1 DEF RowStep, RowKept, RowAccepted, RowClaimed, RowReturned, RowGivenUp, RowFinalized,
     Moved, Claimed, Terminal

------------------------------------------------------------------------------
(* What a step can do to a worker: at most one moves, and it moves along    *)
(* process() with the payment it holds.                                     *)
WorkerKept(w) == UNCHANGED <<pc[w], cur[w], seen[w], scheduledAttempt[w], target[w]>>

WorkerTakes(w) == pc'[w] = "read" /\ \E j \in JobIds : job[j] # "absent" /\ cur'[w] = j

WorkerReads(w) ==
  /\ pc[w] = "read"
  /\ pc'[w] = IF canTransition(status[Payment(w)], "PROCESSING") THEN "claim" ELSE "gate"
  /\ seen'[w] = status[Payment(w)]
  /\ status' = status

WorkerPassesClaim(w) ==
  /\ pc[w] = "claim"
  /\ pc'[w] = "gate"
  /\ \/ status'[Payment(w)] = "PROCESSING"
     \/ status[Payment(w)] # seen[w] /\ status' = status

WorkerGoesOn(w) ==
  /\ pc[w] \notin {"idle", "read", "claim"}
  /\ pc'[w] \notin {"idle", "read", "claim"}
  /\ pc'[w] = "enqueue" =>
       /\ scheduledAttempt'[w] = attemptCount[Payment(w)] + 1
       /\ attemptCount'[Payment(w)] = attemptCount[Payment(w)] + 1
  /\ pc'[w] = "final" /\ target'[w] = "COMPLETED" => charges'[Payment(w)] > 0

WorkerMoves(w) ==
  \/ pc'[w] = "idle"
  \/ WorkerTakes(w)
  \/ cur'[w] = cur[w] /\ (WorkerReads(w) \/ WorkerPassesClaim(w) \/ WorkerGoesOn(w))

OneMoves == \E u \in Workers : WorkerMoves(u) /\ \A w \in Workers \ {u} : WorkerKept(w)

(* Every step that moves a worker moves it along process(). *)
LEMMA WorkerSteps ==
  ASSUME Inv, [Next]_vars
  PROVE  (\A w \in Workers : WorkerKept(w)) \/ OneMoves
<1> USE PipelineAssumption
<1>t. RowType /\ WorkerType /\ WorkerReady /\ BankType /\ ChargesKnown
  BY DEF Inv, TypeOK
<1>p. \A w \in Workers : pc[w] # "idle" => Payment(w) \in Payments
  BY <1>t, JobIdType DEF WorkerReady, Payment
<1>1. ASSUME NEW u \in Workers, NEW j \in JobIds, Dequeue(u, j) PROVE OneMoves
  BY <1>1, <1>t DEF Dequeue, Goto, OneMoves, WorkerMoves, WorkerTakes, WorkerKept, WorkerType
<1>2. ASSUME NEW u \in Workers, ReadStatus(u) PROVE OneMoves
  BY <1>2, <1>t DEF ReadStatus, Goto, OneMoves, WorkerMoves, WorkerReads, WorkerKept, WorkerType, rowVars
<1>3. ASSUME NEW u \in Workers, Claim(u) \/ ClaimMissed(u) PROVE OneMoves
  BY <1>3, <1>t, <1>p DEF Claim, ClaimMissed, StatusAsSeen, Transition, Goto, OneMoves, WorkerMoves,
     WorkerPassesClaim, WorkerKept, WorkerType, RowType, rowVars
<1>4. ASSUME NEW u \in Workers, Gate(u) PROVE OneMoves
  BY <1>4, <1>t DEF Gate, Goto, OneMoves, WorkerMoves, WorkerGoesOn, WorkerKept, WorkerType
<1>5. ASSUME NEW u \in Workers, BankAnswer(u) PROVE OneMoves
  <2>1. PICK outcome \in Outcomes(u, Payment(u)) :
          /\ Authorize(u, Payment(u), outcome)
          /\ target' = [target EXCEPT ![u] = TargetOf(outcome)]
          /\ Goto(u, IF outcome = "error" THEN "retry" ELSE "final")
    BY <1>5 DEF BankAnswer
  <2>2. outcome = "authorized" => charges'[Payment(u)] > 0
    BY <1>5, <1>t, <1>p, <2>1 DEF BankAnswer, Authorize, BankType, ChargesKnown
  <2>3. target'[u] = "COMPLETED" => outcome = "authorized"
    BY <1>t, <2>1 DEF TargetOf, WorkerType, Outcomes
  <2>4. QED
    BY <1>5, <1>t, <2>1, <2>2, <2>3 DEF BankAnswer, Goto, OneMoves, WorkerMoves, WorkerGoesOn, WorkerKept,
       WorkerType
<1>6. ASSUME NEW u \in Workers, BankTimeout(u) \/ GiveUp(u) \/ EnqueueRetry(u) \/ Finalize(u) \/ EndMissed(u)
      PROVE  OneMoves
  BY <1>6, <1>t DEF BankTimeout, GiveUp, EnqueueRetry, Finalize, EndMissed, Goto, OneMoves, WorkerMoves,
     WorkerGoesOn, WorkerKept, WorkerType
<1>7. ASSUME NEW u \in Workers, ScheduleRetry(u) PROVE OneMoves
  BY <1>7, <1>t, <1>p DEF ScheduleRetry, Goto, OneMoves, WorkerMoves, WorkerGoesOn, WorkerKept, WorkerType,
     RowType
<1>8. ASSUME NEW u \in Workers, \E s : Release(u, s) PROVE OneMoves
  BY <1>8, <1>t DEF Release, Goto, OneMoves, WorkerMoves, WorkerKept, WorkerType
<1>9. CASE UNCHANGED <<pc, cur, seen, scheduledAttempt, target>>
  BY <1>9 DEF WorkerKept
<1>10. QED
  BY <1>1, <1>2, <1>3, <1>4, <1>5, <1>6, <1>7, <1>8, <1>9
     DEF Next, RelayStep, ReaperStep, WorkerStep, Submit, Age, RelaySelect, RelayAdd, RelayPublish,
         RelayAbort, Reap, ReapEnqueue, ReapLost, Ack, JobFails, Crash, LockLost, LateAnswer,
         RecoverStalled, BrokerLoss, vars, workerVars

(* Where the jobs come from: a relay's batch, a reaper's batch, or a worker *)
(* that leaves the retry transaction.                                       *)
JobAdded(j) ==
  \/ \E r \in Relays, p \in Payments : p \in held[r] /\ j = SubmittedJob(p)
  \/ \E r \in Relays, p \in Payments, k \in 1..MaxReapJobs : p \in toReap[r] /\ j = ReapJob(p, k)
  \/ \E w \in Workers : /\ pc[w] = "enqueue" /\ pc'[w] = "ack"
                        /\ j = RetryJob(Payment(w), scheduledAttempt[w])

(* Locks stay exclusive. *)
LEMMA OneOwnerStep ==
  ASSUME Inv, [Next]_vars
  PROVE  OneOwner'
<1>t. QueueType /\ WorkerType /\ WorkerReady /\ OneOwner
  BY DEF Inv, TypeOK
<1>1. ASSUME NEW r \in Relays, NEW p \in Payments, RelayAdd(r, p) PROVE OneOwner'
  BY <1>1, <1>t, JobIdType DEF RelayAdd, QueueAdd, OneOwner, QueueType, WorkerType, WorkerReady, workerVars
<1>2. ASSUME NEW r \in Relays, NEW p \in Payments, ReapEnqueue(r, p) PROVE OneOwner'
  BY <1>2, <1>t, JobIdType DEF ReapEnqueue, OneOwner, QueueType, WorkerType, WorkerReady, workerVars
<1>3. ASSUME NEW u \in Workers, EnqueueRetry(u) PROVE OneOwner'
  BY <1>3, <1>t DEF EnqueueRetry, QueueAdd, OneOwner, QueueType, WorkerType, WorkerReady
<1>4. ASSUME NEW u \in Workers, NEW j \in JobIds, Dequeue(u, j) PROVE OneOwner'
  BY <1>4, <1>t DEF Dequeue, OneOwner, QueueType, WorkerType
<1>5. ASSUME NEW u \in Workers, \E s : Release(u, s) PROVE OneOwner'
  BY <1>5, <1>t DEF Release, OneOwner, QueueType, WorkerType, WorkerReady
<1>6. ASSUME NEW u \in Workers, LockLost(u) PROVE OneOwner'
  BY <1>6, <1>t DEF LockLost, OneOwner, QueueType, WorkerType, WorkerReady
<1>7. ASSUME NEW j \in JobIds, RecoverStalled(j) PROVE OneOwner'
  BY <1>7, <1>t DEF RecoverStalled, OneOwner, QueueType, WorkerType, WorkerReady, workerVars
<1>8. CASE BrokerLoss
  BY <1>8 DEF BrokerLoss, OneOwner
<1>9. CASE UNCHANGED <<job, cur, owns>>
  BY <1>9, <1>t DEF OneOwner
<1>10. QED
  BY <1>1, <1>2, <1>3, <1>4, <1>5, <1>6, <1>7, <1>8, <1>9
     DEF Next, RelayStep, ReaperStep, WorkerStep, Submit, Age, RelaySelect, RelayPublish, RelayAbort,
         Reap, ReapLost, ReadStatus, Claim, ClaimMissed, Gate, BankAnswer, BankTimeout, ScheduleRetry,
         GiveUp, Finalize, EndMissed, Ack, JobFails, Crash, LateAnswer, vars, queueVars, workerVars

(* A step that makes a job appear takes it from a submitted row, a reaper's *)
(* batch or a worker that scheduled a retry.                                *)
LEMMA JobSteps ==
  ASSUME Inv, [Next]_vars, NEW j \in JobIds, job[j] = "absent", job'[j] # "absent"
  PROVE  JobAdded(j)
<1>t. QueueType /\ WorkerType /\ WorkerReady /\ RelayType /\ OneOwner
  BY DEF Inv, TypeOK
<1>1. ASSUME NEW r \in Relays, NEW p \in Payments, RelayAdd(r, p) PROVE JobAdded(j)
  BY <1>1, <1>t, JobIdType DEF RelayAdd, QueueAdd, JobAdded, QueueType, RelayType
<1>2. ASSUME NEW r \in Relays, NEW p \in Payments, ReapEnqueue(r, p) PROVE JobAdded(j)
  BY <1>2, <1>t, JobIdType DEF ReapEnqueue, JobAdded, QueueType
<1>3. ASSUME NEW w \in Workers, EnqueueRetry(w) PROVE JobAdded(j)
  BY <1>3, <1>t DEF EnqueueRetry, QueueAdd, Goto, JobAdded, QueueType, WorkerType
<1>4. ASSUME NEW w \in Workers, NEW i \in JobIds, Dequeue(w, i) PROVE FALSE
  BY <1>4, <1>t DEF Dequeue, QueueType
<1>5. ASSUME NEW w \in Workers, \E s : Release(w, s) PROVE FALSE
  BY <1>5, <1>t DEF Release, OneOwner, QueueType, WorkerReady
<1>6. ASSUME NEW w \in Workers, LockLost(w) PROVE FALSE
  BY <1>6, <1>t DEF LockLost, OneOwner, QueueType, WorkerReady
<1>7. ASSUME NEW i \in JobIds, RecoverStalled(i) PROVE FALSE
  BY <1>7, <1>t DEF RecoverStalled, QueueType
<1>8. CASE BrokerLoss
  BY <1>8 DEF BrokerLoss
<1>9. CASE UNCHANGED job
  BY <1>9
<1>10. QED
  BY <1>1, <1>2, <1>3, <1>4, <1>5, <1>6, <1>7, <1>8, <1>9
     DEF Next, RelayStep, ReaperStep, WorkerStep, Submit, Age, RelaySelect, RelayPublish, RelayAbort,
         Reap, ReapLost, ReadStatus, Claim, ClaimMissed, Gate, BankAnswer, BankTimeout, ScheduleRetry,
         GiveUp, Finalize, EndMissed, Ack, JobFails, Crash, LateAnswer, vars, queueVars

(* What a step can do to the bank's books for a payment. *)
ChargeKept(p) ==
  /\ charges'[p] = charges[p]
  /\ \A w \in Workers : /\ p \in store'[w] => p \in store[w]
                        /\ DurableBank /\ p \in store[w] => p \in store'[w]

Charged(p) ==
  /\ charges'[p] = charges[p] + 1
  /\ \E w \in Workers : /\ p \notin store[w]
                        /\ (pc[w] = "bank" /\ Payment(w) = p) \/ <<w, p>> \in late
  /\ DurableBank => \A w \in Workers : p \in store'[w]

(* A payment is charged by a call a worker made, and the call found no key. *)
LEMMA ChargeSteps ==
  ASSUME Inv, [Next]_vars, NEW p \in Payments
  PROVE  ChargeKept(p) \/ Charged(p)
<1>t. BankType /\ WorkerReady
  BY DEF Inv, TypeOK
<1>1. ASSUME NEW w \in Workers, BankAnswer(w) PROVE ChargeKept(p) \/ Charged(p)
  BY <1>1, <1>t, JobIdType DEF BankAnswer, Authorize, Shares, ChargeKept, Charged, BankType, WorkerReady, Payment
<1>2. ASSUME NEW w \in Workers, NEW q \in Payments, LateAnswer(w, q) PROVE ChargeKept(p) \/ Charged(p)
  <2>1. PICK outcome : Authorize(w, q, outcome)
    BY <1>2 DEF LateAnswer
  <2>2. CASE p = q /\ outcome = "authorized" /\ q \notin store[w]
    <3>1. charges'[p] = charges[p] + 1 /\ (DurableBank => \A v \in Workers : p \in store'[v])
      BY <1>t, <2>1, <2>2 DEF Authorize, Shares, BankType
    <3>2. p \notin store[w] /\ <<w, p>> \in late
      BY <1>2, <2>2 DEF LateAnswer
    <3>3. QED
      BY <3>1, <3>2 DEF Charged
  <2>3. CASE ~(p = q /\ outcome = "authorized" /\ q \notin store[w])
    BY <1>t, <2>1, <2>3 DEF Authorize, Shares, ChargeKept, BankType
  <2>4. QED
    BY <2>2, <2>3
<1>3. ASSUME NEW w \in Workers, Crash(w) PROVE ChargeKept(p)
  BY <1>3, <1>t DEF Crash, ChargeKept, BankType
<1>4. CASE UNCHANGED <<store, charges>>
  BY <1>4 DEF ChargeKept
<1>5. QED
  BY <1>1, <1>2, <1>3, <1>4
     DEF Next, RelayStep, ReaperStep, WorkerStep, Submit, Age, RelaySelect, RelayAdd, RelayPublish,
         RelayAbort, Reap, ReapEnqueue, ReapLost, Dequeue, ReadStatus, Claim, ClaimMissed, Gate,
         BankTimeout, ScheduleRetry, GiveUp, EnqueueRetry, Finalize, EndMissed, Ack, JobFails,
         LockLost, RecoverStalled, BrokerLoss, vars, bankVars

(* What a step can add to the relays' batches and the running bank calls. *)
LEMMA BatchSteps ==
  ASSUME Inv, [Next]_vars
  PROVE  /\ \A p \in Payments : outbox'[p] # "none" =>
              outbox[p] # "none" \/ status'[p] # "NONE" \/ \E r \in Relays : p \in held[r]
         /\ \A r \in Relays : /\ \A p \in held'[r] : p \in held[r] \/ outbox[p] # "none"
                              /\ \A p \in toReap'[r] : p \in toReap[r] \/ status[p] # "NONE"
         /\ \A w \in Workers, p \in Payments :
              <<w, p>> \in late' => <<w, p>> \in late \/ (pc[w] = "bank" /\ Payment(w) = p)
<1> DEFINE Outbox == \A p \in Payments : outbox'[p] # "none" =>
                       outbox[p] # "none" \/ status'[p] # "NONE" \/ \E r \in Relays : p \in held[r]
           Batch == \A r \in Relays :
                      /\ \A p \in held'[r] : p \in held[r] \/ outbox[p] # "none"
                      /\ \A p \in toReap'[r] : p \in toReap[r] \/ status[p] # "NONE"
           Late == \A w \in Workers, p \in Payments :
                     <<w, p>> \in late' => <<w, p>> \in late \/ (pc[w] = "bank" /\ Payment(w) = p)
<1>t. RowType /\ RelayType /\ BankType
  BY DEF Inv, TypeOK
<1>1. Outbox
  <2>1. ASSUME NEW p \in Payments, Submit(p) PROVE Outbox
    BY <2>1, <1>t DEF Submit, RelayType, RowType
  <2>2. ASSUME NEW r \in Relays, RelayPublish(r) PROVE Outbox
    BY <2>2, <1>t DEF RelayPublish, RelayType
  <2>3. CASE UNCHANGED outbox
    BY <2>3
  <2>4. QED
    BY <2>1, <2>2, <2>3
       DEF Next, RelayStep, ReaperStep, WorkerStep, Age, RelaySelect, RelayAdd, RelayAbort, Reap,
           ReapEnqueue, ReapLost, Dequeue, ReadStatus, Claim, ClaimMissed, Gate, BankAnswer,
           BankTimeout, LateAnswer, ScheduleRetry, GiveUp, EnqueueRetry, Finalize, EndMissed, Ack,
           JobFails, Crash, LockLost, RecoverStalled, BrokerLoss, vars, relayVars
<1>2. Batch
  <2>1. ASSUME NEW r \in Relays, RelaySelect(r) \/ RelayPublish(r) \/ RelayAbort(r) PROVE Batch
    BY <2>1, <1>t DEF RelaySelect, RelaySelectable, RelayPublish, RelayAbort, RelayType
  <2>2. ASSUME NEW r \in Relays, Reap(r) \/ ReapLost(r) \/ \E p \in Payments : ReapEnqueue(r, p) PROVE Batch
    BY <2>2, <1>t DEF Reap, Stuck, ReapStatuses, InFlight, ReapLost, ReapEnqueue, RelayType
  <2>3. CASE UNCHANGED <<held, toReap>>
    BY <2>3
  <2>4. QED
    BY <2>1, <2>2, <2>3
       DEF Next, RelayStep, ReaperStep, WorkerStep, Submit, Age, RelayAdd, Dequeue, ReadStatus,
           Claim, ClaimMissed, Gate, BankAnswer, BankTimeout, LateAnswer, ScheduleRetry, GiveUp,
           EnqueueRetry, Finalize, EndMissed, Ack, JobFails, Crash, LockLost, RecoverStalled,
           BrokerLoss, vars, relayVars
<1>3. Late
  <2> SUFFICES ASSUME NEW w \in Workers, NEW p \in Payments, <<w, p>> \in late', <<w, p>> \notin late
               PROVE  pc[w] = "bank" /\ Payment(w) = p
    OBVIOUS
  <2>1. ASSUME NEW u \in Workers, BankTimeout(u) \/ Crash(u) PROVE pc[w] = "bank" /\ Payment(w) = p
    <3>1. <<w, p>> = <<u, Payment(u)>> /\ pc[u] = "bank"
      BY <2>1, Zenon DEF BankTimeout, Crash
    <3>2. QED
      BY <3>1
  <2>2. CASE late' \subseteq late
    BY <2>2
  <2>3. QED
    BY <2>1, <2>2
       DEF Next, RelayStep, ReaperStep, WorkerStep, Submit, Age, RelaySelect, RelayAdd,
           RelayPublish, RelayAbort, Reap, ReapEnqueue, ReapLost, Dequeue, ReadStatus, Claim,
           ClaimMissed, Gate, BankAnswer, LateAnswer, ScheduleRetry, GiveUp, EnqueueRetry,
           Finalize, EndMissed, Ack, JobFails, LockLost, RecoverStalled, BrokerLoss, vars, bankVars
<1>4. QED
  BY <1>1, <1>2, <1>3

------------------------------------------------------------------------------
(* The invariant is inductive. *)
LEMMA InvStep == Inv /\ [Next]_vars => Inv'
<1> SUFFICES ASSUME Inv, [Next]_vars PROVE Inv'
  OBVIOUS
<1> USE PipelineAssumption
<1>t. /\ RowType /\ RelayType /\ QueueType /\ WorkerType /\ WorkerReady /\ BankType
      /\ NamesAccepted /\ WorkersClaimed /\ ChargesKnown /\ KeysHonoured /\ RetryIdsUsed
  BY DEF Inv, TypeOK
<1>p. \A w \in Workers : pc[w] # "idle" => Payment(w) \in Payments
  BY <1>t, JobIdType DEF WorkerReady, Payment
<1>m. \A p \in Payments : /\ status[p] # "NONE" => status'[p] # "NONE"
                          /\ Claimed(p) => Claimed(p)'
                          /\ attemptCount'[p] >= attemptCount[p]
  BY NeverForgotten
<1>c. \A p \in Payments : charges[p] > 0 => charges'[p] > 0
  BY <1>t, ChargeSteps DEF ChargeKept, Charged, BankType
<1>1. TypeOK'
  BY TypeStep DEF Inv
<1>y. /\ RowType' /\ RelayType' /\ QueueType' /\ WorkerType' /\ WorkerReady' /\ BankType'
  BY <1>1 DEF TypeOK
<1>q. \A w \in Workers : pc'[w] # "idle" => Payment(w)' \in Payments
  BY <1>y, JobIdType DEF WorkerReady, Payment
<1>2. OneOwner'
  BY OneOwnerStep
<1>3. NamesAccepted'
  <2>1. \A p \in Payments : outbox'[p] # "none" => status'[p] # "NONE"
    BY <1>t, <1>m, BatchSteps DEF NamesAccepted
  <2>2. \A r \in Relays : \A p \in held'[r] \cup toReap'[r] : status'[p] # "NONE"
    BY <1>t, <1>y, <1>m, BatchSteps DEF NamesAccepted, RelayType
  <2>3. ASSUME NEW j \in JobIds, job'[j] # "absent" PROVE status'[j.payment] # "NONE"
    <3>1. CASE job[j] # "absent"
      BY <1>t, <1>m, <3>1, JobIdType DEF NamesAccepted
    <3>2. CASE JobAdded(j)
      BY <1>t, <1>m, <1>p, <3>2, JobIdType DEF NamesAccepted, JobAdded, SubmittedJob, ReapJob, RetryJob
    <3>3. QED
      BY <2>3, <3>1, <3>2, JobSteps
  <2>4. ASSUME NEW w \in Workers, pc'[w] # "idle" PROVE status'[Payment(w)'] # "NONE"
    <3>1. CASE WorkerTakes(w)
      BY <1>t, <1>m, <3>1, JobIdType DEF WorkerTakes, NamesAccepted, Payment
    <3>2. CASE pc[w] # "idle" /\ cur'[w] = cur[w]
      BY <1>t, <1>m, <1>p, <3>2 DEF NamesAccepted, Payment
    <3>3. QED
      BY <2>4, <3>1, <3>2, WorkerSteps DEF OneMoves, WorkerMoves, WorkerKept, WorkerReads,
         WorkerPassesClaim, WorkerGoesOn
  <2>5. QED
    BY <2>1, <2>2, <2>3, <2>4 DEF NamesAccepted
<1>4. WorkersClaimed'
  <2>1. ASSUME NEW w \in Workers
        PROVE  /\ pc'[w] = "claim" => \/ seen'[w] = "PENDING"
                                      \/ seen'[w] = "RETRYING" /\ Claimed(Payment(w))'
               /\ pc'[w] \notin {"idle", "read", "claim"} => Claimed(Payment(w))'
    <3>1. CASE WorkerKept(w)
      BY <1>t, <1>m, <1>p, <3>1 DEF WorkerKept, WorkersClaimed, Payment, Claimed
    <3>2. CASE pc'[w] \in {"idle", "read"}
      BY <3>2
    <3>3. CASE cur'[w] = cur[w] /\ WorkerReads(w)
      <4>1. Payment(w)' = Payment(w) /\ Payment(w) \in Payments /\ status[Payment(w)] # "NONE"
        BY <1>t, <1>p, <3>3 DEF WorkerReads, Payment, NamesAccepted
      <4>2. status[Payment(w)] \in PAYMENT_STATUS
        BY <1>t, <4>1 DEF RowType
      <4>3. QED
        BY <3>3, <4>1, <4>2 DEF WorkerReads, Claimed, canTransition, transitionMap, PAYMENT_STATUS
    <3>4. CASE cur'[w] = cur[w] /\ WorkerPassesClaim(w)
      <4>1. Payment(w)' = Payment(w) /\ Payment(w) \in Payments /\ status[Payment(w)] # "NONE"
        BY <1>t, <1>p, <3>4 DEF WorkerPassesClaim, Payment, NamesAccepted
      <4>2. QED
        BY <1>t, <3>4, <4>1 DEF WorkerPassesClaim, WorkersClaimed, Claimed
    <3>5. CASE cur'[w] = cur[w] /\ WorkerGoesOn(w)
      BY <1>t, <1>m, <1>p, <3>5 DEF WorkerGoesOn, WorkersClaimed, Payment, Claimed
    <3>6. QED
      BY <3>1, <3>2, <3>3, <3>4, <3>5, WorkerSteps DEF OneMoves, WorkerMoves, WorkerTakes
  <2>2. \A w \in Workers, p \in Payments : <<w, p>> \in late' => Claimed(p)'
    BY <1>t, <1>m, BatchSteps DEF WorkersClaimed
  <2>3. QED
    BY <2>1, <2>2 DEF WorkersClaimed
<1>5. ChargesKnown'
  <2>1. ASSUME NEW p \in Payments, charges'[p] > 0 PROVE Claimed(p)'
    <3>1. CASE ChargeKept(p)
      BY <1>t, <1>m, <2>1, <3>1 DEF ChargeKept, ChargesKnown
    <3>2. CASE Charged(p)
      BY <1>t, <1>m, <3>2 DEF Charged, WorkersClaimed
    <3>3. QED
      BY <3>1, <3>2, ChargeSteps
  <2>2. ASSUME NEW p \in Payments, status'[p] = "COMPLETED" PROVE charges'[p] > 0
    <3>1. charges[p] > 0
      BY <1>t, <2>2, RowSteps DEF RowStep, RowKept, RowAccepted, RowClaimed, RowReturned, RowGivenUp,
         RowFinalized, Moved, ChargesKnown
    <3>2. QED
      BY <1>c, <3>1
  <2>3. ASSUME NEW w \in Workers, NEW p \in store'[w] PROVE charges'[p] > 0
    <3>1. p \in Payments
      BY <1>y DEF BankType
    <3>2. CASE ChargeKept(p)
      BY <1>t, <3>1, <3>2 DEF ChargeKept, ChargesKnown
    <3>3. CASE Charged(p)
      BY <1>t, <3>1, <3>3 DEF Charged, BankType
    <3>4. QED
      BY <3>1, <3>2, <3>3, ChargeSteps
  <2>4. ASSUME NEW w \in Workers, pc'[w] = "final", target'[w] = "COMPLETED" PROVE charges'[Payment(w)'] > 0
    <3>1. CASE WorkerKept(w)
      BY <1>t, <1>c, <1>p, <2>4, <3>1 DEF WorkerKept, ChargesKnown, Payment
    <3>2. CASE cur'[w] = cur[w] /\ WorkerGoesOn(w)
      BY <2>4, <3>2 DEF WorkerGoesOn, Payment
    <3>3. QED
      BY <2>4, <3>1, <3>2, WorkerSteps DEF OneMoves, WorkerMoves, WorkerTakes, WorkerReads, WorkerPassesClaim
  <2>5. QED
    BY <2>1, <2>2, <2>3, <2>4 DEF ChargesKnown
<1>6. KeysHonoured'
  <2> SUFFICES ASSUME DurableBank, NEW p \in Payments, charges'[p] > 0
               PROVE  charges'[p] = 1 /\ \A w \in Workers : p \in store'[w]
    BY DEF KeysHonoured
  <2>1. CASE ChargeKept(p)
    BY <1>t, <2>1 DEF ChargeKept, KeysHonoured
  <2>2. CASE Charged(p)
    BY <1>t, <2>2 DEF Charged, KeysHonoured, BankType
  <2>3. QED
    BY <2>1, <2>2, ChargeSteps
<1>7. RetryIdsUsed'
  <2>1. ASSUME NEW p \in Payments, NEW k \in 1..MAX_RETRIES, job'[RetryJob(p, k)] # "absent"
        PROVE  k <= attemptCount'[p]
    <3>1. CASE job[RetryJob(p, k)] # "absent"
      BY <1>t, <1>y, <1>m, <3>1 DEF RetryIdsUsed, RowType
    <3>2. CASE JobAdded(RetryJob(p, k))
      <4>1. PICK w \in Workers : pc[w] = "enqueue" /\ RetryJob(p, k) = RetryJob(Payment(w), scheduledAttempt[w])
        BY <3>2 DEF JobAdded, SubmittedJob, ReapJob, RetryJob
      <4>2. p = Payment(w) /\ k = scheduledAttempt[w]
        BY <4>1 DEF RetryJob
      <4>3. QED
        BY <1>t, <1>y, <1>m, <4>1, <4>2 DEF RetryIdsUsed, RowType
    <3>3. QED
      BY <2>1, <3>1, <3>2, JobIdType, JobSteps
  <2>2. ASSUME NEW w \in Workers, pc'[w] = "enqueue"
        PROVE  \/ WorkerKept(w)
               \/ /\ cur'[w] = cur[w] /\ pc[w] # "idle"
                  /\ scheduledAttempt'[w] = attemptCount[Payment(w)] + 1
                  /\ attemptCount'[Payment(w)] = attemptCount[Payment(w)] + 1
                  /\ \A v \in Workers \ {w} : WorkerKept(v)
    BY <2>2, WorkerSteps DEF OneMoves, WorkerMoves, WorkerTakes, WorkerReads, WorkerPassesClaim, WorkerGoesOn
  <2>3. ASSUME NEW w \in Workers, pc'[w] = "enqueue"
        PROVE  scheduledAttempt'[w] <= attemptCount'[Payment(w)']
    <3>1. Payment(w)' \in Payments
      BY <1>q, <2>3
    <3>2. CASE WorkerKept(w)
      <4>1. pc[w] = "enqueue" /\ scheduledAttempt'[w] = scheduledAttempt[w] /\ Payment(w)' = Payment(w)
        BY <2>3, <3>2 DEF WorkerKept, Payment
      <4>2. scheduledAttempt[w] <= attemptCount[Payment(w)]
        BY <1>t, <4>1 DEF RetryIdsUsed
      <4>3. QED
        BY <1>t, <1>y, <1>m, <3>1, <4>1, <4>2 DEF RowType, WorkerType
    <3>3. CASE ~WorkerKept(w)
      <4>1. Payment(w)' = Payment(w) /\ scheduledAttempt'[w] = attemptCount'[Payment(w)]
        BY <2>2, <2>3, <3>3 DEF Payment
      <4>2. QED
        BY <1>y, <3>1, <4>1 DEF RowType
    <3>4. QED
      BY <3>2, <3>3
  <2>4. ASSUME NEW v \in Workers, NEW w \in Workers, v # w, pc'[v] = "enqueue", pc'[w] = "enqueue",
               Payment(v)' = Payment(w)'
        PROVE  scheduledAttempt'[v] # scheduledAttempt'[w]
    <3>1. CASE WorkerKept(v) /\ WorkerKept(w)
      BY <1>t, <2>4, <3>1 DEF WorkerKept, RetryIdsUsed, Payment
    <3>2. ASSUME NEW x \in Workers, NEW y \in Workers, x # y, pc'[x] = "enqueue", pc'[y] = "enqueue",
                 Payment(x)' = Payment(y)', ~WorkerKept(y)
          PROVE  scheduledAttempt'[x] < scheduledAttempt'[y]
      <4>1. WorkerKept(x) /\ cur'[y] = cur[y] /\ pc[y] # "idle" /\ scheduledAttempt'[y] = attemptCount[Payment(y)] + 1
        BY <2>2, <3>2
      <4>2. /\ pc[x] = "enqueue"
            /\ scheduledAttempt'[x] = scheduledAttempt[x]
            /\ Payment(x) = Payment(y) /\ Payment(y) \in Payments
        BY <1>p, <3>2, <4>1 DEF WorkerKept, Payment
      <4>3. scheduledAttempt[x] <= attemptCount[Payment(y)]
        BY <1>t, <4>2 DEF RetryIdsUsed
      <4>4. QED
        BY <1>t, <4>1, <4>2, <4>3 DEF RowType, WorkerType
    <3>3. scheduledAttempt'[v] \in Nat /\ scheduledAttempt'[w] \in Nat
      BY <1>y DEF WorkerType
    <3>4. CASE ~WorkerKept(w)
      BY <2>4, <3>2, <3>3, <3>4
    <3>5. CASE ~WorkerKept(v)
      BY <2>4, <3>2, <3>3, <3>5
    <3>6. QED
      BY <3>1, <3>4, <3>5
  <2>5. ASSUME NEW w \in Workers, pc'[w] = "enqueue"
        PROVE  job'[RetryJob(Payment(w)', scheduledAttempt'[w])] = "absent"
    <3> DEFINE j == RetryJob(Payment(w)', scheduledAttempt'[w])
    <3>1. Payment(w)' \in Payments /\ scheduledAttempt'[w] \in 1..MAX_RETRIES
      BY <1>y, <1>q, <2>5 DEF WorkerType, WorkerReady
    <3>2. j \in JobIds
      BY <3>1, JobIdType
    <3>3. job[j] = "absent"
      <4>1. CASE WorkerKept(w)
        BY <1>t, <2>5, <4>1 DEF WorkerKept, RetryIdsUsed, Payment
      <4>2. CASE ~WorkerKept(w)
        <5>1. Payment(w)' = Payment(w) /\ scheduledAttempt'[w] = attemptCount[Payment(w)] + 1
          BY <2>2, <2>5, <4>2 DEF Payment
        <5>2. QED
          BY <1>t, <3>1, <5>1 DEF RetryIdsUsed, RowType
      <4>3. QED
        BY <4>1, <4>2
    <3>4. ASSUME JobAdded(j) PROVE FALSE
      <4>1. PICK v \in Workers : /\ pc[v] = "enqueue" /\ pc'[v] = "ack"
                                 /\ j = RetryJob(Payment(v), scheduledAttempt[v])
        BY <3>4 DEF JobAdded, SubmittedJob, ReapJob, RetryJob
      <4>2. v # w /\ ~WorkerKept(v)
        BY <2>5, <4>1 DEF WorkerKept
      <4>3. WorkerKept(w)
        BY <2>2, <2>5, <4>2
      <4>4. pc[w] = "enqueue" /\ Payment(w) = Payment(v) /\ scheduledAttempt[w] = scheduledAttempt[v]
        BY <2>5, <4>1, <4>3 DEF WorkerKept, Payment, RetryJob
      <4>5. QED
        BY <1>t, <4>1, <4>2, <4>4 DEF RetryIdsUsed
    <3>5. QED
      BY <3>2, <3>3, <3>4, JobSteps
  <2>6. QED
    BY <2>1, <2>3, <2>4, <2>5 DEF RetryIdsUsed
<1>8. QED
  BY <1>1, <1>2, <1>3, <1>4, <1>5, <1>6, <1>7 DEF Inv

(* The invariant holds at the start.                                        *)
LEMMA InvInit == Init => Inv
<1> SUFFICES ASSUME Init PROVE Inv
  OBVIOUS
<1>1. TypeOK
  BY TypeInit
<1>2. OneOwner /\ NamesAccepted /\ WorkersClaimed /\ ChargesKnown /\ KeysHonoured
  BY JobIdType DEF Init, OneOwner, NamesAccepted, WorkersClaimed, ChargesKnown, KeysHonoured
<1>3. RetryIdsUsed
  BY JobIdType DEF Init, RetryIdsUsed
<1>4. QED
  BY <1>1, <1>2, <1>3 DEF Inv

(* Every reachable state of the pipeline satisfies the inductive invariant: *)
(* whoever can still call the bank for a payment does so after its claim,   *)
(* and every key, lock and retry id has the owner the code relies on.       *)
THEOREM Invariance == Spec => []Inv
BY InvInit, InvStep, PTL DEF Spec

------------------------------------------------------------------------------
(* No worker writes COMPLETED for a payment the bank has not charged, the   *)
(* holder of the claim or not, whatever the bank remembers of its keys.     *)
THEOREM CompletedOnlyCharged == Spec => []CompletedWasCharged
<1>1. Inv => CompletedWasCharged
  BY DEF Inv, TypeOK, BankType, ChargesKnown, CompletedWasCharged
<1>2. QED
  BY <1>1, Invariance, PTL

(* With a bank that honours idempotency keys a payment is charged at most   *)
(* once, and never before it was claimed, under any number of workers,      *)
(* retries, timeouts, redeliveries and faults.                              *)
THEOREM ChargedOnce ==
  ASSUME DurableBank
  PROVE  Spec => []AtMostOneCharge
<1>1. Inv => AtMostOneCharge
  BY DEF Inv, TypeOK, BankType, ChargesKnown, KeysHonoured, Claimed, AtMostOneCharge
<1>2. QED
  BY <1>1, Invariance, PTL

(* BullMQ never drops a retry as a duplicate of an earlier one. *)
THEOREM RetryIdsFresh == Spec => []RetryIdFresh
<1>1. Inv => RetryIdFresh
  BY DEF Inv, RetryIdsUsed, RetryIdFresh
<1>2. QED
  BY <1>1, Invariance, PTL

(* A settled payment's row, trail and announcement are never written again. *)
THEOREM TerminalStays == Spec => TerminalIsFinal
<1> DEFINE Final(p) == status[p] \in Terminal =>
             /\ status'[p] = status[p]
             /\ version'[p] = version[p]
             /\ paymentEvents'[p] = paymentEvents[p]
             /\ terminalEvents'[p] = terminalEvents[p]
<1>1. ASSUME Inv, [Next]_vars, NEW p \in Payments PROVE Final(p)
  BY <1>1, RowSteps DEF RowStep, RowKept, RowAccepted, RowClaimed, RowReturned, RowGivenUp, RowFinalized,
     Moved, Terminal
<1>2. Inv /\ [Next]_vars => [\A p \in Payments : Final(p)]_vars
  BY <1>1
<1>3. QED
  BY <1>2, Invariance, PTL DEF Spec, TerminalIsFinal

------------------------------------------------------------------------------
(* The first event makes a trail of one.                                    *)
LEMMA FirstAppend ==
  ASSUME NEW x
  PROVE  Append(<<>>, x) = <<x>>
<1>1. <<>> \in Seq({x}) /\ x \in {x}
  OBVIOUS
<1>2. QED
  BY <1>1

(* A chain of transitions grows by a legal one. *)
LEMMA ChainGrows ==
  ASSUME NEW e \in Seq(Events), e # <<>>, Chain(e),
         NEW t \in PAYMENT_STATUS, canTransition(e[Len(e)].to, t)
  PROVE  LET f == Append(e, Event(e[Len(e)].to, t))
         IN f # <<>> /\ Chain(f) /\ f[Len(f)].to = t
<1> DEFINE f == Append(e, Event(e[Len(e)].to, t))
<1>1. Len(e) \in Nat \ {0} /\ Len(f) = Len(e) + 1
  OBVIOUS
<1>2. \A i \in 1..Len(e) : f[i] = e[i]
  OBVIOUS
<1>3. f[Len(f)] = Event(e[Len(e)].to, t)
  BY <1>1
<1>4. ASSUME NEW i \in 2..Len(f) PROVE f[i].from = f[i-1].to /\ canTransition(f[i].from, f[i].to)
  <2>1. CASE i \in 2..Len(e)
    BY <1>1, <1>2, <2>1 DEF Chain
  <2>2. CASE i = Len(f)
    BY <1>1, <1>2, <1>3, <2>2 DEF Event
  <2>3. QED
    BY <1>1, <2>1, <2>2
<1>5. QED
  BY <1>1, <1>2, <1>3, <1>4 DEF Chain, Event

(* The audit trail of every payment is an unbroken, legal chain that ends   *)
(* in its status.                                                           *)
THEOREM TrailUnbroken == Spec => []AuditTrail
<1> DEFINE Trail(p) == IF status[p] = "NONE" THEN paymentEvents[p] = <<>>
                       ELSE /\ paymentEvents[p] # <<>> /\ Chain(paymentEvents[p])
                            /\ paymentEvents[p][Len(paymentEvents[p])].to = status[p]
<1>1. Init => AuditTrail
  BY DEF Init, AuditTrail
<1>2. ASSUME Inv, AuditTrail, [Next]_vars PROVE AuditTrail'
  <2> SUFFICES ASSUME NEW p \in Payments PROVE Trail(p)'
    BY DEF AuditTrail
  <2>1. Trail(p) /\ paymentEvents[p] \in Seq(Events)
    BY <1>2 DEF AuditTrail, Inv, TypeOK, RowType
  <2>2. CASE RowKept(p)
    BY <2>1, <2>2 DEF RowKept, Chain
  <2>3. CASE RowAccepted(p)
    <3>1. paymentEvents'[p] = <<Event("NONE", "PENDING")>> /\ status'[p] = "PENDING"
      BY <2>1, <2>3, FirstAppend DEF RowAccepted, Moved
    <3>2. QED
      BY <3>1 DEF Chain, Event
  <2>4. ASSUME NEW from \in PAYMENT_STATUS, NEW to \in PAYMENT_STATUS, Moved(p, from, to),
               canTransition(from, to)
        PROVE  Trail(p)'
    <3>1. from = paymentEvents[p][Len(paymentEvents[p])].to
      BY <2>1, <2>4 DEF Moved, PAYMENT_STATUS
    <3>2. paymentEvents[p] # <<>> /\ Chain(paymentEvents[p])
      BY <2>1, <2>4 DEF Moved, PAYMENT_STATUS
    <3>3. QED
      BY <2>1, <2>4, <3>1, <3>2, ChainGrows DEF Moved, PAYMENT_STATUS
  <2>5. CASE RowClaimed(p) \/ RowReturned(p) \/ RowGivenUp(p) \/ RowFinalized(p)
    BY <2>4, <2>5 DEF RowClaimed, RowReturned, RowGivenUp, RowFinalized, canTransition, transitionMap,
       PAYMENT_STATUS, Terminal
  <2>6. QED
    BY <1>2, <2>2, <2>3, <2>5, RowSteps DEF RowStep
<1>3. QED
  BY <1>1, <1>2, Invariance, PTL DEF Spec

(* A verdict is announced once and truly; only exhausted retries are        *)
(* silent.                                                                  *)
THEOREM VerdictsAnnounced == Spec => []VerdictAnnounced
<1> DEFINE Verdict(p) == CASE status[p] = "COMPLETED" -> terminalEvents[p] = <<"payment.completed">>
                           [] status[p] = "FAILED" -> \/ terminalEvents[p] = <<"payment.failed">>
                                                      \/ GaveUp(p) /\ attemptCount[p] > MAX_RETRIES
                           [] OTHER -> terminalEvents[p] = <<>>
<1>1. Init => VerdictAnnounced
  BY DEF Init, VerdictAnnounced
<1>2. ASSUME Inv, VerdictAnnounced, [Next]_vars PROVE VerdictAnnounced'
  <2> SUFFICES ASSUME NEW p \in Payments PROVE Verdict(p)'
    BY DEF VerdictAnnounced
  <2>1. Verdict(p)
    BY <1>2 DEF VerdictAnnounced
  <2>2. CASE RowKept(p)
    BY <2>1, <2>2 DEF RowKept, GaveUp
  <2>3. CASE RowAccepted(p) \/ RowClaimed(p) \/ RowReturned(p)
    BY <2>1, <2>3 DEF RowAccepted, RowClaimed, RowReturned, Moved
  <2>4. CASE RowGivenUp(p)
    BY <2>1, <2>4 DEF RowGivenUp, Moved, GaveUp
  <2>5. CASE RowFinalized(p)
    <3>1. PICK t \in Terminal : /\ status[p] = "PROCESSING" /\ status'[p] = t
                               /\ terminalEvents'[p] = Append(terminalEvents[p], EventType(t))
      BY <2>5 DEF RowFinalized, Moved
    <3>2. terminalEvents'[p] = <<EventType(t)>>
      BY <2>1, <3>1, FirstAppend
    <3>3. QED
      BY <3>1, <3>2 DEF EventType, Terminal
  <2>6. QED
    BY <1>2, <2>2, <2>3, <2>4, <2>5, RowSteps DEF RowStep
<1>3. QED
  BY <1>1, <1>2, Invariance, PTL DEF Spec

(* Returns of a trail that grows by one event. *)
LEMMA ReturnsGrow ==
  ASSUME NEW e \in Seq(Events), NEW x \in Events
  PROVE  /\ Cardinality(Returns(e)) \in Nat
         /\ Cardinality(Returns(Append(e, x))) = Cardinality(Returns(e)) + IF x.to = "RETRYING" THEN 1 ELSE 0
         /\ Len(Append(e, x)) = Len(e) + 1
<1> DEFINE n == Len(e)
<1>1. n \in Nat /\ Len(Append(e, x)) = n + 1 /\ Append(e, x)[n + 1] = x
  OBVIOUS
<1>2. \A i \in 1..n : Append(e, x)[i] = e[i]
  OBVIOUS
<1>3. Returns(Append(e, x)) = IF x.to = "RETRYING" THEN Returns(e) \cup {n + 1} ELSE Returns(e)
  BY <1>1, <1>2 DEF Returns
<1>4. IsFiniteSet(Returns(e))
  <2>1. IsFiniteSet(1..n) /\ Returns(e) \subseteq 1..n
    BY <1>1, FS_Interval DEF Returns
  <2>2. QED
    BY <2>1, FS_Subset
<1>5. Cardinality(Returns(e)) \in Nat
  BY <1>4, FS_CardinalityType
<1>6. n + 1 \notin Returns(e)
  BY <1>1 DEF Returns
<1>7. Cardinality(Returns(e) \cup {n + 1}) = Cardinality(Returns(e)) + 1
  BY <1>4, <1>6, FS_AddElement
<1>8. QED
  BY <1>1, <1>3, <1>5, <1>7

(* The row's counters agree with its trail. *)
THEOREM CountersMatch == Spec => []RowMatchesTrail
<1> DEFINE Match(p) == /\ status[p] # "NONE" => version[p] = Len(paymentEvents[p]) - 1
                       /\ attemptCount[p] = Cardinality(Returns(paymentEvents[p])) + IF GaveUp(p) THEN 1 ELSE 0
           Fresh(p) == status[p] = "NONE" => paymentEvents[p] = <<>> /\ version[p] = 0
           Both == RowMatchesTrail /\ VerdictAnnounced /\ \A p \in Payments : Fresh(p)
<1>1. Init => Both
  <2> SUFFICES ASSUME Init PROVE Both
    OBVIOUS
  <2>1. Returns(<<>>) = {} /\ Cardinality({}) = 0
    BY FS_EmptySet DEF Returns
  <2>2. ASSUME NEW p \in Payments PROVE Match(p) /\ Fresh(p)
    <3>1. status[p] = "NONE" /\ version[p] = 0 /\ attemptCount[p] = 0 /\ paymentEvents[p] = <<>>
      BY DEF Init
    <3>2. Cardinality(Returns(paymentEvents[p])) = 0 /\ ~GaveUp(p)
      BY <2>1, <3>1, Zenon DEF GaveUp
    <3>3. QED
      BY <3>1, <3>2
  <2>3. QED
    BY <2>2 DEF Init, RowMatchesTrail, VerdictAnnounced
<1>2. ASSUME Inv, Both, VerdictAnnounced', [Next]_vars PROVE Both'
  <2>1. ASSUME NEW p \in Payments PROVE Match(p)' /\ Fresh(p)'
    <3>1. /\ Match(p) /\ Fresh(p) /\ paymentEvents[p] \in Seq(Events)
          /\ version[p] \in Nat /\ attemptCount[p] \in Nat /\ terminalEvents[p] \in Seq({"payment.completed", "payment.failed"})
      BY <1>2 DEF RowMatchesTrail, Inv, TypeOK, RowType
    <3>2. CASE RowKept(p)
      BY <3>1, <3>2 DEF RowKept, GaveUp
    <3>3. ASSUME NEW from \in PAYMENT_STATUS \cup {"NONE"}, NEW to \in PAYMENT_STATUS, Moved(p, from, to)
          PROVE  /\ status[p] = from /\ status'[p] = to /\ to # "NONE"
                 /\ Len(paymentEvents'[p]) = Len(paymentEvents[p]) + 1
                 /\ Len(paymentEvents[p]) \in Nat
                 /\ Cardinality(Returns(paymentEvents[p])) \in Nat
                 /\ Cardinality(Returns(paymentEvents'[p]))
                      = Cardinality(Returns(paymentEvents[p])) + IF to = "RETRYING" THEN 1 ELSE 0
      <4>1. Event(from, to) \in Events /\ Event(from, to).to = to
        BY DEF Event, Events
      <4>2. QED
        BY <3>1, <3>3, <4>1, ReturnsGrow DEF Moved, PAYMENT_STATUS
    <3>4. CASE RowAccepted(p)
      <4>1. Moved(p, "NONE", "PENDING") /\ UNCHANGED <<version[p], attemptCount[p], terminalEvents[p]>>
        BY <3>4 DEF RowAccepted
      <4>2. ~GaveUp(p) /\ ~GaveUp(p)' /\ Len(paymentEvents[p]) = 0
        BY <3>1, <4>1 DEF GaveUp, Moved
      <4>3. /\ status'[p] = "PENDING" /\ Len(paymentEvents'[p]) = 1
            /\ Cardinality(Returns(paymentEvents[p])) \in Nat
            /\ Cardinality(Returns(paymentEvents'[p])) = Cardinality(Returns(paymentEvents[p]))
        BY <3>3, <4>1, <4>2 DEF PAYMENT_STATUS
      <4>4. version'[p] = 0 /\ attemptCount'[p] = Cardinality(Returns(paymentEvents'[p]))
        BY <3>1, <4>1, <4>2, <4>3 DEF Moved
      <4>5. QED
        BY <4>2, <4>3, <4>4
    <3>5. CASE RowClaimed(p)
      <4>1. PICK s \in {"PENDING", "RETRYING"} : Moved(p, s, "PROCESSING")
        BY <3>5 DEF RowClaimed
      <4>2. ~GaveUp(p) /\ ~GaveUp(p)'
        BY <4>1 DEF GaveUp, Moved
      <4>3. /\ status[p] # "NONE" /\ status'[p] = "PROCESSING"
            /\ Len(paymentEvents[p]) \in Nat /\ Len(paymentEvents'[p]) = Len(paymentEvents[p]) + 1
            /\ Cardinality(Returns(paymentEvents'[p])) = Cardinality(Returns(paymentEvents[p]))
        BY <3>3, <4>1 DEF PAYMENT_STATUS
      <4>4. version'[p] = version[p] + 1 /\ attemptCount'[p] = attemptCount[p]
        BY <3>5 DEF RowClaimed
      <4>5. QED
        BY <3>1, <4>2, <4>3, <4>4
    <3>6. CASE RowReturned(p)
      <4>1. ~GaveUp(p) /\ ~GaveUp(p)'
        BY <3>6 DEF RowReturned, GaveUp, Moved
      <4>2. /\ status[p] = "PROCESSING" /\ status'[p] = "RETRYING"
            /\ Len(paymentEvents[p]) \in Nat /\ Len(paymentEvents'[p]) = Len(paymentEvents[p]) + 1
            /\ Cardinality(Returns(paymentEvents[p])) \in Nat
            /\ Cardinality(Returns(paymentEvents'[p])) = Cardinality(Returns(paymentEvents[p])) + 1
        BY <3>3, <3>6 DEF RowReturned, PAYMENT_STATUS
      <4>3. QED
        BY <3>1, <3>6, <4>1, <4>2 DEF RowReturned
    <3>7. CASE RowGivenUp(p)
      <4>1. terminalEvents[p] = <<>>
        BY <1>2, <3>7 DEF VerdictAnnounced, RowGivenUp, Moved
      <4>2. ~GaveUp(p) /\ GaveUp(p)'
        BY <3>7, <4>1 DEF RowGivenUp, GaveUp, Moved
      <4>3. Moved(p, "PROCESSING", "FAILED")
        BY <3>7 DEF RowGivenUp
      <4>4. /\ status[p] = "PROCESSING" /\ status'[p] = "FAILED"
            /\ Len(paymentEvents[p]) \in Nat /\ Len(paymentEvents'[p]) = Len(paymentEvents[p]) + 1
            /\ Cardinality(Returns(paymentEvents'[p])) = Cardinality(Returns(paymentEvents[p]))
            /\ Cardinality(Returns(paymentEvents[p])) \in Nat
        BY <3>3, <4>3 DEF PAYMENT_STATUS
      <4>5. version'[p] = version[p] + 1 /\ attemptCount'[p] = attemptCount[p] + 1
        BY <3>7 DEF RowGivenUp
      <4>6. QED
        BY <3>1, <4>2, <4>4, <4>5
    <3>8. CASE RowFinalized(p)
      <4>1. PICK t \in Terminal : /\ Moved(p, "PROCESSING", t) /\ version'[p] = version[p] + 1
                                  /\ terminalEvents'[p] = Append(terminalEvents[p], EventType(t))
                                  /\ attemptCount'[p] = attemptCount[p]
        BY <3>8 DEF RowFinalized
      <4>2. terminalEvents'[p] # <<>>
        <5>1. terminalEvents[p] = <<>>
          BY <1>2, <4>1 DEF VerdictAnnounced, Moved
        <5>2. QED
          BY <4>1, <5>1, FirstAppend
      <4>3. ~GaveUp(p) /\ ~GaveUp(p)'
        BY <4>1, <4>2 DEF GaveUp, Moved
      <4>4. /\ status[p] = "PROCESSING" /\ status'[p] # "NONE"
            /\ Len(paymentEvents[p]) \in Nat /\ Len(paymentEvents'[p]) = Len(paymentEvents[p]) + 1
            /\ Cardinality(Returns(paymentEvents'[p])) = Cardinality(Returns(paymentEvents[p]))
        BY <3>3, <4>1 DEF PAYMENT_STATUS, Terminal
      <4>5. version'[p] = version[p] + 1 /\ attemptCount'[p] = attemptCount[p]
        BY <4>1
      <4>6. QED
        BY <3>1, <4>3, <4>4, <4>5
    <3>9. QED
      BY <1>2, <3>2, <3>4, <3>5, <3>6, <3>7, <3>8, RowSteps DEF RowStep
  <2>2. QED
    BY <1>2, <2>1 DEF RowMatchesTrail
<1>3. Both => RowMatchesTrail
  OBVIOUS
<1>4. QED
  BY <1>1, <1>2, <1>3, Invariance, VerdictsAnnounced, PTL DEF Spec

------------------------------------------------------------------------------
(* Only the broker's restart forgets a job. *)
LEMMA JobStays ==
  ASSUME Inv, [Next]_vars, "broker" \notin Faults, NEW j \in JobIds, job[j] # "absent"
  PROVE  job'[j] # "absent"
<1>t. QueueType /\ WorkerReady
  BY DEF Inv, TypeOK
<1>1. CASE \E r \in Relays, p \in Payments : RelayAdd(r, p)
  BY <1>1, <1>t DEF RelayAdd, QueueAdd, QueueType
<1>2. CASE \E r \in Relays, p \in Payments : ReapEnqueue(r, p)
  BY <1>2, <1>t DEF ReapEnqueue, QueueType
<1>3. CASE \E w \in Workers : EnqueueRetry(w)
  BY <1>3, <1>t DEF EnqueueRetry, QueueAdd, QueueType
<1>4. CASE \E w \in Workers, i \in JobIds : Dequeue(w, i)
  BY <1>4, <1>t DEF Dequeue, QueueType
<1>5. CASE \E w \in Workers : Ack(w) \/ JobFails(w) \/ Crash(w) \/ LockLost(w)
  BY <1>5, <1>t DEF Ack, JobFails, Crash, LockLost, Release, QueueType
<1>6. CASE \E i \in JobIds : RecoverStalled(i)
  BY <1>6, <1>t DEF RecoverStalled, QueueType
<1>7. ASSUME BrokerLoss PROVE FALSE
  BY <1>7 DEF BrokerLoss, Fault
<1>8. CASE UNCHANGED job
  BY <1>8
<1>9. QED
  BY <1>1, <1>2, <1>3, <1>4, <1>5, <1>6, <1>7, <1>8
     DEF Next, RelayStep, ReaperStep, WorkerStep, Submit, Age, RelaySelect, RelayPublish, RelayAbort,
         Reap, ReapLost, ReadStatus, Claim, ClaimMissed, Gate, BankAnswer, BankTimeout, ScheduleRetry,
         GiveUp, Finalize, EndMissed, LateAnswer, vars, queueVars

(* A published row has its job, and so has every row a relay has worked on  *)
(* in a transaction it has not committed.                                   *)
THEOREM PublishedHaveJobs == Spec => []PublishedHasJob
<1> DEFINE HasJob(p) == job[SubmittedJob(p)] # "absent"
           AddedHasJob == "broker" \notin Faults => \A r \in Relays : \A p \in added[r] : HasJob(p)
           Both == PublishedHasJob /\ AddedHasJob
<1>1. Init => Both
  BY DEF Init, PublishedHasJob
<1>2. ASSUME Inv, Both, [Next]_vars PROVE Both'
  <2> SUFFICES ASSUME "broker" \notin Faults
               PROVE  /\ \A p \in Payments : outbox'[p] = "published" => HasJob(p)'
                      /\ \A r \in Relays : \A p \in added'[r] : HasJob(p)'
    BY DEF PublishedHasJob
  <2>1. RelayType /\ QueueType
    BY <1>2 DEF Inv, TypeOK
  <2>2. \A p \in Payments : HasJob(p) => HasJob(p)'
    BY <1>2, JobStays, JobIdType
  <2>3. /\ \A p \in Payments : outbox[p] = "published" => HasJob(p)
        /\ \A r \in Relays : \A p \in added[r] : p \in Payments /\ HasJob(p)
    BY <1>2, <2>1 DEF PublishedHasJob, RelayType
  <2> HIDE DEF HasJob
  <2>4. ASSUME NEW q \in Payments, Submit(q) PROVE \A p \in Payments : outbox'[p] = "published" => outbox[p] = "published"
    BY <2>1, <2>4 DEF Submit, RelayType
  <2>5. ASSUME NEW r \in Relays, RelayPublish(r) PROVE \A p \in Payments : outbox'[p] = "published" => HasJob(p)
    BY <2>1, <2>3, <2>5 DEF RelayPublish, AllAdded, RelayType
  <2>6. \A p \in Payments : outbox'[p] = "published" => HasJob(p)'
    BY <1>2, <2>2, <2>3, <2>4, <2>5
       DEF Next, RelayStep, ReaperStep, WorkerStep, Age, RelaySelect, RelayAdd, RelayAbort, Reap,
           ReapEnqueue, ReapLost, Dequeue, ReadStatus, Claim, ClaimMissed, Gate, BankAnswer,
           BankTimeout, LateAnswer, ScheduleRetry, GiveUp, EnqueueRetry, Finalize, EndMissed, Ack,
           JobFails, Crash, LockLost, RecoverStalled, BrokerLoss, vars, relayVars
  <2>7. ASSUME NEW r \in Relays, NEW q \in Payments, RelayAdd(r, q) PROVE \A s \in Relays : \A p \in added'[s] : HasJob(p)'
    <3>1. HasJob(q)'
      BY <2>1, <2>7, JobIdType DEF RelayAdd, QueueAdd, QueueType, HasJob
    <3>2. \A s \in Relays : \A p \in added'[s] : p \in added[s] \/ p = q
      BY <2>1, <2>7 DEF RelayAdd, RelayType
    <3>3. QED
      BY <2>2, <2>3, <3>1, <3>2
  <2>8. ASSUME NEW r \in Relays, RelayPublish(r) \/ RelayAbort(r) PROVE \A s \in Relays : added'[s] \subseteq added[s]
    BY <2>1, <2>8 DEF RelayPublish, RelayAbort, RelayType
  <2>9. \A r \in Relays : \A p \in added'[r] : HasJob(p)'
    <3>1. CASE \A s \in Relays : added'[s] \subseteq added[s]
      BY <2>2, <2>3, <3>1
    <3>2. CASE \E r \in Relays, q \in Payments : RelayAdd(r, q)
      BY <2>7, <3>2
    <3>3. QED
      BY <1>2, <2>8, <3>1, <3>2
         DEF Next, RelayStep, ReaperStep, WorkerStep, Submit, Age, RelaySelect, Reap, ReapEnqueue,
             ReapLost, Dequeue, ReadStatus, Claim, ClaimMissed, Gate, BankAnswer, BankTimeout,
             LateAnswer, ScheduleRetry, GiveUp, EnqueueRetry, Finalize, EndMissed, Ack, JobFails,
             Crash, LockLost, RecoverStalled, BrokerLoss, vars, relayVars
  <2>10. QED
    BY <2>6, <2>9
<1>3. Both => PublishedHasJob
  OBVIOUS
<1>4. QED
  BY <1>1, <1>2, <1>3, Invariance, PTL DEF Spec

------------------------------------------------------------------------------
(***************************************************************************)
(* PaymentPipeline implements PaymentLifecycle: every step of the pipeline *)
(* is, seen through the mapping, one step of the contract or none.         *)
(***************************************************************************)
(* The abstract history of a trail. *)
Statuses(e) == [i \in DOMAIN e |-> e[i].to]

(* The abstract history of a trail grows by the status its new event leads  *)
(* to.                                                                      *)
LEMMA StatusesGrow ==
  ASSUME NEW e \in Seq(Events), NEW x \in Events
  PROVE  Statuses(Append(e, x)) = Append(Statuses(e), x.to)
<1> DEFINE T == PAYMENT_STATUS
           f == Append(e, x)
<1>1. Len(e) \in Nat /\ DOMAIN e = 1..Len(e) /\ Len(f) = Len(e) + 1 /\ DOMAIN f = 1..(Len(e) + 1)
  OBVIOUS
<1>2. Statuses(e) \in Seq(T) /\ Len(Statuses(e)) = Len(e)
  <2>1. \A i \in 1..Len(e) : e[i].to \in T
    <3>1. \A i \in 1..Len(e) : e[i] \in Events
      BY <1>1
    <3>2. \A y \in Events : y.to \in T
      BY DEF Events
    <3>3. QED
      BY <3>1, <3>2
  <2>2. Statuses(e) \in [1..Len(e) -> T]
    BY <1>1, <2>1 DEF Statuses
  <2>3. QED
    BY <1>1, <2>2
<1>3. \A i \in 1..(Len(e) + 1) : f[i] = IF i <= Len(e) THEN e[i] ELSE x
  BY <1>1
<1>4. x.to \in T
  BY DEF Events
<1>5. /\ DOMAIN Append(Statuses(e), x.to) = 1..(Len(e) + 1)
      /\ \A i \in 1..(Len(e) + 1) :
           Append(Statuses(e), x.to)[i] = IF i <= Len(e) THEN Statuses(e)[i] ELSE x.to
  BY <1>1, <1>2, <1>4
<1>6. \A i \in 1..(Len(e) + 1) : Statuses(f)[i] = Append(Statuses(e), x.to)[i]
  BY <1>1, <1>3, <1>5 DEF Statuses
<1>7. DOMAIN Statuses(f) = 1..(Len(e) + 1)
  BY <1>1 DEF Statuses
<1>8. Append(Statuses(e), x.to) \in Seq(T) /\ Statuses(f) \in Seq(T)
  BY <1>1, <1>2, <1>3, <1>4, <1>7 DEF Statuses, Events
<1>9. QED
  BY <1>5, <1>6, <1>7, <1>8

(* A payment's history grows with its trail. *)
History == [p \in Payments |-> [i \in DOMAIN paymentEvents[p] |-> paymentEvents[p][i].to]]

LEMMA HistoryGrows ==
  ASSUME RowType, NEW p \in Payments, NEW from, NEW to, Event(from, to) \in Events,
         paymentEvents'[p] = Append(paymentEvents[p], Event(from, to))
  PROVE  History'[p] = Append(History[p], to)
<1>1. paymentEvents[p] \in Seq(Events) /\ History[p] = Statuses(paymentEvents[p])
  BY DEF RowType, History, Statuses
<1>2. History'[p] = Statuses(Append(paymentEvents[p], Event(from, to)))
  BY DEF History, Statuses
<1>3. Statuses(Append(paymentEvents[p], Event(from, to))) = Append(Statuses(paymentEvents[p]), Event(from, to).to)
  BY <1>1, StatusesGrow
<1>4. Event(from, to).to = to
  BY DEF Event
<1>5. QED
  BY <1>1, <1>2, <1>3, <1>4

(* The first state of the pipeline is the first state of the contract. *)
LEMMA LifecycleInit == Init => Lifecycle!Init
<1> SUFFICES ASSUME Init PROVE Lifecycle!Init
  OBVIOUS
<1>1. \A p \in Payments : [i \in DOMAIN paymentEvents[p] |-> paymentEvents[p][i].to] = <<>>
  BY DEF Init
<1>2. QED
  BY <1>1 DEF Init, Lifecycle!Init

(* Rows that move together make a step of the contract. *)
LEMMA MovesStep ==
  ASSUME RowType, RowType', NEW S \in SUBSET Payments, NEW to \in PAYMENT_STATUS,
         \A p \in S : \E from \in PAYMENT_STATUS \cup {"NONE"} : Moved(p, from, to),
         \A p \in Payments \ S : status'[p] = status[p] /\ paymentEvents'[p] = paymentEvents[p]
  PROVE  Lifecycle!Step(S, to)
<1>1. \A p \in S : status'[p] = to
  BY DEF Moved
<1>2. status' = [p \in Payments |-> IF p \in S THEN to ELSE status[p]]
  BY <1>1 DEF RowType
<1>3. ASSUME NEW p \in S PROVE History'[p] = Append(History[p], to)
  <2>1. PICK from \in PAYMENT_STATUS \cup {"NONE"} : paymentEvents'[p] = Append(paymentEvents[p], Event(from, to))
    BY DEF Moved
  <2>2. Event(from, to) \in Events
    BY DEF Event, Events
  <2>3. QED
    BY <2>1, <2>2, HistoryGrows
<1>4. \A p \in Payments \ S : History'[p] = History[p]
  BY DEF History
<1>5. History' = [p \in Payments |-> IF p \in S THEN Append(History[p], to) ELSE History[p]]
  BY <1>3, <1>4 DEF History
<1>6. QED
  BY <1>2, <1>5 DEF Lifecycle!Step, History

(* A transition of one payment moves its row alone. *)
LEMMA OneMovesStep ==
  ASSUME RowType, RowType', NEW p \in Payments,
         NEW from \in PAYMENT_STATUS \cup {"NONE"}, NEW to \in PAYMENT_STATUS, status[p] = from,
         status' = [status EXCEPT ![p] = to],
         paymentEvents' = [paymentEvents EXCEPT ![p] = Append(@, Event(from, to))]
  PROVE  Lifecycle!Step({p}, to)
<1>1. Moved(p, from, to)
  BY DEF Moved, RowType
<1>2. \A q \in Payments \ {p} : status'[q] = status[q] /\ paymentEvents'[q] = paymentEvents[q]
  BY DEF RowType
<1>3. {p} \in SUBSET Payments /\ \A q \in {p} : \E s \in PAYMENT_STATUS \cup {"NONE"} : Moved(q, s, to)
  BY <1>1
<1>4. QED
  BY <1>2, <1>3, MovesStep

(* Every step of the pipeline is a step of the contract, or none. *)
LEMMA LifecycleStep ==
  ASSUME DurableBank, Inv, [Next]_vars
  PROVE  [Lifecycle!Next]_(Lifecycle!lifecycleVars)
<1> DEFINE Goal == [Lifecycle!Next]_(Lifecycle!lifecycleVars)
<1> USE PipelineAssumption
<1>t. RowType /\ RowType' /\ WorkerType /\ WorkerReady /\ BankType /\ WorkersClaimed /\ ChargesKnown /\ KeysHonoured
  BY TypeStep DEF Inv, TypeOK
<1>p. \A w \in Workers : pc[w] # "idle" => Payment(w) \in Payments
  BY <1>t, JobIdType DEF WorkerReady, Payment
<1>1. ASSUME NEW p \in Payments, Submit(p) PROVE Goal
  <2>1. Lifecycle!Step({p}, "PENDING")
    BY <1>1, <1>t, OneMovesStep DEF Submit, PAYMENT_STATUS
  <2>2. Lifecycle!Accept(p)
    BY <1>1, <2>1 DEF Submit, bankVars, Lifecycle!Accept
  <2>3. QED
    BY <2>2 DEF Lifecycle!Next
<1>2. ASSUME NEW w \in Workers, Claim(w) PROVE Goal
  <2>1. PICK p \in Payments : p = Payment(w)
    BY <1>2, <1>p DEF Claim
  <2>2. PICK s \in {"PENDING", "RETRYING"} : s = seen[w] /\ s = status[p]
    BY <1>2, <1>t, <2>1 DEF Claim, StatusAsSeen, WorkersClaimed
  <2>3. Lifecycle!Step({p}, "PROCESSING")
    BY <1>2, <1>t, <2>1, <2>2, OneMovesStep DEF Claim, Transition, PAYMENT_STATUS
  <2>4. Lifecycle!Claim(p)
    BY <1>2, <2>2, <2>3 DEF Claim, bankVars, Lifecycle!Claim
  <2>5. QED
    BY <2>4 DEF Lifecycle!Next
<1>3. ASSUME NEW w \in Workers, ScheduleRetry(w) PROVE Goal
  <2>1. PICK p \in Payments : p = Payment(w)
    BY <1>3, <1>p DEF ScheduleRetry
  <2>2. status[p] = "PROCESSING"
    BY <1>3, <2>1 DEF ScheduleRetry, StillProcessing
  <2>3. Lifecycle!Step({p}, "RETRYING")
    BY <1>3, <1>t, <2>1, <2>2, OneMovesStep DEF ScheduleRetry, Transition, PAYMENT_STATUS
  <2>4. Lifecycle!Retry({p})
    BY <1>3, <2>1, <2>2, <2>3 DEF ScheduleRetry, bankVars, Lifecycle!Retry
  <2>5. QED
    BY <2>4 DEF Lifecycle!Next
<1>4. ASSUME NEW w \in Workers, GiveUp(w) PROVE Goal
  <2>1. PICK p \in Payments : p = Payment(w)
    BY <1>4, <1>p DEF GiveUp
  <2>2. status[p] = "PROCESSING"
    BY <1>4, <2>1 DEF GiveUp, StillProcessing
  <2>3. Lifecycle!Step({p}, "FAILED")
    BY <1>4, <1>t, <2>1, <2>2, OneMovesStep DEF GiveUp, Transition, PAYMENT_STATUS
  <2>4. Lifecycle!GiveUp(p)
    BY <1>4, <2>1, <2>2, <2>3 DEF GiveUp, bankVars, Lifecycle!GiveUp
  <2>5. QED
    BY <2>4 DEF Lifecycle!Next
<1>5. ASSUME NEW w \in Workers, Finalize(w) PROVE Goal
  <2>1. PICK p \in Payments, t \in Terminal : p = Payment(w) /\ t = target[w]
    BY <1>5, <1>t, <1>p DEF Finalize, WorkerType, WorkerReady
  <2>2. /\ status[p] = "PROCESSING"
        /\ terminalEvents' = [terminalEvents EXCEPT ![p] = Append(@, EventType(t))]
        /\ charges' = charges
        /\ t = "COMPLETED" => charges[p] = 1
    BY <1>5, <1>t, <2>1 DEF Finalize, StillProcessing, ChargesKnown, KeysHonoured, bankVars
  <2>3. Lifecycle!Step({p}, t)
    BY <1>5, <1>t, <2>1, <2>2, OneMovesStep DEF Finalize, Transition, PAYMENT_STATUS, Terminal
  <2>4. CASE t = "COMPLETED"
    <3>1. Lifecycle!Complete(p)
      BY <2>2, <2>3, <2>4 DEF EventType, Lifecycle!Complete
    <3>2. QED
      BY <3>1 DEF Lifecycle!Next
  <2>5. CASE t = "FAILED"
    <3>1. Lifecycle!Decline(p)
      BY <2>2, <2>3, <2>5 DEF EventType, Lifecycle!Decline
    <3>2. QED
      BY <3>1 DEF Lifecycle!Next
  <2>6. QED
    BY <2>4, <2>5 DEF Terminal
<1>6. ASSUME NEW r \in Relays, Reap(r) PROVE Goal
  <2>1. PICK S \in SUBSET Stuck : SendBack(Unstrand(S))
    BY <1>6 DEF Reap
  <2>2. PICK R \in SUBSET Payments : R = Unstrand(S)
    BY <1>t DEF Unstrand, Stuck, RowType
  <2>3. \A p \in R : status[p] = "PROCESSING"
    BY <2>2 DEF Unstrand
  <2>4. \A p \in R : \E from \in PAYMENT_STATUS \cup {"NONE"} : Moved(p, from, "RETRYING")
    <3>1. \A p \in R : Moved(p, "PROCESSING", "RETRYING")
      BY <2>1, <2>2, <2>3 DEF SendBack, Moved
    <3>2. QED
      BY <3>1 DEF PAYMENT_STATUS
  <2>5. \A p \in Payments \ R : status'[p] = status[p] /\ paymentEvents'[p] = paymentEvents[p]
    BY <2>1, <2>2 DEF SendBack
  <2>6. Lifecycle!Step(R, "RETRYING")
    BY <1>t, <2>4, <2>5, MovesStep DEF PAYMENT_STATUS
  <2>7. Lifecycle!Retry(R)
    BY <1>6, <2>3, <2>6 DEF Reap, bankVars, Lifecycle!Retry
  <2>8. QED
    BY <2>7 DEF Lifecycle!Next
<1>7. ASSUME NEW w \in Workers, NEW p \in Payments, NEW outcome, Authorize(w, p, outcome),
             Claimed(p), UNCHANGED rowVars
      PROVE  Goal
  <2>1. CASE outcome = "authorized" /\ p \notin store[w]
    <3>1. charges[p] = 0
      BY <1>t, <2>1 DEF KeysHonoured, BankType
    <3>2. Lifecycle!Charge(p)
      BY <1>7, <2>1, <3>1 DEF Authorize, Claimed, rowVars, Lifecycle!Charge
    <3>3. QED
      BY <3>2 DEF Lifecycle!Next
  <2>2. CASE ~(outcome = "authorized" /\ p \notin store[w])
    BY <1>7, <2>2 DEF Authorize, rowVars, Lifecycle!lifecycleVars
  <2>3. QED
    BY <2>1, <2>2
<1>8. ASSUME NEW w \in Workers, BankAnswer(w) PROVE Goal
  <2>1. Payment(w) \in Payments /\ Claimed(Payment(w))
    BY <1>8, <1>t, <1>p DEF BankAnswer, WorkersClaimed
  <2>2. QED
    BY <1>7, <1>8, <2>1 DEF BankAnswer
<1>9. ASSUME NEW w \in Workers, NEW p \in Payments, LateAnswer(w, p) PROVE Goal
  <2>1. Claimed(p)
    BY <1>9, <1>t DEF LateAnswer, WorkersClaimed
  <2>2. QED
    BY <1>7, <1>9, <2>1 DEF LateAnswer
<1>10. CASE UNCHANGED <<status, paymentEvents, terminalEvents, charges>>
  BY <1>10 DEF Lifecycle!lifecycleVars
<1>11. QED
  BY <1>1, <1>2, <1>3, <1>4, <1>5, <1>6, <1>8, <1>9, <1>10
     DEF Next, RelayStep, ReaperStep, WorkerStep, Age, RelaySelect, RelayAdd, RelayPublish, RelayAbort,
         ReapEnqueue, ReapLost, Dequeue, ReadStatus, ClaimMissed, Gate, BankTimeout, EnqueueRetry,
         EndMissed, Ack, JobFails, Crash, LockLost, RecoverStalled, BrokerLoss, vars, rowVars, bankVars

(* The workers, relays, reaper, queue and bank together implement the       *)
(* lifecycle contract, if the bank honours idempotency keys.                *)
THEOREM Implementation ==
  ASSUME DurableBank
  PROVE  Spec => ImplementsLifecycle
BY LifecycleInit, LifecycleStep, Invariance, PTL DEF Spec, ImplementsLifecycle, Lifecycle!Spec

==============================================================================
