------------------------ MODULE WebhookDeliveryProofs ------------------------
(***************************************************************************)
(* Proofs about WebhookDelivery, for any events, endpoints, workers, relay *)
(* processes, budget and faults.  A processor writes back what it computed *)
(* from an old read, so the properties do not follow from the row it       *)
(* overwrites.  They follow from failedPosts and received, which only      *)
(* grow: what a worker read, or was answered, stays true of them however   *)
(* late it writes.                                                         *)
(***************************************************************************)
EXTENDS WebhookDelivery, TLAPS

(* Only the dispatcher's transaction makes rows, when it marks the event. *)
RowsDispatched ==
  \A d \in Deliveries : outbox[d[1]] # "dispatched" => status[d] = "none"

(* Whatever names a delivery names a row. *)
NamesRows ==
  /\ \A j \in JobIds : job[j] # "absent" => status[j.delivery] # "none"
  /\ \A w \in Workers : pc[w] # "idle" \/ owns[w] => status[Delivery(w)] # "none"
  /\ \A r \in Relays : \A d \in dispatching[r] : status[d] # "none"
  /\ \A r \in Relays : \A p \in reaping[r] : status[p[1]] # "none"

(* A row claims no more attempts than failed, unless its last one did not. *)
Counted ==
  \A d \in Deliveries : status[d] # "delivered" => attempts[d] <= failedPosts[d]

DeadSpent ==
  \A d \in Deliveries : status[d] = "dead" => failedPosts[d] = MAX_WEBHOOK_ATTEMPTS

(* What a worker read is true of the failures, also with its own added. *)
ReadCounted(w) ==
  /\ pc[w] \in {"post", "record"} => read[w] <= failedPosts[Delivery(w)]
  /\ pc[w] = "record" /\ reply[w] # "ok" => read[w] + 1 <= failedPosts[Delivery(w)]
  /\ pc[w] = "enqueue" => read[w] + 1 < MAX_WEBHOOK_ATTEMPTS

AnswerTrue(w) == pc[w] = "record" /\ reply[w] = "ok" => Delivery(w) \in received

WorkersTrue == \A w \in Workers : ReadCounted(w) /\ AnswerTrue(w)

Inv ==
  /\ TypeOK
  /\ RowsDispatched
  /\ NamesRows
  /\ Counted
  /\ DeadSpent
  /\ WorkersTrue
  /\ DeliveredWasReceived

------------------------------------------------------------------------------
LEMMA InvInit == Init => Inv
BY WebhookAssumption DEF Init, Inv, TypeOK, TableType, BudgetLeft, QueueType, WorkerType,
   RowsDispatched, NamesRows, Counted, DeadSpent, WorkersTrue, ReadCounted, AnswerTrue,
   DeliveredWasReceived, Delivery, JobIds, Deliveries

(* The two ways to take a job id apart and to put it together. *)
LEMMA JobIdFacts ==
  /\ \A j \in JobIds : j.delivery \in Deliveries
  /\ \A d \in Deliveries, k \in 0..(MAX_WEBHOOK_ATTEMPTS - 1) :
       JobId(d, k) \in JobIds /\ JobId(d, k).delivery = d
BY DEF JobIds, JobId

(* The groups of variables are abbreviations. *)
USE DEF tableVars, queueVars, relayVars, workerVars, worldVars

LEMMA EmitStep ==
  ASSUME Inv, NEW e \in Events, Emit(e)
  PROVE  Inv'
BY WebhookAssumption, JobIdFacts
   DEF Emit, Delivery, Inv, TypeOK, TableType, BudgetLeft, QueueType, WorkerType,
       RowsDispatched, NamesRows, Counted, DeadSpent, WorkersTrue, ReadCounted,
       AnswerTrue, DeliveredWasReceived

LEMMA insert_endpointStep ==
  ASSUME Inv, NEW p \in Endpoints, insert_endpoint(p)
  PROVE  Inv'
BY WebhookAssumption, JobIdFacts
   DEF insert_endpoint, Delivery, Inv, TypeOK, TableType, BudgetLeft, QueueType,
       WorkerType, RowsDispatched, NamesRows, Counted, DeadSpent, WorkersTrue,
       ReadCounted, AnswerTrue, DeliveredWasReceived

LEMMA deleteStep ==
  ASSUME Inv, NEW p \in Endpoints, delete(p)
  PROVE  Inv'
BY WebhookAssumption, JobIdFacts
   DEF delete, Delivery, Inv, TypeOK, TableType, BudgetLeft, QueueType, WorkerType,
       RowsDispatched, NamesRows, Counted, DeadSpent, WorkersTrue, ReadCounted,
       AnswerTrue, DeliveredWasReceived

LEMMA DispatchStep ==
  ASSUME Inv, NEW r \in Relays, Dispatch(r)
  PROVE  Inv'
<1>1. PICK S \in SUBSET {e \in Events : outbox[e] = "undispatched"} :
        /\ status' = [d \in Deliveries |-> IF d \in FanOut(S) THEN "pending" ELSE status[d]]
        /\ outbox' = [e \in Events |-> IF e \in S THEN "dispatched" ELSE outbox[e]]
        /\ dispatching' = [dispatching EXCEPT ![r] = FanOut(S)]
  BY DEF Dispatch
<1>2. UNCHANGED <<endpoint, attempts, overdue, queueVars, reaping, workerVars, worldVars, faults>>
  BY DEF Dispatch
<1>3. \A d \in Deliveries : d[1] \in Events
  BY DEF Deliveries
<1>4. /\ FanOut(S) \subseteq Deliveries
      /\ \A d \in FanOut(S) : d[1] \in S /\ status[d] = "none"
  BY DEF FanOut, Inv, RowsDispatched
<1>5. \A d \in Deliveries : status'[d] = status[d] \/ (status[d] = "none" /\ status'[d] = "pending")
  BY <1>1, <1>4
<1>6. TypeOK'
  <2>1. TableType' /\ BudgetLeft'
    BY <1>1, <1>2, <1>5 DEF Inv, TypeOK, TableType, BudgetLeft
  <2>2. QueueType' /\ WorkerType'
    BY <1>1, <1>2, <1>4 DEF Inv, TypeOK, QueueType, WorkerType
  <2> QED BY <1>2, <2>1, <2>2 DEF Inv, TypeOK
<1>7. RowsDispatched'
  BY <1>1, <1>3, <1>4 DEF Inv, RowsDispatched, FanOut
<1>8. NamesRows'
  BY <1>1, <1>2, <1>4, <1>5, JobIdFacts
     DEF Inv, NamesRows, TypeOK, QueueType, WorkerType, Delivery
<1>9. Counted' /\ DeadSpent' /\ DeliveredWasReceived'
  BY <1>2, <1>5 DEF Inv, Counted, DeadSpent, DeliveredWasReceived
<1>10. WorkersTrue'
  BY <1>2 DEF Inv, WorkersTrue, ReadCounted, AnswerTrue, Delivery
<1> QED BY <1>6, <1>7, <1>8, <1>9, <1>10 DEF Inv

LEMMA DispatchEnqueueStep ==
  ASSUME Inv, NEW r \in Relays, NEW d \in Deliveries, DispatchEnqueue(r, d)
  PROVE  Inv'
BY WebhookAssumption, JobIdFacts
   DEF DispatchEnqueue, QueueAdd, Delivery, Inv, TypeOK, TableType, BudgetLeft,
       QueueType, WorkerType, RowsDispatched, NamesRows, Counted, DeadSpent,
       WorkersTrue, ReadCounted, AnswerTrue, DeliveredWasReceived

LEMMA DispatchLostStep ==
  ASSUME Inv, NEW r \in Relays, DispatchLost(r)
  PROVE  Inv'
BY WebhookAssumption, JobIdFacts
   DEF DispatchLost, Fault, Delivery, Inv, TypeOK, TableType, BudgetLeft, QueueType,
       WorkerType, RowsDispatched, NamesRows, Counted, DeadSpent, WorkersTrue,
       ReadCounted, AnswerTrue, DeliveredWasReceived

LEMMA DequeueStep ==
  ASSUME Inv, NEW w \in Workers, NEW j \in JobIds, Dequeue(w, j)
  PROVE  Inv'
BY WebhookAssumption, JobIdFacts
   DEF Dequeue, Goto, Delivery, Inv, TypeOK, TableType, BudgetLeft, QueueType,
       WorkerType, RowsDispatched, NamesRows, Counted, DeadSpent, WorkersTrue,
       ReadCounted, AnswerTrue, DeliveredWasReceived

LEMMA ReadDeliveryStep ==
  ASSUME Inv, NEW w \in Workers, ReadDelivery(w)
  PROVE  Inv'
<1>1. /\ UNCHANGED <<tableVars, queueVars, relayVars, cur, owns, reply, worldVars, faults>>
      /\ pc[w] = "read"
  BY DEF ReadDelivery
<1>2. cur[w] \in JobIds /\ Delivery(w) \in Deliveries /\ status[Delivery(w)] # "none"
  BY <1>1, JobIdFacts DEF Inv, TypeOK, WorkerType, NamesRows, Delivery
<1>3. \/ pc' = [pc EXCEPT ![w] = "ack"] /\ read' = read
      \/ /\ status[Delivery(w)] \in {"pending", "failed"}
         /\ pc' = [pc EXCEPT ![w] = "post"]
         /\ read' = [read EXCEPT ![w] = attempts[Delivery(w)]]
  BY <1>2 DEF ReadDelivery, Goto, Settled, Inv, TypeOK, TableType
<1>4. TypeOK'
  <2>1. status[Delivery(w)] \in {"pending", "failed"} =>
          attempts[Delivery(w)] \in 0..(MAX_WEBHOOK_ATTEMPTS - 1)
    BY <1>2, WebhookAssumption DEF Inv, TypeOK, TableType, BudgetLeft
  <2>2. read' \in [Workers -> 0..(MAX_WEBHOOK_ATTEMPTS - 1)]
    BY <1>3, <2>1 DEF Inv, TypeOK, WorkerType
  <2>3. WorkerType'
    BY <1>1, <1>2, <1>3, <2>2 DEF Inv, TypeOK, WorkerType
  <2> QED BY <1>1, <2>3 DEF Inv, TypeOK, TableType, BudgetLeft, QueueType
<1>5. NamesRows'
  BY <1>1, <1>2, <1>3 DEF Inv, NamesRows, TypeOK, WorkerType, Delivery
<1>6. WorkersTrue'
  BY <1>1, <1>2, <1>3 DEF Inv, WorkersTrue, ReadCounted, AnswerTrue, Counted, Delivery, TypeOK,
     WorkerType
<1> QED BY <1>1, <1>4, <1>5, <1>6 DEF Inv, RowsDispatched, Counted, DeadSpent, DeliveredWasReceived

LEMMA PostStep ==
  ASSUME Inv, NEW w \in Workers, Post(w)
  PROVE  Inv'
BY WebhookAssumption, JobIdFacts
   DEF Post, Goto, Delivery, Inv, TypeOK, TableType, BudgetLeft, QueueType,
       WorkerType, RowsDispatched, NamesRows, Counted, DeadSpent, WorkersTrue,
       ReadCounted, AnswerTrue, DeliveredWasReceived

LEMMA RecordDeliveredStep ==
  ASSUME Inv, NEW w \in Workers, RecordDelivered(w)
  PROVE  Inv'
BY WebhookAssumption, JobIdFacts
   DEF RecordDelivered, Goto, Ok, Delivery, Inv, TypeOK, TableType, BudgetLeft,
       QueueType, WorkerType, RowsDispatched, NamesRows, Counted, DeadSpent,
       WorkersTrue, ReadCounted, AnswerTrue, DeliveredWasReceived

LEMMA RecordDeadStep ==
  ASSUME Inv, NEW w \in Workers, RecordDead(w)
  PROVE  Inv'
BY WebhookAssumption, JobIdFacts
   DEF RecordDead, Goto, Ok, Spent, Delivery, Inv, TypeOK, TableType, BudgetLeft,
       QueueType, WorkerType, RowsDispatched, NamesRows, Counted, DeadSpent,
       WorkersTrue, ReadCounted, AnswerTrue, DeliveredWasReceived

LEMMA RecordFailedStep ==
  ASSUME Inv, NEW w \in Workers, RecordFailed(w)
  PROVE  Inv'
BY WebhookAssumption, JobIdFacts
   DEF RecordFailed, Goto, Ok, Spent, Delivery, Inv, TypeOK, TableType, BudgetLeft,
       QueueType, WorkerType, RowsDispatched, NamesRows, Counted, DeadSpent,
       WorkersTrue, ReadCounted, AnswerTrue, DeliveredWasReceived

LEMMA EnqueueRetryStep ==
  ASSUME Inv, NEW w \in Workers, EnqueueRetry(w)
  PROVE  Inv'
BY WebhookAssumption, JobIdFacts
   DEF EnqueueRetry, Goto, QueueAdd, Delivery, Inv, TypeOK, TableType, BudgetLeft,
       QueueType, WorkerType, RowsDispatched, NamesRows, Counted, DeadSpent,
       WorkersTrue, ReadCounted, AnswerTrue, DeliveredWasReceived

LEMMA AckStep ==
  ASSUME Inv, NEW w \in Workers, Ack(w)
  PROVE  Inv'
BY WebhookAssumption, JobIdFacts
   DEF Ack, Goto, Release, Delivery, Inv, TypeOK, TableType, BudgetLeft, QueueType,
       WorkerType, RowsDispatched, NamesRows, Counted, DeadSpent, WorkersTrue,
       ReadCounted, AnswerTrue, DeliveredWasReceived

LEMMA JobFailsStep ==
  ASSUME Inv, NEW w \in Workers, JobFails(w)
  PROVE  Inv'
BY WebhookAssumption, JobIdFacts
   DEF JobFails, Goto, Release, Fault, Delivery, Inv, TypeOK, TableType, BudgetLeft,
       QueueType, WorkerType, RowsDispatched, NamesRows, Counted, DeadSpent,
       WorkersTrue, ReadCounted, AnswerTrue, DeliveredWasReceived

LEMMA CrashStep ==
  ASSUME Inv, NEW w \in Workers, Crash(w)
  PROVE  Inv'
BY WebhookAssumption, JobIdFacts
   DEF Crash, Goto, Release, Fault, Delivery, Inv, TypeOK, TableType, BudgetLeft,
       QueueType, WorkerType, RowsDispatched, NamesRows, Counted, DeadSpent,
       WorkersTrue, ReadCounted, AnswerTrue, DeliveredWasReceived

LEMMA LockLostStep ==
  ASSUME Inv, NEW w \in Workers, LockLost(w)
  PROVE  Inv'
<1>1. /\ UNCHANGED <<tableVars, recovered, relayVars, pc, cur, read, reply, worldVars>>
      /\ owns[w]
      /\ job' = [job EXCEPT ![cur[w]] = "stalled"]
      /\ owns' = [owns EXCEPT ![w] = FALSE]
      /\ faults < MaxFaults /\ faults' = faults + 1
  BY DEF LockLost, Fault
<1>2. cur[w] \in JobIds
  BY <1>1 DEF Inv, TypeOK, WorkerType
<1>3. TypeOK'
  BY <1>1, <1>2, WebhookAssumption DEF Inv, TypeOK, TableType, BudgetLeft, QueueType, WorkerType
<1>4. NamesRows'
  BY <1>1, <1>2 DEF Inv, NamesRows, TypeOK, QueueType, Delivery
<1> QED BY <1>1, <1>3, <1>4 DEF Inv, RowsDispatched, Counted, DeadSpent, WorkersTrue, ReadCounted,
           AnswerTrue, DeliveredWasReceived, Delivery

LEMMA RecoverStalledStep ==
  ASSUME Inv, NEW j \in JobIds, RecoverStalled(j)
  PROVE  Inv'
<1>1. /\ UNCHANGED <<tableVars, relayVars, workerVars, worldVars, faults>>
      /\ job[j] = "stalled"
      /\ \/ job' = [job EXCEPT ![j] = "absent"] /\ recovered' = recovered \ {j}
         \/ job' = [job EXCEPT ![j] = "waiting"] /\ recovered' = recovered \cup {j}
  BY DEF RecoverStalled
<1>2. TypeOK'
  <2>1. QueueType'
    BY <1>1 DEF Inv, TypeOK, QueueType
  <2> QED BY <1>1, <2>1 DEF Inv, TypeOK, TableType, BudgetLeft, WorkerType
<1>3. NamesRows'
  BY <1>1 DEF Inv, NamesRows, TypeOK, QueueType, Delivery
<1> QED BY <1>1, <1>2, <1>3 DEF Inv, RowsDispatched, Counted, DeadSpent, WorkersTrue, ReadCounted,
           AnswerTrue, DeliveredWasReceived, Delivery

LEMMA BrokerLossStep ==
  ASSUME Inv, BrokerLoss
  PROVE  Inv'
BY WebhookAssumption, JobIdFacts
   DEF BrokerLoss, Fault, Delivery, Inv, TypeOK, TableType, BudgetLeft, QueueType,
       WorkerType, RowsDispatched, NamesRows, Counted, DeadSpent, WorkersTrue,
       ReadCounted, AnswerTrue, DeliveredWasReceived

LEMMA AgeStep ==
  ASSUME Inv, NEW d \in Deliveries, Age(d)
  PROVE  Inv'
BY WebhookAssumption, JobIdFacts
   DEF Age, Delivery, Inv, TypeOK, TableType, BudgetLeft, QueueType, WorkerType,
       RowsDispatched, NamesRows, Counted, DeadSpent, WorkersTrue, ReadCounted,
       AnswerTrue, DeliveredWasReceived

LEMMA ReapStep ==
  ASSUME Inv, NEW r \in Relays, Reap(r)
  PROVE  Inv'
<1>1. UNCHANGED <<tableVars, queueVars, dispatching, workerVars, worldVars, faults>>
  BY DEF Reap
<1>2. PICK S \in SUBSET {d \in overdue : status[d] \in Stranded} :
        reaping' = [reaping EXCEPT ![r] = {<<d, attempts[d]>> : d \in S}]
  BY DEF Reap
<1>3. \A d \in S : /\ d \in Deliveries /\ status[d] # "none"
                   /\ attempts[d] \in 0..(MAX_WEBHOOK_ATTEMPTS - 1)
  BY WebhookAssumption DEF Inv, TypeOK, TableType, BudgetLeft, Stranded
<1>4. {<<d, attempts[d]>> : d \in S} \subseteq Deliveries \X (0..(MAX_WEBHOOK_ATTEMPTS - 1))
  BY <1>3
<1>5. \A p \in {<<d, attempts[d]>> : d \in S} : status[p[1]] # "none"
  BY <1>3
<1>6. TypeOK'
  <2>1. QueueType'
    BY <1>1, <1>2, <1>4 DEF Inv, TypeOK, QueueType
  <2> QED BY <1>1, <2>1 DEF Inv, TypeOK, TableType, BudgetLeft, WorkerType
<1>7. NamesRows'
  BY <1>1, <1>2, <1>5 DEF Inv, NamesRows, TypeOK, QueueType, Delivery
<1> QED BY <1>1, <1>6, <1>7 DEF Inv, RowsDispatched, Counted, DeadSpent, WorkersTrue, ReadCounted,
           AnswerTrue, DeliveredWasReceived, Delivery

LEMMA ReapEnqueueStep ==
  ASSUME Inv, NEW r \in Relays, NEW d \in Deliveries, NEW k \in 0..(MAX_WEBHOOK_ATTEMPTS - 1), ReapEnqueue(r, d, k)
  PROVE  Inv'
BY WebhookAssumption, JobIdFacts
   DEF ReapEnqueue, QueueAdd, Delivery, Inv, TypeOK, TableType, BudgetLeft,
       QueueType, WorkerType, RowsDispatched, NamesRows, Counted, DeadSpent,
       WorkersTrue, ReadCounted, AnswerTrue, DeliveredWasReceived

LEMMA ReapLostStep ==
  ASSUME Inv, NEW r \in Relays, ReapLost(r)
  PROVE  Inv'
BY WebhookAssumption, JobIdFacts
   DEF ReapLost, Fault, Delivery, Inv, TypeOK, TableType, BudgetLeft, QueueType,
       WorkerType, RowsDispatched, NamesRows, Counted, DeadSpent, WorkersTrue,
       ReadCounted, AnswerTrue, DeliveredWasReceived

LEMMA InvStep == Inv /\ [Next]_vars => Inv'
<1>1. Inv /\ UNCHANGED vars => Inv'
  BY DEF vars, Delivery, Inv, TypeOK,
     TableType, BudgetLeft, QueueType, WorkerType, RowsDispatched, NamesRows, Counted, DeadSpent,
     WorkersTrue, ReadCounted, AnswerTrue, DeliveredWasReceived
<1>2. ASSUME Inv, NEW w \in Workers, WorkerStep(w)
      PROVE  Inv'
  BY <1>2, ReadDeliveryStep, PostStep, RecordDeliveredStep, RecordDeadStep, RecordFailedStep,
     EnqueueRetryStep, AckStep DEF WorkerStep
<1>3. ASSUME Inv, NEW r \in Relays, DispatcherStep(r) \/ ReaperStep(r)
      PROVE  Inv'
  BY <1>3, DispatchStep, DispatchEnqueueStep, ReapStep, ReapEnqueueStep DEF DispatcherStep, ReaperStep
<1> QED BY <1>1, <1>2, <1>3, EmitStep, insert_endpointStep, deleteStep, DispatchLostStep, ReapLostStep,
           JobFailsStep, CrashStep, LockLostStep, DequeueStep, RecoverStalledStep, AgeStep,
           BrokerLossStep DEF Next

------------------------------------------------------------------------------
(* What holds of every reachable state of the webhook tables, the queue and *)
(* the processes (webhooks/): the strengthening the theorems below rest on. *)
THEOREM WebhookInvariance == Spec => []Inv
BY InvInit, InvStep, PTL DEF Spec

(* Every reachable state is well typed, and a row that is still to be       *)
(* POSTed has budget left, so that the job ids the processor and the reaper *)
(* make from what they read are within the budget.                          *)
THEOREM WebhookTypes == Spec => []TypeOK
<1>1. Inv => TypeOK
  BY DEF Inv
<1> QED BY <1>1, WebhookInvariance, PTL

(* A delivery is dead only after MAX_WEBHOOK_ATTEMPTS POSTs that failed,    *)
(* however many workers, duplicates and stale processors recorded them.     *)
THEOREM DeadAfterBudget == Spec => []BudgetHonest
<1>1. ASSUME Inv PROVE BudgetHonest
  <2> SUFFICES ASSUME NEW d \in Deliveries
               PROVE  /\ status[d] \in {"failed", "dead"} => failedPosts[d] >= attempts[d]
                      /\ status[d] = "dead" => failedPosts[d] >= MAX_WEBHOOK_ATTEMPTS
    BY DEF BudgetHonest
  <2>1. attempts[d] \in Nat /\ failedPosts[d] \in Nat /\ MAX_WEBHOOK_ATTEMPTS \in Nat
    BY <1>1, WebhookAssumption DEF Inv, TypeOK, TableType
  <2> QED BY <1>1, <2>1 DEF Inv, Counted, DeadSpent
<1> QED BY <1>1, WebhookInvariance, PTL

(* A row that says delivered was processed by its receiver.                 *)
THEOREM DeliveredReceived == Spec => []DeliveredWasReceived
<1>1. Inv => DeliveredWasReceived
  BY DEF Inv
<1> QED BY <1>1, WebhookInvariance, PTL

------------------------------------------------------------------------------
(* The contract. A step that leaves the five tables alone is a stutter;     *)
(* that the others are steps of the contract needs the invariant: what a    *)
(* worker holds is a row, and what it was answered really happened.         *)

LEMMA ContractPost ==
  ASSUME Inv, NEW w \in Workers, Post(w)
  PROVE  Contract!Next
<1> DEFINE d == Delivery(w)
<1>1. d \in Deliveries /\ status[d] # "none"
  BY JobIdFacts DEF Post, Inv, NamesRows, TypeOK, WorkerType, Delivery
<1>2. received' \in {received, received \cup {d}}
  BY DEF Post
<1>3. \/ failedPosts' = failedPosts
      \/ /\ failedPosts[d] < MAX_WEBHOOK_ATTEMPTS
         /\ failedPosts' = [failedPosts EXCEPT ![d] = @ + 1]
  BY DEF Post
<1>4. UNCHANGED <<outbox, endpoint, status>>
  BY DEF Post
<1> HIDE DEF d
<1>5. Contract!Post(d)
  BY <1>1, <1>2, <1>3, <1>4 DEF Contract!Post
<1> QED BY <1>1, <1>5 DEF Contract!Next, Contract!Deliveries, Deliveries

LEMMA ContractRecord ==
  ASSUME Inv, NEW w \in Workers, RecordDelivered(w) \/ RecordDead(w) \/ RecordFailed(w)
  PROVE  Contract!Next
<1> DEFINE d == Delivery(w)
<1>1. pc[w] = "record" /\ UNCHANGED <<outbox, endpoint, received, failedPosts>>
  BY DEF RecordDelivered, RecordDead, RecordFailed
<1>2. d \in Deliveries /\ status[d] # "none"
  BY <1>1, JobIdFacts DEF Inv, NamesRows, TypeOK, WorkerType, Delivery
<1>3. /\ read[w] \in Nat /\ failedPosts[d] \in Nat /\ MAX_WEBHOOK_ATTEMPTS \in Nat
      /\ reply[w] # "ok" => read[w] + 1 <= failedPosts[d]
      /\ reply[w] = "ok" => d \in received
  BY <1>1, <1>2, WebhookAssumption DEF Inv, TypeOK, WorkerType, WorkersTrue, ReadCounted, AnswerTrue
<1>4. PICK s \in {"delivered", "failed", "dead"} :
        /\ status' = [status EXCEPT ![d] = s]
        /\ s = "delivered" => reply[w] = "ok"
        /\ s # "delivered" => reply[w] # "ok"
        /\ s = "dead" => read[w] + 1 >= MAX_WEBHOOK_ATTEMPTS
  BY DEF RecordDelivered, RecordDead, RecordFailed, Ok, Spent
<1> HIDE DEF d
<1>5. Contract!Earned(d, s)
  BY <1>3, <1>4 DEF Contract!Earned
<1>6. Contract!Record(d, s)
  BY <1>1, <1>2, <1>4, <1>5 DEF Contract!Record
<1> QED BY <1>2, <1>6 DEF Contract!Next, Contract!Deliveries, Deliveries

LEMMA ContractDispatch ==
  ASSUME Inv, NEW r \in Relays, Dispatch(r)
  PROVE  Contract!Next
<1>1. PICK S \in SUBSET {e \in Events : outbox[e] = "undispatched"} :
        /\ status' = [d \in Deliveries |-> IF d \in FanOut(S) THEN "pending" ELSE status[d]]
        /\ outbox' = [e \in Events |-> IF e \in S THEN "dispatched" ELSE outbox[e]]
  BY DEF Dispatch
<1>2. UNCHANGED <<endpoint, received, failedPosts>>
  BY DEF Dispatch
<1>3. status' = [d \in Contract!Deliveries |->
                   IF d[1] \in S /\ endpoint[d[2]] = "active" THEN "pending" ELSE status[d]]
  BY <1>1 DEF FanOut, Contract!Deliveries, Deliveries
<1>4. Contract!FanOut(S)
  BY <1>1, <1>2, <1>3 DEF Contract!FanOut
<1>5. S \in SUBSET Events
  OBVIOUS
<1> QED BY <1>4, <1>5 DEF Contract!Next

LEMMA ContractStep == Inv /\ [Next]_vars => [Contract!Next]_(Contract!deliveryVars)
<1> SUFFICES ASSUME Inv, [Next]_vars
             PROVE  Contract!Next \/ UNCHANGED <<outbox, endpoint, status, received, failedPosts>>
  BY DEF Contract!deliveryVars
<1>1. ASSUME NEW e \in Events, Emit(e) PROVE Contract!Next
  BY <1>1 DEF Emit, Contract!Next, Contract!Emit
<1>2. ASSUME NEW p \in Endpoints, insert_endpoint(p) \/ delete(p) PROVE Contract!Next
  BY <1>2 DEF insert_endpoint, delete, Contract!Next, Contract!Register, Contract!Remove
<1>3. ASSUME NEW r \in Relays,
             DispatcherStep(r) \/ DispatchLost(r) \/ ReaperStep(r) \/ ReapLost(r)
      PROVE  Contract!Next \/ UNCHANGED <<outbox, endpoint, status, received, failedPosts>>
  <2>1. CASE Dispatch(r)
    BY <2>1, ContractDispatch
  <2>2. CASE ~Dispatch(r)
    BY <1>3, <2>2 DEF DispatcherStep, DispatchEnqueue, DispatchLost, ReaperStep, Reap,
       ReapEnqueue, ReapLost
  <2> QED BY <2>1, <2>2
<1>4. ASSUME NEW w \in Workers, WorkerStep(w) \/ JobFails(w) \/ Crash(w) \/ LockLost(w)
      PROVE  Contract!Next \/ UNCHANGED <<outbox, endpoint, status, received, failedPosts>>
  <2>1. CASE Post(w) \/ RecordDelivered(w) \/ RecordDead(w) \/ RecordFailed(w)
    BY <2>1, ContractPost, ContractRecord
  <2>2. CASE ReadDelivery(w) \/ EnqueueRetry(w) \/ Ack(w) \/ JobFails(w) \/ Crash(w) \/ LockLost(w)
    BY <2>2 DEF ReadDelivery, EnqueueRetry, Ack, JobFails, Crash, LockLost
  <2> QED BY <1>4, <2>1, <2>2 DEF WorkerStep
<1>5. ASSUME (\E w \in Workers, j \in JobIds : Dequeue(w, j)) \/ (\E j \in JobIds : RecoverStalled(j))
             \/ (\E d \in Deliveries : Age(d)) \/ BrokerLoss \/ UNCHANGED vars
      PROVE  UNCHANGED <<outbox, endpoint, status, received, failedPosts>>
  BY <1>5 DEF Dequeue, RecoverStalled, Age, BrokerLoss, vars
<1> QED BY <1>1, <1>2, <1>3, <1>4, <1>5 DEF Next

(* Webhook delivery implements its contract: the fan-out reaches exactly    *)
(* the active endpoints and only once, and stale or duplicated processors   *)
(* neither POST what has no row nor record what did not happen.             *)
THEOREM DeliveryRefines == Spec => ImplementsDelivery
<1>1. Init => Contract!Init
  BY DEF Init, Contract!Init, Contract!Deliveries, Deliveries
<1> QED BY <1>1, ContractStep, WebhookInvariance, PTL DEF Spec, ImplementsDelivery, Contract!Spec

==============================================================================
