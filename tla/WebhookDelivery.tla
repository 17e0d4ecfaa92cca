--------------------------- MODULE WebhookDelivery ---------------------------
(***************************************************************************)
(* Webhook delivery: endpoints, the dispatcher that fans a terminal outbox *)
(* event out to one delivery row per active endpoint, the webhooks queue,  *)
(* the WebhookProcessor that POSTs and records, and the reaper that        *)
(* re-drives rows whose job was lost.  The processor reads the row, POSTs  *)
(* and writes back what it computed from that read, without a              *)
(* compare-and-set; the reaper enqueues what it read in a transaction that *)
(* is already over.                                                        *)
(***************************************************************************)
EXTENDS Naturals, FiniteSets

CONSTANTS
  Events,        \* payment.completed / payment.failed rows of the outbox
  Endpoints,
  Workers, Relays,
  NoJob,
  MAX_WEBHOOK_ATTEMPTS,
  Timely,        \* TRUE: the reaper's deadline outlasts an attempt, so no row
                 \* goes overdue under a worker that is busy with it
  Faults,        \* the kinds of fault that may happen
  MaxFaults      \* bound: faults in a behaviour

FaultKinds == {"crash", "lock", "job", "broker", "dispatch", "reap"}

ASSUME WebhookAssumption ==
  /\ MAX_WEBHOOK_ATTEMPTS \in Nat \ {0}
  /\ MaxFaults \in Nat
  /\ Timely \in BOOLEAN
  /\ Faults \subseteq FaultKinds

(* unique(event_id, endpoint_id): the pair identifies the delivery. *)
Deliveries == Events \X Endpoints

(* Job ids: n = 0 is the delivery's id, n > 0 is id:retry:n. *)
JobIds == [delivery : Deliveries, n : 0..(MAX_WEBHOOK_ATTEMPTS - 1)]
JobId(d, k) == [delivery |-> d, n |-> k]

VARIABLES
  outbox,        \* the events' webhook_dispatched_at
  endpoint,      \* registered, active or not
  status, attempts,  \* table webhook_deliveries
  overdue,       \* rows whose due time is past the reaper's deadline
  job, recovered,    \* the queue; a finished job is evicted
  dispatching,   \* rows a dispatcher has committed and not yet enqueued
  reaping,       \* <<row, attempts>> a reaper has read and not yet enqueued
  pc, cur, owns, \* the workers
  read,          \* delivery.attempts as the worker read it
  reply,         \* what its POST came to
  received,      \* deliveries a receiver has processed
  failedPosts,   \* POSTs that failed for the sender, up to the budget
  faults

tableVars  == <<outbox, endpoint, status, attempts, overdue>>
queueVars  == <<job, recovered>>
relayVars  == <<dispatching, reaping>>
workerVars == <<pc, cur, owns, read, reply>>
worldVars  == <<received, failedPosts>>
vars == <<tableVars, queueVars, relayVars, workerVars, worldVars, faults>>

------------------------------------------------------------------------------
TableType ==
  /\ outbox \in [Events -> {"none", "undispatched", "dispatched"}]
  /\ endpoint \in [Endpoints -> {"none", "active", "inactive"}]
  /\ status \in [Deliveries -> {"none", "pending", "delivered", "failed", "dead"}]
  /\ attempts \in [Deliveries -> Nat]
  /\ overdue \subseteq Deliveries

(* A row that is still to be POSTed has budget left, so the job ids that    *)
(* processors and reapers make from what they read are ids of JobIds.       *)
BudgetLeft ==
  \A d \in Deliveries :
    status[d] \in {"none", "pending", "failed"} => attempts[d] < MAX_WEBHOOK_ATTEMPTS

QueueType ==
  /\ job \in [JobIds -> {"absent", "waiting", "active", "stalled"}]
  /\ recovered \subseteq JobIds
  /\ dispatching \in [Relays -> SUBSET Deliveries]
  /\ reaping \in [Relays -> SUBSET (Deliveries \X (0..(MAX_WEBHOOK_ATTEMPTS - 1)))]

WorkerType ==
  /\ pc \in [Workers -> {"idle", "read", "post", "record", "enqueue", "ack"}]
  /\ cur \in [Workers -> JobIds \cup {NoJob}]
  /\ owns \in [Workers -> BOOLEAN]
  /\ read \in [Workers -> 0..(MAX_WEBHOOK_ATTEMPTS - 1)]
  /\ reply \in [Workers -> {"none", "ok", "rejected", "lost"}]
  /\ \A w \in Workers : pc[w] # "idle" \/ owns[w] => cur[w] \in JobIds

(* The type invariant of the delivery tables, the queue and the processes. *)
TypeOK ==
  /\ TableType
  /\ BudgetLeft
  /\ QueueType
  /\ WorkerType
  /\ received \subseteq Deliveries
  /\ failedPosts \in [Deliveries -> 0..MAX_WEBHOOK_ATTEMPTS]
  /\ faults \in 0..MaxFaults

Init ==
  /\ outbox = [e \in Events |-> "none"]
  /\ endpoint = [p \in Endpoints |-> "none"]
  /\ status = [d \in Deliveries |-> "none"]
  /\ attempts = [d \in Deliveries |-> 0]
  /\ overdue = {}
  /\ job = [j \in JobIds |-> "absent"]
  /\ recovered = {}
  /\ dispatching = [r \in Relays |-> {}]
  /\ reaping = [r \in Relays |-> {}]
  /\ pc = [w \in Workers |-> "idle"]
  /\ cur = [w \in Workers |-> NoJob]
  /\ owns = [w \in Workers |-> FALSE]
  /\ read = [w \in Workers |-> 0]
  /\ reply = [w \in Workers |-> "none"]
  /\ received = {}
  /\ failedPosts = [d \in Deliveries |-> 0]
  /\ faults = 0

------------------------------------------------------------------------------
Delivery(w) == cur[w].delivery

(* queue.add: an id BullMQ knows is dropped; finished jobs are evicted. *)
QueueAdd(q, j) == [q EXCEPT ![j] = IF @ = "absent" THEN "waiting" ELSE @]

Goto(w, position) == pc' = [pc EXCEPT ![w] = position]

(* w's job leaves it, in the state s if the lock is still w's. *)
Release(w, s) ==
  /\ job' = IF owns[w] THEN [job EXCEPT ![cur[w]] = s] ELSE job
  /\ recovered' = IF owns[w] /\ s = "absent" THEN recovered \ {cur[w]} ELSE recovered
  /\ cur' = [cur EXCEPT ![w] = NoJob]
  /\ owns' = [owns EXCEPT ![w] = FALSE]
  /\ read' = [read EXCEPT ![w] = 0]
  /\ reply' = [reply EXCEPT ![w] = "none"]
  /\ Goto(w, "idle")

Fault(kind) ==
  /\ kind \in Faults
  /\ faults < MaxFaults
  /\ faults' = faults + 1

------------------------------------------------------------------------------
(* A payment worker finalises a payment: its outbox row appears. *)
Emit(e) ==
  /\ outbox[e] = "none"
  /\ outbox' = [outbox EXCEPT ![e] = "undispatched"]
  /\ UNCHANGED <<endpoint, status, attempts, overdue, queueVars, relayVars, workerVars,
                 worldVars, faults>>

(* POST /webhooks and DELETE /webhooks/:id; deleting only deactivates. *)
insert_endpoint(p) ==
  /\ endpoint[p] = "none"
  /\ endpoint' = [endpoint EXCEPT ![p] = "active"]
  /\ UNCHANGED <<outbox, status, attempts, overdue, queueVars, relayVars, workerVars,
                 worldVars, faults>>

delete(p) ==
  /\ endpoint[p] = "active"
  /\ endpoint' = [endpoint EXCEPT ![p] = "inactive"]
  /\ UNCHANGED <<outbox, status, attempts, overdue, queueVars, relayVars, workerVars,
                 worldVars, faults>>

------------------------------------------------------------------------------
FanOutAll(S) == {d \in Deliveries : d[1] \in S}

(* The dispatcher's transaction: one pending row per event and active       *)
(* endpoint, the events marked, all or nothing.                             *)
FanOut(S) == {d \in Deliveries : d[1] \in S /\ endpoint[d[2]] = "active"}

Dispatch(r) ==
  /\ dispatching[r] = {}
  /\ \E S \in SUBSET {e \in Events : outbox[e] = "undispatched"} :
       /\ S # {}
       /\ status' = [d \in Deliveries |-> IF d \in FanOut(S) THEN "pending" ELSE status[d]]
       /\ outbox' = [e \in Events |-> IF e \in S THEN "dispatched" ELSE outbox[e]]
       /\ dispatching' = [dispatching EXCEPT ![r] = FanOut(S)]
  /\ UNCHANGED <<endpoint, attempts, overdue, queueVars, reaping, workerVars, worldVars, faults>>

(* After the commit. *)
DispatchEnqueue(r, d) ==
  /\ d \in dispatching[r]
  /\ dispatching' = [dispatching EXCEPT ![r] = @ \ {d}]
  /\ job' = QueueAdd(job, JobId(d, 0))
  /\ UNCHANGED <<tableVars, recovered, reaping, workerVars, worldVars, faults>>

DispatchLost(r) ==
  /\ dispatching[r] # {}
  /\ Fault("dispatch")
  /\ dispatching' = [dispatching EXCEPT ![r] = {}]
  /\ UNCHANGED <<tableVars, queueVars, reaping, workerVars, worldVars>>

------------------------------------------------------------------------------
(* The processor: process(job). *)
Dequeue(w, j) ==
  /\ pc[w] = "idle"
  /\ job[j] = "waiting"
  /\ job' = [job EXCEPT ![j] = "active"]
  /\ cur' = [cur EXCEPT ![w] = j]
  /\ owns' = [owns EXCEPT ![w] = TRUE]
  /\ Goto(w, "read")
  /\ UNCHANGED <<tableVars, recovered, relayVars, read, reply, worldVars, faults>>

Settled == {"delivered", "dead"}

ReadDelivery(w) ==
  /\ pc[w] = "read"
  /\ IF status[Delivery(w)] \in Settled
     THEN Goto(w, "ack") /\ UNCHANGED read
     ELSE Goto(w, "post") /\ read' = [read EXCEPT ![w] = attempts[Delivery(w)]]
  /\ UNCHANGED <<tableVars, queueVars, relayVars, cur, owns, reply, worldVars, faults>>

(* The POST: taken, refused, or taken with the answer lost or too late.  An *)
(* endpoint that was deactivated since is not looked at.                    *)
Post(w) ==
  LET d == Delivery(w)
  IN /\ pc[w] = "post"
     /\ \E a \in {"ok", "rejected", "lost"} :
          /\ reply' = [reply EXCEPT ![w] = a]
          /\ received' = IF a = "rejected" THEN received ELSE received \cup {d}
          /\ failedPosts' = IF a # "ok" /\ failedPosts[d] < MAX_WEBHOOK_ATTEMPTS
                            THEN [failedPosts EXCEPT ![d] = @ + 1] ELSE failedPosts
     /\ Goto(w, "record")
     /\ UNCHANGED <<tableVars, queueVars, relayVars, cur, owns, read, faults>>

AnyResponse(w) == reply[w] # "lost"

Ok(w) == reply[w] = "ok"

RecordDelivered(w) ==
  LET d == Delivery(w)
  IN /\ pc[w] = "record"
     /\ Ok(w)
     /\ status' = [status EXCEPT ![d] = "delivered"]
     /\ attempts' = [attempts EXCEPT ![d] = @ + 1]
     /\ Goto(w, "ack")
     /\ UNCHANGED <<outbox, endpoint, overdue, queueVars, relayVars, cur, owns, read, reply,
                    worldVars, faults>>

SpentLate(n) == n > MAX_WEBHOOK_ATTEMPTS

SpentEarly(n) == n + 1 >= MAX_WEBHOOK_ATTEMPTS

Spent(n) == n >= MAX_WEBHOOK_ATTEMPTS

RecordDead(w) ==
  LET d == Delivery(w)
  IN /\ pc[w] = "record"
     /\ ~Ok(w)
     /\ Spent(read[w] + 1)
     /\ status' = [status EXCEPT ![d] = "dead"]
     /\ attempts' = [attempts EXCEPT ![d] = read[w] + 1]
     /\ Goto(w, "ack")
     /\ UNCHANGED <<outbox, endpoint, overdue, queueVars, relayVars, cur, owns, read, reply,
                    worldVars, faults>>

RecordFailed(w) ==
  LET d == Delivery(w)
  IN /\ pc[w] = "record"
     /\ ~Ok(w)
     /\ ~Spent(read[w] + 1)
     /\ status' = [status EXCEPT ![d] = "failed"]
     /\ attempts' = [attempts EXCEPT ![d] = read[w] + 1]
     /\ overdue' = overdue \ {d}
     /\ Goto(w, "enqueue")
     /\ UNCHANGED <<outbox, endpoint, queueVars, relayVars, cur, owns, read, reply,
                    worldVars, faults>>

EnqueueRetry(w) ==
  /\ pc[w] = "enqueue"
  /\ job' = QueueAdd(job, JobId(Delivery(w), read[w] + 1))
  /\ Goto(w, "ack")
  /\ UNCHANGED <<tableVars, recovered, relayVars, cur, owns, read, reply, worldVars, faults>>

Ack(w) ==
  /\ pc[w] = "ack"
  /\ Release(w, "absent")
  /\ UNCHANGED <<tableVars, relayVars, worldVars, faults>>

------------------------------------------------------------------------------
(* A query or the queue.add throws: the job fails and is evicted. *)
JobFails(w) ==
  /\ pc[w] \in {"read", "record", "enqueue"}
  /\ Fault("job")
  /\ Release(w, "absent")
  /\ UNCHANGED <<tableVars, relayVars, worldVars>>

Crash(w) ==
  /\ pc[w] # "idle"
  /\ Fault("crash")
  /\ Release(w, "stalled")
  /\ UNCHANGED <<tableVars, relayVars, worldVars>>

(* A live worker loses its job's lock and carries on. *)
LockLost(w) ==
  /\ owns[w]
  /\ Fault("lock")
  /\ job' = [job EXCEPT ![cur[w]] = "stalled"]
  /\ owns' = [owns EXCEPT ![w] = FALSE]
  /\ UNCHANGED <<tableVars, recovered, relayVars, pc, cur, read, reply, worldVars>>

(* BullMQ's stalled check: back to waiting once, then failed and evicted. *)
RecoverStalled(j) ==
  /\ job[j] = "stalled"
  /\ IF j \in recovered
     THEN job' = [job EXCEPT ![j] = "absent"] /\ recovered' = recovered \ {j}
     ELSE job' = [job EXCEPT ![j] = "waiting"] /\ recovered' = recovered \cup {j}
  /\ UNCHANGED <<tableVars, relayVars, workerVars, worldVars, faults>>

(* Valkey has no volume: a restart forgets every job. *)
BrokerLoss ==
  /\ Fault("broker")
  /\ job' = [j \in JobIds |-> "absent"]
  /\ recovered' = {}
  /\ owns' = [w \in Workers |-> FALSE]
  /\ UNCHANGED <<tableVars, relayVars, pc, cur, read, reply, worldVars>>

------------------------------------------------------------------------------
(* The reaper. *)
Busy(d) == \E w \in Workers : pc[w] # "idle" /\ Delivery(w) = d

(* Time passes REAPER_DEADLINE_MS since the row was due. *)
Age(d) ==
  /\ status[d] \in {"pending", "failed"}
  /\ d \notin overdue
  /\ Timely => ~Busy(d)
  /\ overdue' = overdue \cup {d}
  /\ UNCHANGED <<outbox, endpoint, status, attempts, queueVars, relayVars, workerVars,
                 worldVars, faults>>

PendingOnly == {"pending"}

Stranded == {"pending", "failed"}

(* reap_once: a transaction that only reads, and an enqueue of what it read. *)
Reap(r) ==
  /\ reaping[r] = {}
  /\ \E S \in SUBSET {d \in overdue : status[d] \in Stranded} :
       /\ S # {}
       /\ reaping' = [reaping EXCEPT ![r] = {<<d, attempts[d]>> : d \in S}]
  /\ UNCHANGED <<tableVars, queueVars, dispatching, workerVars, worldVars, faults>>

ReapEnqueue(r, d, k) ==
  /\ <<d, k>> \in reaping[r]
  /\ reaping' = [reaping EXCEPT ![r] = @ \ {<<d, k>>}]
  /\ job' = QueueAdd(job, JobId(d, k))
  /\ UNCHANGED <<tableVars, recovered, dispatching, workerVars, worldVars, faults>>

ReapLost(r) ==
  /\ reaping[r] # {}
  /\ Fault("reap")
  /\ reaping' = [reaping EXCEPT ![r] = {}]
  /\ UNCHANGED <<tableVars, queueVars, dispatching, workerVars, worldVars>>

------------------------------------------------------------------------------
WorkerStep(w) ==
  \/ ReadDelivery(w) \/ Post(w)
  \/ RecordDelivered(w) \/ RecordDead(w) \/ RecordFailed(w)
  \/ EnqueueRetry(w) \/ Ack(w)

DispatcherStep(r) == Dispatch(r) \/ \E d \in Deliveries : DispatchEnqueue(r, d)

ReaperStep(r) ==
  \/ Reap(r)
  \/ \E d \in Deliveries, k \in 0..(MAX_WEBHOOK_ATTEMPTS - 1) : ReapEnqueue(r, d, k)

Next ==
  \/ \E e \in Events : Emit(e)
  \/ \E p \in Endpoints : insert_endpoint(p) \/ delete(p)
  \/ \E r \in Relays : DispatcherStep(r) \/ DispatchLost(r) \/ ReaperStep(r) \/ ReapLost(r)
  \/ \E w \in Workers : WorkerStep(w) \/ JobFails(w) \/ Crash(w) \/ LockLost(w)
  \/ \E w \in Workers, j \in JobIds : Dequeue(w, j)
  \/ \E j \in JobIds : RecoverStalled(j)
  \/ \E d \in Deliveries : Age(d)
  \/ BrokerLoss

Spec == Init /\ [][Next]_vars

(* The loops keep running, as in PaymentPipeline. *)
Fairness ==
  /\ \A w \in Workers : WF_vars(WorkerStep(w)) /\ WF_vars(\E j \in JobIds : Dequeue(w, j))
  /\ \A r \in Relays : WF_vars(DispatcherStep(r)) /\ WF_vars(ReaperStep(r))
  /\ \A j \in JobIds : WF_vars(RecoverStalled(j))
  /\ \A d \in Deliveries : WF_vars(Age(d))

FairSpec == Spec /\ Fairness

------------------------------------------------------------------------------
(* A delivery is given up on (dead) only after a whole budget of POSTs that *)
(* failed, and the attempts a failed row claims really failed: duplicated   *)
(* and stale processors can lose count, never overcount.                    *)
BudgetHonest ==
  \A d \in Deliveries :
    /\ status[d] \in {"failed", "dead"} => failedPosts[d] >= attempts[d]
    /\ status[d] = "dead" => failedPosts[d] >= MAX_WEBHOOK_ATTEMPTS

(* A row says delivered only if a receiver processed the event. *)
DeliveredWasReceived ==
  \A d \in Deliveries : status[d] = "delivered" => d \in received

Contract == INSTANCE DeliveryContract WITH Budget <- MAX_WEBHOOK_ATTEMPTS

(* Delivery keeps its contract: a dispatched event has a row for every      *)
(* endpoint that was active then and for no other, nothing else is POSTed,  *)
(* and no record claims what did not happen (WebhookDispatcher,             *)
(* WebhookProcessor).                                                       *)
ImplementsDelivery == Contract!Spec

(* Every delivery row comes to rest, delivered or dead, although its job    *)
(* may be lost between any two steps.                                       *)
DeliverySettles ==
  \A d \in Deliveries : (status[d] \in {"pending", "failed"}) ~> (status[d] \in {"delivered", "dead"})

==============================================================================
