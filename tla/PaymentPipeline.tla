--------------------------- MODULE PaymentPipeline ---------------------------
(***************************************************************************)
(* A payment from submission to a terminal status: the submission          *)
(* transaction, the outbox relay, the BullMQ payments queue, the workers   *)
(* (PaymentProcessor, its circuit breaker and its bank calls) and the      *)
(* reaper, with the crashes, lost locks, failed jobs and broker restarts   *)
(* they run under.  A database transaction is one step wherever the row    *)
(* lock makes it one; a worker's read and its compare-and-set are two.     *)
(***************************************************************************)
EXTENDS Naturals, Sequences, FiniteSets, PaymentStatus, CircuitBreaker

CONSTANTS
  Payments,
  Workers,        \* worker processes, one job at a time each
  Relays,         \* relay processes, each running the relay and the reaper loop
  NoJob,          \* what an idle worker works on
  MAX_RETRIES,    \* WORKER_MAX_RETRIES
  DurableBank,    \* TRUE: the bank remembers idempotency keys for good, as
                  \* ADR-007 demands; FALSE: SimulatedBankAdapter's own map,
                  \* one per process and lost with it
  Timely,         \* TRUE: the reaper's deadline outlasts a job, so no row goes
                  \* overdue under a worker that is busy with it
  Faults,         \* the kinds of fault that may happen
  MaxFaults,      \* bound: faults in a behaviour
  MaxReapJobs,    \* bound: unfinished re-drive jobs of one payment
  MaxAttempts     \* bound: attemptCount at which the reaper is no longer followed

FaultKinds == {"crash", "lock", "job", "broker", "relay", "reap"}

ASSUME PipelineAssumption ==
  /\ MAX_RETRIES \in Nat
  /\ MaxFaults \in Nat
  /\ MaxReapJobs \in Nat
  /\ MaxAttempts \in Nat
  /\ DurableBank \in BOOLEAN
  /\ Timely \in BOOLEAN
  /\ Faults \subseteq FaultKinds

(***************************************************************************)
(* BullMQ job ids.  The relay uses the outbox row's id, a retry            *)
(* paymentId:retry:attempt, the reaper paymentId:reap:<now>: the last are  *)
(* fresh at every use, so n only tells the unfinished ones apart.          *)
(***************************************************************************)
SubmittedJob(p) == [payment |-> p, kind |-> "submitted", n |-> 0]
RetryJobSameId(p, k) == SubmittedJob(p)

RetryJob(p, k)  == [payment |-> p, kind |-> "retry", n |-> k]
ReapJob(p, k)   == [payment |-> p, kind |-> "reap", n |-> k]

JobIds ==
  [payment : Payments, kind : {"submitted"}, n : {0}]
    \cup [payment : Payments, kind : {"retry"}, n : 1..MAX_RETRIES]
    \cup [payment : Payments, kind : {"reap"}, n : 1..MaxReapJobs]

VARIABLES
  \* table payments; "NONE" before the row exists
  status, version, attemptCount,
  overdue,         \* rows whose updatedAt is older than the reaper's deadline
  paymentEvents,   \* table payment_events, in insertion order
  terminalEvents,  \* the payment.completed / payment.failed rows of the outbox
  \* the payment.submitted row of the outbox, and the relays' open transactions
  outbox, held, added,
  toReap,          \* rows a reaper has committed and not yet enqueued
  \* the queue
  job,
  recovered,       \* jobs that have used up the one stall BullMQ forgives
  \* the workers: position in process(), job, whether the job's lock is still
  \* theirs, and the locals row.status, scheduledAttempt and dis.target (reset
  \* once dead)
  pc, cur, owns, seen, scheduledAttempt, target,
  \* the bank: authorised keys as each process sees them, charges made, and calls
  \* that are still running after withTimeout gave up on them
  store, charges, late,
  breaker,
  faults

rowVars    == <<status, version, attemptCount, overdue, paymentEvents, terminalEvents>>
relayVars  == <<outbox, held, added, toReap>>
queueVars  == <<job, recovered>>
workerVars == <<pc, cur, owns, seen, scheduledAttempt, target>>
bankVars   == <<store, charges, late>>
vars == <<rowVars, relayVars, queueVars, workerVars, bankVars, breaker, faults>>

------------------------------------------------------------------------------
Events == [from : PAYMENT_STATUS \cup {"NONE"}, to : PAYMENT_STATUS]

Positions == {"idle", "read", "claim", "gate", "bank", "retry", "enqueue", "final", "ack"}

RowType ==
  /\ status \in [Payments -> PAYMENT_STATUS \cup {"NONE"}]
  /\ version \in [Payments -> Nat]
  /\ attemptCount \in [Payments -> Nat]
  /\ overdue \subseteq Payments
  /\ paymentEvents \in [Payments -> Seq(Events)]
  /\ terminalEvents \in [Payments -> Seq({"payment.completed", "payment.failed"})]

RelayType ==
  /\ outbox \in [Payments -> {"none", "unpublished", "published"}]
  /\ held \in [Relays -> SUBSET Payments]
  /\ added \in [Relays -> SUBSET Payments]
  /\ toReap \in [Relays -> SUBSET Payments]

QueueType ==
  /\ job \in [JobIds -> {"absent", "waiting", "active", "stalled", "finished"}]
  /\ recovered \subseteq JobIds

WorkerType ==
  /\ pc \in [Workers -> Positions]
  /\ cur \in [Workers -> JobIds \cup {NoJob}]
  /\ owns \in [Workers -> BOOLEAN]
  /\ seen \in [Workers -> PAYMENT_STATUS \cup {"NONE"}]
  /\ scheduledAttempt \in [Workers -> 0..MAX_RETRIES]
  /\ target \in [Workers -> Terminal \cup {"NONE"}]

(* A worker holds a job exactly while it is in process(), and the locals    *)
(* that process() is about to use are set.                                  *)
WorkerReady ==
  \A w \in Workers :
    /\ pc[w] # "idle" \/ owns[w] => cur[w] \in JobIds
    /\ pc[w] = "enqueue" => scheduledAttempt[w] # 0
    /\ pc[w] = "final" => target[w] # "NONE"

BankType ==
  /\ store \in [Workers -> SUBSET Payments]
  /\ charges \in [Payments -> Nat]
  /\ late \subseteq Workers \X Payments
  /\ breaker \in [Workers -> Breakers]

(* The type invariant of the pipeline's tables, queue and processes. *)
TypeOK ==
  /\ RowType
  /\ RelayType
  /\ QueueType
  /\ WorkerType
  /\ WorkerReady
  /\ BankType
  /\ faults \in 0..MaxFaults

Init ==
  /\ status = [p \in Payments |-> "NONE"]
  /\ version = [p \in Payments |-> 0]
  /\ attemptCount = [p \in Payments |-> 0]
  /\ overdue = {}
  /\ paymentEvents = [p \in Payments |-> <<>>]
  /\ terminalEvents = [p \in Payments |-> <<>>]
  /\ outbox = [p \in Payments |-> "none"]
  /\ held = [r \in Relays |-> {}]
  /\ added = [r \in Relays |-> {}]
  /\ toReap = [r \in Relays |-> {}]
  /\ job = [j \in JobIds |-> "absent"]
  /\ recovered = {}
  /\ pc = [w \in Workers |-> "idle"]
  /\ cur = [w \in Workers |-> NoJob]
  /\ owns = [w \in Workers |-> FALSE]
  /\ seen = [w \in Workers |-> "NONE"]
  /\ scheduledAttempt = [w \in Workers |-> 0]
  /\ target = [w \in Workers |-> "NONE"]
  /\ store = [w \in Workers |-> {}]
  /\ charges = [p \in Payments |-> 0]
  /\ late = {}
  /\ breaker = [w \in Workers |-> NewBreaker]
  /\ faults = 0

------------------------------------------------------------------------------
(* Every status change also bumps version, refreshes updatedAt and inserts  *)
(* a payment_events row, in one transaction.  from is what the code writes, *)
(* not what the row holds.                                                  *)
Event(from, to) == [from |-> from, to |-> to]

TransitionNoVersion(p, from, to) ==
  /\ status' = [status EXCEPT ![p] = to]
  /\ overdue' = overdue \ {p}
  /\ paymentEvents' = [paymentEvents EXCEPT ![p] = Append(@, Event(from, to))]
  /\ UNCHANGED version

Transition(p, from, to) ==
  /\ status' = [status EXCEPT ![p] = to]
  /\ version' = [version EXCEPT ![p] = @ + 1]
  /\ overdue' = overdue \ {p}
  /\ paymentEvents' = [paymentEvents EXCEPT ![p] = Append(@, Event(from, to))]

(* The payment worker w is busy with. *)
Payment(w) == cur[w].payment

(* queue.add: an id BullMQ still knows, finished jobs included, is dropped. *)
QueueAdd(q, j) == [q EXCEPT ![j] = IF @ = "absent" THEN "waiting" ELSE @]

Goto(w, position) == pc' = [pc EXCEPT ![w] = position]

(* w's job leaves it, in the state s if the lock is still w's. *)
Release(w, s) ==
  /\ job' = IF owns[w] THEN [job EXCEPT ![cur[w]] = s] ELSE job
  /\ cur' = [cur EXCEPT ![w] = NoJob]
  /\ owns' = [owns EXCEPT ![w] = FALSE]
  /\ seen' = [seen EXCEPT ![w] = "NONE"]
  /\ scheduledAttempt' = [scheduledAttempt EXCEPT ![w] = 0]
  /\ target' = [target EXCEPT ![w] = "NONE"]
  /\ Goto(w, "idle")

Fault(kind) ==
  /\ kind \in Faults
  /\ faults < MaxFaults
  /\ faults' = faults + 1

------------------------------------------------------------------------------
(* POST /payments: the row, its first event and its outbox row commit       *)
(* together.                                                                *)
Submit(p) ==
  /\ status[p] = "NONE"
  /\ status' = [status EXCEPT ![p] = "PENDING"]
  /\ paymentEvents' = [paymentEvents EXCEPT ![p] = Append(@, Event("NONE", "PENDING"))]
  /\ outbox' = [outbox EXCEPT ![p] = "unpublished"]
  /\ UNCHANGED <<version, attemptCount, overdue, terminalEvents, held, added, toReap,
                 queueVars, workerVars, bankVars, breaker, faults>>

------------------------------------------------------------------------------
(* The relay.  Its transaction locks unpublished rows, skipping those that  *)
(* another relay holds, adds their jobs and marks them published.           *)
RelaySelectable(r) ==
  {p \in Payments : outbox[p] = "unpublished" /\ \A q \in Relays \ {r} : p \notin held[q]}

RelaySelect(r) ==
  /\ held[r] = {}
  /\ \E S \in SUBSET RelaySelectable(r) :
       /\ S # {}
       /\ held' = [held EXCEPT ![r] = S]
  /\ UNCHANGED <<rowVars, outbox, added, toReap, queueVars, workerVars, bankVars, breaker, faults>>

RelayAdd(r, p) ==
  /\ p \in held[r] \ added[r]
  /\ job' = QueueAdd(job, SubmittedJob(p))
  /\ added' = [added EXCEPT ![r] = @ \cup {p}]
  /\ UNCHANGED <<rowVars, outbox, held, toReap, recovered,
                 workerVars, bankVars, breaker, faults>>

MarkEarly(r) == TRUE

AllAdded(r) == added[r] = held[r]

RelayPublish(r) ==
  /\ held[r] # {}
  /\ AllAdded(r)
  /\ outbox' = [p \in Payments |-> IF p \in held[r] THEN "published" ELSE outbox[p]]
  /\ held' = [held EXCEPT ![r] = {}]
  /\ added' = [added EXCEPT ![r] = {}]
  /\ UNCHANGED <<rowVars, toReap, queueVars, workerVars, bankVars, breaker, faults>>

(* An add fails or the relay dies: the marks roll back, the adds do not. *)
RelayAbort(r) ==
  /\ held[r] # {}
  /\ Fault("relay")
  /\ held' = [held EXCEPT ![r] = {}]
  /\ added' = [added EXCEPT ![r] = {}]
  /\ UNCHANGED <<rowVars, outbox, toReap, queueVars, workerVars, bankVars, breaker>>

------------------------------------------------------------------------------
(* The worker: process(job). *)
Dequeue(w, j) ==
  /\ pc[w] = "idle"
  /\ job[j] = "waiting"
  /\ job' = [job EXCEPT ![j] = "active"]
  /\ cur' = [cur EXCEPT ![w] = j]
  /\ owns' = [owns EXCEPT ![w] = TRUE]
  /\ Goto(w, "read")
  /\ UNCHANGED <<rowVars, relayVars, recovered, seen, scheduledAttempt, target,
                 bankVars, breaker, faults>>

(* Transaction 1, its SELECT.  When the row cannot go to PROCESSING the     *)
(* callback returns, and process() goes on to the bank all the same.        *)
ReadStatus(w) ==
  /\ pc[w] = "read"
  /\ seen' = [seen EXCEPT ![w] = status[Payment(w)]]
  /\ Goto(w, IF canTransition(status[Payment(w)], "PROCESSING") THEN "claim" ELSE "gate")
  /\ UNCHANGED <<rowVars, relayVars, queueVars, cur, owns, scheduledAttempt, target,
                 bankVars, breaker, faults>>

NoCompareAndSet(w) == TRUE

StatusAsSeen(w) == status[Payment(w)] = seen[w]

(* Transaction 1, its UPDATE: compare-and-set on the status that was read. *)
Claim(w) ==
  /\ pc[w] = "claim"
  /\ StatusAsSeen(w)
  /\ Transition(Payment(w), seen[w], "PROCESSING")
  /\ Goto(w, "gate")
  /\ UNCHANGED <<attemptCount, terminalEvents, relayVars, queueVars, cur, owns, seen,
                 scheduledAttempt, target, bankVars, breaker, faults>>

ClaimMissed(w) ==
  /\ pc[w] = "claim"
  /\ ~StatusAsSeen(w)
  /\ Goto(w, "gate")
  /\ UNCHANGED <<rowVars, relayVars, queueVars, cur, owns, seen, scheduledAttempt, target,
                 bankVars, breaker, faults>>

(* breaker.allow(): call the bank, or RETRY with reason circuit_open. *)
Gate(w) ==
  /\ pc[w] = "gate"
  /\ \E elapsed \in BOOLEAN :
       /\ breaker' = [breaker EXCEPT ![w] = afterAllow(@, elapsed)]
       /\ Goto(w, IF allow(breaker[w], elapsed) THEN "bank" ELSE "retry")
  /\ seen' = [seen EXCEPT ![w] = "NONE"]
  /\ UNCHANGED <<rowVars, relayVars, queueVars, cur, owns, scheduledAttempt, target,
                 bankVars, faults>>

(* authorize(), whose idempotency key is the payment's id: an authorised    *)
(* key is answered again, a new one gets what the bank's mode says.         *)
Shares(w, v) == v = w \/ DurableBank

Outcomes(w, p) ==
  IF p \in store[w] THEN {"authorized"} ELSE {"authorized", "declined", "error"}

AuthorizeWithoutLookup(w, p, outcome) ==
  IF outcome = "authorized"
  THEN /\ charges' = [charges EXCEPT ![p] = @ + 1]
       /\ store' = [v \in Workers |-> IF Shares(w, v) THEN store[v] \cup {p} ELSE store[v]]
  ELSE UNCHANGED <<charges, store>>

Authorize(w, p, outcome) ==
  IF outcome = "authorized" /\ p \notin store[w]
  THEN /\ charges' = [charges EXCEPT ![p] = @ + 1]
       /\ store' = [v \in Workers |-> IF Shares(w, v) THEN store[v] \cup {p} ELSE store[v]]
  ELSE UNCHANGED <<charges, store>>

DeclineCompletes(outcome) == IF outcome = "error" THEN "NONE" ELSE "COMPLETED"

TargetOf(outcome) ==
  CASE outcome = "authorized" -> "COMPLETED"
    [] outcome = "declined"   -> "FAILED"
    [] OTHER                  -> "NONE"

(* The bank answers in time: the disposition, then breaker.record. *)
BankAnswer(w) ==
  /\ pc[w] = "bank"
  /\ \E outcome \in Outcomes(w, Payment(w)) :
       /\ Authorize(w, Payment(w), outcome)
       /\ target' = [target EXCEPT ![w] = TargetOf(outcome)]
       /\ breaker' = [breaker EXCEPT ![w] = record(@, outcome # "error")]
       /\ Goto(w, IF outcome = "error" THEN "retry" ELSE "final")
  /\ UNCHANGED <<rowVars, relayVars, queueVars, cur, owns, seen, scheduledAttempt, late, faults>>

(* withTimeout rejects; the call itself is not cancelled. *)
BankTimeout(w) ==
  /\ pc[w] = "bank"
  /\ late' = late \cup {<<w, Payment(w)>>}
  /\ breaker' = [breaker EXCEPT ![w] = record(@, FALSE)]
  /\ Goto(w, "retry")
  /\ UNCHANGED <<rowVars, relayVars, queueVars, cur, owns, seen, scheduledAttempt, target,
                 store, charges, faults>>

LateAnswer(w, p) ==
  /\ <<w, p>> \in late
  /\ late' = late \ {<<w, p>>}
  /\ \E outcome \in Outcomes(w, p) : Authorize(w, p, outcome)
  /\ UNCHANGED <<rowVars, relayVars, queueVars, workerVars, breaker, faults>>

AnyStatus(w) == status[Payment(w)] # "NONE"

(* The condition of the UPDATEs that end an attempt. *)
StillProcessing(w) == status[Payment(w)] = "PROCESSING"

OneRetryMore(n) == n > MAX_RETRIES + 1

Exhausted(n) == n > MAX_RETRIES

(* The RETRY transaction, retries left: the job of the next attempt is      *)
(* added after the commit.                                                  *)
ScheduleRetry(w) ==
  LET p == Payment(w)
      n == attemptCount[p] + 1
  IN /\ pc[w] = "retry"
     /\ StillProcessing(w)
     /\ ~Exhausted(n)
     /\ attemptCount' = [attemptCount EXCEPT ![p] = n]
     /\ Transition(p, "PROCESSING", "RETRYING")
     /\ scheduledAttempt' = [scheduledAttempt EXCEPT ![w] = n]
     /\ Goto(w, "enqueue")
     /\ UNCHANGED <<terminalEvents, relayVars, queueVars, cur, owns, seen, target,
                    bankVars, breaker, faults>>

(* The RETRY transaction, none left: FAILED, and no outbox row. *)
GiveUp(w) ==
  LET p == Payment(w)
      n == attemptCount[p] + 1
  IN /\ pc[w] = "retry"
     /\ StillProcessing(w)
     /\ Exhausted(n)
     /\ attemptCount' = [attemptCount EXCEPT ![p] = n]
     /\ Transition(p, "PROCESSING", "FAILED")
     /\ Goto(w, "ack")
     /\ UNCHANGED <<terminalEvents, relayVars, queueVars, cur, owns, seen, scheduledAttempt,
                    target, bankVars, breaker, faults>>

EnqueueRetry(w) ==
  LET j == RetryJob(Payment(w), scheduledAttempt[w])
  IN /\ pc[w] = "enqueue"
     /\ job' = QueueAdd(job, j)
     /\ scheduledAttempt' = [scheduledAttempt EXCEPT ![w] = 0]
     /\ Goto(w, "ack")
     /\ UNCHANGED <<rowVars, relayVars, recovered, cur, owns, seen, target,
                    bankVars, breaker, faults>>

AlwaysCompleted(status1) == "payment.completed"

EventType(status1) == IF status1 = "COMPLETED" THEN "payment.completed" ELSE "payment.failed"

(* Transaction 2: the bank's verdict and its outbox row. *)
Finalize(w) ==
  LET p == Payment(w)
  IN /\ pc[w] = "final"
     /\ StillProcessing(w)
     /\ Transition(p, "PROCESSING", target[w])
     /\ terminalEvents' = [terminalEvents EXCEPT ![p] = Append(@, EventType(target[w]))]
     /\ target' = [target EXCEPT ![w] = "NONE"]
     /\ Goto(w, "ack")
     /\ UNCHANGED <<attemptCount, relayVars, queueVars, cur, owns, seen, scheduledAttempt,
                    bankVars, breaker, faults>>

(* Either transaction finds the row taken on by someone else. *)
EndMissed(w) ==
  /\ pc[w] \in {"retry", "final"}
  /\ ~StillProcessing(w)
  /\ target' = [target EXCEPT ![w] = "NONE"]
  /\ Goto(w, "ack")
  /\ UNCHANGED <<rowVars, relayVars, queueVars, cur, owns, seen, scheduledAttempt,
                 bankVars, breaker, faults>>

(* process() returned: BullMQ completes the job. *)
Ack(w) ==
  /\ pc[w] = "ack"
  /\ Release(w, "finished")
  /\ UNCHANGED <<rowVars, relayVars, recovered, bankVars, breaker, faults>>

------------------------------------------------------------------------------
(* A statement or a queue.add throws: the transaction rolls back, or its    *)
(* COMMIT counts and only the acknowledgement is lost (at "gate" and at     *)
(* "enqueue"), and the job, which has a single attempt, is failed.          *)
JobFails(w) ==
  /\ pc[w] \in {"read", "claim", "gate", "retry", "enqueue", "final"}
  /\ Fault("job")
  /\ Release(w, "finished")
  /\ UNCHANGED <<rowVars, relayVars, recovered, bankVars, breaker>>

(* A worker process dies and is restarted.  What its bank adapter held in   *)
(* memory goes with it; a bank outside the process goes on.                 *)
Crash(w) ==
  /\ Fault("crash")
  /\ IF pc[w] = "idle" THEN UNCHANGED <<job, workerVars>> ELSE Release(w, "stalled")
  /\ breaker' = [breaker EXCEPT ![w] = NewBreaker]
  /\ IF DurableBank
     THEN /\ late' = IF pc[w] = "bank" THEN late \cup {<<w, Payment(w)>>} ELSE late
          /\ UNCHANGED store
     ELSE /\ late' = {c \in late : c[1] # w}
          /\ store' = [store EXCEPT ![w] = {}]
  /\ UNCHANGED <<rowVars, relayVars, recovered, charges>>

(* A live worker loses its job's lock and carries on. *)
LockLost(w) ==
  /\ owns[w]
  /\ Fault("lock")
  /\ job' = [job EXCEPT ![cur[w]] = "stalled"]
  /\ owns' = [owns EXCEPT ![w] = FALSE]
  /\ UNCHANGED <<rowVars, relayVars, recovered, pc, cur, seen, scheduledAttempt,
                 target, bankVars, breaker>>

(* BullMQ's stalled check (external): back to waiting once, then failed. *)
RecoverStalled(j) ==
  /\ job[j] = "stalled"
  /\ job' = [job EXCEPT ![j] = IF j \in recovered THEN "finished" ELSE "waiting"]
  /\ recovered' = recovered \cup {j}
  /\ UNCHANGED <<rowVars, relayVars, workerVars, bankVars, breaker, faults>>

(* Valkey has no volume: a restart forgets every job. *)
BrokerLoss ==
  /\ Fault("broker")
  /\ job' = [j \in JobIds |-> "absent"]
  /\ recovered' = {}
  /\ owns' = [w \in Workers |-> FALSE]
  /\ UNCHANGED <<rowVars, relayVars, pc, cur, seen, scheduledAttempt, target,
                 bankVars, breaker>>

------------------------------------------------------------------------------
(* The reaper. *)
Busy(p) == \E w \in Workers : pc[w] # "idle" /\ Payment(w) = p

(* Time passes REAPER_DEADLINE_MS since the row's last update. *)
Age(p) ==
  /\ status[p] \in InFlight
  /\ p \notin overdue
  /\ Timely => ~Busy(p)
  /\ overdue' = overdue \cup {p}
  /\ UNCHANGED <<status, version, attemptCount, paymentEvents, terminalEvents, relayVars,
                 queueVars, workerVars, bankVars, breaker, faults>>

ProcessingOnly == {"PROCESSING"}

ReapStatuses == InFlight

Stuck == {p \in overdue : status[p] \in ReapStatuses /\ attemptCount[p] < MaxAttempts}

WholeBatch(S) == S

Unstrand(S) == {p \in S : status[p] = "PROCESSING"}

(* The rows of R go back to RETRYING with one attempt more. *)
SendBack(R) ==
  /\ status' = [p \in Payments |-> IF p \in R THEN "RETRYING" ELSE status[p]]
  /\ attemptCount' = [p \in Payments |->
                        IF p \in R THEN attemptCount[p] + 1 ELSE attemptCount[p]]
  /\ version' = [p \in Payments |-> IF p \in R THEN version[p] + 1 ELSE version[p]]
  /\ overdue' = overdue \ R
  /\ paymentEvents' = [p \in Payments |->
                         IF p \in R
                         THEN Append(paymentEvents[p], Event("PROCESSING", "RETRYING"))
                         ELSE paymentEvents[p]]

(* reap_once, its transaction: PROCESSING rows are sent back, RETRYING rows *)
(* are left exactly as they are.                                            *)
Reap(r) ==
  /\ toReap[r] = {}
  /\ \E S \in SUBSET Stuck :
       /\ S # {}
       /\ toReap' = [toReap EXCEPT ![r] = S]
       /\ SendBack(Unstrand(S))
  /\ UNCHANGED <<terminalEvents, outbox, held, added, queueVars, workerVars, bankVars,
                 breaker, faults>>

(* After the commit: one re-drive job per row, under a fresh id. *)
ReapEnqueue(r, p) ==
  /\ p \in toReap[r]
  /\ \E k \in 1..MaxReapJobs :
       /\ job[ReapJob(p, k)] \in {"absent", "finished"}
       /\ job' = [job EXCEPT ![ReapJob(p, k)] = "waiting"]
       /\ recovered' = recovered \ {ReapJob(p, k)}
  /\ toReap' = [toReap EXCEPT ![r] = @ \ {p}]
  /\ UNCHANGED <<rowVars, outbox, held, added, workerVars, bankVars, breaker, faults>>

(* The relay process dies, or an add fails, between commit and enqueue. *)
ReapLost(r) ==
  /\ toReap[r] # {}
  /\ Fault("reap")
  /\ toReap' = [toReap EXCEPT ![r] = {}]
  /\ UNCHANGED <<rowVars, outbox, held, added, queueVars, workerVars, bankVars, breaker>>

------------------------------------------------------------------------------
WorkerStep(w) ==
  \/ ReadStatus(w) \/ Claim(w) \/ ClaimMissed(w) \/ Gate(w)
  \/ BankAnswer(w) \/ BankTimeout(w)
  \/ ScheduleRetry(w) \/ GiveUp(w) \/ EnqueueRetry(w)
  \/ Finalize(w) \/ EndMissed(w) \/ Ack(w)

RelayStep(r) == RelaySelect(r) \/ RelayPublish(r) \/ \E p \in Payments : RelayAdd(r, p)

ReaperStep(r) == Reap(r) \/ \E p \in Payments : ReapEnqueue(r, p)

Next ==
  \/ \E p \in Payments : Submit(p) \/ Age(p)
  \/ \E r \in Relays : RelayStep(r) \/ RelayAbort(r) \/ ReaperStep(r) \/ ReapLost(r)
  \/ \E w \in Workers : WorkerStep(w) \/ JobFails(w) \/ Crash(w) \/ LockLost(w)
  \/ \E w \in Workers, j \in JobIds : Dequeue(w, j)
  \/ \E w \in Workers, p \in Payments : LateAnswer(w, p)
  \/ \E j \in JobIds : RecoverStalled(j)
  \/ BrokerLoss

Spec == Init /\ [][Next]_vars

(* The loops keep running: a worker with a job goes on, an idle one takes a *)
(* waiting job, the pollers poll, BullMQ checks for stalled jobs and time   *)
(* passes.  Nothing is promised of customers, faults or late bank answers.  *)
Fairness ==
  /\ \A w \in Workers : WF_vars(WorkerStep(w)) /\ WF_vars(\E j \in JobIds : Dequeue(w, j))
  /\ \A r \in Relays : WF_vars(RelayStep(r)) /\ WF_vars(ReaperStep(r))
  /\ \A j \in JobIds : WF_vars(RecoverStalled(j))
  /\ \A p \in Payments : WF_vars(Age(p))

FairSpec == Spec /\ Fairness

------------------------------------------------------------------------------
(* Safety. *)

(* The audit trail of a payment (payment_events) is an unbroken chain of    *)
(* legal transitions from its submission to its present status, whichever   *)
(* processes wrote it: every from-status the code writes is the to-status   *)
(* before it.                                                               *)
Chain(e) ==
  /\ e[1].from = "NONE" /\ e[1].to = "PENDING"
  /\ \A i \in 2..Len(e) : e[i].from = e[i-1].to /\ canTransition(e[i].from, e[i].to)

AuditTrail ==
  \A p \in Payments :
    LET e == paymentEvents[p]
    IN IF status[p] = "NONE" THEN e = <<>>
       ELSE e # <<>> /\ Chain(e) /\ e[Len(e)].to = status[p]

(* The counters of the row agree with the trail: version counts the         *)
(* transitions, and attemptCount the returns to RETRYING by a worker or the *)
(* reaper, plus the attempt that exhausted the retries.                     *)
Returns(e) == {i \in 1..Len(e) : e[i].to = "RETRYING"}

GaveUp(p) == status[p] = "FAILED" /\ terminalEvents[p] = <<>>

RowMatchesTrail ==
  \A p \in Payments :
    LET e == paymentEvents[p]
    IN /\ status[p] # "NONE" => version[p] = Len(e) - 1
       /\ attemptCount[p] = Cardinality(Returns(e)) + IF GaveUp(p) THEN 1 ELSE 0

(* The terminal outbox events tell the payment's one verdict, once: two     *)
(* workers that both finish a payment never announce it twice or            *)
(* differently, and a failure goes unannounced only after MAX_RETRIES       *)
(* retries.                                                                 *)
VerdictAnnounced ==
  \A p \in Payments :
    CASE status[p] = "COMPLETED" -> terminalEvents[p] = <<"payment.completed">>
      [] status[p] = "FAILED"    -> \/ terminalEvents[p] = <<"payment.failed">>
                                    \/ GaveUp(p) /\ attemptCount[p] > MAX_RETRIES
      [] OTHER                   -> terminalEvents[p] = <<>>

(* COMPLETED is only written for a payment the bank has charged, also when  *)
(* the worker that writes it is not the one that holds the claim.           *)
CompletedWasCharged ==
  \A p \in Payments : status[p] = "COMPLETED" => charges[p] >= 1

(* With a bank that honours idempotency keys no sequence of retries,        *)
(* timeouts, redeliveries and re-drives charges a payment twice, and none   *)
(* is charged before a worker has claimed it.                               *)
AtMostOneCharge ==
  \A p \in Payments :
    /\ charges[p] <= 1
    /\ charges[p] > 0 => status[p] \notin {"NONE", "PENDING"}

(* The id of a retry job has never been used when it is enqueued, so BullMQ *)
(* does not drop the retry as a duplicate, even after the reaper has moved  *)
(* attemptCount.                                                            *)
RetryIdFresh ==
  \A w \in Workers :
    pc[w] = "enqueue" => job[RetryJob(Payment(w), scheduledAttempt[w])] = "absent"

(* A row the relay marked published has its job in the queue, unless the    *)
(* broker lost it.                                                          *)
PublishedHasJob ==
  "broker" \notin Faults =>
    \A p \in Payments : outbox[p] = "published" => job[SubmittedJob(p)] # "absent"

(* A payment in a terminal status is never touched again: row, trail and    *)
(* announcement stay as they are, whatever jobs are still running for it.   *)
TerminalIsFinal ==
  [][\A p \in Payments : status[p] \in Terminal =>
       /\ status'[p] = status[p]
       /\ version'[p] = version[p]
       /\ paymentEvents'[p] = paymentEvents[p]
       /\ terminalEvents'[p] = terminalEvents[p]]_vars

(* The pipeline implements the lifecycle contract. *)
Lifecycle == INSTANCE PaymentLifecycle WITH
  history   <- [p \in Payments |-> [i \in DOMAIN paymentEvents[p] |-> paymentEvents[p][i].to]],
  announced <- terminalEvents

ImplementsLifecycle == Lifecycle!Spec

------------------------------------------------------------------------------
(* Liveness. *)

(* A payment that a worker has claimed once reaches a terminal status, with *)
(* the reaper as the net under crashed workers, failed jobs, lost           *)
(* re-drives and a broker that forgets its jobs.                            *)
InFlightSettles ==
  \A p \in Payments : (status[p] \in InFlight) ~> (status[p] \in Terminal)

(* A payment that was accepted reaches a terminal status. *)
AcceptedSettles ==
  \A p \in Payments : (status[p] = "PENDING") ~> (status[p] \in Terminal)

------------------------------------------------------------------------------
(* What the documents say and the code does not do. *)

(* ADR-008: the worker emits a terminal event in the transaction that       *)
(* finalises the payment.                                                   *)
TerminalAnnounced ==
  \A p \in Payments : status[p] \in Terminal => terminalEvents[p] # <<>>

==============================================================================
