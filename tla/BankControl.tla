------------------------------ MODULE BankControl ------------------------------
(***************************************************************************)
(* The bank as a worker process sees it, and the operator who drives it:   *)
(* PUT /v1/admin/bank-config patches one row, each worker polls the row    *)
(* and pushes what changed onto its SimulatedBankAdapter, and payments     *)
(* call the adapter through the circuit breaker and the timeout.  A call   *)
(* waits out its latency before it looks at the adapter's state, so the    *)
(* configuration may change under it, and one that was given up on still   *)
(* gets there.                                                             *)
(***************************************************************************)
EXTENDS Naturals, FiniteSets, CircuitBreaker

CONSTANTS
  Workers,
  Keys,          \* idempotency keys, that is payments
  Requests,      \* PUT requests that may be under way at the same time
  FailNs,        \* values of failN
  Absent,        \* a field that a patch does not set; no call, no fetched row
  MaxUpdates,    \* bound: PUT requests in a behaviour
  MaxLate,       \* bound: calls for one key that nobody waits for any more
  MaxRestarts    \* bound: worker restarts in a behaviour

ASSUME BankControlAssumption ==
  /\ FailNs \subseteq Nat
  /\ 2 \in FailNs
  /\ MaxUpdates \in Nat
  /\ MaxLate \in Nat \ {0}
  /\ MaxRestarts \in Nat
  /\ Absent \notin Nat \cup BOOLEAN \cup STRING \cup [key : Keys, slow : BOOLEAN]

bankMode == {"always_authorize", "always_decline", "always_error", "fail_n_then_authorize"}

(* slow: latencyMs is beyond BANK_TIMEOUT_MS. *)
Settings == [mode : bankMode, failN : FailNs, slow : BOOLEAN]

Defaults == [mode |-> "always_authorize", failN |-> 2, slow |-> FALSE]

(* Timestamps: the row is made at 1, no two PUT requests have the same one. *)
Times == 1..(MaxUpdates + 1)

Patches == [mode : bankMode \cup {Absent}, failN : FailNs \cup {Absent},
            slow : BOOLEAN \cup {Absent}, updatedAt : Times]

VARIABLES
  row,            \* the bank_config row: settings and updated_at
  clock,          \* the last updatedAt that was taken
  patch,          \* what each open request is about to write
  fetched,        \* the row a worker's poll has read and not yet applied
  lastAppliedAt,  \* the poll's watermark, 0 for null
  settings,       \* each worker's adapter
  failCount,
  store, charges,
  call,           \* the call the worker waits for, with the latency it got
  late,           \* how many calls for each key it no longer waits for
  breaker,
  cooled,         \* OPEN_MS have passed since openedAt
  restarts

configVars  == <<row, clock, patch>>
syncVars    == <<fetched, lastAppliedAt>>
adapterVars == <<settings, failCount, store, charges>>
callVars    == <<call, late, breaker, cooled>>
vars == <<configVars, syncVars, adapterVars, callVars, restarts>>

------------------------------------------------------------------------------
(* The type invariant.  A worker's fail count is within its failN, whatever *)
(* the operator makes of failN meanwhile.                                   *)
TypeOK ==
  /\ row \in [settings : Settings, updatedAt : Times]
  /\ clock \in Times
  /\ patch \in [Requests -> Patches \cup {Absent}]
  /\ fetched \in [Workers -> [settings : Settings, updatedAt : Times] \cup {Absent}]
  /\ lastAppliedAt \in [Workers -> Times \cup {0}]
  /\ settings \in [Workers -> Settings]
  /\ failCount \in [Workers -> Nat]
  /\ \A w \in Workers : failCount[w] <= settings[w].failN
  /\ store \in [Workers -> SUBSET Keys]
  /\ charges \in [Workers -> Nat]
  /\ call \in [Workers -> [key : Keys, slow : BOOLEAN] \cup {Absent}]
  /\ late \in [Workers -> [Keys -> 0..MaxLate]]
  /\ breaker \in [Workers -> Breakers]
  /\ cooled \in [Workers -> BOOLEAN]
  /\ restarts \in 0..MaxRestarts

Init ==
  /\ row = [settings |-> Defaults, updatedAt |-> 1]
  /\ clock = 1
  /\ patch = [r \in Requests |-> Absent]
  /\ fetched = [w \in Workers |-> Absent]
  /\ lastAppliedAt = [w \in Workers |-> 0]
  /\ settings = [w \in Workers |-> Defaults]
  /\ failCount = [w \in Workers |-> 0]
  /\ store = [w \in Workers |-> {}]
  /\ charges = [w \in Workers |-> 0]
  /\ call = [w \in Workers |-> Absent]
  /\ late = [w \in Workers |-> [k \in Keys |-> 0]]
  /\ breaker = [w \in Workers |-> NewBreaker]
  /\ cooled = [w \in Workers |-> FALSE]
  /\ restarts = 0

------------------------------------------------------------------------------
(* BankConfigService.update: updatedAt is taken when the patch is built,    *)
(* the UPDATE sets the fields that were provided.                           *)
BuildPatch(r) ==
  /\ patch[r] = Absent
  /\ clock <= MaxUpdates
  /\ clock' = clock + 1
  /\ \E p \in Patches : p.updatedAt = clock + 1 /\ patch' = [patch EXCEPT ![r] = p]
  /\ UNCHANGED <<row, syncVars, adapterVars, callVars, restarts>>

Or(new, old) == IF new = Absent THEN old ELSE new

Patched(s, p) == [mode |-> Or(p.mode, s.mode), failN |-> Or(p.failN, s.failN),
                  slow |-> Or(p.slow, s.slow)]

update(r) ==
  /\ patch[r] # Absent
  /\ row' = [settings |-> Patched(row.settings, patch[r]), updatedAt |-> patch[r].updatedAt]
  /\ patch' = [patch EXCEPT ![r] = Absent]
  /\ UNCHANGED <<clock, syncVars, adapterVars, callVars, restarts>>

------------------------------------------------------------------------------
(* BankConfigSyncService.sync_once: the SELECT, then the change detection.  *)
SyncRead(w) ==
  /\ fetched[w] = Absent
  /\ fetched' = [fetched EXCEPT ![w] = row]
  /\ UNCHANGED <<configVars, lastAppliedAt, adapterVars, callVars, restarts>>

EveryTick(w) == TRUE

FirstTick(w) == lastAppliedAt[w] = 0

Changed(w) == lastAppliedAt[w] = 0 \/ lastAppliedAt[w] < fetched[w].updatedAt

setConfigKeepingCount(w, s) ==
  /\ settings' = [settings EXCEPT ![w] = s]
  /\ UNCHANGED failCount

(* Setting the mode, which the poll always does, restarts the fail count. *)
setConfig(w, s) ==
  /\ settings' = [settings EXCEPT ![w] = s]
  /\ failCount' = [failCount EXCEPT ![w] = 0]

SyncApply(w) ==
  /\ fetched[w] # Absent
  /\ IF Changed(w) THEN setConfig(w, fetched[w].settings) ELSE UNCHANGED <<settings, failCount>>
  /\ lastAppliedAt' = [lastAppliedAt EXCEPT ![w] = fetched[w].updatedAt]
  /\ fetched' = [fetched EXCEPT ![w] = Absent]
  /\ UNCHANGED <<configVars, store, charges, callVars, restarts>>

------------------------------------------------------------------------------
(* authorize() after its latency: one synchronous piece of code. *)
NeverKnown(w, k) == FALSE

Known(w, k) == k \in store[w]

Outcome(w, k) ==
  CASE Known(w, k) -> "authorized"
    [] ~Known(w, k) /\ settings[w].mode = "always_authorize" -> "authorized"
    [] ~Known(w, k) /\ settings[w].mode = "always_decline" -> "declined"
    [] ~Known(w, k) /\ settings[w].mode = "always_error" -> "error"
    [] OTHER -> IF failCount[w] < settings[w].failN THEN "error" ELSE "authorized"

authorize(w, k) ==
  LET fresh  == Outcome(w, k) = "authorized" /\ ~Known(w, k)
      counts == settings[w].mode = "fail_n_then_authorize" /\ ~Known(w, k)
  IN /\ store' = IF fresh THEN [store EXCEPT ![w] = @ \cup {k}] ELSE store
     /\ charges' = IF fresh THEN [charges EXCEPT ![w] = @ + 1] ELSE charges
     /\ failCount' = IF counts
                     THEN [failCount EXCEPT ![w] = IF fresh THEN 0 ELSE @ + 1]
                     ELSE failCount

(* The worker waits for one call at a time; the breaker decides whether it  *)
(* is made.                                                                 *)
Ask(w, k) ==
  /\ call[w] = Absent
  /\ allow(breaker[w], cooled[w])
  /\ breaker' = [breaker EXCEPT ![w] = afterAllow(@, cooled[w])]
  /\ call' = [call EXCEPT ![w] = [key |-> k, slow |-> settings[w].slow]]
  /\ UNCHANGED <<configVars, syncVars, adapterVars, late, cooled, restarts>>

(* breaker.record, openedAt included. *)
Record(w, success) ==
  /\ breaker' = [breaker EXCEPT ![w] = record(@, success)]
  /\ cooled' = [cooled EXCEPT ![w] = FALSE]

Answer(w) ==
  /\ call[w] # Absent
  /\ ~call[w].slow
  /\ authorize(w, call[w].key)
  /\ Record(w, Outcome(w, call[w].key) # "error")
  /\ call' = [call EXCEPT ![w] = Absent]
  /\ UNCHANGED <<configVars, syncVars, settings, late, restarts>>

TimeoutUnrecorded(w) ==
  /\ call[w] # Absent
  /\ call[w].slow
  /\ late[w][call[w].key] < MaxLate
  /\ late' = [late EXCEPT ![w][call[w].key] = @ + 1]
  /\ call' = [call EXCEPT ![w] = Absent]
  /\ UNCHANGED <<configVars, syncVars, adapterVars, breaker, cooled, restarts>>

(* withTimeout rejects: a failure for the breaker, and the call goes on. *)
Timeout(w) ==
  /\ call[w] # Absent
  /\ call[w].slow
  /\ late[w][call[w].key] < MaxLate
  /\ late' = [late EXCEPT ![w][call[w].key] = @ + 1]
  /\ Record(w, FALSE)
  /\ call' = [call EXCEPT ![w] = Absent]
  /\ UNCHANGED <<configVars, syncVars, adapterVars, restarts>>

(* The latency of a call nobody waits for is over. *)
LateAnswer(w, k) ==
  /\ late[w][k] > 0
  /\ authorize(w, k)
  /\ late' = [late EXCEPT ![w][k] = @ - 1]
  /\ UNCHANGED <<configVars, syncVars, settings, call, breaker, cooled, restarts>>

(* OPEN_MS pass. *)
Cool(w) ==
  /\ breaker[w].state = "OPEN"
  /\ ~cooled[w]
  /\ cooled' = [cooled EXCEPT ![w] = TRUE]
  /\ UNCHANGED <<configVars, syncVars, adapterVars, call, late, breaker, restarts>>

(* The worker process dies and starts again: everything in memory is new. *)
Restart(w) ==
  /\ restarts < MaxRestarts
  /\ restarts' = restarts + 1
  /\ fetched' = [fetched EXCEPT ![w] = Absent]
  /\ lastAppliedAt' = [lastAppliedAt EXCEPT ![w] = 0]
  /\ settings' = [settings EXCEPT ![w] = Defaults]
  /\ failCount' = [failCount EXCEPT ![w] = 0]
  /\ store' = [store EXCEPT ![w] = {}]
  /\ charges' = [charges EXCEPT ![w] = 0]
  /\ call' = [call EXCEPT ![w] = Absent]
  /\ late' = [late EXCEPT ![w] = [k \in Keys |-> 0]]
  /\ breaker' = [breaker EXCEPT ![w] = NewBreaker]
  /\ cooled' = [cooled EXCEPT ![w] = FALSE]
  /\ UNCHANGED configVars

Sync(w) == SyncRead(w) \/ SyncApply(w)

Next ==
  \/ \E r \in Requests : BuildPatch(r) \/ update(r)
  \/ \E w \in Workers : Sync(w) \/ Answer(w) \/ Timeout(w) \/ Cool(w) \/ Restart(w)
  \/ \E w \in Workers, k \in Keys : Ask(w, k) \/ LateAnswer(w, k)

Spec == Init /\ [][Next]_vars

(* A request that was received is carried out, the poll re-arms itself,     *)
(* calls end and time passes.  Payments keep coming: each key gets its turn *)
(* again and again, as the queue hands jobs out in order.                   *)
Fairness ==
  /\ \A r \in Requests : WF_vars(update(r))
  /\ \A w \in Workers : WF_vars(Sync(w)) /\ WF_vars(Answer(w) \/ Timeout(w)) /\ WF_vars(Cool(w))
  /\ \A w \in Workers, k \in Keys : WF_vars(LateAnswer(w, k)) /\ SF_vars(Ask(w, k))

FairSpec == Spec /\ Fairness

------------------------------------------------------------------------------
(* The adapter charges once per key, although calls of one key overlap, one *)
(* of them waited for and one not, and the mode changes under both.         *)
ChargePerKey ==
  \A w \in Workers : charges[w] = Cardinality(store[w])

(* The breaker is never stuck half open: the probe that will record its     *)
(* outcome, and so lead out of the state, is under way.                     *)
HalfOpenProbed ==
  \A w \in Workers : breaker[w].state = "HALF-OPEN" => call[w] # Absent

(* The UPDATE that was carried out last is the one whose updatedAt was      *)
(* taken last: overlapping PUT requests did not end out of order.           *)
LastIsLatest == row.updatedAt = clock

(* ADR-012 says "Config changes are eventually applied", and that is false  *)
(* of PUT requests that end out of order.  With the condition it needs: if  *)
(* the row is left with the latest updatedAt, every worker comes to run its *)
(* configuration and keeps it, also one that restarts or that reads the row *)
(* between two overlapping requests (sync_once).                            *)
LatestConfigApplied ==
  \A w \in Workers : <>[]LastIsLatest => <>[](settings[w] = row.settings)

Heals(s) == s.mode \in {"always_authorize", "fail_n_then_authorize"} /\ ~s.slow

(* Once the operator leaves the bank in a mode that heals, by the update    *)
(* with the latest updatedAt, every payment that keeps being asked for is   *)
(* authorised: the poll does not restart the fail count for ever, and the   *)
(* breaker lets the bank prove itself.                                      *)
BankHeals ==
  \A w \in Workers, k \in Keys :
    <>[](LastIsLatest /\ Heals(row.settings)) => <>[](k \in store[w])

================================================================================
