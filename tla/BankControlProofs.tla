--------------------------- MODULE BankControlProofs ---------------------------
(***************************************************************************)
(* The safety of BankControl for any workers, payments, overlapping PUT    *)
(* requests and bounds.  Inv adds to the three properties that a store is  *)
(* finite, so that adding a key makes it one larger.                       *)
(***************************************************************************)
EXTENDS BankControl, FiniteSetTheorems, TLAPS

StoresFinite == \A w \in Workers : IsFiniteSet(store[w])

Inv == TypeOK /\ StoresFinite /\ ChargePerKey /\ HalfOpenProbed

(* allow and record lead from breakers to breakers, and record ends every   *)
(* probe, with success or without.                                          *)
LEMMA BreakerTypes ==
  ASSUME NEW b \in Breakers, NEW e \in BOOLEAN
  PROVE  /\ NewBreaker \in Breakers /\ NewBreaker.state # "HALF-OPEN"
         /\ afterAllow(b, e) \in Breakers
         /\ record(b, e) \in Breakers /\ record(b, e).state # "HALF-OPEN"
BY ThresholdAssumption
DEF Breakers, NewBreaker, afterAllow, record, TripsOpen, Saturate

(* The settings a patched row has are settings again. *)
LEMMA PatchedTypes ==
  ASSUME NEW s \in Settings, NEW p \in Patches
  PROVE  Patched(s, p) \in Settings
BY DEF Settings, Patches, Patched, Or

LEMMA DefaultTypes == Defaults \in Settings
BY BankControlAssumption DEF Defaults, Settings, bankMode

(* One authorize() of worker w: the fail count stays within failN, and the  *)
(* store and the charges grow together, by a key that was not there.        *)
LEMMA AuthorizeShape ==
  ASSUME TypeOK, NEW w \in Workers, NEW k \in Keys, authorize(w, k)
  PROVE  /\ failCount' \in [Workers -> Nat]
         /\ \A v \in Workers : failCount'[v] <= settings[v].failN
         /\ \/ store' = store /\ charges' = charges
            \/ /\ k \notin store[w]
               /\ store' = [store EXCEPT ![w] = @ \cup {k}]
               /\ charges' = [charges EXCEPT ![w] = @ + 1]
<1>1. failCount \in [Workers -> Nat] /\ \A v \in Workers : failCount[v] <= settings[v].failN
  BY DEF TypeOK
<1>2. settings \in [Workers -> Settings] /\ \A v \in Workers : settings[v].failN \in Nat
  BY BankControlAssumption DEF TypeOK, Settings
<1>3. \/ store' = store /\ charges' = charges
      \/ /\ k \notin store[w]
         /\ store' = [store EXCEPT ![w] = @ \cup {k}]
         /\ charges' = [charges EXCEPT ![w] = @ + 1]
  BY DEF authorize, Known
<1>4. \/ failCount' = failCount
      \/ failCount' = [failCount EXCEPT ![w] = 0]
      \/ failCount[w] < settings[w].failN /\ failCount' = [failCount EXCEPT ![w] = @ + 1]
  BY DEF authorize, Outcome, Known
<1>5. failCount' \in [Workers -> Nat]
  BY <1>1, <1>4
<1>6. \A v \in Workers : failCount'[v] <= settings[v].failN
  BY <1>1, <1>2, <1>4
<1>7. QED
  BY <1>3, <1>5, <1>6

LEMMA TypeInit == Init => TypeOK
<1> SUFFICES ASSUME Init PROVE TypeOK
  OBVIOUS
<1>1. \A w \in Workers : failCount[w] <= settings[w].failN
  <2>1. \A w \in Workers : failCount[w] = 0 /\ settings[w] = Defaults
    BY DEF Init
  <2>2. 0 <= Defaults.failN
    BY DEF Defaults
  <2>3. QED
    BY <2>1, <2>2
<1>2. 1 \in Times /\ 0 \in 0..MaxRestarts /\ 0 \in 0..MaxLate
  BY BankControlAssumption DEF Times
<1>3. NewBreaker \in Breakers
  BY ThresholdAssumption DEF NewBreaker, Breakers
<1>4. QED
  BY <1>1, <1>2, <1>3, DefaultTypes DEF Init, TypeOK

(* Every step keeps the types: one case per action. *)
LEMMA TypeStep == TypeOK /\ [Next]_vars => TypeOK'
<1> SUFFICES ASSUME TypeOK, [Next]_vars PROVE TypeOK'
  OBVIOUS
<1> USE BankControlAssumption
<1>1. ASSUME NEW r \in Requests, BuildPatch(r) PROVE TypeOK'
  BY <1>1 DEF BuildPatch, TypeOK, Times, syncVars, adapterVars, callVars
<1>2. ASSUME NEW r \in Requests, update(r) PROVE TypeOK'
  <2>1. patch[r] \in Patches /\ row.settings \in Settings
    BY <1>2 DEF update, TypeOK
  <2>2. Patched(row.settings, patch[r]) \in Settings /\ patch[r].updatedAt \in Times
    BY <2>1, PatchedTypes DEF Patches
  <2>3. QED
    BY <1>2, <2>2 DEF update, TypeOK, syncVars, adapterVars, callVars
<1>3. ASSUME NEW w \in Workers, SyncRead(w) PROVE TypeOK'
  BY <1>3 DEF SyncRead, TypeOK, configVars, adapterVars, callVars
<1>4. ASSUME NEW w \in Workers, SyncApply(w) PROVE TypeOK'
  <2>1. fetched[w].settings \in Settings /\ fetched[w].updatedAt \in Times
    BY <1>4 DEF SyncApply, TypeOK
  <2>2. \A s \in Settings : s.failN \in Nat
    BY DEF Settings
  <2>3. /\ settings' \in [Workers -> Settings]
        /\ failCount' \in [Workers -> Nat]
        /\ \A v \in Workers : failCount'[v] <= settings'[v].failN
    <3>1. CASE Changed(w)
      <4>1. /\ settings' = [settings EXCEPT ![w] = fetched[w].settings]
            /\ failCount' = [failCount EXCEPT ![w] = 0]
        BY <1>4, <3>1 DEF SyncApply, setConfig
      <4>2. \A v \in Workers : settings[v] \in Settings /\ failCount[v] <= settings[v].failN
        BY DEF TypeOK
      <4>3. \A v \in Workers : failCount'[v] <= settings'[v].failN
        <5> TAKE v \in Workers
        <5>1. CASE v = w
          <6>1. failCount'[v] = 0 /\ settings'[v] = fetched[w].settings
            BY <4>1, <5>1 DEF TypeOK
          <6>2. fetched[w].settings.failN \in Nat
            BY <2>1, <2>2
          <6>3. QED
            BY <6>1, <6>2
        <5>2. CASE v # w
          BY <4>1, <4>2, <5>2 DEF TypeOK
        <5>3. QED
          BY <5>1, <5>2
      <4>4. QED
        BY <4>1, <4>3, <2>1 DEF TypeOK
    <3>2. CASE ~Changed(w)
      BY <1>4, <3>2 DEF SyncApply, TypeOK
    <3>3. QED
      BY <3>1, <3>2
  <2>4. QED
    BY <1>4, <2>1, <2>3 DEF SyncApply, TypeOK, configVars, callVars
<1>5. ASSUME NEW w \in Workers, NEW k \in Keys, Ask(w, k) PROVE TypeOK'
  <2>1. afterAllow(breaker[w], cooled[w]) \in Breakers /\ settings[w].slow \in BOOLEAN
    BY BreakerTypes DEF TypeOK, Settings
  <2>2. QED
    BY <1>5, <2>1 DEF Ask, TypeOK, configVars, syncVars, adapterVars
<1>6. ASSUME NEW w \in Workers, NEW success \in BOOLEAN, Record(w, success)
      PROVE  breaker' \in [Workers -> Breakers] /\ cooled' \in [Workers -> BOOLEAN]
  <2>1. record(breaker[w], success) \in Breakers
    BY BreakerTypes DEF TypeOK
  <2>2. QED
    BY <1>6, <2>1 DEF Record, TypeOK
<1>7. ASSUME NEW w \in Workers, NEW k \in Keys, authorize(w, k)
      PROVE  /\ store' \in [Workers -> SUBSET Keys] /\ charges' \in [Workers -> Nat]
             /\ failCount' \in [Workers -> Nat]
             /\ \A v \in Workers : failCount'[v] <= settings[v].failN
  <2>1. store \in [Workers -> SUBSET Keys] /\ charges \in [Workers -> Nat]
    BY DEF TypeOK
  <2>2. \/ store' = store /\ charges' = charges
        \/ /\ store' = [store EXCEPT ![w] = @ \cup {k}]
           /\ charges' = [charges EXCEPT ![w] = @ + 1]
    BY <1>7, AuthorizeShape
  <2>3. store' \in [Workers -> SUBSET Keys] /\ charges' \in [Workers -> Nat]
    BY <2>1, <2>2
  <2>4. /\ failCount' \in [Workers -> Nat]
        /\ \A v \in Workers : failCount'[v] <= settings[v].failN
    BY <1>7, AuthorizeShape
  <2>5. QED
    BY <2>3, <2>4
<1>8. ASSUME NEW w \in Workers, Answer(w) PROVE TypeOK'
  <2>1. call[w].key \in Keys /\ (Outcome(w, call[w].key) # "error") \in BOOLEAN
    BY <1>8 DEF Answer, TypeOK
  <2>2. /\ store' \in [Workers -> SUBSET Keys] /\ charges' \in [Workers -> Nat]
        /\ failCount' \in [Workers -> Nat]
        /\ \A v \in Workers : failCount'[v] <= settings[v].failN
    BY <1>7, <1>8, <2>1 DEF Answer
  <2>3. breaker' \in [Workers -> Breakers] /\ cooled' \in [Workers -> BOOLEAN]
    BY <1>6, <1>8, <2>1 DEF Answer
  <2>4. QED
    BY <1>8, <2>2, <2>3 DEF Answer, TypeOK, configVars, syncVars
<1>9. ASSUME NEW w \in Workers, Timeout(w) PROVE TypeOK'
  <2>1. breaker' \in [Workers -> Breakers] /\ cooled' \in [Workers -> BOOLEAN]
    BY <1>6, <1>9 DEF Timeout
  <2>2. call[w].key \in Keys
    BY <1>9 DEF Timeout, TypeOK
  <2>3. late' \in [Workers -> [Keys -> 0..MaxLate]]
    BY <1>9, <2>2 DEF Timeout, TypeOK
  <2>4. QED
    BY <1>9, <2>1, <2>3 DEF Timeout, TypeOK, configVars, syncVars, adapterVars
<1>10. ASSUME NEW w \in Workers, NEW k \in Keys, LateAnswer(w, k) PROVE TypeOK'
  <2>1. late' \in [Workers -> [Keys -> 0..MaxLate]]
    BY <1>10 DEF LateAnswer, TypeOK
  <2>2. QED
    BY <1>7, <1>10, <2>1 DEF LateAnswer, TypeOK, configVars, syncVars
<1>11. ASSUME NEW w \in Workers, Cool(w) PROVE TypeOK'
  BY <1>11 DEF Cool, TypeOK, configVars, syncVars, adapterVars
<1>12. ASSUME NEW w \in Workers, Restart(w) PROVE TypeOK'
  <2>1. /\ settings' \in [Workers -> Settings]
        /\ failCount' \in [Workers -> Nat]
        /\ \A v \in Workers : failCount'[v] <= settings'[v].failN
    BY <1>12, DefaultTypes DEF Restart, TypeOK, Defaults
  <2>2. breaker' \in [Workers -> Breakers] /\ late' \in [Workers -> [Keys -> 0..MaxLate]]
    BY <1>12, BreakerTypes DEF Restart, TypeOK
  <2>3. QED
    BY <1>12, <2>1, <2>2 DEF Restart, TypeOK, configVars
<1>13. ASSUME UNCHANGED vars PROVE TypeOK'
  BY <1>13 DEF TypeOK, vars, configVars, syncVars, adapterVars, callVars
<1>14. QED
  BY <1>1, <1>2, <1>3, <1>4, <1>5, <1>8, <1>9, <1>10, <1>11, <1>12, <1>13 DEF Next, Sync


(* The three ways a step touches the stores and the charges. *)
LEMMA ChargeSteps ==
  ASSUME TypeOK, [Next]_vars
  PROVE  \/ store' = store /\ charges' = charges
         \/ \E w \in Workers, k \in Keys :
              /\ k \notin store[w]
              /\ store' = [store EXCEPT ![w] = @ \cup {k}]
              /\ charges' = [charges EXCEPT ![w] = @ + 1]
         \/ \E w \in Workers :
              store' = [store EXCEPT ![w] = {}] /\ charges' = [charges EXCEPT ![w] = 0]
<1> DEFINE Shape ==
      \/ store' = store /\ charges' = charges
      \/ \E w \in Workers, k \in Keys :
           /\ k \notin store[w]
           /\ store' = [store EXCEPT ![w] = @ \cup {k}]
           /\ charges' = [charges EXCEPT ![w] = @ + 1]
      \/ \E w \in Workers :
           store' = [store EXCEPT ![w] = {}] /\ charges' = [charges EXCEPT ![w] = 0]
<1>1. ASSUME NEW w \in Workers, NEW k \in Keys, authorize(w, k) PROVE Shape
  BY <1>1, AuthorizeShape
<1>2. ASSUME NEW w \in Workers, Answer(w) PROVE Shape
  <2>1. call[w].key \in Keys /\ authorize(w, call[w].key)
    BY <1>2 DEF Answer, TypeOK
  <2>2. QED
    BY <1>1, <2>1
<1>3. ASSUME NEW w \in Workers, NEW k \in Keys, LateAnswer(w, k) PROVE Shape
  BY <1>1, <1>3 DEF LateAnswer
<1>4. ASSUME NEW w \in Workers, Restart(w) PROVE Shape
  BY <1>4 DEF Restart
<1>5. ASSUME NEW w \in Workers, Sync(w) \/ Timeout(w) \/ Cool(w) PROVE Shape
  BY <1>5 DEF Sync, SyncRead, SyncApply, Timeout, Cool, adapterVars
<1>6. ASSUME NEW w \in Workers, NEW k \in Keys, Ask(w, k) PROVE Shape
  BY <1>6 DEF Ask, adapterVars
<1>7. ASSUME NEW r \in Requests, BuildPatch(r) \/ update(r) PROVE Shape
  BY <1>7 DEF BuildPatch, update, adapterVars
<1>8. ASSUME UNCHANGED vars PROVE Shape
  BY <1>8 DEF vars, adapterVars
<1>9. QED
  BY <1>2, <1>3, <1>4, <1>5, <1>6, <1>7, <1>8 DEF Next

(* A charge and a key come together, and go together when a worker dies. *)
LEMMA ChargeStep ==
  TypeOK /\ StoresFinite /\ ChargePerKey /\ [Next]_vars => StoresFinite' /\ ChargePerKey'
<1> SUFFICES ASSUME TypeOK, StoresFinite, ChargePerKey, [Next]_vars
             PROVE  \A v \in Workers : IsFiniteSet(store'[v]) /\ charges'[v] = Cardinality(store'[v])
  BY DEF StoresFinite, ChargePerKey
<1> TAKE v \in Workers
<1>1. IsFiniteSet(store[v]) /\ charges[v] = Cardinality(store[v])
  BY DEF StoresFinite, ChargePerKey
<1>2. CASE store'[v] = store[v] /\ charges'[v] = charges[v]
  BY <1>1, <1>2
<1>3. CASE store'[v] = {} /\ charges'[v] = 0
  BY <1>3, FS_EmptySet
<1>4. ASSUME NEW k \in Keys, k \notin store[v], store'[v] = store[v] \cup {k}, charges'[v] = charges[v] + 1
      PROVE  IsFiniteSet(store'[v]) /\ charges'[v] = Cardinality(store'[v])
  <2>1. /\ IsFiniteSet(store[v] \cup {k})
        /\ Cardinality(store[v] \cup {k}) = Cardinality(store[v]) + 1
    <3>1. IsFiniteSet(store[v]) /\ k \notin store[v]
      BY <1>1, <1>4
    <3>2. /\ IsFiniteSet(store[v] \cup {k})
          /\ Cardinality(store[v] \cup {k})
               = IF k \in store[v] THEN Cardinality(store[v]) ELSE Cardinality(store[v]) + 1
      BY <3>1, FS_AddElement, Zenon
    <3>3. QED
      BY <3>1, <3>2
  <2>2. QED
    BY <1>1, <1>4, <2>1
<1>5. \/ store'[v] = store[v] /\ charges'[v] = charges[v]
      \/ store'[v] = {} /\ charges'[v] = 0
      \/ \E k \in Keys : k \notin store[v] /\ store'[v] = store[v] \cup {k} /\ charges'[v] = charges[v] + 1
  <2>1. store \in [Workers -> SUBSET Keys] /\ charges \in [Workers -> Nat]
    BY DEF TypeOK
  <2>2. CASE store' = store /\ charges' = charges
    BY <2>2
  <2>3. ASSUME NEW w \in Workers, NEW k \in Keys, k \notin store[w],
               store' = [store EXCEPT ![w] = @ \cup {k}], charges' = [charges EXCEPT ![w] = @ + 1]
        PROVE  \/ store'[v] = store[v] /\ charges'[v] = charges[v]
               \/ k \notin store[v] /\ store'[v] = store[v] \cup {k} /\ charges'[v] = charges[v] + 1
    BY <2>1, <2>3
  <2>4. ASSUME NEW w \in Workers, store' = [store EXCEPT ![w] = {}], charges' = [charges EXCEPT ![w] = 0]
        PROVE  \/ store'[v] = store[v] /\ charges'[v] = charges[v]
               \/ store'[v] = {} /\ charges'[v] = 0
    BY <2>1, <2>4
  <2>5. QED
    BY <2>2, <2>3, <2>4, ChargeSteps
<1>6. QED
  BY <1>2, <1>3, <1>4, <1>5

(* Only Ask makes a breaker half open, and it is the call that the worker   *)
(* then waits for; whatever ends that call records its outcome.             *)
LEMMA ProbeStep == TypeOK /\ HalfOpenProbed /\ [Next]_vars => HalfOpenProbed'
<1> SUFFICES ASSUME TypeOK, HalfOpenProbed, [Next]_vars PROVE HalfOpenProbed'
  OBVIOUS
<1>1. ASSUME UNCHANGED <<call, breaker>> PROVE HalfOpenProbed'
  BY <1>1 DEF HalfOpenProbed
<1>2. ASSUME NEW w \in Workers, NEW k \in Keys, Ask(w, k) PROVE HalfOpenProbed'
  <2>1. [key |-> k, slow |-> settings[w].slow] # Absent
    <3>1. [key |-> k, slow |-> settings[w].slow] \in [key : Keys, slow : BOOLEAN]
      BY DEF TypeOK, Settings
    <3>2. QED
      BY <3>1, BankControlAssumption
  <2>2. QED
    BY <1>2, <2>1 DEF Ask, HalfOpenProbed, TypeOK
<1>3. ASSUME NEW w \in Workers, NEW success \in BOOLEAN, Record(w, success),
             call' = [call EXCEPT ![w] = Absent]
      PROVE  HalfOpenProbed'
  <2>1. record(breaker[w], success).state # "HALF-OPEN"
    BY BreakerTypes DEF TypeOK
  <2>2. QED
    BY <1>3, <2>1 DEF Record, HalfOpenProbed, TypeOK
<1>4. ASSUME NEW w \in Workers, Restart(w) PROVE HalfOpenProbed'
  <2>1. NewBreaker.state # "HALF-OPEN"
    BY DEF NewBreaker
  <2>2. QED
    BY <1>4, <2>1 DEF Restart, HalfOpenProbed, TypeOK
<1>5. ASSUME NEW w \in Workers, Answer(w) \/ Timeout(w) PROVE HalfOpenProbed'
  BY <1>3, <1>5 DEF Answer, Timeout
<1>6. ASSUME NEW w \in Workers, Sync(w) \/ Cool(w) PROVE HalfOpenProbed'
  BY <1>1, <1>6 DEF Sync, SyncRead, SyncApply, Cool, callVars
<1>7. ASSUME NEW w \in Workers, NEW k \in Keys, LateAnswer(w, k) PROVE HalfOpenProbed'
  BY <1>1, <1>7 DEF LateAnswer
<1>8. ASSUME NEW r \in Requests, BuildPatch(r) \/ update(r) PROVE HalfOpenProbed'
  BY <1>1, <1>8 DEF BuildPatch, update, callVars
<1>9. ASSUME UNCHANGED vars PROVE HalfOpenProbed'
  BY <1>1, <1>9 DEF vars, callVars
<1>10. QED
  BY <1>2, <1>4, <1>5, <1>6, <1>7, <1>8, <1>9 DEF Next

LEMMA Invariance == Spec => []Inv
<1>1. Init => Inv
  <2> SUFFICES ASSUME Init PROVE Inv
    OBVIOUS
  <2>1. StoresFinite /\ ChargePerKey
    BY FS_EmptySet DEF Init, StoresFinite, ChargePerKey
  <2>2. HalfOpenProbed
    BY DEF Init, HalfOpenProbed, NewBreaker
  <2>3. QED
    BY <2>1, <2>2, TypeInit DEF Inv
<1>2. Inv /\ [Next]_vars => Inv'
  BY TypeStep, ChargeStep, ProbeStep DEF Inv
<1>3. QED
  BY <1>1, <1>2, PTL DEF Spec

------------------------------------------------------------------------------
(* SimulatedBankAdapter charges a key at most once per process, although    *)
(* the latency is awaited before the store is looked at and timed-out calls *)
(* go on: the lookup and the charge are one synchronous piece of code.      *)
THEOREM ChargedPerKey == Spec => []ChargePerKey
<1>1. Inv => ChargePerKey
  BY DEF Inv
<1>2. QED
  BY <1>1, Invariance, PTL

(* CircuitBreaker is never left half open without a probe under way that    *)
(* will record its outcome: process() records timeouts as failures, and a   *)
(* restarted worker has a new breaker.                                      *)
THEOREM NeverStuckHalfOpen == Spec => []HalfOpenProbed
<1>1. Inv => HalfOpenProbed
  BY DEF Inv
<1>2. QED
  BY <1>1, Invariance, PTL

(* Every reachable state is well typed; in particular the fail count of the *)
(* adapter stays within its failN, also when setConfig lowers it.           *)
THEOREM BankTypes == Spec => []TypeOK
<1>1. Inv => TypeOK
  BY DEF Inv
<1>2. QED
  BY <1>1, Invariance, PTL

================================================================================
