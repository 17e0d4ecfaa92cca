------------------------- MODULE OutboxRetentionProofs -------------------------
(* Retention is safe for any retention, any number of days ahead and any lag     *)
(* and outage that the assumptions allow.                                        *)
EXTENDS OutboxRetention, TLAPS

--------------------------------------------------------------------------------
(* The invariant.                                                                *)

\* No partition is wider than two days, and from is at most one day stale.
Ranges ==
  /\ \A p \in parts : p.end <= p.day + 2
  /\ phase = "to" => from \in {i, i - 1}

\* A row is at most one day younger than its partition's name says.
Homes == \A r \in pending : r.day <= r.home + 1 /\ r.day >= -MaxLag /\ r.day <= 0

\* What dropExpired is about to drop is past the retention.
OnlyExpired == \A d \in todo : d < -RETENTION_DAYS

\* The loop variable is at its start unless ensurePartitions runs.
LoopStarts == phase \notin {"from", "to"} => i = 0

Safe == TypeOK /\ Ranges /\ Homes /\ OnlyExpired /\ LoopStarts /\ NothingLost

\* The next n days, today included, have their partitions.
Made(n) == \A d \in 0 .. n : \E p \in parts : p.day = d /\ p.end = d + 1

\* As long as nothing out of the ordinary happened, the loop keeps ahead: what it has
\* made shrinks by a day at every midnight and is whole again after a tick.
Ahead ==
  /\ default = {}
  /\ \A p \in parts : p.end <= p.day + 1 /\ (p.day >= -1 => p.end = p.day + 1)
  /\ phase = "to" => from = i
  /\ outage <= AHEAD_DAYS
  /\ Made(AHEAD_DAYS - outage)
  /\ sameDay /\ phase \in {"from", "to"} => Made(i - 1)
  /\ sameDay /\ phase \in {"scan", "drop"} => Made(AHEAD_DAYS)

\* It keeps up with the past in the same way.
Behind ==
  /\ \A p \in parts : p.day >= -(RETENTION_DAYS + outage)
  /\ sameDay /\ phase = "drop" =>
       \A p \in parts : p.day >= -RETENTION_DAYS \/ p.day \in todo

Steady == ~strained => Ahead /\ Behind

RetentionInv == Safe /\ Steady

--------------------------------------------------------------------------------
LEMMA OlderSteps ==
  ASSUME NEW d \in Int
  PROVE  /\ Oldest \in Int /\ Oldest <= -3
         /\ Older(d) \in Int /\ Older(d) <= d /\ Older(d) >= d - 1
         /\ d >= Oldest => Older(d) >= Oldest
         /\ d >= -1 => Older(d) = d - 1
BY RetentionAssumption DEF Older, Oldest

\* A day less does not widen a range.
LEMMA OlderWidth ==
  ASSUME NEW a \in Int, NEW b \in Int, NEW k \in Nat, b <= a + k
  PROVE  Older(b) <= Older(a) + k
<1>1. Oldest \in Int
  BY RetentionAssumption DEF Oldest
<1> QED BY <1>1 DEF Older

LEMMA RetentionInit == Init => RetentionInv
<1> SUFFICES ASSUME Init PROVE RetentionInv
  OBVIOUS
<1>1. TypeOK
  <2>1. -1 .. MIGRATED_DAYS - 2 \subseteq Days /\ 0 .. MIGRATED_DAYS - 1 \subseteq Days
    BY RetentionAssumption DEF Days, Oldest
  <2>2. ASSUME NEW d \in -1 .. MIGRATED_DAYS - 2
        PROVE  d \in Days /\ d + 1 \in Days
    <3>1. d + 1 \in 0 .. MIGRATED_DAYS - 1
      BY RetentionAssumption
    <3> QED BY <2>1, <3>1
  <2>3. parts \subseteq [day : Days, end : Days]
    BY <2>2 DEF Init
  <2>4. 0 \in Days
    BY RetentionAssumption DEF Days, Oldest
  <2>5. /\ pending = {} /\ default = {} /\ todo = {}
        /\ phase = "idle" /\ i = 0 /\ from = 0 /\ outage = 0
        /\ sameDay = TRUE /\ lost = FALSE /\ strained = FALSE
    BY DEF Init
  <2>6. i \in 0 .. AHEAD_DAYS /\ outage \in 0 .. MaxOutage
    BY <2>5, RetentionAssumption
  <2>7. pending \subseteq [day : Days, home : Days] /\ default \subseteq Days /\ todo \subseteq Days
    BY <2>5
  <2>8. phase \in Phases /\ from \in Days
    BY <2>4, <2>5 DEF Phases
  <2>9. sameDay \in BOOLEAN /\ lost \in BOOLEAN /\ strained \in BOOLEAN
    BY <2>5
  <2> QED BY <2>3, <2>6, <2>7, <2>8, <2>9 DEF TypeOK
<1>2. Safe
  BY <1>1, RetentionAssumption DEF Init, Safe, Ranges, Homes, OnlyExpired, LoopStarts, NothingLost
<1>3. Made(AHEAD_DAYS)
  <2> SUFFICES ASSUME NEW d \in 0 .. AHEAD_DAYS
               PROVE  \E p \in parts : p.day = d /\ p.end = d + 1
    BY DEF Made
  <2>1. d \in -1 .. MIGRATED_DAYS - 2
    BY RetentionAssumption, MigrationAssumption
  <2>2. [day |-> d, end |-> d + 1] \in parts
    BY <2>1 DEF Init
  <2> QED BY <2>2
<1>4. Steady
  BY <1>3, RetentionAssumption DEF Init, Steady, Ahead, Behind
<1> QED BY <1>2, <1>4 DEF RetentionInv

--------------------------------------------------------------------------------
(* One step for each action.                                                     *)

LEMMA InsertStep == RetentionInv /\ Insert => RetentionInv'
<1> SUFFICES ASSUME RetentionInv, Insert PROVE RetentionInv'
  OBVIOUS
<1> USE RetentionAssumption DEF RetentionInv, Safe, Insert
<1>1. UNCHANGED <<parts, phase, i, from, todo, sameDay, outage, lost, strained>>
  OBVIOUS
<1>2. 0 \in Days
  BY DEF Days, Oldest
<1>3. CASE \E p \in parts : p.day <= 0 /\ 0 < p.end
  <2>1. PICK p \in parts : /\ p.day <= 0 /\ 0 < p.end
                           /\ pending' = pending \cup {[day |-> 0, home |-> p.day]}
                           /\ default' = default
    BY <1>3
  <2>2. p.day \in Days /\ p.day \in Int /\ p.end \in Int
    BY DEF TypeOK, Days, Oldest
  <2>3. p.day >= -1
    BY <2>1, <2>2 DEF Ranges
  <2>4. TypeOK'
    BY <1>1, <1>2, <2>1, <2>2 DEF TypeOK
  <2>5. Homes'
    BY <2>1, <2>2, <2>3 DEF Homes
  <2>6. Steady'
    BY <1>1, <2>1 DEF Steady, Ahead, Behind, Made
  <2> QED BY <1>1, <2>4, <2>5, <2>6 DEF Ranges, OnlyExpired, LoopStarts, NothingLost
<1>4. CASE ~\E p \in parts : p.day <= 0 /\ 0 < p.end
  <2>1. default' = default \cup {0} /\ pending' = pending
    BY <1>4
  <2>2. strained
    <3> SUFFICES ASSUME ~strained PROVE FALSE
      OBVIOUS
    <3>1. outage \in Nat /\ outage <= AHEAD_DAYS /\ Made(AHEAD_DAYS - outage)
      BY DEF Steady, Ahead, TypeOK
    <3>2. 0 \in 0 .. AHEAD_DAYS - outage
      BY <3>1
    <3>3. \E p \in parts : p.day = 0 /\ p.end = 1
      BY <3>1, <3>2 DEF Made
    <3> QED BY <3>3, <1>4
  <2>3. TypeOK'
    BY <1>1, <1>2, <2>1 DEF TypeOK
  <2> QED BY <1>1, <2>1, <2>2, <2>3 DEF Ranges, Homes, OnlyExpired, LoopStarts, NothingLost, Steady
<1> QED BY <1>3, <1>4

LEMMA ConsumeStep == RetentionInv /\ Consume => RetentionInv'
BY DEF Consume, RetentionInv, Safe, TypeOK, Ranges, Homes, OnlyExpired, LoopStarts, NothingLost,
   Steady, Ahead, Behind, Made

LEMMA TickStep == RetentionInv /\ Tick => RetentionInv'
<1> SUFFICES ASSUME RetentionInv, Tick PROVE RetentionInv'
  OBVIOUS
<1> USE RetentionAssumption DEF RetentionInv, Safe, Tick
<1>1. Safe'
  BY DEF TypeOK, Phases, Ranges, Homes, OnlyExpired, LoopStarts, NothingLost
<1>2. Steady'
  BY DEF Steady, Ahead, Behind, Made, LoopStarts
<1> QED BY <1>1, <1>2

LEMMA TakeFromStep == RetentionInv /\ TakeFrom => RetentionInv'
<1> SUFFICES ASSUME RetentionInv, TakeFrom PROVE RetentionInv'
  OBVIOUS
<1> USE RetentionAssumption DEF RetentionInv, Safe, TakeFrom
<1>1. Safe'
  BY DEF TypeOK, Phases, Days, Oldest, Ranges, Homes, OnlyExpired, LoopStarts, NothingLost
<1>2. Steady'
  BY DEF Steady, Ahead, Behind, Made
<1> QED BY <1>1, <1>2

LEMMA CreateStep == RetentionInv /\ Create => RetentionInv'
<1> SUFFICES ASSUME RetentionInv, Create PROVE RetentionInv'
  OBVIOUS
<1> USE RetentionAssumption DEF RetentionInv, Safe
<1> DEFINE fails == ~Exists /\ Refused(from, i + 1)
           new   == [day |-> from, end |-> i + 1]
<1>1. /\ phase = "to"
      /\ parts' = IF Exists \/ fails THEN parts ELSE parts \cup {new}
      /\ phase' = IF fails THEN "idle" ELSE IF i = AHEAD_DAYS THEN "scan" ELSE "from"
      /\ i' = IF fails \/ i = AHEAD_DAYS THEN 0 ELSE i + 1
      /\ outage' = IF fails /\ sameDay THEN 0 ELSE outage
      /\ from' = 0
      /\ UNCHANGED <<pending, default, todo, sameDay, lost, strained>>
  BY DEF Create, Last
<1>2. /\ i \in 0 .. AHEAD_DAYS
      /\ from \in Days /\ from \in Int /\ from \in {i, i - 1}
      /\ i + 1 \in Days /\ 0 \in Days
      /\ outage \in 0 .. MaxOutage
  BY <1>1 DEF TypeOK, Ranges, Days, Oldest
<1>3. parts' \subseteq [day : Days, end : Days] /\ \A p \in parts' : p.end <= p.day + 2
  BY <1>1, <1>2 DEF TypeOK, Ranges
<1>4. TypeOK'
  BY <1>1, <1>2, <1>3 DEF TypeOK, Phases
<1>5. Safe'
  BY <1>1, <1>2, <1>3, <1>4 DEF Ranges, Homes, OnlyExpired, LoopStarts, NothingLost
<1>6. ASSUME ~strained
      PROVE  (Ahead /\ Behind)'
  <2>1. Ahead /\ Behind /\ from = i
    BY <1>1, <1>6 DEF Steady, Ahead
  <2>2. ~fails
    <3> SUFFICES ASSUME Refused(from, i + 1) PROVE Exists
      OBVIOUS
    <3>1. PICK p \in parts : p.day < i + 1 /\ from < p.end
      BY <2>1 DEF Refused, Ahead
    <3>2. p.day \in Int /\ p.end \in Int /\ p.end <= p.day + 1
      BY <2>1 DEF Ahead, TypeOK, Days, Oldest
    <3>3. p.day = from
      BY <1>2, <2>1, <3>1, <3>2
    <3> QED BY <3>3 DEF Exists
  <2>3. /\ parts' = IF Exists THEN parts ELSE parts \cup {new}
        /\ phase' = IF i = AHEAD_DAYS THEN "scan" ELSE "from"
        /\ i' = IF i = AHEAD_DAYS THEN 0 ELSE i + 1
        /\ outage' = outage
    BY <1>1, <2>2
  <2>4. \A p \in parts' : p.end <= p.day + 1 /\ (p.day >= -1 => p.end = p.day + 1)
    BY <1>2, <2>1, <2>3 DEF Ahead
  <2>5. \A p \in parts' : p.day >= -(RETENTION_DAYS + outage)
    BY <1>2, <2>1, <2>3 DEF Behind
  <2>6. Made(AHEAD_DAYS - outage)'
    BY <2>1, <2>3 DEF Made, Ahead
  <2>7. ASSUME sameDay, NEW d \in 0 .. i
        PROVE  \E p \in parts' : p.day = d /\ p.end = d + 1
    <3>1. CASE d = i
      <4>1. CASE Exists
        <5>1. PICK p \in parts : p.day = i
          BY <2>1, <4>1 DEF Exists
        <5> QED BY <1>2, <2>1, <2>3, <3>1, <4>1, <5>1 DEF Ahead
      <4>2. CASE ~Exists
        <5>1. new \in parts' /\ new.day = d /\ new.end = d + 1
          BY <2>1, <2>3, <3>1, <4>2
        <5> QED BY <5>1
      <4> QED BY <4>1, <4>2
    <3>2. CASE d # i
      <4>1. d \in 0 .. i - 1
        BY <1>2, <3>2
      <4>2. \E p \in parts : p.day = d /\ p.end = d + 1
        BY <1>1, <2>1, <2>7, <4>1 DEF Ahead, Made
      <4> QED BY <2>3, <4>2
    <3> QED BY <3>1, <3>2
  <2>8. Made(i - 1)' \/ ~sameDay \/ i = AHEAD_DAYS
    BY <1>2, <2>3, <2>7 DEF Made
  <2>9. Made(AHEAD_DAYS)' \/ ~sameDay \/ i # AHEAD_DAYS
    BY <1>2, <2>3, <2>7 DEF Made
  <2>10. Ahead'
    BY <1>1, <2>1, <2>3, <2>4, <2>6, <2>8, <2>9 DEF Ahead
  <2>11. Behind'
    BY <1>1, <2>3, <2>5 DEF Behind
  <2> QED BY <2>10, <2>11
<1>7. Steady'
  BY <1>1, <1>6 DEF Steady
<1> QED BY <1>5, <1>7

LEMMA ScanStep == RetentionInv /\ Scan => RetentionInv'
<1> SUFFICES ASSUME RetentionInv, Scan PROVE RetentionInv'
  OBVIOUS
<1> USE RetentionAssumption DEF RetentionInv, Safe, Scan, Expired
<1>1. todo' \subseteq Days /\ \A d \in todo' : d < -RETENTION_DAYS
  BY DEF TypeOK
<1>2. TypeOK'
  BY <1>1 DEF TypeOK, Phases
<1>3. Safe'
  BY <1>1, <1>2 DEF Ranges, Homes, OnlyExpired, LoopStarts, NothingLost
<1>4. \A p \in parts : p.day >= -RETENTION_DAYS \/ p.day \in todo'
  BY DEF TypeOK, Days, Oldest
<1>5. Steady'
  BY <1>4 DEF Steady, Ahead, Behind, Made
<1> QED BY <1>3, <1>5

LEMMA DropStep == RetentionInv /\ Drop => RetentionInv'
<1> SUFFICES ASSUME RetentionInv, Drop PROVE RetentionInv'
  OBVIOUS
<1> USE RetentionAssumption DEF RetentionInv, Safe
<1>1. /\ phase = "drop"
      /\ UNCHANGED <<default, phase, i, from, sameDay, outage, strained>>
  BY DEF Drop
<1>2. PICK d \in todo : /\ todo' = todo \ {d}
                        /\ parts' = {p \in parts : p.day # d}
                        /\ pending' = {r \in pending : r.home # d}
                        /\ lost' = (lost \/ \E r \in pending : r.home = d)
  BY DEF Drop
<1>3. d \in Int /\ d < -RETENTION_DAYS
  BY DEF TypeOK, OnlyExpired, Days, Oldest
<1>4. ASSUME NEW r \in pending, r.home = d
      PROVE  FALSE
  <2>1. r.day \in Int /\ r.day <= d + 1 /\ r.day >= -MaxLag
    BY <1>4 DEF Homes, TypeOK, Days, Oldest
  <2> QED BY <2>1, <1>3, LagAssumption
<1>5. lost' = lost
  BY <1>2, <1>4 DEF TypeOK, NothingLost
<1>6. TypeOK'
  BY <1>1, <1>2, <1>5 DEF TypeOK
<1>7. Safe'
  BY <1>1, <1>2, <1>5, <1>6 DEF Ranges, Homes, OnlyExpired, LoopStarts, NothingLost
<1>8. ASSUME ~strained
      PROVE  (Ahead /\ Behind)'
  <2>1. Ahead /\ Behind
    BY <1>8 DEF Steady
  <2>2. ASSUME NEW n \in Int, Made(n) PROVE \A e \in 0 .. n : \E p \in parts' : p.day = e /\ p.end = e + 1
    BY <1>2, <1>3, <2>2 DEF Made
  <2>3. AHEAD_DAYS - outage \in Int
    BY DEF TypeOK
  <2>4. Made(AHEAD_DAYS - outage)' /\ (sameDay => Made(AHEAD_DAYS)')
    <3>1. Made(AHEAD_DAYS - outage) /\ (sameDay => Made(AHEAD_DAYS))
      BY <1>1, <2>1 DEF Ahead
    <3>2. Made(AHEAD_DAYS - outage)'
      BY <1>1, <2>2, <2>3, <3>1 DEF Made
    <3>3. ASSUME sameDay PROVE Made(AHEAD_DAYS)'
      BY <2>2, <3>1, <3>3 DEF Made
    <3> QED BY <3>2, <3>3
  <2>5. Ahead'
    BY <1>1, <1>2, <2>1, <2>4 DEF Ahead
  <2>6. Behind'
    BY <1>1, <1>2, <2>1 DEF Behind
  <2> QED BY <2>5, <2>6
<1>9. Steady'
  BY <1>1, <1>8 DEF Steady
<1> QED BY <1>7, <1>9

LEMMA TickEndsStep == RetentionInv /\ TickEnds => RetentionInv'
<1> SUFFICES ASSUME RetentionInv, TickEnds PROVE RetentionInv'
  OBVIOUS
<1> USE RetentionAssumption DEF RetentionInv, Safe, TickEnds
<1>1. Safe'
  BY DEF TypeOK, Phases, Ranges, Homes, OnlyExpired, LoopStarts, NothingLost
<1>2. Steady'
  BY DEF Steady, Ahead, Behind, Made, TypeOK
<1> QED BY <1>1, <1>2

LEMMA TickFailsStep == RetentionInv /\ TickFails => RetentionInv'
<1> SUFFICES ASSUME RetentionInv, TickFails PROVE RetentionInv'
  OBVIOUS
<1> USE RetentionAssumption DEF RetentionInv, Safe, TickFails
<1>1. Safe'
  BY DEF TypeOK, Phases, Days, Oldest, Ranges, Homes, OnlyExpired, LoopStarts, NothingLost
<1>2. Steady'
  BY DEF Steady, Ahead, Behind, Made
<1> QED BY <1>1, <1>2

LEMMA MidnightStep == RetentionInv /\ Midnight => RetentionInv'
<1> SUFFICES ASSUME RetentionInv, Midnight PROVE RetentionInv'
  OBVIOUS
<1> USE RetentionAssumption DEF RetentionInv, Safe
<1>1. /\ phase = "to" => from = i
      /\ outage < MaxOutage
      /\ \A r \in pending : r.day > -MaxLag
      /\ outage' = outage + 1
      /\ sameDay' = FALSE
      /\ strained' = (strained \/ phase = "to" \/ outage >= AHEAD_DAYS)
      /\ parts' = {[day |-> Older(p.day), end |-> Older(p.end)] : p \in parts}
      /\ pending' = {[day |-> r.day - 1, home |-> Older(r.home)] : r \in pending}
      /\ default' = {Older(d) : d \in default}
      /\ from' = IF phase = "to" THEN from - 1 ELSE from
      /\ todo' = {Older(d) : d \in todo}
      /\ UNCHANGED <<phase, i, lost>>
  BY DEF Midnight
<1>2. Days \subseteq Int /\ \A d \in Days : Older(d) \in Days
  BY OlderSteps DEF Days, Oldest
<1>3. \A p \in parts : p.day \in Days /\ p.end \in Days /\ p.day \in Int /\ p.end \in Int
  BY <1>2 DEF TypeOK
<1>4. \A r \in pending : r.day \in Days /\ r.home \in Days /\ r.day \in Int /\ r.home \in Int
  BY <1>2 DEF TypeOK
<1>a. ASSUME NEW q \in parts'
      PROVE  \E p \in parts : q = [day |-> Older(p.day), end |-> Older(p.end)]
  BY <1>1, <1>a
<1>b. ASSUME NEW q \in pending'
      PROVE  \E r \in pending : q = [day |-> r.day - 1, home |-> Older(r.home)]
  BY <1>1, <1>b
<1>5. outage \in Nat /\ outage' \in 0 .. MaxOutage /\ i \in 0 .. AHEAD_DAYS
  BY <1>1 DEF TypeOK
<1>6. parts' \subseteq [day : Days, end : Days] /\ default' \subseteq Days /\ todo' \subseteq Days
  <2>1. parts' \subseteq [day : Days, end : Days]
    BY <1>2, <1>3, <1>a
  <2>2. default \subseteq Days /\ todo \subseteq Days
    BY DEF TypeOK
  <2> QED BY <1>1, <1>2, <2>1, <2>2
<1>7. pending' \subseteq [day : Days, home : Days]
  <2>1. ASSUME NEW r \in pending PROVE r.day - 1 \in Days
    BY <1>1, <1>4, LagAssumption DEF Days, Oldest
  <2> QED BY <1>2, <1>4, <1>b, <2>1
<1>8. from' \in Days
  BY <1>1, <1>5 DEF Days, Oldest, TypeOK
<1>9. TypeOK'
  BY <1>1, <1>5, <1>6, <1>7, <1>8 DEF TypeOK
<1>10. Ranges'
  <2>1. ASSUME NEW p \in parts PROVE Older(p.end) <= Older(p.day) + 2
    BY <1>3, OlderWidth DEF Ranges
  <2>2. \A q \in parts' : q.end <= q.day + 2
    BY <1>a, <2>1
  <2>3. phase' = "to" => from' \in {i', i' - 1}
    BY <1>1, <1>5
  <2> QED BY <2>2, <2>3 DEF Ranges
<1>11. Homes'
  <2>1. ASSUME NEW r \in pending
        PROVE  r.day - 1 <= Older(r.home) + 1 /\ r.day - 1 >= -MaxLag /\ r.day - 1 <= 0
    <3>1. r.day <= r.home + 1 /\ r.day <= 0 /\ r.day > -MaxLag
      BY <1>1 DEF Homes
    <3>2. Older(r.home) \in Int /\ Older(r.home) >= r.home - 1
      BY <1>4, OlderSteps
    <3> QED BY <1>4, <3>1, <3>2
  <2> QED BY <1>b, <2>1 DEF Homes
<1>12. OnlyExpired'
  <2>1. ASSUME NEW d \in todo PROVE Older(d) < -RETENTION_DAYS
    BY <1>2, OlderSteps DEF OnlyExpired, TypeOK
  <2> QED BY <1>1, <2>1 DEF OnlyExpired
<1>13. Safe'
  BY <1>1, <1>9, <1>10, <1>11, <1>12 DEF LoopStarts, NothingLost
<1>14. ASSUME ~strained'
       PROVE  (Ahead /\ Behind)'
  <2>1. Ahead /\ Behind /\ phase # "to" /\ outage < AHEAD_DAYS
    <3>1. ~strained /\ phase # "to" /\ ~(outage >= AHEAD_DAYS)
      BY <1>1, <1>14
    <3> QED BY <1>5, <3>1 DEF Steady
  <2>2. default' = {}
    BY <1>1, <2>1 DEF Ahead
  <2>3. ASSUME NEW p \in parts
        PROVE  /\ Older(p.end) <= Older(p.day) + 1
               /\ Older(p.day) >= -1 => Older(p.end) = Older(p.day) + 1
               /\ Older(p.day) >= -(RETENTION_DAYS + outage')
    <3>1. /\ p.end <= p.day + 1
          /\ p.day >= -1 => p.end = p.day + 1
          /\ p.day >= -(RETENTION_DAYS + outage)
      BY <2>1 DEF Ahead, Behind
    <3>2. Older(p.end) <= Older(p.day) + 1
      BY <1>3, <3>1, OlderWidth
    <3>3. Older(p.day) >= -1 => Older(p.end) = Older(p.day) + 1
      BY <1>3, <3>1, OlderSteps
    <3>4. Older(p.day) \in Int /\ Older(p.day) >= p.day - 1
      BY <1>3, OlderSteps
    <3>5. Older(p.day) >= -(RETENTION_DAYS + outage')
      BY <1>1, <1>3, <1>5, <3>1, <3>4
    <3> QED BY <3>2, <3>3, <3>5
  <2>4. ASSUME NEW d \in 0 .. AHEAD_DAYS - outage'
        PROVE  \E p \in parts' : p.day = d /\ p.end = d + 1
    <3>1. d + 1 \in 0 .. AHEAD_DAYS - outage
      BY <1>1, <1>5
    <3>2. PICK p \in parts : p.day = d + 1 /\ p.end = d + 2
      BY <2>1, <3>1 DEF Ahead, Made
    <3>3. Older(p.day) = d /\ Older(p.end) = d + 1
      BY <1>3, <3>2, OlderSteps
    <3>4. [day |-> Older(p.day), end |-> Older(p.end)] \in parts'
      BY <1>1
    <3> QED BY <3>3, <3>4
  <2>5. Made(AHEAD_DAYS - outage)'
    BY <2>4 DEF Made
  <2>6. Ahead'
    <3>1. \A q \in parts' : q.end <= q.day + 1 /\ (q.day >= -1 => q.end = q.day + 1)
      BY <1>a, <2>3
    <3> QED BY <1>1, <1>5, <2>1, <2>2, <2>5, <3>1 DEF Ahead
  <2>7. Behind'
    <3>1. \A q \in parts' : q.day >= -(RETENTION_DAYS + outage')
      BY <1>a, <2>3
    <3> QED BY <1>1, <3>1 DEF Behind
  <2> QED BY <2>6, <2>7
<1>15. Steady'
  BY <1>14 DEF Steady
<1> QED BY <1>13, <1>15

LEMMA RetentionStep == RetentionInv /\ [Next]_vars => RetentionInv'
<1>1. RetentionInv /\ UNCHANGED vars => RetentionInv'
  BY DEF vars, RetentionInv, Safe, TypeOK, Ranges, Homes, OnlyExpired, LoopStarts, NothingLost,
     Steady, Ahead, Behind, Made
<1> QED BY <1>1, InsertStep, ConsumeStep, TickStep, TakeFromStep, CreateStep, ScanStep, DropStep,
           TickEndsStep, TickFailsStep, MidnightStep DEF Next

--------------------------------------------------------------------------------
\* The cleanup loop (outbox-cleanup.service.ts) drops no row before its consumer had
\* it, for every retention the consumers keep within.
THEOREM NoRowLost == Spec => []NothingLost
<1>1. RetentionInv => NothingLost
  BY DEF RetentionInv, Safe
<1> QED BY <1>1, RetentionInit, RetentionStep, PTL DEF Spec

\* No insert lands in the DEFAULT partition, unless the loop was away for more days
\* than it creates ahead or midnight fell into the making of a partition.
THEOREM AlwaysHome == Spec => []InsertsHaveHome
<1>1. RetentionInv => InsertsHaveHome
  BY DEF RetentionInv, Steady, Ahead, InsertsHaveHome
<1> QED BY <1>1, RetentionInit, RetentionStep, PTL DEF Spec

\* No partition outlives the retention by more than the loop may be away.
THEOREM TableStaysBounded == Spec => []TableBounded
<1>1. RetentionInv => TableBounded
  <2> SUFFICES ASSUME RetentionInv, ~strained, NEW p \in parts
               PROVE  p.day >= -(RETENTION_DAYS + MaxOutage)
    BY DEF TableBounded
  <2>1. p.day \in Int /\ outage \in 0 .. MaxOutage
    BY DEF RetentionInv, Safe, TypeOK, Days, Oldest
  <2> QED BY <2>1, RetentionAssumption DEF RetentionInv, Steady, Behind
<1> QED BY <1>1, RetentionInit, RetentionStep, PTL DEF Spec

\* Every state of the retention loop is well typed.
THEOREM RetentionTypes == Spec => []TypeOK
<1>1. RetentionInv => TypeOK
  BY DEF RetentionInv, Safe
<1> QED BY <1>1, RetentionInit, RetentionStep, PTL DEF Spec

================================================================================
