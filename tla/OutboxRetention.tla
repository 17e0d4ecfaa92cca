---------------------------- MODULE OutboxRetention ----------------------------
(* The outbox is partitioned by day (drizzle/0012_tired_alex_wilder.sql).     *)
(* OutboxCleanupService (relay/outbox-cleanup.service.ts) creates the         *)
(* partitions of the days to come and drops those that are older than the    *)
(* retention, whatever rows are in them.                                      *)
(*                                                                            *)
(* A day is its distance from today, so it is midnight that changes it, and   *)
(* days before Oldest are one: the model needs no last day.                   *)
EXTENDS Integers, FiniteSets

CONSTANTS
  AHEAD_DAYS,      \* partitions are created up to this many days ahead
  RETENTION_DAYS,  \* config.relay.outboxRetentionDays
  MIGRATED_DAYS,   \* days the migration created, from yesterday on
  MaxLag,          \* a row is consumed before it is older than this many days
  MaxOutage        \* midnights between two ticks that run from start to end within a day

ASSUME RetentionAssumption ==
  /\ AHEAD_DAYS \in Nat
  /\ RETENTION_DAYS \in Nat \ {0}
  /\ MIGRATED_DAYS \in Nat
  /\ MaxLag \in Nat
  /\ MaxOutage \in Nat

\* The migration creates as many days ahead as the loop does (16 and 7 in the code).
ASSUME MigrationAssumption == AHEAD_DAYS + 2 <= MIGRATED_DAYS

\* Consumers are never as far behind as the retention: the code does not look.
ASSUME LagAssumption == MaxLag < RETENTION_DAYS

VARIABLES
  parts,    \* the day partitions: outbox_p<day> holds the days from day to end - 1
  pending,  \* rows in day partitions that no consumer has marked yet: day and partition
  default,  \* the days of which the DEFAULT partition holds a row, marked or not
  phase,    \* where tick() is
  i,        \* the loop variable of ensurePartitions
  from,     \* the first utcDay() of an iteration
  todo,     \* partitions dropExpired has found expired and not dropped yet
  sameDay,  \* no midnight since the tick began
  outage,   \* midnights since a tick ran from start to end within a day
  lost,     \* a row was dropped before its consumer had it (history)
  strained  \* the loop was away for longer than it creates ahead, or midnight
            \* fell between the two calls of utcDay() for one partition (history)

vars == <<parts, pending, default, phase, i, from, todo, sameDay, outage, lost, strained>>

Oldest == -(RETENTION_DAYS + MaxOutage + 2)

Older(d) == IF d > Oldest THEN d - 1 ELSE d

\* The service's timer is not set while a tick runs.
Phases == {"idle", "from", "to", "scan", "drop"}

Init ==
  /\ parts = {[day |-> d, end |-> d + 1] : d \in -1 .. MIGRATED_DAYS - 2}
  /\ pending = {}
  /\ default = {}
  /\ phase = "idle"
  /\ i = 0
  /\ from = 0
  /\ todo = {}
  /\ sameDay = TRUE
  /\ outage = 0
  /\ lost = FALSE
  /\ strained = FALSE

--------------------------------------------------------------------------------
(* Writers and consumers of the outbox.                                       *)

\* A transaction of the API or of a worker inserts a row with created_at = now().
Insert ==
  /\ IF \E p \in parts : p.day <= 0 /\ 0 < p.end
     THEN \E p \in parts :
            /\ p.day <= 0 /\ 0 < p.end
            /\ pending' = pending \cup {[day |-> 0, home |-> p.day]}
            /\ default' = default
     ELSE /\ default' = default \cup {0}
          /\ pending' = pending
  /\ UNCHANGED <<parts, phase, i, from, todo, sameDay, outage, lost, strained>>

\* The relay marks published_at, or the dispatcher webhook_dispatched_at, on
\* the last unmarked row of a day.
Consume ==
  /\ \E r \in pending : pending' = pending \ {r}
  /\ UNCHANGED <<parts, default, phase, i, from, todo, sameDay, outage, lost, strained>>

--------------------------------------------------------------------------------
(* The cleanup loop.                                                          *)

\* onModuleInit, or the timer of scheduleNext.
Tick ==
  /\ phase = "idle"
  /\ phase' = "from"
  /\ sameDay' = TRUE
  /\ UNCHANGED <<parts, pending, default, i, from, todo, outage, lost, strained>>

\* const from = this.utcDay(i)
TakeFrom ==
  /\ phase = "from"
  /\ from' = i
  /\ phase' = "to"
  /\ UNCHANGED <<parts, pending, default, i, todo, sameDay, outage, lost, strained>>

\* Postgres refuses a range that overlaps another partition or that rows of the
\* DEFAULT partition fall into.
Refused(a, b) ==
  \/ \E p \in parts : p.day < b /\ a < p.end
  \/ \E d \in default : a <= d /\ d < b

CreatesAnyway == FALSE

\* IF NOT EXISTS goes by the partition's name.
Exists == \E p \in parts : p.day = from

LastShort == AHEAD_DAYS - 1

\* for (let i = 0; i <= AHEAD_DAYS; i++)
Last == AHEAD_DAYS

\* const to = this.utcDay(i + 1), and CREATE TABLE IF NOT EXISTS; an error is
\* swallowed by tick(), which skips dropExpired.
Create ==
  /\ phase = "to"
  /\ LET fails == ~Exists /\ Refused(from, i + 1)
     IN /\ parts' = IF Exists \/ fails THEN parts
                    ELSE parts \cup {[day |-> from, end |-> i + 1]}
        /\ phase' = IF fails THEN "idle" ELSE IF i = Last THEN "scan" ELSE "from"
        /\ i' = IF fails \/ i = Last THEN 0 ELSE i + 1
        /\ outage' = IF fails /\ sameDay THEN 0 ELSE outage
  /\ from' = 0
  /\ UNCHANGED <<pending, default, todo, sameDay, lost, strained>>

ExpiredEarly == {d \in {p.day : p \in parts} : d <= -RETENTION_DAYS}

\* The days of the partitions older than utcDay(-RETENTION_DAYS); the DEFAULT one has
\* no day in its name.
Expired == {d \in {p.day : p \in parts} : d < -RETENTION_DAYS}

\* dropExpired lists the partitions.
Scan ==
  /\ phase = "scan"
  /\ todo' = Expired
  /\ phase' = "drop"
  /\ UNCHANGED <<parts, pending, default, i, from, sameDay, outage, lost, strained>>

\* DROP TABLE: every row of the partition goes with it.
Drop ==
  /\ phase = "drop"
  /\ \E d \in todo :
       /\ todo' = todo \ {d}
       /\ parts' = {p \in parts : p.day # d}
       /\ pending' = {r \in pending : r.home # d}
       /\ lost' = (lost \/ \E r \in pending : r.home = d)
  /\ UNCHANGED <<default, phase, i, from, sameDay, outage, strained>>

\* The tick has run to its end and sets the timer again.
TickEnds ==
  /\ phase = "drop" /\ todo = {}
  /\ phase' = "idle"
  /\ outage' = IF sameDay THEN 0 ELSE outage
  /\ UNCHANGED <<parts, pending, default, i, from, todo, sameDay, lost, strained>>

\* The database fails a statement, or the relay dies and is restarted.
TickFails ==
  /\ phase # "idle"
  /\ phase' = "idle"
  /\ i' = 0
  /\ from' = 0
  /\ todo' = {}
  /\ UNCHANGED <<parts, pending, default, sameDay, outage, lost, strained>>

--------------------------------------------------------------------------------
(* Time. The guards are the assumptions: how long the consumers and the       *)
(* cleanup loop may be away.                                                  *)

Midnight ==
  /\ phase = "to" => from = i   \* the two calls of utcDay() are not days apart
  /\ outage < MaxOutage
  /\ \A r \in pending : r.day > -MaxLag
  /\ outage' = outage + 1
  /\ sameDay' = FALSE
  /\ strained' = (strained \/ phase = "to" \/ outage >= AHEAD_DAYS)
  /\ parts' = {[day |-> Older(p.day), end |-> Older(p.end)] : p \in parts}
  /\ pending' = {[day |-> r.day - 1, home |-> Older(r.home)] : r \in pending}
  /\ default' = {Older(d) : d \in default}
  /\ from' = IF phase = "to" THEN from - 1 ELSE from
  /\ todo' = {Older(d) : d \in todo}
  /\ UNCHANGED <<phase, i, lost>>

Next ==
  \/ Insert \/ Consume \/ Midnight
  \/ Tick \/ TakeFrom \/ Create \/ Scan \/ Drop \/ TickEnds \/ TickFails

Spec == Init /\ [][Next]_vars

--------------------------------------------------------------------------------
(* Properties.                                                                *)

Days == Oldest .. AHEAD_DAYS + MIGRATED_DAYS + 2

\* Every variable has its type; partition ranges are one day, or two if the
\* midnight came between from and to (ensurePartitions).
TypeOK ==
  /\ parts \subseteq [day : Days, end : Days]
  /\ pending \subseteq [day : Days, home : Days]
  /\ default \subseteq Days
  /\ phase \in Phases
  /\ i \in 0 .. AHEAD_DAYS
  /\ from \in Days
  /\ todo \subseteq Days
  /\ sameDay \in BOOLEAN
  /\ outage \in 0 .. MaxOutage
  /\ lost \in BOOLEAN
  /\ strained \in BOOLEAN

\* ADR-015, Safety: dropExpired never discards a row that its consumer has not
\* marked, though it looks at nothing but the partition's name.
NothingLost == ~lost

\* ADR-015: partitions are created ahead of time so inserts always have a home.
\* None lands in DEFAULT, where it would block the partition of its day, unless
\* the cleanup loop (tick) was away for more than AHEAD_DAYS or was cut by midnight.
InsertsHaveHome == default # {} => strained

\* Retention works: no partition outlives RETENTION_DAYS by more than the time the
\* cleanup loop may be away, though a failed CREATE skips dropExpired.
TableBounded ==
  strained \/ \A p \in parts : p.day >= -(RETENTION_DAYS + MaxOutage)

================================================================================
