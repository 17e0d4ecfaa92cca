------------------------------- MODULE PageWalk -------------------------------
(* A client walks a keyset listing page by page, GET /v1/payments or          *)
(* GET /v1/webhook-deliveries, while rows are inserted and change status.     *)
(* A row's id is a ULID taken before its transaction (payments.service.ts:31): *)
(* rows may be committed in another order than that of their ids, and so      *)
(* appear behind the client's cursor.                                         *)
EXTENDS Integers, FiniteSets

CONSTANTS
  Ids,       \* ULIDs; 0 is the absent cursor
  Statuses,
  Inserted,  \* the status a row is inserted with
  Limits,    \* page sizes a client asks for (1 to 100)
  NoFilter   \* the query has no status

ASSUME WalkAssumption ==
  /\ Ids \subseteq Nat \ {0} /\ IsFiniteSet(Ids)
  /\ Limits \subseteq Nat \ {0}
  /\ Inserted \in Statuses
  /\ NoFilter \notin Statuses

VARIABLES
  taken,    \* ids of transactions that have not committed
  rows,     \* committed rows
  status,
  walking,  \* the client has a page to ask for
  filter,   \* the status the client asks for
  cursor,   \* of its next request
  shown,    \* ids it was shown
  again,    \* it was shown one twice (history)
  steady    \* rows that were there and matched ever since the walk began (history)

vars == <<taken, rows, status, walking, filter, cursor, shown, again, steady>>
walk == <<walking, filter, cursor, shown, again>>

Matches(id) == filter = NoFilter \/ status[id] = filter

Init ==
  /\ taken = {} /\ rows = {}
  /\ status = [id \in Ids |-> Inserted]
  /\ walking = FALSE /\ filter = NoFilter /\ cursor = 0
  /\ shown = {} /\ again = FALSE /\ steady = {}

-------------------------------------------------------------------------------
(* Writers.                                                                    *)

TakeId(id) ==
  /\ id \in Ids \ (taken \cup rows)
  /\ taken' = taken \cup {id}
  /\ UNCHANGED <<rows, status, steady, walk>>

Commit(id) ==
  /\ id \in taken
  /\ taken' = taken \ {id}
  /\ rows' = rows \cup {id}
  /\ UNCHANGED <<status, steady, walk>>

\* The transaction is rolled back; the id is never used again by the code, and by
\* another transaction in the model.
Abort(id) ==
  /\ id \in taken
  /\ taken' = taken \ {id}
  /\ UNCHANGED <<rows, status, steady, walk>>

\* A worker, a reaper or a webhook processor updates a row.
Move(id, s) ==
  /\ id \in rows /\ s # status[id]
  /\ status' = [status EXCEPT ![id] = s]
  /\ steady' = IF filter = NoFilter THEN steady ELSE steady \ {id}
  /\ UNCHANGED <<taken, rows, walk>>

-------------------------------------------------------------------------------
(* The listing.                                                                *)

UpToCursor == {id \in rows : Matches(id) /\ (cursor = 0 \/ id <= cursor)}

NoCursor == {id \in rows : Matches(id)}

\* WHERE status = ... AND id < cursor: both conditions only if they are given.
Selected == {id \in rows : Matches(id) /\ (cursor = 0 \/ id < cursor)}

\* ORDER BY id DESC LIMIT n, or the first n of a list: the set of the one subset of R
\* that it yields.
Limit(n, R) ==
  {T \in SUBSET R :
     /\ \A x \in T, y \in R \ T : x > y
     /\ Cardinality(T) = IF Cardinality(R) < n THEN Cardinality(R) ELSE n}

nextCursorLast(R) == {id \in R : \A j \in R : j >= id}

\* rows[rows.length - 2].id, as a set: of the rows read, all but one are above it.
nextCursor(R) == {id \in R : Cardinality({j \in R : j < id}) = 1}

\* A client begins a walk, with or without a status.
Start(f) ==
  /\ ~walking
  /\ walking' = TRUE
  /\ filter' = f
  /\ cursor' = 0
  /\ shown' = {}
  /\ again' = FALSE
  /\ steady' = {id \in rows : f = NoFilter \/ status[id] = f}
  /\ UNCHANGED <<taken, rows, status>>

\* What the client is given, and what it makes of it.
Receive(data) ==
  /\ shown' = shown \cup data
  /\ again' = (again \/ data \cap shown # {})

\* list(): one row more than asked for is read. If it is there, it is cut off and the
\* row before it is the next cursor; otherwise this is the last page.
NextPage(limit) ==
  /\ walking
  /\ \E read \in Limit(limit + 1, Selected) :
       \/ /\ Cardinality(read) = limit + 1
          /\ \E data \in Limit(limit, read) : Receive(data)
          /\ cursor' \in nextCursor(read)
          /\ walking' = TRUE
       \/ /\ Cardinality(read) # limit + 1
          /\ Receive(read)
          /\ cursor' = cursor
          /\ walking' = FALSE
  /\ UNCHANGED <<taken, rows, status, filter, steady>>

Next ==
  \/ \E id \in Ids : TakeId(id) \/ Commit(id) \/ Abort(id)
  \/ \E id \in Ids, s \in Statuses : Move(id, s)
  \/ \E f \in Statuses \cup {NoFilter} : Start(f)
  \/ \E limit \in Limits : NextPage(limit)

Spec == Init /\ [][Next]_vars

\* A client that has a cursor asks for the page it names.
FairSpec == Spec /\ WF_vars(\E limit \in Limits : NextPage(limit))

-------------------------------------------------------------------------------
(* Properties.                                                                 *)

\* Every variable has its type, and a cursor is an id that was shown (list).
TypeOK ==
  /\ taken \subseteq Ids /\ rows \subseteq Ids /\ taken \cap rows = {}
  /\ status \in [Ids -> Statuses]
  /\ walking \in BOOLEAN /\ again \in BOOLEAN
  /\ filter \in Statuses \cup {NoFilter}
  /\ cursor \in shown \cup {0}
  /\ shown \subseteq rows
  /\ steady \subseteq rows

\* A walk never shows a row twice, whatever is inserted, and whatever changes
\* status, between its pages (list, nextCursor).
NoneRepeated == ~again

\* A walk that has come to its end has shown every row that was committed before
\* it began and matched the query all along (list, nextCursor).
NoneSkipped == ~walking => steady \subseteq shown

\* A walk comes to its end, even while new rows keep arriving.
WalkEnds == walking ~> ~walking

===============================================================================
