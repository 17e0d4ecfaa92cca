----------------------------- MODULE PageWalkProofs -----------------------------
(* A walk of any length, over any finite set of rows and with any page sizes,    *)
(* shows nothing twice and leaves out nothing that was there all along.          *)
EXTENDS PageWalk, FiniteSetTheorems, TLAPS

\* Nothing shown is below the cursor: where the cursor has not come yet.
Descends == walking => \A x \in shown : cursor # 0 /\ x >= cursor

\* What was there from the beginning, and is not below the cursor, was shown.
Covered == walking => \A x \in steady : cursor # 0 /\ x >= cursor => x \in shown

\* What counts as there all along still matches the query.
SteadyMatches == \A x \in steady : Matches(x)

WalkInv == TypeOK /\ Descends /\ Covered /\ SteadyMatches /\ NoneRepeated /\ NoneSkipped

--------------------------------------------------------------------------------
LEMMA RowsFinite ==
  ASSUME TypeOK
  PROVE  IsFiniteSet(rows) /\ IsFiniteSet(Selected) /\ rows \subseteq Nat \ {0}
<1>1. IsFiniteSet(rows)
  BY WalkAssumption, FS_Subset DEF TypeOK
<1>2. Selected \subseteq rows
  BY DEF Selected
<1> QED BY <1>1, <1>2, WalkAssumption, FS_Subset DEF TypeOK

\* A last page holds everything that was selected.
LEMMA LastPage ==
  ASSUME NEW S, IsFiniteSet(S), NEW limit \in Nat,
         NEW read \in Limit(limit + 1, S), Cardinality(read) # limit + 1
  PROVE  read = S
<1>1. read \subseteq S
  BY DEF Limit
<1>2. Cardinality(read) = Cardinality(S)
  BY DEF Limit
<1> QED BY <1>1, <1>2, FS_Subset

\* On a full page the last row shown is the cursor: all of data are at or above it,
\* and all that was selected at or above it is in data.
LEMMA FullPage ==
  ASSUME NEW S \in SUBSET Nat, IsFiniteSet(S), NEW limit \in Nat \ {0},
         NEW read \in Limit(limit + 1, S), Cardinality(read) = limit + 1,
         NEW data \in Limit(limit, read), NEW c \in nextCursor(read)
  PROVE  /\ c \in data
         /\ data \subseteq S
         /\ \A x \in data : x >= c
         /\ \A x \in S : x >= c => x \in data
<1>1. read \subseteq S /\ data \subseteq read /\ c \in read
  BY DEF Limit, nextCursor
<1>2. IsFiniteSet(read) /\ IsFiniteSet(data)
  BY <1>1, FS_Subset
<1>3. Cardinality(data) = limit
  BY DEF Limit
<1>4. Cardinality(read \ data) = 1
  <2>1. read \cap data = data
    BY <1>1
  <2>2. Cardinality(read \ data) = Cardinality(read) - Cardinality(read \cap data)
    BY <1>2, FS_Difference
  <2> QED BY <2>1, <2>2, <1>3
<1>5. PICK y : read \ data = {y}
  BY <1>2, <1>4, FS_Singleton, FS_Difference
<1>6. \A x \in data : x > y
  BY <1>5 DEF Limit
<1>7. c # y
  <2> SUFFICES ASSUME c = y PROVE FALSE
    OBVIOUS
  <2>1. \A j \in read : ~(j < c)
    BY <1>1, <1>5, <1>6
  <2>2. {j \in read : j < c} = {}
    BY <2>1
  <2> QED BY <2>2, FS_EmptySet DEF nextCursor
<1>8. c \in data
  BY <1>1, <1>5, <1>7
<1>9. \A x \in data : x >= c
  <2> SUFFICES ASSUME NEW x \in data, ~(x >= c) PROVE FALSE
    OBVIOUS
  <2>1. x < c /\ y < c /\ x # y
    BY <1>1, <1>5, <1>6, <1>8
  <2>2. x \in {j \in read : j < c} /\ y \in {j \in read : j < c}
    BY <1>1, <1>5, <2>1
  <2>3. IsFiniteSet({j \in read : j < c}) /\ Cardinality({j \in read : j < c}) = 1
    BY <1>2, FS_Subset DEF nextCursor
  <2>4. PICK z : {j \in read : j < c} = {z}
    BY <2>3, FS_Singleton
  <2> QED BY <2>1, <2>2, <2>4
<1>10. ASSUME NEW x \in S, x >= c
       PROVE  x \in data
  <2>1. x \in read
    BY <1>1, <1>10 DEF Limit
  <2>2. x # y
    BY <1>1, <1>5, <1>6, <1>8, <1>10
  <2> QED BY <2>1, <2>2, <1>5
<1> QED BY <1>1, <1>8, <1>9, <1>10

--------------------------------------------------------------------------------
LEMMA WalkInit == Init => WalkInv
BY WalkAssumption DEF Init, WalkInv, TypeOK, Descends, Covered, SteadyMatches, NoneRepeated,
   NoneSkipped

\* What a page does to the invariant.
LEMMA PageStep ==
  ASSUME WalkInv, NEW limit \in Limits, NextPage(limit)
  PROVE  WalkInv'
<1> USE DEF WalkInv
<1>1. IsFiniteSet(Selected) /\ Selected \subseteq rows /\ Selected \subseteq Nat
  BY RowsFinite DEF Selected
<1>2. /\ walking
      /\ UNCHANGED <<taken, rows, status, filter, steady>>
      /\ limit \in Nat \ {0}
  BY WalkAssumption DEF NextPage
<1>3. \A x \in Selected : x \notin shown
  BY <1>1, <1>2, RowsFinite DEF Selected, Descends, TypeOK
<1>4. \A x \in steady : x \in shown \/ x \in Selected
  BY <1>2, RowsFinite DEF Covered, SteadyMatches, Selected, TypeOK
<1>5. SteadyMatches'
  BY <1>2 DEF SteadyMatches, Matches
<1>6. PICK read \in Limit(limit + 1, Selected) :
        \/ /\ Cardinality(read) = limit + 1
           /\ \E data \in Limit(limit, read) : Receive(data)
           /\ cursor' \in nextCursor(read)
           /\ walking' = TRUE
        \/ /\ Cardinality(read) # limit + 1
           /\ Receive(read)
           /\ cursor' = cursor
           /\ walking' = FALSE
  BY DEF NextPage
<1>7. CASE Cardinality(read) = limit + 1
  <2>1. PICK data \in Limit(limit, read) : Receive(data)
    BY <1>6, <1>7
  <2>2. cursor' \in nextCursor(read) /\ walking' = TRUE
    BY <1>6, <1>7
  <2>3. /\ cursor' \in data
        /\ data \subseteq Selected
        /\ \A x \in data : x >= cursor'
        /\ \A x \in Selected : x >= cursor' => x \in data
    BY <1>1, <1>2, <1>7, <2>1, <2>2, FullPage
  <2>4. shown' = shown \cup data /\ again' = (again \/ data \cap shown # {})
    BY <2>1 DEF Receive
  <2>5. TypeOK'
    BY <1>1, <1>2, <2>2, <2>3, <2>4 DEF TypeOK
  <2>6. cursor' \in Nat \ {0} /\ (cursor # 0 => cursor' < cursor)
    BY <1>1, <2>3, RowsFinite DEF Selected, TypeOK
  <2>7. Descends'
    BY <1>1, <1>2, <2>3, <2>4, <2>6, RowsFinite DEF Descends, TypeOK
  <2>8. Covered'
    BY <1>2, <1>4, <2>3, <2>4 DEF Covered
  <2>9. NoneRepeated'
    BY <1>3, <2>3, <2>4 DEF NoneRepeated
  <2>10. NoneSkipped'
    BY <2>2 DEF NoneSkipped
  <2> QED BY <1>5, <2>5, <2>7, <2>8, <2>9, <2>10
<1>8. CASE Cardinality(read) # limit + 1
  <2>1. Receive(read) /\ cursor' = cursor /\ walking' = FALSE
    BY <1>6, <1>8
  <2>2. read = Selected
    BY <1>1, <1>2, <1>8, LastPage
  <2>3. shown' = shown \cup Selected /\ again' = (again \/ Selected \cap shown # {})
    BY <2>1, <2>2 DEF Receive
  <2>4. TypeOK'
    BY <1>1, <1>2, <2>1, <2>3 DEF TypeOK
  <2>5. NoneRepeated' /\ NoneSkipped'
    BY <1>2, <1>3, <1>4, <2>3 DEF NoneRepeated, NoneSkipped
  <2>6. Descends' /\ Covered'
    BY <2>1 DEF Descends, Covered
  <2> QED BY <1>5, <2>4, <2>5, <2>6
<1> QED BY <1>7, <1>8

LEMMA WalkStep ==
  ASSUME WalkInv, [Next]_vars
  PROVE  WalkInv'
<1> USE DEF WalkInv
<1>1. ASSUME NEW id \in Ids, TakeId(id) \/ Commit(id) \/ Abort(id)
      PROVE  WalkInv'
  BY <1>1 DEF TakeId, Commit, Abort, walk, TypeOK, Descends, Covered, SteadyMatches, Matches,
     NoneRepeated, NoneSkipped
<1>2. ASSUME NEW id \in Ids, NEW s \in Statuses, Move(id, s)
      PROVE  WalkInv'
  <2>1. TypeOK'
    BY <1>2 DEF Move, walk, TypeOK
  <2>2. SteadyMatches'
    BY <1>2 DEF Move, walk, TypeOK, SteadyMatches, Matches
  <2>3. steady' \subseteq steady
    BY <1>2 DEF Move
  <2> QED BY <1>2, <2>1, <2>2, <2>3 DEF Move, walk, Descends, Covered, NoneRepeated, NoneSkipped
<1>3. ASSUME NEW f \in Statuses \cup {NoFilter}, Start(f)
      PROVE  WalkInv'
  BY <1>3 DEF Start, TypeOK, Descends, Covered, SteadyMatches, Matches, NoneRepeated, NoneSkipped
<1>4. ASSUME NEW limit \in Limits, NextPage(limit)
      PROVE  WalkInv'
  BY <1>4, PageStep
<1>5. CASE UNCHANGED vars
  BY <1>5 DEF vars, TypeOK, Descends, Covered, SteadyMatches, Matches, NoneRepeated, NoneSkipped
<1> QED BY <1>1, <1>2, <1>3, <1>4, <1>5 DEF Next

\* The listing behind payments.controller.ts:64 and webhook-deliveries.controller.ts:12
\* never gives a walking client a row twice.
THEOREM PagesDisjoint == Spec => []NoneRepeated
<1>1. WalkInv => NoneRepeated
  BY DEF WalkInv
<1> QED BY <1>1, WalkInit, WalkStep, PTL DEF Spec

\* When the listing gives no further cursor, the client has seen every row that was
\* committed before it began and matched its query ever since.
THEOREM PagesComplete == Spec => []NoneSkipped
<1>1. WalkInv => NoneSkipped
  BY DEF WalkInv
<1> QED BY <1>1, WalkInit, WalkStep, PTL DEF Spec

\* Every state of a walk is well typed: a cursor is a row that was shown (list).
THEOREM WalkTypes == Spec => []TypeOK
<1>1. WalkInv => TypeOK
  BY DEF WalkInv
<1> QED BY <1>1, WalkInit, WalkStep, PTL DEF Spec

================================================================================
