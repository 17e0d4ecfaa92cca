--------------------------- MODULE PaymentFormProofs ---------------------------
(* What the payment drawer reports is true, for every width of the numbers, all  *)
(* texts and keys, and any number of drawers closed with a request in flight.    *)
EXTENDS PaymentForm, WellFoundedInduction, TLAPS

--------------------------------------------------------------------------------
(* Doubles. Whatever is too large to be exact stays too large: so a result that *)
(* is not refused was never rounded on the way.                                  *)

LEMMA Division ==
  ASSUME NEW n \in Nat, NEW u \in Nat \ {0}
  PROVE  /\ n \div u \in Nat /\ n % u \in Nat
         /\ n = (u * (n \div u)) + (n % u)
         /\ n % u < u
OBVIOUS

\* A product of naturals is no smaller than a factor whose partner is not zero.
LEMMA Multiple ==
  ASSUME NEW a \in Nat, NEW b \in Nat, NEW u \in Nat, a <= b
  PROVE  a * u \in Nat /\ b * u \in Nat /\ a * u <= b * u
OBVIOUS

\* Rounding to a multiple of u moves a number by less than u, and not across m * u.
LEMMA NearestBounds ==
  ASSUME NEW n \in Nat, NEW u \in Nat \ {0}, NEW m \in Nat, m * u <= n
  PROVE  /\ Nearest(n, u) \in Nat
         /\ Nearest(n, u) * u \in Nat
         /\ Nearest(n, u) * u <= n + u
         /\ Nearest(n, u) * u >= m * u
<1> DEFINE q == n \div u
<1>1. /\ q \in Nat /\ q * u <= n /\ n < (q + 1) * u
  <2>1. q \in Nat /\ n % u \in Nat /\ n = (u * q) + (n % u) /\ n % u < u
    BY Division
  <2>2. u * q = q * u /\ (q + 1) * u = q * u + u /\ q * u \in Nat
    BY <2>1
  <2> QED BY <2>1, <2>2
<1>2. m <= q
  <2> SUFFICES ASSUME ~(m <= q) PROVE FALSE
    OBVIOUS
  <2>1. q + 1 <= m
    BY <1>1
  <2>2. (q + 1) * u <= m * u /\ (q + 1) * u \in Nat /\ m * u \in Nat
    BY <1>1, <2>1, Multiple
  <2> QED BY <1>1, <2>2
<1>3. Nearest(n, u) \in {q, q + 1}
  BY DEF Nearest
<1>4. q * u \in Nat /\ (q + 1) * u = q * u + u /\ m * u <= q * u /\ m * u \in Nat
  BY <1>1, <1>2, Multiple
<1> HIDE DEF q
<1>5. CASE Nearest(n, u) = q
  BY <1>1, <1>4, <1>5
<1>6. CASE Nearest(n, u) = q + 1
  BY <1>1, <1>4, <1>6
<1> QED BY <1>3, <1>5, <1>6

\* The powers that occur.
LEMMA Powers ==
  /\ 2 ^ SafeBits \in Nat \ {0} /\ 2 ^ (2 * SafeBits) \in Nat
  /\ \A k \in 1 .. SafeBits :
       /\ 2 ^ k \in Nat \ {0} /\ 2 ^ (SafeBits - k) \in Nat \ {0}
       /\ 2 ^ SafeBits = 2 ^ (SafeBits - k) * 2 ^ k
<1>1. ASSUME NEW k \in 1 .. SafeBits
      PROVE  /\ 2 ^ k \in Nat \ {0} /\ 2 ^ (SafeBits - k) \in Nat \ {0}
             /\ 2 ^ SafeBits = 2 ^ (SafeBits - k) * 2 ^ k
  <2> DEFINE j == SafeBits - k
  <2>1. /\ j \in 0 .. 2 * SafeBits + 1 /\ k \in 0 .. 2 * SafeBits + 1
        /\ j + k = SafeBits /\ j + k <= 2 * SafeBits + 1
    BY PowersOfTwo
  <2> HIDE DEF j
  <2>2. 2 ^ j \in Nat \ {0} /\ 2 ^ k \in Nat \ {0} /\ 2 ^ (j + k) = 2 ^ j * 2 ^ k
    BY <2>1, PowersOfTwo
  <2> QED BY <2>1, <2>2 DEF j
<1> QED BY <1>1, PowersOfTwo

\* The least element that Min picks.
LEMMA LeastOf ==
  ASSUME NEW T \in SUBSET Nat, T # {}
  PROVE  \E x \in T : \A y \in T : x <= y
<1>1. \E x \in T : \A y \in T : <<y, x>> \notin OpToRel(<, Nat)
  BY NatLessThanWellFounded, WFMin
<1>2. \A x, y \in T : <<y, x>> \notin OpToRel(<, Nat) => x <= y
  BY DEF OpToRel
<1> QED BY <1>1, <1>2

\* Where the spacing is known, a double is exact up to MaxSafe, above it beyond it
\* like the number, and never more than twice the number.
LEMMA DoubleBounds ==
  ASSUME NEW n \in Nat, n < 2 ^ (2 * SafeBits)
  PROVE  /\ Double(n) \in Nat
         /\ Double(n) <= 2 * n
         /\ n <= MaxSafe => Double(n) = n
         /\ n > MaxSafe => Double(n) > MaxSafe
<1>1. CASE n <= MaxSafe
  BY <1>1, Powers DEF Double, MaxSafe
<1>2. CASE ~(n <= MaxSafe)
  <2> DEFINE K == {k \in 1 .. SafeBits : n < 2 ^ (SafeBits + k)}
             e == Min(K)
  <2>1. SafeBits \in K
    BY PowersOfTwo
  <2>2. \E x \in K : \A y \in K : x <= y
    <3>1. K \in SUBSET Nat /\ K # {}
      BY <2>1
    <3> HIDE DEF K
    <3> QED BY <3>1, LeastOf
  <2>3. e \in K
    BY <2>2 DEF Min
  <2>4. e \in 1 .. SafeBits
    BY <2>3
  <2> DEFINE u == 2 ^ e
             m == 2 ^ (SafeBits - e)
  <2>5. u \in Nat \ {0} /\ m \in Nat \ {0} /\ 2 ^ SafeBits = m * u
    BY <2>4, Powers
  <2>6. n >= m * u
    BY <1>2, <2>5, Powers DEF MaxSafe
  <2>7. Double(n) = Nearest(n, u) * u
    BY <1>2 DEF Double
  <2> HIDE DEF K, e, u, m
  <2>8. Double(n) \in Nat /\ Double(n) <= n + u /\ Double(n) >= m * u
    BY <2>5, <2>6, <2>7, NearestBounds
  <2>9. u <= m * u
    BY <2>5, Multiple
  <2> QED BY <1>2, <2>5, <2>6, <2>8, <2>9, Powers DEF MaxSafe
<1> QED BY <1>1, <1>2

\* Up to two digits after the point.
LEMMA Decimals ==
  ASSUME NEW d \in Seq(0 .. 9), Len(d) <= 2
  PROVE  /\ Len(d) \in {0, 1, 2}
         /\ Len(d) # 0 => d[1] \in 0 .. 9
         /\ Len(d) = 2 => d[2] \in 0 .. 9
<1>1. Len(d) \in Nat /\ \A k \in 1 .. Len(d) : d[k] \in 0 .. 9
  OBVIOUS
<1>2. \A n \in Nat : n <= 2 =>
        n \in {0, 1, 2} /\ (n # 0 => 1 \in 1 .. n) /\ (n = 2 => 2 \in 1 .. n)
  OBVIOUS
<1> QED BY <1>1, <1>2, Zenon

\* convAmountToUnits is exact, and refuses just what is too long or too large,
\* although it rounds three times on the way (packages/shared/src/index.ts:28-45).
THEOREM ConversionExact ==
  ASSUME NEW text, text # Malformed, IsText(text)
  PROVE  /\ Exact(text) \in Nat
         /\ convAmountToUnits(text) =
              IF Chars(text) > MaxChars \/ Exact(text) > MaxSafe THEN Error ELSE Exact(text)
<1> DEFINE v == Value(text.whole)
           f == Cents(padCents(text.frac))
           a == Double(v)
           b == Double(a * 100)
           c == Double(b + f)
<1>1. v \in Nat
  BY DEF IsText
<1>2. f \in 0 .. 99 /\ Exact(text) = 100 * v + f
  <2> DEFINE d == text.frac
  <2>1. d \in Seq(0 .. 9) /\ Len(d) <= 2
    BY DEF IsText
  <2>2. /\ f = 10 * (IF 1 <= Len(d) THEN d[1] ELSE 0) + (IF 2 <= Len(d) THEN d[2] ELSE 0)
        /\ Exact(text) = 100 * v + CASE Len(d) = 0 -> 0
                                     [] Len(d) = 1 -> 10 * d[1]
                                     [] Len(d) = 2 -> 10 * d[1] + d[2]
    BY DEF Cents, padCents, Exact
  <2> HIDE DEF d, v, f
  <2>3. /\ Len(d) \in {0, 1, 2}
        /\ Len(d) # 0 => d[1] \in 0 .. 9
        /\ Len(d) = 2 => d[2] \in 0 .. 9
    BY <2>1, Decimals
  <2>4. CASE Len(d) = 0
    BY <1>1, <2>2, <2>4
  <2>5. CASE Len(d) = 1
    BY <1>1, <2>2, <2>3, <2>5
  <2>6. CASE Len(d) = 2
    BY <1>1, <2>2, <2>3, <2>6
  <2> QED BY <2>3, <2>4, <2>5, <2>6
<1>3. convAmountToUnits(text) = IF Chars(text) > MaxChars \/ c > MaxSafe THEN Error ELSE c
  BY DEF convAmountToUnits
<1>4. ASSUME ~(Chars(text) > MaxChars)
      PROVE  IF c > MaxSafe THEN Exact(text) > MaxSafe ELSE Exact(text) = c
  <2>1. 400 * v + 99 < 2 ^ (2 * SafeBits) /\ 2 ^ (2 * SafeBits) \in Nat /\ MaxSafe \in Nat
    <3>1. Chars(text) \in Nat
      <4> DEFINE w == text.whole
                 d == text.frac
      <4>1. w \in Seq(0 .. 9) /\ d \in Seq(0 .. 9)
        BY DEF IsText
      <4>2. Chars(text) = Len(w) + (IF d = <<>> THEN 0 ELSE 1 + Len(d))
        BY DEF Chars
      <4> HIDE DEF w, d
      <4> QED BY <4>1, <4>2
    <3>2. 2 ^ SafeBits \in Nat /\ 2 ^ SafeBits > 0
      BY Powers
    <3> QED BY <1>4, <3>1, <3>2, LengthAssumption, Powers DEF IsText, MaxSafe
  <2> HIDE DEF v, f
  <2>2. /\ a \in Nat /\ a <= 2 * v
        /\ IF v > MaxSafe THEN a > MaxSafe ELSE a = v
    BY <1>1, <2>1, DoubleBounds
  <2> HIDE DEF a
  <2>3. /\ b \in Nat /\ b <= 400 * v
        /\ IF 100 * v > MaxSafe THEN b > MaxSafe ELSE b = 100 * v
    BY <1>1, <2>1, <2>2, DoubleBounds
  <2> HIDE DEF b
  <2>4. IF b + f > MaxSafe THEN c > MaxSafe ELSE c = b + f
    BY <1>1, <1>2, <2>1, <2>3, DoubleBounds
  <2> QED BY <1>1, <1>2, <2>1, <2>3, <2>4
<1> HIDE DEF v, f, a, b, c
<1> QED BY <1>1, <1>2, <1>3, <1>4

--------------------------------------------------------------------------------
(* The display.                                                                 *)

\* The greatest element that Max picks.
LEMMA GreatestOf ==
  ASSUME NEW b \in Nat, NEW T \in SUBSET (0 .. b), T # {}
  PROVE  \E x \in T : \A y \in T : x >= y
<1> DEFINE D == {b - x : x \in T}
<1>1. D \in SUBSET Nat
  OBVIOUS
<1>2. D # {}
  <2>1. PICK x \in T : TRUE
    OBVIOUS
  <2>2. b - x \in D
    OBVIOUS
  <2> QED BY <2>2
<1>3. PICK e \in D : \A f \in D : e <= f
  <2> HIDE DEF D
  <2> QED BY <1>1, <1>2, LeastOf
<1> QED BY <1>3

\* A quotient is the number of times the divisor fits.
LEMMA Quotient ==
  ASSUME NEW u \in Nat \ {0}, NEW w \in Nat, NEW v \in Nat, w * u <= v, v < w * u + u
  PROVE  v \div u = w
<1> DEFINE q == v \div u
<1>1. q \in Nat /\ v % u \in Nat /\ v = (u * q) + (v % u) /\ v % u < u
  BY Division
<1> HIDE DEF q
<1>2. u * q = q * u /\ q * u \in Nat /\ w * u \in Nat
  BY <1>1
<1>3. (q + 1) * u = q * u + u /\ (w + 1) * u = w * u + u
  BY <1>1
<1>4. ~(q + 1 <= w)
  BY <1>1, <1>2, <1>3, Multiple
<1>5. ~(w + 1 <= q)
  BY <1>1, <1>2, <1>3, Multiple
<1> QED BY <1>1, <1>4, <1>5 DEF q

\* Rounding moves a number of hundredths by at most half a unit.
LEMMA NearestHundred ==
  ASSUME NEW n \in Nat
  PROVE  /\ Nearest(n, 100) \in Nat
         /\ 100 * Nearest(n, 100) <= n + 50
         /\ 100 * Nearest(n, 100) + 50 >= n
<1>1. /\ n \div 100 \in Nat /\ n % 100 \in Nat
      /\ n = (100 * (n \div 100)) + (n % 100) /\ n % 100 < 100
  BY Division
<1> QED BY <1>1 DEF Nearest

\* formatMoney prints an amount below DisplaySafe to the cent, although cents / 100 is
\* rounded to a double and then to two decimals (web lib/api.ts:143-148): below it a
\* cent is wider than two doubles are apart.
THEOREM DisplayExact ==
  ASSUME NEW n \in Nat, n < DisplaySafe
  PROVE  formatMoney(n) = n
<1>1. CASE n = 0
  BY <1>1 DEF formatMoney
<1>2. CASE n # 0
  <2> DEFINE K == {k \in 0 .. 2 * SafeBits : (n * 2 ^ k) \div 100 < 2 ^ SafeBits}
             s == Max(K)
             p == 2 ^ s
             m == Nearest(n * p, 100)
             y == n * p
  <2>1. 7 \in K
    <3> DEFINE h == 2 ^ (SafeBits - 7)
    <3>1. h \in Nat /\ 2 ^ SafeBits = h * 128 /\ n < 100 * h
      <4>1. 7 \in 1 .. SafeBits /\ 2 ^ 7 = 128
        BY PowersOfTwo
      <4>2. h \in Nat /\ 2 ^ SafeBits = h * 2 ^ 7
        BY <4>1, Powers
      <4>3. n < 100 * h
        BY DEF DisplaySafe
      <4> HIDE DEF h
      <4> QED BY <4>1, <4>2, <4>3
    <3>2. n * 128 \in Nat /\ n * 128 < 100 * (h * 128)
      BY <3>1
    <3>3. (n * 128) \div 100 < h * 128
      <4> DEFINE x == n * 128
      <4>1. /\ x \div 100 \in Nat /\ x % 100 \in Nat
            /\ x = (100 * (x \div 100)) + (x % 100)
        BY <3>2, Division
      <4> QED BY <3>1, <3>2, <4>1
    <3>4. 7 \in 0 .. 2 * SafeBits /\ 2 ^ 7 = 128
      BY PowersOfTwo
    <3>5. (n * 2 ^ 7) \div 100 < 2 ^ SafeBits
      <4> HIDE DEF h
      <4> QED BY <3>1, <3>3, <3>4
    <3> QED BY <3>4, <3>5
  <2>2. s \in K /\ \A k \in K : s >= k
    <3>1. 2 * SafeBits \in Nat /\ K \in SUBSET (0 .. 2 * SafeBits)
      BY PowersOfTwo
    <3> HIDE DEF K
    <3>2. \E x \in K : \A z \in K : x >= z
      BY <2>1, <3>1, GreatestOf
    <3> QED BY <3>2 DEF Max
  <2>3. s \in 7 .. 2 * SafeBits
    <3>1. s >= 7
      BY <2>1, <2>2
    <3> QED BY <2>2, <3>1, PowersOfTwo
  <2>4. formatMoney(n) = (200 * m + p) \div 2 ^ (s + 1)
    BY <1>2 DEF formatMoney
  <2> HIDE DEF K, s
  <2>5. p \in Nat /\ p >= 128 /\ 2 ^ (s + 1) = 2 * p
    <3> DEFINE t == s - 7
    <3>1. /\ t \in 0 .. 2 * SafeBits + 1 /\ 7 \in 0 .. 2 * SafeBits + 1 /\ t + 7 = s
          /\ s \in 0 .. 2 * SafeBits + 1 /\ 1 \in 0 .. 2 * SafeBits + 1
          /\ t + 7 <= 2 * SafeBits + 1 /\ s + 1 <= 2 * SafeBits + 1
      BY <2>3, PowersOfTwo
    <3> HIDE DEF t
    <3>2. 2 ^ t \in Nat \ {0} /\ 2 ^ s \in Nat \ {0} /\ 2 ^ (t + 7) = 2 ^ t * 2 ^ 7
      BY <3>1, PowersOfTwo
    <3>3. 2 ^ (s + 1) = 2 ^ s * 2 ^ 1
      BY <3>1, PowersOfTwo
    <3>4. 2 ^ s = 2 ^ t * 128
      BY <3>1, <3>2, PowersOfTwo
    <3>5. 2 ^ t * 128 >= 128
      BY <3>2
    <3> QED BY <3>2, <3>3, <3>4, <3>5, PowersOfTwo
  <2> HIDE DEF p
  <2>6. y \in Nat /\ n * (2 * p) = 2 * y
    BY <2>5
  <2>7. m \in Nat /\ 100 * m <= y + 50 /\ 100 * m + 50 >= y
    BY <2>6, NearestHundred
  <2> HIDE DEF y, m
  <2>8. /\ 2 * p \in Nat \ {0} /\ 200 * m + p \in Nat
        /\ n * (2 * p) <= 200 * m + p /\ 200 * m + p < n * (2 * p) + 2 * p
    BY <2>5, <2>6, <2>7
  <2>9. (200 * m + p) \div (2 * p) = n
    BY <2>8, Quotient
  <2> QED BY <2>4, <2>5, <2>9
<1> QED BY <1>1, <1>2

--------------------------------------------------------------------------------
(* The drawer.                                                                  *)

Requests ==
  [key : Keys \cup {NoKey}, amount : Amounts, made : BOOLEAN,
   answer : {None, "accepted", "failed"}]

Rows == [body : Amounts, units : Nat]

\* A request that was not handled created nothing.
Fresh(r) == r \in Requests /\ (r.answer = None => ~r.made)

\* A payment is stored with the exact value of its text.
PaymentsExact ==
  /\ payments \in [Keys -> Rows \cup {None}]
  /\ \A k \in Keys : payments[k] # None => payments[k].units = Exact(payments[k].body)

\* Payment k is the one that the amount was submitted for.
StoredAs(paid, k, a) == k \in Keys /\ paid[k] # None /\ paid[k].body = a

\* The drawer was told only of payments that exist; so what a request creates, it was
\* not told of before, and an accepted request is about the payment of its own text.
DrawerOK ==
  /\ createdIds \subseteq Keys
  /\ \A k \in createdIds : payments[k] # None
  /\ req # None =>
       /\ Fresh(req)
       /\ req.made => req.key \notin createdIds
       /\ req.answer = "accepted" => StoredAs(payments, req.key, req.amount)

Reports == [kind : {"new", "replay"}, id : Keys, amount : Amounts, made : BOOLEAN]

\* The result tells of an accepted request.
Reported ==
  /\ result \in Reports
  /\ result.kind = "replay" => ~result.made
  /\ StoredAs(payments, result.id, result.amount)

ResultOK == result = None \/ result = [kind |-> "error"] \/ Reported

FormInv ==
  /\ key \in Keys \cup {NoKey} /\ amount \in Amounts
  /\ \A r \in orphans : Fresh(r)
  /\ PaymentsExact
  /\ DrawerOK
  /\ ResultOK

\* An amount that converts is a text, and converts to its exact value.
LEMMA UnitsExact ==
  ASSUME NEW a \in Amounts, Units[a] # Error
  PROVE  Units[a] \in Nat /\ Units[a] = Exact(a)
<1>1. Units[a] = convAmountToUnits(a)
  BY DEF Units
<1>2. a # Malformed
  BY <1>1 DEF convAmountToUnits
<1> QED BY <1>1, <1>2, TextsAssumption, ConversionExact

\* What create_payment does with a request that it sees for the first time.
LEMMA HandledFacts ==
  ASSUME PaymentsExact,
         NEW r, Fresh(r), r.answer = None,
         payments' = Stored(r, payments)
  PROVE  LET h == Handled(r, payments)
         IN /\ h \in Requests /\ h.answer \in {"accepted", "failed"}
            /\ h.key = r.key /\ h.amount = r.amount
            /\ PaymentsExact'
            /\ \A k \in Keys : payments[k] # None => payments'[k] = payments[k]
            /\ h.made => payments[r.key] = None
            /\ h.answer = "accepted" => StoredAs(payments', r.key, r.amount)
<1> DEFINE h == Handled(r, payments)
           row == [body |-> r.amount, units |-> Units[r.amount]]
<1>1. r \in Requests /\ ~r.made
  BY DEF Fresh
<1>2. CASE r.key = NoKey \/ Units[r.amount] = Error
  <2>1. h = [r EXCEPT !.answer = "failed"]
    BY <1>2 DEF Handled
  <2>2. /\ h \in Requests /\ h.answer = "failed" /\ ~h.made
        /\ h.key = r.key /\ h.amount = r.amount
    BY <1>1, <2>1 DEF Requests
  <2>3. payments' = payments
    BY <2>2 DEF Stored
  <2> QED BY <2>2, <2>3 DEF PaymentsExact
<1>3. CASE ~(r.key = NoKey \/ Units[r.amount] = Error)
  <2>1. h = [r EXCEPT !.made = payments[r.key] = None,
                      !.answer = IF payments[r.key] = None \/ SameBody(r, payments)
                                 THEN "accepted" ELSE "failed"]
    BY <1>3 DEF Handled
  <2>2. r.key \in Keys /\ r.amount \in Amounts
    BY <1>1, <1>3 DEF Requests
  <2>3. /\ h \in Requests /\ h.answer \in {"accepted", "failed"}
        /\ h.key = r.key /\ h.amount = r.amount
        /\ h.made <=> payments[r.key] = None
        /\ h.answer = "accepted" => payments[r.key] = None \/ payments[r.key].body = r.amount
    BY <1>1, <2>1 DEF Requests, SameBody
  <2>4. CASE payments[r.key] = None
    <3>1. payments' = [payments EXCEPT ![r.key] = row]
      BY <2>3, <2>4 DEF Stored
    <3>2. row \in Rows /\ row.body = r.amount /\ row.units = Exact(row.body) /\ row # None
      <4>1. Units[r.amount] \in Nat /\ Units[r.amount] = Exact(r.amount)
        BY <1>3, <2>2, UnitsExact
      <4>2. row \in Rows
        BY <2>2, <4>1 DEF Rows
      <4>3. row # None
        BY <4>2, NoneAssumption DEF Rows
      <4> QED BY <4>1, <4>2, <4>3
    <3> HIDE DEF row
    <3>3. PaymentsExact'
      BY <2>2, <3>1, <3>2 DEF PaymentsExact
    <3>4. payments'[r.key] = row /\ \A k \in Keys : k # r.key => payments'[k] = payments[k]
      BY <2>2, <3>1 DEF PaymentsExact
    <3> QED BY <2>2, <2>3, <2>4, <3>2, <3>3, <3>4 DEF StoredAs
  <2>5. CASE payments[r.key] # None
    <3>1. payments' = payments
      BY <2>3, <2>5 DEF Stored
    <3> QED BY <2>2, <2>3, <2>5, <3>1 DEF StoredAs, PaymentsExact
  <2> QED BY <2>4, <2>5
<1> QED BY <1>2, <1>3

\* Payments only grow: so what a request, the drawer or its note was about, stays.
LEMMA PaymentsKept ==
  ASSUME FormInv,
         \A k \in Keys : payments[k] # None => payments'[k] = payments[k],
         UNCHANGED <<result, createdIds>>
  PROVE  /\ ResultOK'
         /\ createdIds' \subseteq Keys /\ \A k \in createdIds' : payments'[k] # None
         /\ \A k, a : StoredAs(payments, k, a) => StoredAs(payments', k, a)
<1>1. \A k, a : StoredAs(payments, k, a) => StoredAs(payments', k, a)
  BY DEF StoredAs
<1>2. ResultOK'
  BY <1>1 DEF FormInv, ResultOK, Reported
<1>3. createdIds' \subseteq Keys /\ \A k \in createdIds' : payments'[k] # None
  BY DEF FormInv, DrawerOK
<1> QED BY <1>1, <1>2, <1>3

LEMMA FormInit == Init => FormInv
BY TextsAssumption DEF Init, FormInv, PaymentsExact, DrawerOK, ResultOK, Reported

LEMMA FormStep == FormInv /\ [Next]_vars => FormInv'
<1> SUFFICES ASSUME FormInv, [Next]_vars PROVE FormInv'
  OBVIOUS
<1>1. ASSUME Open PROVE FormInv'
  BY <1>1, TextsAssumption
     DEF Open, randomId, FormInv, PaymentsExact, DrawerOK, ResultOK, Reported, StoredAs
<1>2. ASSUME Close PROVE FormInv'
  <2>1. \A r \in orphans' : Fresh(r)
    BY <1>2 DEF Close, FormInv, DrawerOK
  <2> QED BY <1>2, <2>1, TextsAssumption
     DEF Close, FormInv, PaymentsExact, DrawerOK, ResultOK, Reported
<1>3. ASSUME NewKey PROVE FormInv'
  BY <1>3 DEF NewKey, randomId, FormInv, PaymentsExact, DrawerOK, ResultOK, Reported, StoredAs
<1>4. ASSUME handleSubmit PROVE FormInv'
  <2>1. Fresh(req') /\ ~req'.made /\ req'.answer = None
    BY <1>4 DEF handleSubmit, FormInv, Fresh, Requests
  <2> QED BY <1>4, <2>1, NoneAssumption
     DEF handleSubmit, FormInv, PaymentsExact, DrawerOK, ResultOK, Reported
<1>5. ASSUME NEW a \in Amounts, EditAmount(a) PROVE FormInv'
  BY <1>5 DEF EditAmount, FormInv, PaymentsExact, DrawerOK, ResultOK, Reported, StoredAs
<1>6. ASSUME NEW k \in Keys \cup {NoKey}, EditKey(k) PROVE FormInv'
  BY <1>6 DEF EditKey, FormInv, PaymentsExact, DrawerOK, ResultOK, Reported, StoredAs
<1>7. ASSUME Handle PROVE FormInv'
  <2>1. /\ req # None /\ req.answer = None /\ req' = Handled(req, payments)
        /\ payments' = Stored(req, payments)
        /\ UNCHANGED <<orphans, open, amount, key, used, submitting, result, createdIds>>
    BY <1>7 DEF Handle, form
  <2>2. PaymentsExact /\ Fresh(req)
    BY <2>1 DEF FormInv, DrawerOK
  <2>3. /\ req' \in Requests /\ req'.answer \in {"accepted", "failed"}
        /\ req'.key = req.key /\ req'.amount = req.amount
        /\ PaymentsExact'
        /\ \A k \in Keys : payments[k] # None => payments'[k] = payments[k]
        /\ req'.made => payments[req.key] = None
        /\ req'.answer = "accepted" => StoredAs(payments', req.key, req.amount)
    BY <2>1, <2>2, HandledFacts
  <2>4. /\ ResultOK'
        /\ createdIds' \subseteq Keys /\ \A k \in createdIds' : payments'[k] # None
    BY <2>1, <2>3, PaymentsKept
  <2>5. Fresh(req')
    BY <2>3, NoneAssumption DEF Fresh
  <2>6. req'.made => req'.key \notin createdIds'
    BY <2>1, <2>3 DEF FormInv, DrawerOK
  <2>7. DrawerOK'
    BY <2>3, <2>4, <2>5, <2>6 DEF DrawerOK
  <2> QED BY <2>1, <2>3, <2>4, <2>7 DEF FormInv
<1>8. ASSUME HandleOrphan PROVE FormInv'
  <2>1. PICK r \in orphans :
          /\ orphans' = orphans \ {r}
          /\ payments' = IF r.answer = None THEN Stored(r, payments) ELSE payments
    BY <1>8 DEF HandleOrphan
  <2>2. UNCHANGED <<req, open, amount, key, used, submitting, result, createdIds>>
    BY <1>8 DEF HandleOrphan, form
  <2>3. PaymentsExact' /\ \A k \in Keys : payments[k] # None => payments'[k] = payments[k]
    <3>1. CASE r.answer = None
      BY <2>1, <3>1, HandledFacts DEF FormInv
    <3>2. CASE r.answer # None
      BY <2>1, <3>2 DEF FormInv, PaymentsExact
    <3> QED BY <3>1, <3>2
  <2>4. /\ ResultOK'
        /\ createdIds' \subseteq Keys /\ \A k \in createdIds' : payments'[k] # None
        /\ \A k, a : StoredAs(payments, k, a) => StoredAs(payments', k, a)
    BY <2>2, <2>3, PaymentsKept
  <2>5. DrawerOK'
    BY <2>2, <2>4 DEF FormInv, DrawerOK
  <2> QED BY <2>1, <2>2, <2>3, <2>4, <2>5 DEF FormInv
<1>9. ASSUME Lose PROVE FormInv'
  <2>1. /\ req # None /\ Abandon
        /\ req' = [req EXCEPT !.answer = "failed"]
        /\ UNCHANGED <<open, amount, key, used, submitting, result, createdIds, payments>>
    BY <1>9 DEF Lose, form, api
  <2>2. Fresh(req) /\ \A r \in orphans' : Fresh(r)
    BY <2>1 DEF FormInv, DrawerOK, Abandon
  <2>3. /\ req' \in Requests /\ req'.answer = "failed"
        /\ req'.key = req.key /\ req'.made = req.made
    BY <2>1, <2>2 DEF Fresh, Requests
  <2>4. Fresh(req') /\ req'.answer # "accepted"
    BY <2>3, NoneAssumption DEF Fresh
  <2>5. DrawerOK'
    BY <2>1, <2>3, <2>4 DEF FormInv, DrawerOK
  <2> QED BY <2>1, <2>2, <2>5 DEF FormInv, PaymentsExact, ResultOK, Reported
<1>10. ASSUME LoseOrphan PROVE FormInv'
  BY <1>10 DEF LoseOrphan, form, api, FormInv, PaymentsExact, DrawerOK, ResultOK, Reported, StoredAs
<1>11. ASSUME Settle PROVE FormInv'
  <2>1. /\ req # None /\ req' = None
        /\ UNCHANGED <<open, amount, key, used, orphans, payments>>
    BY <1>11 DEF Settle, Finally
  <2>2. Fresh(req)
    BY <2>1 DEF FormInv, DrawerOK
  <2>3. CASE req.answer = "accepted"
    <3>1. /\ StoredAs(payments, req.key, req.amount)
          /\ req.made => req.key \notin createdIds
          /\ req.amount \in Amounts /\ req.made \in BOOLEAN
      BY <2>1, <2>2, <2>3 DEF FormInv, DrawerOK, Fresh, Requests
    <3>2. /\ createdIds' = createdIds \cup {req.key}
          /\ result' = [kind |-> IF req.key \in createdIds THEN "replay" ELSE "new",
                        id |-> req.key, amount |-> req.amount, made |-> req.made]
      BY <1>11, <2>3 DEF Settle, replayed
    <3>3. /\ result' \in Reports /\ result'.id = req.key /\ result'.amount = req.amount
          /\ result'.kind = "replay" => ~result'.made
      BY <3>1, <3>2 DEF Reports, StoredAs
    <3>4. ResultOK'
      BY <2>1, <3>1, <3>3 DEF ResultOK, Reported, StoredAs
    <3>5. DrawerOK'
      BY <2>1, <3>1, <3>2 DEF FormInv, DrawerOK, StoredAs
    <3> QED BY <2>1, <3>4, <3>5 DEF FormInv, PaymentsExact
  <2>4. CASE req.answer # "accepted"
    <3>1. result' = [kind |-> "error"] /\ createdIds' = createdIds
      BY <1>11, <2>4 DEF Settle
    <3> QED BY <2>1, <3>1 DEF FormInv, PaymentsExact, DrawerOK, ResultOK, Reported
  <2> QED BY <2>3, <2>4
<1>12. ASSUME UNCHANGED vars PROVE FormInv'
  BY <1>12 DEF vars, FormInv, PaymentsExact, DrawerOK, ResultOK, Reported, StoredAs
<1> QED BY <1>1, <1>2, <1>3, <1>4, <1>5, <1>6, <1>7, <1>8, <1>9, <1>10, <1>11, <1>12 DEF Next

\* The invariant holds throughout.
LEMMA FormHolds == Spec => []FormInv
BY FormInit, FormStep, PTL DEF Spec

\* The note that the result shows.
LEMMA NoteOf ==
  ASSUME FormInv
  PROVE  /\ Note = "Duplicate ignored" => Reported /\ result.kind = "replay"
         /\ Note \notin {None, "error"} => Reported
<1>1. CASE result = None
  BY <1>1, NoneAssumption DEF Note
<1>2. CASE result # None /\ result = [kind |-> "error"]
  BY <1>2 DEF Note
<1>3. CASE result # None /\ Reported
  BY <1>3 DEF Note, Reported, Reports
<1> QED BY <1>1, <1>2, <1>3 DEF FormInv, ResultOK, Reported

\* "Duplicate ignored" is the truth: the request created nothing, although the drawer
\* decides it from what it was told, and may be closed and opened at any moment.
THEOREM ReplayIsDuplicateHolds == Spec => []ReplayIsDuplicate
<1>1. FormInv => ReplayIsDuplicate
  BY NoteOf DEF ReplayIsDuplicate, Reported
<1> QED BY <1>1, FormHolds, PTL

\* What is reported as accepted is stored under that text, to the cent.
THEOREM ResultIsStoredHolds == Spec => []ResultIsStored
<1>1. FormInv => ResultIsStored
  BY NoteOf DEF ResultIsStored, Reported, FormInv, PaymentsExact, StoredAs
<1> QED BY <1>1, FormHolds, PTL

================================================================================
