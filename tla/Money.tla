--------------------------------- MODULE Money ---------------------------------
(* Amounts: text to cents and back (packages/shared/src/index.ts:28-57), and   *)
(* the dashboard's display (web lib/api.ts:143-148). Numbers are JavaScript's: *)
(* doubles with SafeBits significant bits (53), so arithmetic may round.       *)
(*                                                                            *)
(* A text is its digits before and after the point, or Malformed if it is not  *)
(* of the form D, D.d or D.dd.                                                 *)
EXTENDS Integers, Sequences, SequencesExt, FiniteSetsExt

CONSTANTS SafeBits, MaxChars, Malformed, Error

ASSUME LengthAssumption == MaxChars \in Nat

\* Arithmetic: how powers of two multiply. A number has at least the seven bits that
\* two decimals take.
ASSUME PowersOfTwo ==
  /\ SafeBits \in Nat /\ SafeBits >= 7
  /\ 2 ^ 1 = 2 /\ 2 ^ 7 = 128
  /\ \A k \in 0 .. 2 * SafeBits + 1 : 2 ^ k \in Nat \ {0}
  /\ \A j, k \in 0 .. 2 * SafeBits + 1 :
       j + k <= 2 * SafeBits + 1 => 2 ^ (j + k) = 2 ^ j * 2 ^ k

MaxSafe == 2 ^ SafeBits - 1

\* a / b rounded to an integer, a tie to the even one.
Nearest(a, b) ==
  LET q == a \div b
      r == 2 * (a % b)
  IN IF r > b \/ (r = b /\ q % 2 = 1) THEN q + 1 ELSE q

\* The double nearest to the integer n.
Double(n) ==
  IF n <= MaxSafe THEN n
  ELSE LET ulp == 2 ^ Min({k \in 1 .. SafeBits : n < 2 ^ (SafeBits + k)})
       IN Nearest(n, ulp) * ulp

\* The number a string of digits stands for; Number() makes a double of it.
Value(digits) == FoldLeft(LAMBDA n, d : 10 * n + d, 0, digits)

padCents(frac) == [k \in 1 .. 2 |-> IF k <= Len(frac) THEN frac[k] ELSE 0]

\* Number of two digits.
Cents(pad) == 10 * pad[1] + pad[2]

Chars(text) == Len(text.whole) + (IF text.frac = <<>> THEN 0 ELSE 1 + Len(text.frac))

convAmountToUnits(text) ==
  IF text = Malformed THEN Error
  ELSE LET res == Double(Double(Double(Value(text.whole)) * 100) + Cents(padCents(text.frac)))
       IN IF Chars(text) > MaxChars \/ res > MaxSafe THEN Error ELSE res

\* The decimal digits of a number.
Digits(n) ==
  LET len == Min({k \in 1 .. 1 + SafeBits \div 3 : n < 10 ^ k})
  IN [k \in 1 .. len |-> (n \div 10 ^ (len - k)) % 10]

\* Number.isInteger and Math.abs: cents here are natural numbers.
convUnitsToAmount(cents) ==
  [whole |-> Digits(cents \div 100),
   frac  |-> <<(cents % 100) \div 10, cents % 10>>]

\* formatMoney: cents / 100 as a double, m / 2^s, printed with two decimals; the
\* result is the number of cents printed.
formatMoney(cents) ==
  IF cents = 0 THEN 0
  ELSE LET s == Max({k \in 0 .. 2 * SafeBits : (cents * 2 ^ k) \div 100 < 2 ^ SafeBits})
           m == Nearest(cents * 2 ^ s, 100)
       IN (200 * m + 2 ^ s) \div 2 ^ (s + 1)

\* What the text means, without any machine: the reference.
Exact(text) ==
  LET f == text.frac
  IN 100 * Value(text.whole)
       + CASE Len(f) = 0 -> 0
           [] Len(f) = 1 -> 10 * f[1]
           [] Len(f) = 2 -> 10 * f[1] + f[2]

\* A well-formed text that is not too long stands for a number whose hundredfold is
\* below 2 ^ (2 * SafeBits), with room to spare (4 * 10^22 and 2^106 in the code):
\* there Double knows how far apart doubles are.
IsText(text) ==
  /\ text.whole \in Seq(0 .. 9) /\ Value(text.whole) \in Nat
  /\ text.frac \in Seq(0 .. 9) /\ Len(text.frac) <= 2
  /\ Chars(text) <= MaxChars => 400 * Value(text.whole) + 99 < 2 ^ (2 * SafeBits)

\* Amounts below this are displayed to the cent: there a cent is wider than the
\* distance of two doubles.
DisplaySafe == 100 * 2 ^ (SafeBits - 7)

================================================================================
