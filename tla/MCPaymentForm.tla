----------------------------- MODULE MCPaymentForm -----------------------------
(* PaymentForm for TLC, with numbers of SafeBits bits: the largest safe number  *)
(* is 1023, and so the largest amount 10.23.                                    *)
EXTENDS PaymentForm

Text(whole, frac) == [whole |-> whole, frac |-> frac]

MCDefault == Text(<<5>>, <<>>)

\* The default, one with a single decimal, one cent more than the largest, and none.
MCAmounts == {MCDefault, Text(<<5>>, <<2>>), Text(<<1, 0>>, <<2, 4>>), Malformed}

\* What convUnitsToAmount prints, convAmountToUnits reads back, for every number of
\* cents (packages/shared/src/index.ts:28-57).
ASSUME RoundTrip ==
  \A n \in 0 .. MaxSafe : convAmountToUnits(convUnitsToAmount(n)) = n

\* Every text is converted exactly or not at all, also where doubles round.
ASSUME ExactOrRefused ==
  \A d \in 0 .. 60, c \in {<<>>} \cup {<<a>> : a \in 0 .. 9} \cup {<<a, b>> : a, b \in 0 .. 9} :
     convAmountToUnits(Text(Digits(d), c)) \in {Error, Exact(Text(Digits(d), c))}

\* The dashboard displays an amount to the cent below DisplaySafe, and not above it.
ASSUME DisplayedExactly ==
  /\ \A n \in 0 .. DisplaySafe - 1 : formatMoney(n) = n
  /\ \E n \in DisplaySafe .. MaxSafe : formatMoney(n) # n

================================================================================
