-------------------------- MODULE MCPaymentPipeline --------------------------
(* PaymentPipeline for TLC: the constants are in the cfg files. *)
EXTENDS PaymentPipeline, TLC

Symmetry == Permutations(Payments) \cup Permutations(Workers) \cup Permutations(Relays)

==============================================================================
