----------------------------- MODULE MCBankControl -----------------------------
(* BankControl for TLC: the constants are in the cfg file. *)
EXTENDS BankControl

================================================================================
