----------------------------- MODULE MCSubmission -----------------------------
(* Submission for TLC: three requests race under one key, two of them with  *)
(* the same body, beside another customer's request under the same key and  *)
(* three that never reach the transaction.                                  *)
EXTENDS Submission

MCRequests ==
  {[id |-> 1, customer |-> "alice", key |-> "k", body |-> "ten"],
   [id |-> 2, customer |-> "alice", key |-> "k", body |-> "ten"],
   [id |-> 3, customer |-> "alice", key |-> "k", body |-> "twenty"],
   [id |-> 4, customer |-> "bob",   key |-> "k", body |-> "ten"],
   [id |-> 5, customer |-> "bob",   key |-> "",  body |-> "ten"],
   [id |-> 6, customer |-> "bob",   key |-> "l", body |-> "huge"],
   [id |-> 7, customer |-> "bob",   key |-> "l", body |-> "bad"]}

===============================================================================
