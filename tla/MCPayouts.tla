----------------------------- MODULE MCPayouts -----------------------------
(* Small instances of Payouts for TLC. *)
EXTENDS Payouts, TLC

\* Requests, transfers and admins are interchangeable.
Symmetric == Permutations(Rows) \cup Permutations(Transfers) \cup Permutations(Admins)
=============================================================================
