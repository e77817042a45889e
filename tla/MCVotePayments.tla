-------------------------- MODULE MCVotePayments --------------------------
(* Small instances of VotePayments for TLC. *)
EXTENDS VotePayments, TLC

\* Request slots are interchangeable. References are not: Idle names one of them.
Symmetric == Permutations(Reqs)
=============================================================================
