------------------------------ MODULE MCPages ------------------------------
(* Requests of one kind are interchangeable.                               *)
EXTENDS Pages, TLC

PagesSymmetry == Permutations(Fetches) \cup Permutations(Withdrawals)
=============================================================================
