------------------------------- MODULE MCHtlc -------------------------------
(* A small instance of the hash time lock contracts.                        *)
EXTENDS Htlc, TLC

CONSTANTS a, b, t1, t2

\* Parties are interchangeable, and so are tokens.
HtlcSymmetry == Permutations(Parties) \cup Permutations(Tokens)
=============================================================================
