------------------------------ MODULE MCLimiters ------------------------------
(* Instances of Limiters for TLC.                                           *)
EXTENDS Limiters, TLC

\* Requests with one key differ in nothing.
Symmetry == Permutations(Requests)
=============================================================================
