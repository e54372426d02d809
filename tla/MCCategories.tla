----------------------------- MODULE MCCategories -----------------------------
(* Instances of Categories for TLC.                                         *)
EXTENDS Categories

CONSTANTS n1, n2, n3, a1, a2, d1, d2
=============================================================================
