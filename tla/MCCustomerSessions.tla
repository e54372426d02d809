-------------------------- MODULE MCCustomerSessions --------------------------
(* Instances of CustomerSessions for TLC.                                  *)
EXTENDS CustomerSessions, TLC

CONSTANTS u1, u2, r1, r2, r3, p1, d1, d2

\* u1 calls twice, u2 once.
MCOwner == [r \in Requests |-> IF r = r3 THEN u2 ELSE u1]

\* u1 deletes, perhaps one room twice.
MCCaller == [d \in Deletes |-> u1]

\* u1's two calls of each kind differ in nothing.
Symmetry == {f @@ g : f \in Permutations({r1, r2}), g \in Permutations(Deletes)}
=============================================================================
