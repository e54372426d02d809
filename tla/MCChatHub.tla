------------------------------ MODULE MCChatHub ------------------------------
(* Instances of ChatHub for TLC.                                           *)
EXTENDS ChatHub

CONSTANTS c1, c2, c3, u1, u2

\* c1 and c3 are two connections (two tabs) of one user.
MCUserOf == [c \in Conns |-> IF c = c2 THEN u2 ELSE u1]

\* Connections of one user are interchangeable; used for safety only.
TabSymmetry == {[c \in {c1, c3} |-> c], [c \in {c1, c3} |-> IF c = c1 THEN c3 ELSE c1]}
=============================================================================
