---------------------------- MODULE MCMessageStore ----------------------------
(* Instances of MessageStore for TLC.                                       *)
EXTENDS MessageStore

CONSTANTS c1, c2, w1, w2

\* The second and the third message have one stamp; then the clock is set back.
MCStamp == <<2, 3, 3, 1>>
=============================================================================
