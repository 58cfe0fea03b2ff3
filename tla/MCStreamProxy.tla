--------------------------- MODULE MCStreamProxy ---------------------------
(* Instances of StreamProxy for TLC.                                       *)
EXTENDS StreamProxy, TLC

CONSTANTS r1, r2

Requests == Permutations(Request)
=============================================================================
