----------------------------- MODULE MCUserCap -----------------------------
(* Instances of UserCap for TLC.                                           *)
EXTENDS UserCap, TLC

CONSTANTS u1, u2, s1, s2

\* u1 has a cap of its own, u2 falls back to the default
Caps == u1 :> 2

Slots == Permutations(Slot)
=============================================================================
