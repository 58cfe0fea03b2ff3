--------------------------- MODULE MCQuotaLedger ---------------------------
(* Instances of QuotaLedger for TLC.                                       *)
EXTENDS QuotaLedger, TLC

CONSTANTS s1, s2, u1, a1, a2, a3, none

\* the least of several ages is unique, so no choice tells ids apart
Ids == Permutations(Session) \cup Permutations(Account)
=============================================================================
