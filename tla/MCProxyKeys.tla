---------------------------- MODULE MCProxyKeys ----------------------------
(* Instances of ProxyKeys for TLC.                                         *)
EXTENDS ProxyKeys, TLC

CONSTANTS k1, k2

Keys == Permutations(Key)
=============================================================================
