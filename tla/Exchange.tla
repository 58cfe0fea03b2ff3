------------------------------ MODULE Exchange ------------------------------
(***************************************************************************)
(* What the proxy promises of one proxied request, seen from the ledger:   *)
(* it is accepted, it may be answered, and it settles once.  The usage of  *)
(* an answer is charged at the very moment the exchange settles, at most   *)
(* once, and never for an exchange that ends in an error of the proxy.     *)
(***************************************************************************)
EXTENDS Naturals

CONSTANT Request

VARIABLES phase, charged

vars == <<phase, charged>>

TypeOK ==
    /\ phase \in [Request -> {"new", "pending", "answering", "settled"}]
    /\ charged \in [Request -> {0, 1}]

Init ==
    /\ phase = [r \in Request |-> "new"]
    /\ charged = [r \in Request |-> 0]

Accept(r) ==
    /\ phase[r] = "new"
    /\ phase' = [phase EXCEPT ![r] = "pending"]
    /\ UNCHANGED charged

Answer(r) ==
    /\ phase[r] = "pending"
    /\ phase' = [phase EXCEPT ![r] = "answering"]
    /\ UNCHANGED charged

\* The proxy answers by itself: telemetry, a transport error, a lost upload.
Refuse(r) ==
    /\ phase[r] \in {"new", "pending"}
    /\ phase' = [phase EXCEPT ![r] = "settled"]
    /\ UNCHANGED charged

Settle(r) ==
    /\ phase[r] = "answering"
    /\ phase' = [phase EXCEPT ![r] = "settled"]
    /\ \/ UNCHANGED charged
       \/ charged' = [charged EXCEPT ![r] = 1]

Next == \E r \in Request : Accept(r) \/ Answer(r) \/ Refuse(r) \/ Settle(r)

Spec == Init /\ [][Next]_vars
=============================================================================
