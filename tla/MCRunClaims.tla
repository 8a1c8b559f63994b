----------------------------- MODULE MCRunClaims -----------------------------
(* Instances of RunClaims for TLC.                                         *)
EXTENDS RunClaims

NoFaults == [k \in FaultKinds |-> 0]
=============================================================================
